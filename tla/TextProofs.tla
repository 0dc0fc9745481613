---------------------------- MODULE TextProofs -----------------------------
(***************************************************************************)
(* Lemmas about the text of the transport call, for every text a provider  *)
(* may write and every place it may be cut at: how it is laid out, what    *)
(* trimming it leaves, and what json.Unmarshal and structuralRepair make   *)
(* of it. RepairProofs puts them together.                                 *)
(***************************************************************************)
EXTENDS TransportText, FiniteSetTheorems, WellFoundedInduction, TLAPS

(* The items, and all symbols.                                             *)
Items == DOMAIN Source

Symbols == {"a", "n", "s", "close", "fence", "r1", "r2", "NL", "q", "\\", "u", "X", "H", "L",
            "U+X", "U+HL", "U+FFFD", "open", ":", ",", "content", "text", "other"}

-----------------------------------------------------------------------------
(* Induction over the numbers up to m, for a set of them. *)
LEMMA UpToInduction ==
    ASSUME NEW m \in Nat, NEW I, 0 \in I, \A n \in 1..m : n - 1 \in I => n \in I
    PROVE  \A n \in 0..m : n \in I
<1> DEFINE T == {n \in Nat : n <= m /\ n \notin I}
<1> SUFFICES ASSUME T # {} PROVE FALSE
  BY SMT
<1>1. T \in SUBSET Nat
  OBVIOUS
<1>2. PICK t \in T : \A y \in T : ~(<<y, t>> \in OpToRel(<, Nat))
  <2> HIDE DEF T
  <2> QED
    BY <1>1, NatLessThanWellFounded, WFMin
<1>3. t \in Nat /\ t # 0 /\ t \in 1..m /\ t - 1 \in Nat
  OBVIOUS
<1>4. <<t - 1, t>> \in Nat \X Nat /\ <<t - 1, t>>[1] = t - 1 /\ <<t - 1, t>>[2] = t /\ t - 1 < t
  BY <1>3
<1>5. <<t - 1, t>> \in OpToRel(<, Nat)
  BY <1>4 DEF OpToRel
<1>6. t - 1 \notin T
  <2> HIDE DEF T
  <2> QED
    BY <1>2, <1>5
<1>7. t - 1 \in I
  BY <1>3, <1>6
<1> QED
  BY <1>3, <1>7

-----------------------------------------------------------------------------
(* A sequence of sequences, the first k put together. *)
Flattened(ss) ==
    CHOOSE w : w = [i \in 1..Len(ss) |-> IF i = 1 THEN ss[i] ELSE w[i - 1] \o ss[i]]

(* FlattenSeq adds the sequences of a sequence one after the other. *)
LEMMA FlattenDefined ==
    ASSUME NEW S, NEW ss \in Seq(Seq(S)), Len(ss) # 0
    PROVE  /\ FlattenSeq(ss) = Flattened(ss)[Len(ss)]
           /\ Flattened(ss)[1] = ss[1]
           /\ \A i \in 2..Len(ss) : Flattened(ss)[i] = Flattened(ss)[i - 1] \o ss[i]
<1> DEFINE m == Len(ss)
           Upon(w, i) == IF i = 1 THEN ss[i] ELSE w[i - 1] \o ss[i]
           I == {j \in Nat : \E w : w = [i \in 1..j |-> Upon(w, i)]}
<1>1. m \in Nat /\ m >= 1
  OBVIOUS
<1>2. 0 \in I
  <2> DEFINE w == [i \in 1..0 |-> <<>>]
  <2>1. w = [i \in 1..0 |-> Upon(w, i)]
    OBVIOUS
  <2>2. \E v : v = [i \in 1..0 |-> Upon(v, i)]
    BY <2>1
  <2> QED
    BY <2>2
<1>3. ASSUME NEW t \in 1..m, t - 1 \in I PROVE t \in I
  <2>1. t \in Nat /\ t - 1 \in Nat
    BY <1>1
  <2>2. PICK w : w = [i \in 1..(t - 1) |-> Upon(w, i)]
    BY <1>3
  <2> DEFINE v == [i \in 1..t |-> Upon(w, i)]
  <2>3. \A i \in 1..t : Upon(v, i) = Upon(w, i)
    <3> SUFFICES ASSUME NEW i \in 1..t PROVE Upon(v, i) = Upon(w, i)
      OBVIOUS
    <3>1. CASE i = 1
      BY <3>1
    <3>2. CASE i # 1
      <4>1. i - 1 \in 1..(t - 1) /\ i - 1 \in 1..t
        BY <2>1, <3>2
      <4>2. v[i - 1] = Upon(w, i - 1)
        BY <4>1
      <4>3. w[i - 1] = [j \in 1..(t - 1) |-> Upon(w, j)][i - 1]
        BY <2>2
      <4>4. w[i - 1] = Upon(w, i - 1)
        BY <4>1, <4>3
      <4>5. v[i - 1] = w[i - 1]
        BY <4>2, <4>4
      <4> HIDE DEF v
      <4> QED
        BY <4>5
    <3> QED
      BY <3>1, <3>2
  <2>4. v = [i \in 1..t |-> Upon(v, i)]
    BY <2>3
  <2>5. \E u : u = [i \in 1..t |-> Upon(u, i)]
    BY <2>4
  <2> QED
    BY <2>1, <2>5
<1>4. m \in I
  <2> HIDE DEF I, m
  <2>1. \A n \in 0..m : n \in I
    BY <1>1, <1>2, <1>3, UpToInduction
  <2> QED
    BY <1>1, <2>1
<1>5. \E w : w = [i \in 1..m |-> Upon(w, i)]
  BY <1>4
<1> DEFINE flat == Flattened(ss)
<1>6. flat = [i \in 1..m |-> Upon(flat, i)]
  <2>1. flat = CHOOSE w : w = [i \in 1..m |-> Upon(w, i)]
    BY DEF Flattened
  <2> HIDE DEF flat
  <2> QED
    BY <1>5, <2>1
<1>7. FlattenSeq(ss) = flat[m]
  BY DEF FlattenSeq, Flattened
<1> HIDE DEF flat
<1>8. \A i \in 1..m : flat[i] = Upon(flat, i)
  BY <1>6
<1>9. flat[1] = ss[1]
  <2>1. 1 \in 1..m
    BY <1>1
  <2>2. flat[1] = Upon(flat, 1)
    BY <1>8, <2>1
  <2> QED
    BY <2>2
<1>10. ASSUME NEW i \in 2..m
       PROVE  flat[i] = flat[i - 1] \o ss[i]
  <2>1. i \in 1..m /\ i # 1
    BY <1>1
  <2>2. flat[i] = Upon(flat, i)
    BY <1>8, <2>1
  <2> QED
    BY <2>1, <2>2
<1> QED
  BY <1>7, <1>9, <1>10 DEF flat

(* Two sequences of sequences that begin in the same way. *)
LEMMA FlattenedAgree ==
    ASSUME NEW S, NEW ss \in Seq(Seq(S)), NEW tt \in Seq(Seq(S)), NEW m \in Nat,
           m <= Len(ss), m <= Len(tt), \A i \in 1..m : ss[i] = tt[i]
    PROVE  \A i \in 1..m : Flattened(ss)[i] = Flattened(tt)[i]
<1> DEFINE I == {i \in Nat : i = 0 \/ Flattened(ss)[i] = Flattened(tt)[i]}
<1>1. 0 \in I
  OBVIOUS
<1>2. ASSUME NEW n \in 1..m, n - 1 \in I PROVE n \in I
  <2>1. n \in Nat /\ ss[n] = tt[n] /\ Len(ss) # 0 /\ Len(tt) # 0
    OBVIOUS
  <2>2. CASE n = 1
    <3>1. Flattened(ss)[1] = ss[1] /\ Flattened(tt)[1] = tt[1]
      BY <2>1, FlattenDefined
    <3> QED
      BY <2>1, <2>2, <3>1
  <2>3. CASE n # 1
    <3>1. n \in 2..Len(ss) /\ n \in 2..Len(tt) /\ n - 1 # 0
      BY <2>3
    <3>2. Flattened(ss)[n] = Flattened(ss)[n - 1] \o ss[n]
      BY <2>1, <3>1, FlattenDefined
    <3>3. Flattened(tt)[n] = Flattened(tt)[n - 1] \o tt[n]
      BY <2>1, <3>1, FlattenDefined
    <3>4. Flattened(ss)[n - 1] = Flattened(tt)[n - 1]
      BY <1>2, <3>1
    <3> QED
      BY <2>1, <3>2, <3>3, <3>4
  <2> QED
    BY <2>2, <2>3
<1>3. \A n \in 0..m : n \in I
  <2> HIDE DEF I
  <2> QED
    BY <1>1, <1>2, UpToInduction
<1> QED
  BY <1>3

(* What is flattened of sequences over S is a sequence over S. *)
LEMMA FlattenedTyped ==
    ASSUME NEW S, NEW ss \in Seq(Seq(S)), Len(ss) # 0
    PROVE  \A i \in 1..Len(ss) : Flattened(ss)[i] \in Seq(S)
<1> DEFINE m == Len(ss)
           I == {i \in Nat : i = 0 \/ Flattened(ss)[i] \in Seq(S)}
<1>1. m \in Nat /\ 0 \in I
  OBVIOUS
<1>2. ASSUME NEW n \in 1..m, n - 1 \in I PROVE n \in I
  <2>1. n \in Nat /\ ss[n] \in Seq(S)
    OBVIOUS
  <2>2. CASE n = 1
    BY <2>1, <2>2, FlattenDefined
  <2>3. CASE n # 1
    <3>1. n \in 2..m /\ Flattened(ss)[n - 1] \in Seq(S)
      BY <1>2, <2>3
    <3>2. Flattened(ss)[n] = Flattened(ss)[n - 1] \o ss[n]
      BY <3>1, FlattenDefined
    <3> DEFINE before == Flattened(ss)[n - 1]
    <3> HIDE DEF before
    <3>3. before \in Seq(S) => before \o ss[n] \in Seq(S)
      BY <2>1
    <3> QED
      BY <2>1, <3>1, <3>2, <3>3 DEF before
  <2> QED
    BY <2>2, <2>3
<1>3. \A n \in 0..m : n \in I
  <2> HIDE DEF I, m
  <2> QED
    BY <1>1, <1>2, UpToInduction
<1> QED
  BY <1>3

(* The text of an item more. *)
Stepwise(f, S, body) ==
    /\ Flat(f, SubSeq(body, 1, 0)) = <<>>
    /\ \A k \in 0..Len(body) : Flat(f, SubSeq(body, 1, k)) \in Seq(S)
    /\ \A k \in 1..Len(body) :
          Flat(f, SubSeq(body, 1, k)) = Flat(f, SubSeq(body, 1, k - 1)) \o f[body[k]]

(* Flat(f, body) grows by f of one member for every member of body. *)
LEMMA FlatStep ==
    ASSUME NEW S, NEW X, NEW f, \A x \in X : f[x] \in Seq(S), NEW body \in Seq(X)
    PROVE  Stepwise(f, S, body)
<1> DEFINE of(k) == [i \in DOMAIN SubSeq(body, 1, k) |-> f[SubSeq(body, 1, k)[i]]]
<1>1. ASSUME NEW k \in 0..Len(body)
      PROVE  of(k) \in Seq(Seq(S)) /\ Len(of(k)) = k /\ \A i \in 1..k : of(k)[i] = f[body[i]]
  <2>1. k \in Nat /\ DOMAIN SubSeq(body, 1, k) = 1..k
        /\ \A i \in 1..k : SubSeq(body, 1, k)[i] = body[i] /\ body[i] \in X
    OBVIOUS
  <2>2. of(k) = [i \in 1..k |-> f[body[i]]]
    BY <2>1
  <2>3. \A i \in 1..k : f[body[i]] \in Seq(S)
    BY <2>1
  <2> HIDE DEF of
  <2>4. of(k) \in [1..k -> Seq(S)]
    BY <2>2, <2>3
  <2> QED
    BY <2>1, <2>2, <2>4
<1>2. \A k : Flat(f, SubSeq(body, 1, k)) = FlattenSeq(of(k))
  BY DEF Flat
<1> HIDE DEF of
<1>3. Flat(f, SubSeq(body, 1, 0)) = <<>>
  <2>1. of(0) \in Seq(Seq(S)) /\ Len(of(0)) = 0
    BY <1>1
  <2>2. FlattenSeq(of(0)) = of(0)
    BY <2>1 DEF FlattenSeq
  <2> QED
    BY <1>2, <2>1, <2>2
<1>4. ASSUME NEW k \in 1..Len(body)
      PROVE  Flat(f, SubSeq(body, 1, k)) = Flattened(of(k))[k]
  <2>1. of(k) \in Seq(Seq(S)) /\ Len(of(k)) = k /\ k # 0
    BY <1>1
  <2> QED
    BY <1>2, <2>1, FlattenDefined
<1>5. ASSUME NEW k \in 1..Len(body)
      PROVE  Flat(f, SubSeq(body, 1, k)) = Flat(f, SubSeq(body, 1, k - 1)) \o f[body[k]]
  <2>1. of(k) \in Seq(Seq(S)) /\ Len(of(k)) = k /\ k \in Nat /\ k # 0 /\ of(k)[k] = f[body[k]]
    BY <1>1
  <2>2. of(k)[k] \in Seq(S)
    BY <2>1
  <2>3. CASE k = 1
    <3>1. Flattened(of(k))[1] = of(k)[1]
      BY <2>1, FlattenDefined
    <3>2. <<>> \o f[body[k]] = f[body[k]]
      BY <2>1, <2>2
    <3>3. Flat(f, SubSeq(body, 1, k - 1)) = <<>>
      BY <1>3, <2>3
    <3>4. Flat(f, SubSeq(body, 1, k)) = Flattened(of(k))[k]
      BY <1>4
    <3> QED
      BY <2>1, <2>3, <3>1, <3>2, <3>3, <3>4
  <2>4. CASE k # 1
    <3>1. k - 1 \in 1..Len(body) /\ k \in 2..k /\ k - 1 \in Nat /\ k - 1 \in 1..(k - 1)
      BY <2>1, <2>4
    <3>2. of(k - 1) \in Seq(Seq(S)) /\ Len(of(k - 1)) = k - 1
          /\ \A i \in 1..(k - 1) : of(k - 1)[i] = f[body[i]] /\ of(k)[i] = f[body[i]]
      BY <1>1, <3>1
    <3>3. Flattened(of(k))[k - 1] = Flattened(of(k - 1))[k - 1]
      <4>1. \A i \in 1..(k - 1) : of(k)[i] = of(k - 1)[i]
        BY <3>2
      <4>2. k - 1 <= Len(of(k)) /\ k - 1 <= Len(of(k - 1))
        BY <2>1, <3>1, <3>2
      <4> DEFINE m == k - 1
                 ss == of(k)
                 tt == of(m)
      <4>3. /\ ss \in Seq(Seq(S)) /\ tt \in Seq(Seq(S)) /\ m \in Nat /\ m <= Len(ss)
            /\ m <= Len(tt) /\ \A i \in 1..m : ss[i] = tt[i]
        BY <2>1, <3>1, <3>2, <4>1, <4>2
      <4> HIDE DEF m, ss, tt
      <4>4. \A i \in 1..m : Flattened(ss)[i] = Flattened(tt)[i]
        BY <4>3, FlattenedAgree
      <4> QED
        BY <3>1, <4>4 DEF m, ss, tt
    <3>4. Flattened(of(k))[k] = Flattened(of(k))[k - 1] \o of(k)[k]
      BY <2>1, <3>1, FlattenDefined
    <3>5. Flat(f, SubSeq(body, 1, k - 1)) = Flattened(of(k - 1))[k - 1]
      BY <1>4, <3>1
    <3> QED
      BY <1>4, <2>1, <3>3, <3>4, <3>5
  <2> QED
    BY <2>3, <2>4
<1>6. ASSUME NEW k \in 0..Len(body)
      PROVE  Flat(f, SubSeq(body, 1, k)) \in Seq(S)
  <2>1. CASE k = 0
    <3>1. <<>> \in Seq(S)
      OBVIOUS
    <3> QED
      BY <1>3, <2>1, <3>1
  <2>2. CASE k # 0
    <3>1. k \in 1..Len(body) /\ k \in 1..k /\ of(k) \in Seq(Seq(S)) /\ Len(of(k)) = k
      BY <1>1, <2>2
    <3>2. Flattened(of(k))[k] \in Seq(S)
      BY <2>2, <3>1, FlattenedTyped
    <3> QED
      BY <1>4, <3>1, <3>2
  <2> QED
    BY <2>1, <2>2
<1> QED
  BY <1>3, <1>5, <1>6 DEF Stepwise

-----------------------------------------------------------------------------
(* A sequence of one. *)
LEMMA OneIsSeq == ASSUME NEW S, NEW a \in S PROVE <<a>> \in Seq(S) /\ Len(<<a>>) = 1
OBVIOUS

(* A sequence of two. *)
LEMMA TwoAreSeq ==
    ASSUME NEW S, NEW a \in S, NEW b \in S
    PROVE  <<a, b>> \in Seq(S) /\ Len(<<a, b>>) = 2
OBVIOUS

(* A sequence of three. *)
LEMMA ThreeAreSeq ==
    ASSUME NEW S, NEW a \in S, NEW b \in S, NEW c \in S
    PROVE  <<a, b, c>> \in Seq(S) /\ Len(<<a, b, c>>) = 3
OBVIOUS

(* A sequence of six. *)
LEMMA SixAreSeq ==
    ASSUME NEW S, NEW a \in S, NEW b \in S, NEW c \in S, NEW d \in S, NEW e \in S, NEW f \in S
    PROVE  <<a, b, c, d, e, f>> \in Seq(S) /\ Len(<<a, b, c, d, e, f>>) = 6
OBVIOUS

(* The items, their texts and meanings. *)
LEMMA ItemIsOne ==
    \A x \in Items :
        \/ x \in {"a", "n", "space", "brace", "fence", "rune"}
        \/ x \in {"rawNewline", "rawQuote", "newline", "quote", "backslash", "unicode", "pair"}
BY DEF Items, Source

(* Every item, as it is written and as what it means, read off TransportText. *)
LEMMA ItemTexts ==
    /\ Source["a"] = <<"a">> /\ Meaning["a"] = <<"a">>
    /\ Source["n"] = <<"n">> /\ Meaning["n"] = <<"n">>
    /\ Source["space"] = <<"s">> /\ Meaning["space"] = <<"s">>
    /\ Source["brace"] = <<"close">> /\ Meaning["brace"] = <<"close">>
    /\ Source["fence"] = <<"fence">> /\ Meaning["fence"] = <<"fence">>
    /\ Source["rune"] = <<"r1", "r2">> /\ Meaning["rune"] = <<"r1", "r2">>
    /\ Source["rawNewline"] = <<"NL">> /\ Meaning["rawNewline"] = <<"NL">>
    /\ Source["rawQuote"] = <<"q">> /\ Meaning["rawQuote"] = <<"q">>
    /\ Source["newline"] = <<"\\", "n">> /\ Meaning["newline"] = <<"NL">>
    /\ Source["quote"] = <<"\\", "q">> /\ Meaning["quote"] = <<"q">>
    /\ Source["backslash"] = <<"\\", "\\">> /\ Meaning["backslash"] = <<"\\">>
    /\ Source["unicode"] = <<"\\", "u", "X">> /\ Meaning["unicode"] = <<"U+X">>
    /\ Source["pair"] = <<"\\", "u", "H", "\\", "u", "L">> /\ Meaning["pair"] = <<"U+HL">>
BY DEF Source, Meaning

(* An item is written with one to six symbols. *)
LEMMA TextsTyped ==
    ASSUME NEW x \in Items
    PROVE  Source[x] \in Seq(Symbols) /\ Meaning[x] \in Seq(Symbols) /\ Len(Source[x]) \in 1..6
<1>1. CASE x = "a"
  <2>1. "a" \in Symbols
    BY DEF Symbols
  <2>2. <<"a">> \in Seq(Symbols) /\ Len(<<"a">>) \in 1..6
    BY <2>1, OneIsSeq
  <2> QED
    BY <1>1, <2>2, ItemTexts
<1>2. CASE x = "n"
  <2>1. "n" \in Symbols
    BY DEF Symbols
  <2>2. <<"n">> \in Seq(Symbols) /\ Len(<<"n">>) \in 1..6
    BY <2>1, OneIsSeq
  <2> QED
    BY <1>2, <2>2, ItemTexts
<1>3. CASE x = "space"
  <2>1. "s" \in Symbols
    BY DEF Symbols
  <2>2. <<"s">> \in Seq(Symbols) /\ Len(<<"s">>) \in 1..6
    BY <2>1, OneIsSeq
  <2> QED
    BY <1>3, <2>2, ItemTexts
<1>4. CASE x = "brace"
  <2>1. "close" \in Symbols
    BY DEF Symbols
  <2>2. <<"close">> \in Seq(Symbols) /\ Len(<<"close">>) \in 1..6
    BY <2>1, OneIsSeq
  <2> QED
    BY <1>4, <2>2, ItemTexts
<1>5. CASE x = "fence"
  <2>1. "fence" \in Symbols
    BY DEF Symbols
  <2>2. <<"fence">> \in Seq(Symbols) /\ Len(<<"fence">>) \in 1..6
    BY <2>1, OneIsSeq
  <2> QED
    BY <1>5, <2>2, ItemTexts
<1>6. CASE x = "rune"
  <2>1. "r1" \in Symbols /\ "r2" \in Symbols
    BY DEF Symbols
  <2>2. <<"r1", "r2">> \in Seq(Symbols) /\ Len(<<"r1", "r2">>) \in 1..6
    BY <2>1, TwoAreSeq
  <2> QED
    BY <1>6, <2>2, ItemTexts
<1>7. CASE x = "rawNewline"
  <2>1. "NL" \in Symbols
    BY DEF Symbols
  <2>2. <<"NL">> \in Seq(Symbols) /\ Len(<<"NL">>) \in 1..6
    BY <2>1, OneIsSeq
  <2> QED
    BY <1>7, <2>2, ItemTexts
<1>8. CASE x = "newline"
  <2>1. "NL" \in Symbols /\ "\\" \in Symbols /\ "n" \in Symbols
    BY DEF Symbols
  <2>2. <<"\\", "n">> \in Seq(Symbols) /\ Len(<<"\\", "n">>) \in 1..6
    BY <2>1, TwoAreSeq
  <2>3. <<"NL">> \in Seq(Symbols)
    BY <2>1, OneIsSeq
  <2> QED
    BY <1>8, <2>2, <2>3, ItemTexts
<1>9. CASE x = "quote"
  <2>1. "\\" \in Symbols /\ "q" \in Symbols
    BY DEF Symbols
  <2>2. <<"\\", "q">> \in Seq(Symbols) /\ Len(<<"\\", "q">>) \in 1..6
    BY <2>1, TwoAreSeq
  <2>3. <<"q">> \in Seq(Symbols)
    BY <2>1, OneIsSeq
  <2> QED
    BY <1>9, <2>2, <2>3, ItemTexts
<1>10. CASE x = "backslash"
  <2>1. "\\" \in Symbols
    BY DEF Symbols
  <2>2. <<"\\", "\\">> \in Seq(Symbols) /\ Len(<<"\\", "\\">>) \in 1..6
    BY <2>1, TwoAreSeq
  <2>3. <<"\\">> \in Seq(Symbols)
    BY <2>1, OneIsSeq
  <2> QED
    BY <1>10, <2>2, <2>3, ItemTexts
<1>11. CASE x = "unicode"
  <2>1. "U+X" \in Symbols /\ "X" \in Symbols /\ "\\" \in Symbols /\ "u" \in Symbols
    BY DEF Symbols
  <2>2. <<"\\", "u", "X">> \in Seq(Symbols) /\ Len(<<"\\", "u", "X">>) \in 1..6
    BY <2>1, ThreeAreSeq
  <2>3. <<"U+X">> \in Seq(Symbols)
    BY <2>1, OneIsSeq
  <2> QED
    BY <1>11, <2>2, <2>3, ItemTexts
<1>12. CASE x = "pair"
  <2>1. "H" \in Symbols /\ "L" \in Symbols /\ "U+HL" \in Symbols /\ "\\" \in Symbols /\ "u" \in Symbols
    BY DEF Symbols
  <2>2. <<"\\", "u", "H", "\\", "u", "L">> \in Seq(Symbols) /\ Len(<<"\\", "u", "H", "\\", "u", "L">>) \in 1..6
    BY <2>1, SixAreSeq
  <2>3. <<"U+HL">> \in Seq(Symbols)
    BY <2>1, OneIsSeq
  <2> QED
    BY <1>12, <2>2, <2>3, ItemTexts
<1>13. CASE x = "rawQuote"
  <2>1. "q" \in Symbols
    BY DEF Symbols
  <2>2. <<"q">> \in Seq(Symbols) /\ Len(<<"q">>) \in 1..6
    BY <2>1, OneIsSeq
  <2> QED
    BY <1>13, <2>2, ItemTexts
<1> QED
  BY ItemIsOne, <1>1, <1>2, <1>3, <1>4, <1>5, <1>6, <1>7, <1>8, <1>9, <1>10, <1>11, <1>12, <1>13

-----------------------------------------------------------------------------
(* The text of a body grows item by item. *)
LEMMA FlatSource ==
    ASSUME NEW body \in Seq(Items)
    PROVE  /\ Flat(Source, SubSeq(body, 1, 0)) = <<>>
           /\ \A k \in 0..Len(body) : Flat(Source, SubSeq(body, 1, k)) \in Seq(Symbols)
           /\ \A k \in 1..Len(body) : Flat(Source, SubSeq(body, 1, k))
                 = Flat(Source, SubSeq(body, 1, k - 1)) \o Source[body[k]]
<1>1. \A x \in Items : Source[x] \in Seq(Symbols)
  BY TextsTyped
<1>2. Stepwise(Source, Symbols, body)
  BY <1>1, FlatStep
<1> QED
  BY <1>2 DEF Stepwise

(* What a body means grows item by item. *)
LEMMA FlatMeaning ==
    ASSUME NEW body \in Seq(Items)
    PROVE  /\ Flat(Meaning, SubSeq(body, 1, 0)) = <<>>
           /\ \A k \in 0..Len(body) : Flat(Meaning, SubSeq(body, 1, k)) \in Seq(Symbols)
           /\ \A k \in 1..Len(body) : Flat(Meaning, SubSeq(body, 1, k))
                 = Flat(Meaning, SubSeq(body, 1, k - 1)) \o Meaning[body[k]]
<1>1. \A x \in Items : Meaning[x] \in Seq(Symbols)
  BY TextsTyped
<1>2. Stepwise(Meaning, Symbols, body)
  BY <1>1, FlatStep
<1> QED
  BY <1>2 DEF Stepwise

(* Every item's text is in the text of the whole, at its place. *)
LEMMA FlatPlaces ==
    ASSUME NEW body \in Seq(Items)
    PROVE  \A k \in 0..Len(body) :
             \A i \in 1..k : \A j \in 1..Len(Source[body[i]]) :
               /\ Len(Flat(Source, SubSeq(body, 1, i - 1))) + j
                     <= Len(Flat(Source, SubSeq(body, 1, k)))
               /\ Flat(Source, SubSeq(body, 1, k))[Len(Flat(Source, SubSeq(body, 1, i - 1))) + j]
                     = Source[body[i]][j]
<1> DEFINE fl(k) == Flat(Source, SubSeq(body, 1, k))
           tx(i) == Source[body[i]]
           P(k) == \A i \in 1..k : \A j \in 1..Len(tx(i)) :
                     Len(fl(i - 1)) + j <= Len(fl(k)) /\ fl(k)[Len(fl(i - 1)) + j] = tx(i)[j]
           I == {k \in 0..Len(body) : P(k)}
           m == Len(body)
<1>1. m \in Nat
  OBVIOUS
<1>2. \A i \in 1..m : tx(i) \in Seq(Symbols)
  BY TextsTyped
<1>3. /\ \A k \in 0..m : fl(k) \in Seq(Symbols)
      /\ \A k \in 1..m : fl(k) = fl(k - 1) \o tx(k)
  BY FlatSource
<1>4. P(0)
  OBVIOUS
<1> HIDE DEF fl, tx, m
<1>5. ASSUME NEW k \in 1..m, P(k - 1) PROVE P(k)
  <2>1. k \in Nat /\ k - 1 \in 0..m
    BY <1>1
  <2>2. fl(k - 1) \in Seq(Symbols) /\ tx(k) \in Seq(Symbols) /\ fl(k) = fl(k - 1) \o tx(k)
    BY <1>2, <1>3, <2>1
  <2> SUFFICES ASSUME NEW i \in 1..k, NEW j \in 1..Len(tx(i))
               PROVE  Len(fl(i - 1)) + j <= Len(fl(k)) /\ fl(k)[Len(fl(i - 1)) + j] = tx(i)[j]
    OBVIOUS
  <2>3. i - 1 \in 0..m /\ i \in 1..m /\ j \in Nat /\ j >= 1
    BY <1>1, <2>1
  <2>4. fl(i - 1) \in Seq(Symbols)
    BY <1>3, <2>3
  <2>5. CASE i = k
    BY <2>2, <2>3, <2>4, <2>5
  <2>6. CASE i # k
    <3>1. i \in 1..(k - 1)
      BY <2>1, <2>6
    <3>2. Len(fl(i - 1)) + j <= Len(fl(k - 1)) /\ fl(k - 1)[Len(fl(i - 1)) + j] = tx(i)[j]
      BY <1>5, <3>1
    <3> QED
      BY <2>2, <2>3, <2>4, <3>2
  <2> QED
    BY <2>5, <2>6
<1>6. \A k \in 0..m : k \in I
  <2> HIDE DEF P
  <2>1. 0 \in I
    BY <1>1, <1>4 DEF m
  <2>2. \A k \in 1..m : k - 1 \in I => k \in I
    BY <1>1, <1>5 DEF m
  <2> HIDE DEF I
  <2> QED
    BY <1>1, <2>1, <2>2, UpToInduction
<1> QED
  BY <1>6 DEF fl, tx, m

(* Two sequences of symbols, one after the other. *)
Joined(r, s, t) ==
    /\ r \in Seq(Symbols) /\ Len(r) = Len(s) + Len(t) /\ Len(s) \in Nat /\ Len(t) \in Nat
    /\ \A i \in 1..Len(s) : r[i] = s[i]
    /\ \A i \in 1..Len(t) : r[Len(s) + i] = t[i]

(* The symbols of two texts put together are those of the first, then those of the second. *)
LEMMA PutTogether ==
    ASSUME NEW s \in Seq(Symbols), NEW t \in Seq(Symbols), NEW r, r = s \o t
    PROVE  Joined(r, s, t)
BY DEF Joined

(* The symbols before the string, with the colon at c; and the closing ones. *)
Opens(o, key, c) ==
    /\ o \in Seq(Symbols) /\ Len(o) \in {c + 1, c + 2}
    /\ o[1] = "open" /\ o[2] = "q" /\ o[3] = key /\ o[4] = "q"
    /\ c = 6 => o[5] = "s"
    /\ o[c] = ":" /\ (Len(o) = c + 2 => o[c + 1] = "s") /\ o[Len(o)] = "q"

(* An opening is the brace, the key, the colon and the quote, with the gaps between them. *)
LEMMA OpeningIs ==
    ASSUME NEW key \in {"content", "text", "other"}, NEW gap \in [Places -> BOOLEAN],
           NEW o, o = Opening(key, gap),
           NEW c \in {5, 6}, c = 6 <=> gap["afterKey"]
    PROVE  Opens(o, key, c)
<1>1. gap["afterKey"] \in BOOLEAN /\ gap["afterColon"] \in BOOLEAN
  BY DEF Places
<1>2. "open" \in Symbols /\ "q" \in Symbols /\ "s" \in Symbols /\ ":" \in Symbols /\ key \in Symbols
  BY DEF Symbols
<1> DEFINE first == <<"open", "q", key, "q">>
           second == Space(gap, "afterKey")
           third == <<":">>
           fourth == Space(gap, "afterColon")
           fifth == <<"q">>
<1>3. o = first \o second \o third \o fourth \o fifth
  BY DEF Opening
<1>4. /\ first \in Seq(Symbols) /\ Len(first) = 4
      /\ first[1] = "open" /\ first[2] = "q" /\ first[3] = key /\ first[4] = "q"
  BY <1>2
<1>5. /\ second \in Seq(Symbols) /\ Len(second) = c - 5 /\ c \in {5, 6}
      /\ c = 6 => second[1] = "s"
  BY <1>1, <1>2 DEF Space
<1>6. third \in Seq(Symbols) /\ Len(third) = 1 /\ third[1] = ":"
  BY <1>2
<1>7. fourth \in Seq(Symbols) /\ Len(fourth) \in {0, 1} /\ (Len(fourth) = 1 => fourth[1] = "s")
  BY <1>1, <1>2 DEF Space
<1>8. fifth \in Seq(Symbols) /\ Len(fifth) = 1 /\ fifth[1] = "q"
  BY <1>2
<1> HIDE DEF first, second, third, fourth, fifth
<1> DEFINE two == first \o second
           three == two \o third
           four == three \o fourth
<1>9. /\ two \in Seq(Symbols) /\ Len(two) = c - 1
      /\ two[1] = "open" /\ two[2] = "q" /\ two[3] = key /\ two[4] = "q" /\ (c = 6 => two[5] = "s")
  <2>0. two = first \o second
    OBVIOUS
  <2> HIDE DEF two
  <2>1. Joined(two, first, second)
    BY <1>4, <1>5, <2>0, PutTogether
  <2>2. c = 6 => two[4 + 1] = second[1]
    BY <1>4, <1>5, <2>1 DEF Joined
  <2> QED
    BY <1>4, <1>5, <2>1, <2>2 DEF Joined
<1> HIDE DEF two
<1>10. /\ three \in Seq(Symbols) /\ Len(three) = c
       /\ three[1] = "open" /\ three[2] = "q" /\ three[3] = key /\ three[4] = "q"
       /\ (c = 6 => three[5] = "s") /\ three[c] = ":"
  <2>0. three = two \o third
    OBVIOUS
  <2> HIDE DEF three
  <2>1. Joined(three, two, third)
    BY <1>6, <1>9, <2>0, PutTogether
  <2>2. three[c - 1 + 1] = third[1] /\ c - 1 + 1 = c
    BY <1>5, <1>6, <1>9, <2>1 DEF Joined
  <2> QED
    BY <1>5, <1>6, <1>9, <2>1, <2>2 DEF Joined
<1> HIDE DEF three
<1>11. /\ four \in Seq(Symbols) /\ Len(four) \in {c, c + 1}
       /\ four[1] = "open" /\ four[2] = "q" /\ four[3] = key /\ four[4] = "q"
       /\ (c = 6 => four[5] = "s") /\ four[c] = ":" /\ (Len(four) = c + 1 => four[c + 1] = "s")
  <2>0. four = three \o fourth
    OBVIOUS
  <2> HIDE DEF four
  <2>1. Joined(four, three, fourth)
    BY <1>7, <1>10, <2>0, PutTogether
  <2>2. Len(fourth) = 1 => four[c + 1] = fourth[1]
    BY <1>5, <1>7, <1>10, <2>1 DEF Joined
  <2>3. /\ four \in Seq(Symbols) /\ Len(four) = c + Len(fourth)
        /\ \A i \in 1..c : four[i] = three[i]
    BY <1>7, <1>10, <2>1 DEF Joined
  <2>4. 1 \in 1..c /\ 2 \in 1..c /\ 3 \in 1..c /\ 4 \in 1..c /\ 5 \in 1..c /\ c \in 1..c
    BY <1>5
  <2>5. Len(four) \in {c, c + 1} /\ (Len(four) = c + 1 => Len(fourth) = 1)
    <3>1. c \in Int
      BY <1>5
    <3>2. Len(four) = c + Len(fourth)
      BY <2>3
    <3>3. CASE Len(fourth) = 0
      BY <3>1, <3>2, <3>3
    <3>4. CASE Len(fourth) = 1
      BY <3>1, <3>2, <3>4
    <3> QED
      BY <1>7, <3>3, <3>4
  <2> QED
    BY <1>7, <1>10, <2>2, <2>3, <2>4, <2>5
<1> HIDE DEF four
<1>12. o = four \o fifth
  BY <1>3 DEF two, three, four
<1>13. Joined(o, four, fifth)
  BY <1>8, <1>11, <1>12, PutTogether
<1>14. o[Len(four) + 1] = fifth[1] /\ Len(o) = Len(four) + 1
  BY <1>8, <1>13 DEF Joined
<1>15. /\ o \in Seq(Symbols)
       /\ \A i \in 1..Len(four) : o[i] = four[i]
  BY <1>13 DEF Joined
<1>16. /\ 1 \in 1..Len(four) /\ 2 \in 1..Len(four) /\ 3 \in 1..Len(four) /\ 4 \in 1..Len(four)
       /\ 5 \in 1..Len(four) /\ c \in 1..Len(four)
       /\ Len(four) = c + 1 => c + 1 \in 1..Len(four)
  BY <1>5, <1>11
<1>17. Len(o) \in {c + 1, c + 2} /\ (Len(o) = c + 2 => Len(four) = c + 1)
  <2>1. c \in Int
    BY <1>5
  <2>2. Len(four) = c \/ Len(four) = c + 1
    BY <1>11
  <2> QED
    BY <1>14, <2>1, <2>2
<1> QED
  BY <1>8, <1>11, <1>14, <1>15, <1>16, <1>17 DEF Opens

(* Without a gap before the brace, the end of the object is the quote and the brace. *)
LEMMA ClosedIs ==
    ASSUME NEW gap, ~gap["beforeBrace"]
    PROVE  Closed(gap) = <<"q", "close">>
<1>1. <<"q">> \o <<>> = <<"q">>
  OBVIOUS
<1> DEFINE both == <<"q">> \o <<"close">>
<1>2. both = <<"q", "close">>
  <2>1. Len(both) = 2 /\ both[1] = "q" /\ both[2] = "close"
    OBVIOUS
  <2>2. both \in Seq({"q", "close"})
    OBVIOUS
  <2> HIDE DEF both
  <2> QED
    BY <2>1, <2>2
<1> QED
  BY <1>1, <1>2 DEF Closed, Space

-----------------------------------------------------------------------------
(* Parts of sequences. *)
LEMMA FirstIs ==
    ASSUME NEW S, S \subseteq Int, NEW f \in S, \A i \in S : f <= i
    PROVE  FirstOf(S) = f
<1>1. \E i \in S : \A j \in S : i <= j
  OBVIOUS
<1>2. FirstOf(S) \in S /\ \A j \in S : FirstOf(S) <= j
  BY <1>1 DEF FirstOf
<1> DEFINE g == FirstOf(S)
<1>3. g \in S /\ g <= f /\ f <= g
  BY <1>2
<1> HIDE DEF g
<1>4. g \in Int /\ f \in Int
  BY <1>3
<1>5. g = f
  BY <1>3, <1>4
<1> QED
  BY <1>5 DEF g

(* LastOf is the greatest of a set of positions. *)
LEMMA LastIs ==
    ASSUME NEW S, S \subseteq Int, NEW f \in S, \A i \in S : i <= f
    PROVE  LastOf(S) = f
<1>1. \E i \in S : \A j \in S : j <= i
  OBVIOUS
<1>2. LastOf(S) \in S /\ \A j \in S : j <= LastOf(S)
  BY <1>1 DEF LastOf
<1> DEFINE g == LastOf(S)
<1>3. g \in S /\ g <= f /\ f <= g
  BY <1>2
<1> HIDE DEF g
<1>4. g \in Int /\ f \in Int
  BY <1>3
<1>5. g = f
  BY <1>3, <1>4
<1> QED
  BY <1>5 DEF g

(* The symbols a to b of t. *)
IsPart(u, t, a, b) ==
    /\ t \in Seq(Symbols) /\ a \in Nat /\ b \in Nat /\ 1 <= a /\ a <= b + 1 /\ b <= Len(t)
    /\ u = SubSeq(t, a, b)

PartBounds(u, t, a, b) ==
    /\ t \in Seq(Symbols) /\ a \in Nat /\ b \in Nat /\ 1 <= a /\ a <= b + 1 /\ b <= Len(t)
    /\ u \in Seq(Symbols) /\ Len(u) = b - a + 1
    /\ \A j \in 1..(b - a + 1) : u[j] = t[a + j - 1]

(* A part of a text, by its first and its last position. *)
LEMMA PartIs ==
    ASSUME NEW u, NEW t, NEW a, NEW b
    PROVE  IsPart(u, t, a, b) <=> PartBounds(u, t, a, b)
<1>1. IsPart(u, t, a, b) => PartBounds(u, t, a, b)
  BY DEF IsPart, PartBounds
<1>2. ASSUME PartBounds(u, t, a, b) PROVE IsPart(u, t, a, b)
  <2> DEFINE v == SubSeq(t, a, b)
  <2>1. /\ t \in Seq(Symbols) /\ a \in Nat /\ b \in Nat /\ 1 <= a /\ a <= b + 1 /\ b <= Len(t)
        /\ u \in Seq(Symbols) /\ Len(u) = b - a + 1
        /\ \A j \in 1..(b - a + 1) : u[j] = t[a + j - 1]
    BY <1>2 DEF PartBounds
  <2>2. /\ v \in Seq(Symbols) /\ Len(v) = b - a + 1
        /\ \A j \in 1..(b - a + 1) : v[j] = t[a + j - 1]
    BY <2>1
  <2> HIDE DEF v
  <2>3. u = v
    BY <2>1, <2>2
  <2> QED
    BY <2>1, <2>3 DEF IsPart, v
<1> QED
  BY <1>1, <1>2

(* A part of a part is a part of the text. *)
LEMMA PartOfPart ==
    ASSUME NEW t, NEW a, NEW b, NEW u, IsPart(u, t, a, b), NEW v, NEW i, NEW j, IsPart(v, u, i, j)
    PROVE  IsPart(v, t, a + i - 1, a + j - 1)
<1>1. /\ t \in Seq(Symbols) /\ a \in Nat /\ b \in Nat /\ 1 <= a /\ a <= b + 1 /\ b <= Len(t)
      /\ u \in Seq(Symbols) /\ Len(u) = b - a + 1
      /\ \A l \in 1..(b - a + 1) : u[l] = t[a + l - 1]
  BY PartIs DEF PartBounds
<1>2. /\ i \in Nat /\ j \in Nat /\ 1 <= i /\ i <= j + 1 /\ j <= Len(u)
      /\ v \in Seq(Symbols) /\ Len(v) = j - i + 1
      /\ \A l \in 1..(j - i + 1) : v[l] = u[i + l - 1]
  BY PartIs DEF PartBounds
<1>3. a + i - 1 \in Nat /\ a + j - 1 \in Nat /\ 1 <= a + i - 1 /\ a + i - 1 <= a + j - 1 + 1
      /\ a + j - 1 <= Len(t) /\ a + j - 1 - (a + i - 1) + 1 = j - i + 1
  BY <1>1, <1>2
<1>4. ASSUME NEW l \in 1..(j - i + 1) PROVE v[l] = t[a + i - 1 + l - 1]
  <2>1. i + l - 1 \in 1..(b - a + 1) /\ a + (i + l - 1) - 1 = a + i - 1 + l - 1
    BY <1>1, <1>2
  <2>2. v[l] = t[a + (i + l - 1) - 1]
    BY <1>1, <1>2, <2>1
  <2> QED
    BY <2>1, <2>2
<1>5. PartBounds(v, t, a + i - 1, a + j - 1)
  BY <1>1, <1>2, <1>3, <1>4 DEF PartBounds
<1> QED
  BY <1>5, PartIs

(* A text is a part of itself. *)
LEMMA WholeIs ==
    ASSUME NEW t \in Seq(Symbols)
    PROVE  IsPart(t, t, 1, Len(t)) /\ Rest(t, 1) = t
BY DEF IsPart, Rest

(* Two parts between the same positions are the same. *)
LEMMA SamePart ==
    ASSUME NEW t, NEW a, NEW b, NEW u, IsPart(u, t, a, b), NEW v, IsPart(v, t, a, b)
    PROVE  u = v
BY DEF IsPart

(* What follows a position of a part is a part. *)
LEMMA RestOfPart ==
    ASSUME NEW t, NEW a, NEW b, NEW u, IsPart(u, t, a, b), NEW i \in Nat, 1 <= i, i <= b - a + 2
    PROVE  IsPart(Rest(u, i), t, a + i - 1, b)
<1> DEFINE j == Len(u)
           v == Rest(u, i)
<1>1. u \in Seq(Symbols) /\ j = b - a + 1 /\ a \in Nat /\ b \in Nat /\ 1 <= a /\ a <= b + 1
  BY PartIs DEF PartBounds
<1>2. v = SubSeq(u, i, j)
  BY DEF Rest
<1> HIDE DEF j, v
<1>3. j \in Nat /\ a + j - 1 = b /\ i <= j + 1
  BY <1>1
<1>4. IsPart(v, u, i, j)
  BY <1>1, <1>2, <1>3 DEF IsPart, j
<1>5. IsPart(v, t, a + i - 1, a + j - 1)
  BY <1>4, PartOfPart
<1> QED
  BY <1>3, <1>5 DEF v

(* A part without its first symbol is a part. *)
LEMMA TailOfPart ==
    ASSUME NEW t, NEW a, NEW b, NEW u, IsPart(u, t, a, b), a <= b
    PROVE  IsPart(Tail(u), t, a + 1, b)
<1>1. u \in Seq(Symbols) /\ Len(u) = b - a + 1 /\ a \in Nat /\ b \in Nat
  BY PartIs DEF PartBounds
<1>2. Tail(u) = Rest(u, 2)
  <2>1. u \in Seq(Symbols) /\ Len(u) >= 1
    BY <1>1
  <2>2. Tail(u) = SubSeq(u, 2, Len(u))
    BY <2>1
  <2> QED
    BY <2>2 DEF Rest
<1>3. IsPart(Rest(u, 2), t, a + 2 - 1, b)
  BY <1>1, RestOfPart
<1>4. a + 2 - 1 = a + 1
  BY <1>1
<1> QED
  BY <1>2, <1>3, <1>4

-----------------------------------------------------------------------------
(* What is left when the white space is removed. *)
LEMMA TrimLeftIs ==
    ASSUME NEW t, NEW a, NEW b, NEW u, IsPart(u, t, a, b),
           NEW f \in a..b, t[f] \notin White, \A i \in a..(f - 1) : t[i] \in White
    PROVE  IsPart(TrimLeft(u), t, f, b)
<1>1. /\ a \in Nat /\ b \in Nat /\ 1 <= a /\ a <= b + 1
      /\ u \in Seq(Symbols) /\ Len(u) = b - a + 1
      /\ \A l \in 1..(b - a + 1) : u[l] = t[a + l - 1]
  BY PartIs DEF PartBounds
<1>2. f \in Nat /\ a <= f /\ f <= b
  BY <1>1
<1> DEFINE g == f - a + 1
           S == {i \in DOMAIN u : u[i] \notin White}
<1>3. g \in Nat /\ 1 <= g /\ g <= b - a + 1 /\ a + g - 1 = f /\ g <= b - a + 2
  BY <1>1, <1>2
<1> HIDE DEF g
<1>4. u[g] \notin White
  <2>1. u[g] = t[a + g - 1]
    BY <1>1, <1>3
  <2> QED
    BY <1>3, <2>1
<1>5. DOMAIN u = 1..(b - a + 1)
  BY <1>1
<1>6. g \in DOMAIN u
  BY <1>1, <1>3, <1>5
<1>7. g \in S /\ ~Blank(u)
  BY <1>4, <1>6 DEF Blank
<1>8. ASSUME NEW i \in S PROVE g <= i
  <2>1. i \in 1..(b - a + 1) /\ u[i] = t[a + i - 1] /\ u[i] \notin White
    BY <1>1, <1>5
  <2>2. ~(a + i - 1 \in a..(f - 1))
    BY <2>1
  <2> QED
    BY <1>1, <1>2, <1>3, <2>1, <2>2
<1>9. FirstOf(S) = g
  <2>1. S \subseteq Int
    BY <1>5
  <2> HIDE DEF S
  <2> QED
    BY <1>7, <1>8, <2>1, FirstIs
<1>10. TrimLeft(u) = Rest(u, g)
  BY <1>7, <1>9 DEF TrimLeft
<1>11. IsPart(Rest(u, g), t, a + g - 1, b)
  BY <1>3, RestOfPart
<1> QED
  BY <1>3, <1>10, <1>11

(* TrimRight takes away what is behind the last symbol that may stay. *)
LEMMA TrimRightIs ==
    ASSUME NEW t, NEW a, NEW b, NEW u, IsPart(u, t, a, b), NEW cutset,
           NEW e \in a..b, t[e] \notin cutset, \A i \in (e + 1)..b : t[i] \in cutset
    PROVE  IsPart(TrimRight(u, cutset), t, a, e)
<1>1. /\ a \in Nat /\ b \in Nat /\ 1 <= a /\ a <= b + 1
      /\ u \in Seq(Symbols) /\ Len(u) = b - a + 1
      /\ \A l \in 1..(b - a + 1) : u[l] = t[a + l - 1]
  BY PartIs DEF PartBounds
<1>2. e \in Nat /\ a <= e /\ e <= b
  BY <1>1
<1> DEFINE g == e - a + 1
           S == {i \in DOMAIN u : u[i] \notin cutset}
<1>3. g \in Nat /\ 1 <= g /\ g <= b - a + 1 /\ a + g - 1 = e /\ a + 1 - 1 = a
  BY <1>1, <1>2
<1> HIDE DEF g
<1>4. u[g] \notin cutset
  <2>1. u[g] = t[a + g - 1]
    BY <1>1, <1>3
  <2> QED
    BY <1>3, <2>1
<1>5. DOMAIN u = 1..(b - a + 1)
  BY <1>1
<1>6. g \in DOMAIN u
  BY <1>1, <1>3, <1>5
<1>7. g \in S
  BY <1>4, <1>6
<1>8. ASSUME NEW i \in S PROVE i <= g
  <2>1. i \in 1..(b - a + 1) /\ u[i] = t[a + i - 1] /\ u[i] \notin cutset
    BY <1>1, <1>5
  <2>2. ~(a + i - 1 \in (e + 1)..b)
    BY <2>1
  <2> QED
    BY <1>1, <1>2, <1>3, <2>1, <2>2
<1>9. LastOf(S) = g
  <2>1. S \subseteq Int
    BY <1>5
  <2> HIDE DEF S
  <2> QED
    BY <1>7, <1>8, <2>1, LastIs
<1> DEFINE v == SubSeq(u, 1, g)
<1>10. TrimRight(u, cutset) = v
  BY <1>7, <1>9 DEF TrimRight
<1>11. IsPart(v, u, 1, g)
  BY <1>1, <1>3 DEF IsPart
<1> HIDE DEF v
<1>12. IsPart(v, t, a + 1 - 1, a + g - 1)
  BY <1>11, PartOfPart
<1> QED
  BY <1>3, <1>10, <1>12

(* TrimSpace leaves the part from the first to the last symbol that is not white. *)
LEMMA TrimSpaceIs ==
    ASSUME NEW t, NEW a, NEW b, NEW u, IsPart(u, t, a, b),
           NEW f \in a..b, t[f] \notin White, \A i \in a..(f - 1) : t[i] \in White,
           NEW e \in f..b, t[e] \notin White, \A i \in (e + 1)..b : t[i] \in White
    PROVE  IsPart(TrimSpace(u), t, f, e)
<1>1. IsPart(TrimLeft(u), t, f, b)
  BY TrimLeftIs
<1>2. IsPart(TrimRight(TrimLeft(u), White), t, f, e)
  BY <1>1, TrimRightIs
<1> QED
  BY <1>2 DEF TrimSpace

(* TrimSpace leaves a text alone that neither begins nor ends with white space. *)
LEMMA NothingToTrim ==
    ASSUME NEW u \in Seq(Symbols), u # <<>>, u[1] \notin White, u[Len(u)] \notin White
    PROVE  TrimSpace(u) = u
<1> DEFINE b == Len(u)
<1>1. b \in Nat /\ b >= 1 /\ u[b] \notin White
  OBVIOUS
<1>2. IsPart(u, u, 1, b)
  BY WholeIs
<1> HIDE DEF b
<1>3. 1 \in 1..b /\ b \in 1..b /\ (\A i \in 1..(1 - 1) : u[i] \in White)
      /\ (\A i \in (b + 1)..b : u[i] \in White)
  BY <1>1
<1>4. IsPart(TrimSpace(u), u, 1, b)
  BY <1>1, <1>2, <1>3, TrimSpaceIs
<1> QED
  BY <1>2, <1>4, SamePart

(* The last symbol that is not white space. *)
LEMMA LastNotIn ==
    ASSUME NEW t, NEW cutset, NEW i \in Nat, NEW b \in Nat, i <= b, t[i] \notin cutset
    PROVE  \E e \in i..b : t[e] \notin cutset /\ \A j \in (e + 1)..b : t[j] \in cutset
<1>1. b \in Nat /\ i \in Nat /\ i <= b
  OBVIOUS
<1> DEFINE I == {l \in 0..(b - i) : \E e \in i..(i + l) :
                    t[e] \notin cutset /\ \A j \in (e + 1)..(i + l) : t[j] \in cutset}
           m == b - i
<1>2. m \in Nat /\ i + m = b
  BY <1>1
<1>3. 0 \in I
  <2>1. i \in i..(i + 0) /\ \A j \in (i + 1)..(i + 0) : t[j] \in cutset
    BY <1>1
  <2> QED
    BY <1>1, <2>1
<1>4. ASSUME NEW l \in 1..m, l - 1 \in I PROVE l \in I
  <2>1. PICK e \in i..(i + (l - 1)) :
           t[e] \notin cutset /\ \A j \in (e + 1)..(i + (l - 1)) : t[j] \in cutset
    BY <1>4
  <2>2. l \in Nat /\ i + (l - 1) = i + l - 1 /\ l \in 0..(b - i) /\ e \in i..(i + l)
        /\ i + l \in i..(i + l)
    BY <1>1, <1>2, <2>1
  <2>3. CASE t[i + l] \in cutset
    <3>1. \A j \in (e + 1)..(i + l) : t[j] \in cutset
      <4> SUFFICES ASSUME NEW j \in (e + 1)..(i + l), j # i + l PROVE t[j] \in cutset
        BY <2>3
      <4>1. j \in (e + 1)..(i + (l - 1))
        BY <1>1, <2>1, <2>2
      <4> QED
        BY <2>1, <4>1
    <3> QED
      BY <2>1, <2>2, <3>1
  <2>4. CASE t[i + l] \notin cutset
    <3>1. \A j \in (i + l + 1)..(i + l) : t[j] \in cutset
      BY <1>1, <2>2
    <3> QED
      BY <2>2, <2>4, <3>1
  <2> QED
    BY <2>3, <2>4
<1>5. m \in I
  <2> HIDE DEF I, m
  <2>1. \A n \in 0..m : n \in I
    BY <1>2, <1>3, <1>4, UpToInduction
  <2> QED
    BY <1>2, <2>1
<1> QED
  BY <1>2, <1>5

-----------------------------------------------------------------------------
(* The string literal, symbol by symbol. *)
Unquotes(f, w) ==
    /\ f[0] = [mode |-> "plain", out |-> <<>>, high |-> FALSE]
    /\ \A i \in 1..Len(w) : f[i] = UnquoteStep(f[i - 1], w[i])

(* Unquoting takes one UnquoteStep for every symbol (encoding/json's reading of a string). *)
LEMMA UnquotingDefined ==
    ASSUME NEW w \in Seq(Symbols)
    PROVE  Unquotes(Unquoting(w), w)
<1> DEFINE m == Len(w)
           first == [mode |-> "plain", out |-> <<>>, high |-> FALSE]
           more(st, i) == UnquoteStep(st, w[i])
           Upon(f, i) == IF i = 0 THEN first ELSE more(f[i - 1], i)
           I == {j \in Nat : \E f : f = [i \in 0..j |-> Upon(f, i)]}
<1>1. m \in Nat
  OBVIOUS
<1> HIDE DEF more, first
<1>2. 0 \in I
  <2> DEFINE f == [i \in 0..0 |-> first]
  <2>1. f = [i \in 0..0 |-> Upon(f, i)]
    OBVIOUS
  <2>2. \E v : v = [i \in 0..0 |-> Upon(v, i)]
    BY <2>1
  <2> QED
    BY <2>2
<1>3. ASSUME NEW t \in 1..m, t - 1 \in I PROVE t \in I
  <2>1. t \in Nat /\ t - 1 \in Nat
    BY <1>1
  <2>2. PICK f : f = [i \in 0..(t - 1) |-> Upon(f, i)]
    BY <1>3
  <2> DEFINE v == [i \in 0..t |-> Upon(f, i)]
  <2>3. \A i \in 0..t : Upon(v, i) = Upon(f, i)
    <3> SUFFICES ASSUME NEW i \in 0..t PROVE Upon(v, i) = Upon(f, i)
      OBVIOUS
    <3>1. CASE i = 0
      BY <3>1
    <3>2. CASE i # 0
      <4>1. i - 1 \in 0..(t - 1) /\ i - 1 \in 0..t
        BY <2>1, <3>2
      <4>2. v[i - 1] = Upon(f, i - 1)
        BY <4>1
      <4>3. f[i - 1] = [j \in 0..(t - 1) |-> Upon(f, j)][i - 1]
        BY <2>2
      <4>4. f[i - 1] = Upon(f, i - 1)
        BY <4>1, <4>3
      <4>5. v[i - 1] = f[i - 1]
        BY <4>2, <4>4
      <4> HIDE DEF v
      <4> QED
        BY <4>5
    <3> QED
      BY <3>1, <3>2
  <2>4. v = [i \in 0..t |-> Upon(v, i)]
    BY <2>3
  <2>5. \E u : u = [i \in 0..t |-> Upon(u, i)]
    BY <2>4
  <2> QED
    BY <2>1, <2>5
<1>4. m \in I
  <2> HIDE DEF I, m
  <2>1. \A n \in 0..m : n \in I
    BY <1>1, <1>2, <1>3, UpToInduction
  <2> QED
    BY <1>1, <2>1
<1>5. \E f : f = [i \in 0..m |-> Upon(f, i)]
  BY <1>4
<1> DEFINE g == Unquoting(w)
<1>6. g = [i \in 0..m |-> Upon(g, i)]
  <2>1. g = CHOOSE f : f = [i \in 0..m |-> Upon(f, i)]
    BY DEF Unquoting, more, first
  <2> HIDE DEF g
  <2> QED
    BY <1>5, <2>1
<1> HIDE DEF g
<1>7. \A i \in 0..m : g[i] = Upon(g, i)
  BY <1>6
<1>8. g[0] = first
  <2>1. 0 \in 0..m
    BY <1>1
  <2>2. g[0] = Upon(g, 0)
    BY <1>7, <2>1
  <2> QED
    BY <2>2
<1>9. ASSUME NEW i \in 1..m
      PROVE  g[i] = more(g[i - 1], i)
  <2>1. i \in 0..m /\ i # 0
    BY <1>1
  <2>2. g[i] = Upon(g, i)
    BY <1>7, <2>1
  <2> QED
    BY <2>1, <2>2
<1> QED
  BY <1>8, <1>9 DEF g, first, more, Unquotes

(* The structural repair, symbol by symbol. *)
Structures(f, w) ==
    /\ f[0] = [out |-> <<>>, inString |-> FALSE, escaped |-> FALSE, openBraces |-> 0]
    /\ \A i \in 1..Len(w) : f[i] = StructuralStep(f[i - 1], w[i])

(* Structuring takes one step for every symbol (the loop of structuralRepair). *)
LEMMA StructuringDefined ==
    ASSUME NEW w \in Seq(Symbols)
    PROVE  Structures(Structuring(w), w)
<1> DEFINE m == Len(w)
           first == [out |-> <<>>, inString |-> FALSE, escaped |-> FALSE, openBraces |-> 0]
           more(st, i) == StructuralStep(st, w[i])
           Upon(f, i) == IF i = 0 THEN first ELSE more(f[i - 1], i)
           I == {j \in Nat : \E f : f = [i \in 0..j |-> Upon(f, i)]}
<1>1. m \in Nat
  OBVIOUS
<1> HIDE DEF more, first
<1>2. 0 \in I
  <2> DEFINE f == [i \in 0..0 |-> first]
  <2>1. f = [i \in 0..0 |-> Upon(f, i)]
    OBVIOUS
  <2>2. \E v : v = [i \in 0..0 |-> Upon(v, i)]
    BY <2>1
  <2> QED
    BY <2>2
<1>3. ASSUME NEW t \in 1..m, t - 1 \in I PROVE t \in I
  <2>1. t \in Nat /\ t - 1 \in Nat
    BY <1>1
  <2>2. PICK f : f = [i \in 0..(t - 1) |-> Upon(f, i)]
    BY <1>3
  <2> DEFINE v == [i \in 0..t |-> Upon(f, i)]
  <2>3. \A i \in 0..t : Upon(v, i) = Upon(f, i)
    <3> SUFFICES ASSUME NEW i \in 0..t PROVE Upon(v, i) = Upon(f, i)
      OBVIOUS
    <3>1. CASE i = 0
      BY <3>1
    <3>2. CASE i # 0
      <4>1. i - 1 \in 0..(t - 1) /\ i - 1 \in 0..t
        BY <2>1, <3>2
      <4>2. v[i - 1] = Upon(f, i - 1)
        BY <4>1
      <4>3. f[i - 1] = [j \in 0..(t - 1) |-> Upon(f, j)][i - 1]
        BY <2>2
      <4>4. f[i - 1] = Upon(f, i - 1)
        BY <4>1, <4>3
      <4>5. v[i - 1] = f[i - 1]
        BY <4>2, <4>4
      <4> HIDE DEF v
      <4> QED
        BY <4>5
    <3> QED
      BY <3>1, <3>2
  <2>4. v = [i \in 0..t |-> Upon(v, i)]
    BY <2>3
  <2>5. \E u : u = [i \in 0..t |-> Upon(u, i)]
    BY <2>4
  <2> QED
    BY <2>1, <2>5
<1>4. m \in I
  <2> HIDE DEF I, m
  <2>1. \A n \in 0..m : n \in I
    BY <1>1, <1>2, <1>3, UpToInduction
  <2> QED
    BY <1>1, <2>1
<1>5. \E f : f = [i \in 0..m |-> Upon(f, i)]
  BY <1>4
<1> DEFINE g == Structuring(w)
<1>6. g = [i \in 0..m |-> Upon(g, i)]
  <2>1. g = CHOOSE f : f = [i \in 0..m |-> Upon(f, i)]
    BY DEF Structuring, more, first
  <2> HIDE DEF g
  <2> QED
    BY <1>5, <2>1
<1> HIDE DEF g
<1>7. \A i \in 0..m : g[i] = Upon(g, i)
  BY <1>6
<1>8. g[0] = first
  <2>1. 0 \in 0..m
    BY <1>1
  <2>2. g[0] = Upon(g, 0)
    BY <1>7, <2>1
  <2> QED
    BY <2>2
<1>9. ASSUME NEW i \in 1..m
      PROVE  g[i] = more(g[i - 1], i)
  <2>1. i \in 0..m /\ i # 0
    BY <1>1
  <2>2. g[i] = Upon(g, i)
    BY <1>7, <2>1
  <2> QED
    BY <2>1, <2>2
<1> QED
  BY <1>8, <1>9 DEF g, first, more, Structures

(* The scan for the string, symbol by symbol. *)
Scans(f, w) ==
    /\ f[0] = [mode |-> "plain", out |-> <<>>]
    /\ \A i \in 1..Len(w) : f[i] = ScanStep(w, f[i - 1], i)

(* Scanning takes one step for every symbol (the loop of scanJSONString). *)
LEMMA ScanningDefined ==
    ASSUME NEW w \in Seq(Symbols)
    PROVE  Scans(Scanning(w), w)
<1> DEFINE m == Len(w)
           first == [mode |-> "plain", out |-> <<>>]
           more(st, i) == ScanStep(w, st, i)
           Upon(f, i) == IF i = 0 THEN first ELSE more(f[i - 1], i)
           I == {j \in Nat : \E f : f = [i \in 0..j |-> Upon(f, i)]}
<1>1. m \in Nat
  OBVIOUS
<1> HIDE DEF more, first
<1>2. 0 \in I
  <2> DEFINE f == [i \in 0..0 |-> first]
  <2>1. f = [i \in 0..0 |-> Upon(f, i)]
    OBVIOUS
  <2>2. \E v : v = [i \in 0..0 |-> Upon(v, i)]
    BY <2>1
  <2> QED
    BY <2>2
<1>3. ASSUME NEW t \in 1..m, t - 1 \in I PROVE t \in I
  <2>1. t \in Nat /\ t - 1 \in Nat
    BY <1>1
  <2>2. PICK f : f = [i \in 0..(t - 1) |-> Upon(f, i)]
    BY <1>3
  <2> DEFINE v == [i \in 0..t |-> Upon(f, i)]
  <2>3. \A i \in 0..t : Upon(v, i) = Upon(f, i)
    <3> SUFFICES ASSUME NEW i \in 0..t PROVE Upon(v, i) = Upon(f, i)
      OBVIOUS
    <3>1. CASE i = 0
      BY <3>1
    <3>2. CASE i # 0
      <4>1. i - 1 \in 0..(t - 1) /\ i - 1 \in 0..t
        BY <2>1, <3>2
      <4>2. v[i - 1] = Upon(f, i - 1)
        BY <4>1
      <4>3. f[i - 1] = [j \in 0..(t - 1) |-> Upon(f, j)][i - 1]
        BY <2>2
      <4>4. f[i - 1] = Upon(f, i - 1)
        BY <4>1, <4>3
      <4>5. v[i - 1] = f[i - 1]
        BY <4>2, <4>4
      <4> HIDE DEF v
      <4> QED
        BY <4>5
    <3> QED
      BY <3>1, <3>2
  <2>4. v = [i \in 0..t |-> Upon(v, i)]
    BY <2>3
  <2>5. \E u : u = [i \in 0..t |-> Upon(u, i)]
    BY <2>4
  <2> QED
    BY <2>1, <2>5
<1>4. m \in I
  <2> HIDE DEF I, m
  <2>1. \A n \in 0..m : n \in I
    BY <1>1, <1>2, <1>3, UpToInduction
  <2> QED
    BY <1>1, <2>1
<1>5. \E f : f = [i \in 0..m |-> Upon(f, i)]
  BY <1>4
<1> DEFINE g == Scanning(w)
<1>6. g = [i \in 0..m |-> Upon(g, i)]
  <2>1. g = CHOOSE f : f = [i \in 0..m |-> Upon(f, i)]
    BY DEF Scanning, more, first
  <2> HIDE DEF g
  <2> QED
    BY <1>5, <2>1
<1> HIDE DEF g
<1>7. \A i \in 0..m : g[i] = Upon(g, i)
  BY <1>6
<1>8. g[0] = first
  <2>1. 0 \in 0..m
    BY <1>1
  <2>2. g[0] = Upon(g, 0)
    BY <1>7, <2>1
  <2> QED
    BY <2>2
<1>9. ASSUME NEW i \in 1..m
      PROVE  g[i] = more(g[i - 1], i)
  <2>1. i \in 0..m /\ i # 0
    BY <1>1
  <2>2. g[i] = Upon(g, i)
    BY <1>7, <2>1
  <2> QED
    BY <2>1, <2>2
<1> QED
  BY <1>8, <1>9 DEF g, first, more, Scans

-----------------------------------------------------------------------------
(* Where the text of the first k items ends.                               *)
EndOf(body, k) == Len(Flat(Source, SubSeq(body, 1, k)))

(* An item ends one to six symbols behind the one before it. *)
LEMMA Ends ==
    ASSUME NEW body \in Seq(Items)
    PROVE  /\ EndOf(body, 0) = 0
           /\ \A k \in 0..Len(body) : EndOf(body, k) \in Nat
           /\ \A k \in 1..Len(body) :
                /\ body[k] \in Items /\ EndOf(body, k - 1) \in Nat
                /\ Len(Source[body[k]]) \in 1..6
                /\ EndOf(body, k) = EndOf(body, k - 1) + Len(Source[body[k]])
<1>1. Flat(Source, SubSeq(body, 1, 0)) = <<>>
  BY FlatSource
<1>2. ASSUME NEW k \in 0..Len(body) PROVE EndOf(body, k) \in Nat
  <2>1. Flat(Source, SubSeq(body, 1, k)) \in Seq(Symbols)
    BY FlatSource
  <2> QED
    BY <2>1 DEF EndOf
<1>3. ASSUME NEW k \in 1..Len(body)
      PROVE  /\ body[k] \in Items /\ EndOf(body, k - 1) \in Nat
             /\ Len(Source[body[k]]) \in 1..6
             /\ EndOf(body, k) = EndOf(body, k - 1) + Len(Source[body[k]])
  <2>1. body[k] \in Items /\ k - 1 \in 0..Len(body)
    OBVIOUS
  <2> DEFINE before == Flat(Source, SubSeq(body, 1, k - 1))
             item == Source[body[k]]
             upto == Flat(Source, SubSeq(body, 1, k))
  <2>2. before \in Seq(Symbols) /\ upto = before \o item
    BY <2>1, FlatSource
  <2>3. item \in Seq(Symbols) /\ Len(item) \in 1..6
    BY <2>1, TextsTyped
  <2>4. EndOf(body, k) = Len(upto) /\ EndOf(body, k - 1) = Len(before)
    BY DEF EndOf
  <2> HIDE DEF before, upto, item
  <2>5. Len(upto) = Len(before) + Len(item) /\ Len(before) \in Nat
    BY <2>2, <2>3
  <2> QED
    BY <2>1, <2>3, <2>4, <2>5 DEF item
<1> QED
  BY <1>1, <1>2, <1>3 DEF EndOf

(* Items end in the order of the body. *)
LEMMA EndsInOrder ==
    ASSUME NEW body \in Seq(Items)
    PROVE  \A l \in 0..Len(body) : \A k \in 0..l : EndOf(body, k) <= EndOf(body, l)
<1> DEFINE m == Len(body)
           P(l) == \A k \in 0..l : EndOf(body, k) <= EndOf(body, l)
           I == {l \in 0..m : P(l)}
<1>1. m \in Nat /\ \A k \in 0..m : EndOf(body, k) \in Nat
  BY Ends
<1>2. \A k \in 1..m : EndOf(body, k - 1) <= EndOf(body, k)
  <2> SUFFICES ASSUME NEW k \in 1..m PROVE EndOf(body, k - 1) <= EndOf(body, k)
    OBVIOUS
  <2>1. EndOf(body, k - 1) \in Nat /\ Len(Source[body[k]]) \in 1..6
        /\ EndOf(body, k) = EndOf(body, k - 1) + Len(Source[body[k]])
    BY Ends
  <2> QED
    BY <2>1
<1> HIDE DEF m
<1>3. P(0)
  <2>1. 0 \in 0..m
    BY <1>1
  <2>2. EndOf(body, 0) \in Nat
    BY <1>1, <2>1
  <2> QED
    BY <2>2
<1>4. ASSUME NEW l \in 1..m, P(l - 1) PROVE P(l)
  <2> SUFFICES ASSUME NEW k \in 0..l PROVE EndOf(body, k) <= EndOf(body, l)
    OBVIOUS
  <2>1. k \in 0..m /\ l \in 0..m /\ l - 1 \in 0..m /\ (k = l \/ k \in 0..(l - 1))
    BY <1>1
  <2>2. EndOf(body, k) \in Nat /\ EndOf(body, l) \in Nat /\ EndOf(body, l - 1) \in Nat
    BY <1>1, <2>1
  <2>3. CASE k = l
    BY <2>2, <2>3
  <2>4. CASE k \in 0..(l - 1)
    <3>1. EndOf(body, k) <= EndOf(body, l - 1)
      BY <1>4, <2>4
    <3>2. EndOf(body, l - 1) <= EndOf(body, l)
      BY <1>2
    <3> QED
      BY <2>2, <3>1, <3>2
  <2> QED
    BY <2>1, <2>3, <2>4
<1>5. \A l \in 0..m : l \in I
  <2> HIDE DEF P
  <2>1. 0 \in I
    BY <1>1, <1>3
  <2>2. \A l \in 1..m : l - 1 \in I => l \in I
    BY <1>1, <1>4
  <2> HIDE DEF I
  <2> QED
    BY <1>1, <2>1, <2>2, UpToInduction
<1> QED
  BY <1>5 DEF m

(* The symbols t, or the text of an item, are in w after the first g symbols. *)
Shows(w, g, t) == \A j \in 1..Len(t) : w[g + j] = t[j]

ItemAt(w, g, x) ==
    /\ w \in Seq(Symbols) /\ g \in Nat /\ x \in Items /\ g + Len(Source[x]) <= Len(w)
    /\ Shows(w, g, Source[x])

(* That of the first n items is, after the first o symbols. *)
Holds(w, o, body, n) ==
    /\ w \in Seq(Symbols) /\ o \in Nat /\ body \in Seq(Items) /\ n \in 0..Len(body)
    /\ o + EndOf(body, n) <= Len(w)
    /\ \A k \in 1..n : ItemAt(w, o + EndOf(body, k - 1), body[k])

(* A text that holds n items of a body holds the first k of them. *)
LEMMA HoldsLess ==
    ASSUME NEW w, NEW o, NEW body, NEW n, Holds(w, o, body, n), NEW k \in 0..n
    PROVE  Holds(w, o, body, k)
<1>1. /\ w \in Seq(Symbols) /\ o \in Nat /\ body \in Seq(Items) /\ n \in 0..Len(body)
      /\ o + EndOf(body, n) <= Len(w)
      /\ \A l \in 1..n : ItemAt(w, o + EndOf(body, l - 1), body[l])
  BY DEF Holds
<1>2. k \in 0..Len(body) /\ Len(w) \in Nat
  BY <1>1
<1>3. EndOf(body, k) <= EndOf(body, n) /\ EndOf(body, k) \in Nat /\ EndOf(body, n) \in Nat
  BY <1>1, <1>2, Ends, EndsInOrder
<1>4. o + EndOf(body, k) <= Len(w)
  BY <1>1, <1>2, <1>3
<1>5. \A l \in 1..k : ItemAt(w, o + EndOf(body, l - 1), body[l])
  BY <1>1
<1> QED
  BY <1>1, <1>2, <1>4, <1>5 DEF Holds

(* An item's symbols, one by one. *)
LEMMA OneShown ==
    ASSUME NEW w, NEW g, NEW a, Shows(w, g, <<a>>)
    PROVE  w[g + 1] = a
BY DEF Shows

(* The symbols of a text that shows a sequence of two. *)
LEMMA TwoShown ==
    ASSUME NEW w, NEW g, NEW a, NEW b, Shows(w, g, <<a, b>>)
    PROVE  w[g + 1] = a /\ w[g + 2] = b
<1> DEFINE t == <<a, b>>
<1>1. Len(t) = 2 /\ t[1] = a /\ t[2] = b
  OBVIOUS
<1>2. 1 \in 1..Len(t) /\ 2 \in 1..Len(t)
  BY <1>1
<1> QED
  BY <1>1, <1>2 DEF Shows

(* The symbols of a text that shows a sequence of three. *)
LEMMA ThreeShown ==
    ASSUME NEW w, NEW g, NEW a, NEW b, NEW c, Shows(w, g, <<a, b, c>>)
    PROVE  w[g + 1] = a /\ w[g + 2] = b /\ w[g + 3] = c
<1> DEFINE t == <<a, b, c>>
<1>1. Len(t) = 3 /\ t[1] = a /\ t[2] = b /\ t[3] = c
  OBVIOUS
<1>2. 1 \in 1..Len(t) /\ 2 \in 1..Len(t) /\ 3 \in 1..Len(t)
  BY <1>1
<1> QED
  BY <1>1, <1>2 DEF Shows

(* The symbols of a text that shows a sequence of six. *)
LEMMA SixShown ==
    ASSUME NEW w, NEW g, NEW a, NEW b, NEW c, NEW d, NEW e, NEW f,
           Shows(w, g, <<a, b, c, d, e, f>>)
    PROVE  /\ w[g + 1] = a /\ w[g + 2] = b /\ w[g + 3] = c
           /\ w[g + 4] = d /\ w[g + 5] = e /\ w[g + 6] = f
<1> DEFINE t == <<a, b, c, d, e, f>>
<1>1. Len(t) = 6 /\ t[1] = a /\ t[2] = b /\ t[3] = c /\ t[4] = d /\ t[5] = e /\ t[6] = f
  OBVIOUS
<1>2. /\ 1 \in 1..Len(t) /\ 2 \in 1..Len(t) /\ 3 \in 1..Len(t) /\ 4 \in 1..Len(t)
      /\ 5 \in 1..Len(t) /\ 6 \in 1..Len(t)
  BY <1>1
<1> QED
  BY <1>1, <1>2 DEF Shows

(* The items that are one symbol. *)
Singles == {"a", "n", "space", "brace", "fence", "rawNewline", "rawQuote"}

(* The symbols a text holds where it holds an item. *)
LEMMA SymbolsOf ==
    ASSUME NEW w, NEW g, NEW x, Shows(w, g, Source[x])
    PROVE  /\ x \in Singles =>
                 /\ Source[x] = Meaning[x] /\ Source[x] = <<w[g + 1]>> /\ Len(Source[x]) = 1
           /\ x = "a" => w[g + 1] = "a"
           /\ x = "n" => w[g + 1] = "n"
           /\ x = "space" => w[g + 1] = "s"
           /\ x = "brace" => w[g + 1] = "close"
           /\ x = "fence" => w[g + 1] = "fence"
           /\ x = "rawNewline" => w[g + 1] = "NL"
           /\ x = "rawQuote" => w[g + 1] = "q"
           /\ x = "rune" => Len(Source[x]) = 2 /\ w[g + 1] = "r1" /\ w[g + 2] = "r2"
           /\ x = "newline" => Len(Source[x]) = 2 /\ w[g + 1] = "\\" /\ w[g + 2] = "n"
           /\ x = "quote" => Len(Source[x]) = 2 /\ w[g + 1] = "\\" /\ w[g + 2] = "q"
           /\ x = "backslash" => Len(Source[x]) = 2 /\ w[g + 1] = "\\" /\ w[g + 2] = "\\"
           /\ x = "unicode" => /\ Len(Source[x]) = 3
                               /\ w[g + 1] = "\\" /\ w[g + 2] = "u" /\ w[g + 3] = "X"
           /\ x = "pair" => /\ Len(Source[x]) = 6
                            /\ w[g + 1] = "\\" /\ w[g + 2] = "u" /\ w[g + 3] = "H"
                            /\ w[g + 4] = "\\" /\ w[g + 5] = "u" /\ w[g + 6] = "L"
<1>1. x = "a" => w[g + 1] = "a" /\ Len(Source[x]) = 1
  <2>1. x = "a" => Source[x] = <<"a">>
    BY ItemTexts
  <2>2. x = "a" => Shows(w, g, <<"a">>) /\ Len(Source[x]) = 1
    BY <2>1
  <2> QED
    BY <2>2, OneShown
<1>2. x = "n" => w[g + 1] = "n" /\ Len(Source[x]) = 1
  <2>1. x = "n" => Source[x] = <<"n">>
    BY ItemTexts
  <2>2. x = "n" => Shows(w, g, <<"n">>) /\ Len(Source[x]) = 1
    BY <2>1
  <2> QED
    BY <2>2, OneShown
<1>3. x = "space" => w[g + 1] = "s" /\ Len(Source[x]) = 1
  <2>1. x = "space" => Source[x] = <<"s">>
    BY ItemTexts
  <2>2. x = "space" => Shows(w, g, <<"s">>) /\ Len(Source[x]) = 1
    BY <2>1
  <2> QED
    BY <2>2, OneShown
<1>4. x = "brace" => w[g + 1] = "close" /\ Len(Source[x]) = 1
  <2>1. x = "brace" => Source[x] = <<"close">>
    BY ItemTexts
  <2>2. x = "brace" => Shows(w, g, <<"close">>) /\ Len(Source[x]) = 1
    BY <2>1
  <2> QED
    BY <2>2, OneShown
<1>5. x = "fence" => w[g + 1] = "fence" /\ Len(Source[x]) = 1
  <2>1. x = "fence" => Source[x] = <<"fence">>
    BY ItemTexts
  <2>2. x = "fence" => Shows(w, g, <<"fence">>) /\ Len(Source[x]) = 1
    BY <2>1
  <2> QED
    BY <2>2, OneShown
<1>6. x = "rawNewline" => w[g + 1] = "NL" /\ Len(Source[x]) = 1
  <2>1. x = "rawNewline" => Source[x] = <<"NL">>
    BY ItemTexts
  <2>2. x = "rawNewline" => Shows(w, g, <<"NL">>) /\ Len(Source[x]) = 1
    BY <2>1
  <2> QED
    BY <2>2, OneShown
<1>7. x = "rawQuote" => w[g + 1] = "q" /\ Len(Source[x]) = 1
  <2>1. x = "rawQuote" => Source[x] = <<"q">>
    BY ItemTexts
  <2>2. x = "rawQuote" => Shows(w, g, <<"q">>) /\ Len(Source[x]) = 1
    BY <2>1
  <2> QED
    BY <2>2, OneShown
<1>8. ASSUME x \in Singles
      PROVE  Source[x] = Meaning[x] /\ Source[x] = <<w[g + 1]>> /\ Len(Source[x]) = 1
  BY <1>1, <1>2, <1>3, <1>4, <1>5, <1>6, <1>7, <1>8, ItemTexts DEF Singles
<1>9. x = "rune" => Len(Source[x]) = 2 /\ w[g + 1] = "r1" /\ w[g + 2] = "r2"
  <2>1. x = "rune" => Source[x] = <<"r1", "r2">>
    BY ItemTexts
  <2>2. x = "rune" => Shows(w, g, <<"r1", "r2">>) /\ Len(Source[x]) = 2
    BY <2>1
  <2> QED
    BY <2>2, TwoShown
<1>10. x = "newline" => Len(Source[x]) = 2 /\ w[g + 1] = "\\" /\ w[g + 2] = "n"
  <2>1. x = "newline" => Source[x] = <<"\\", "n">>
    BY ItemTexts
  <2>2. x = "newline" => Shows(w, g, <<"\\", "n">>) /\ Len(Source[x]) = 2
    BY <2>1
  <2> QED
    BY <2>2, TwoShown
<1>11. x = "quote" => Len(Source[x]) = 2 /\ w[g + 1] = "\\" /\ w[g + 2] = "q"
  <2>1. x = "quote" => Source[x] = <<"\\", "q">>
    BY ItemTexts
  <2>2. x = "quote" => Shows(w, g, <<"\\", "q">>) /\ Len(Source[x]) = 2
    BY <2>1
  <2> QED
    BY <2>2, TwoShown
<1>12. x = "backslash" => Len(Source[x]) = 2 /\ w[g + 1] = "\\" /\ w[g + 2] = "\\"
  <2>1. x = "backslash" => Source[x] = <<"\\", "\\">>
    BY ItemTexts
  <2>2. x = "backslash" => Shows(w, g, <<"\\", "\\">>) /\ Len(Source[x]) = 2
    BY <2>1
  <2> QED
    BY <2>2, TwoShown
<1>13. x = "unicode" => /\ Len(Source[x]) = 3
                        /\ w[g + 1] = "\\" /\ w[g + 2] = "u" /\ w[g + 3] = "X"
  <2>1. x = "unicode" => Source[x] = <<"\\", "u", "X">>
    BY ItemTexts
  <2>2. x = "unicode" => Shows(w, g, <<"\\", "u", "X">>) /\ Len(Source[x]) = 3
    BY <2>1
  <2> QED
    BY <2>2, ThreeShown
<1>14. x = "pair" => /\ Len(Source[x]) = 6
                     /\ w[g + 1] = "\\" /\ w[g + 2] = "u" /\ w[g + 3] = "H"
                     /\ w[g + 4] = "\\" /\ w[g + 5] = "u" /\ w[g + 6] = "L"
  <2>1. x = "pair" => Source[x] = <<"\\", "u", "H", "\\", "u", "L">>
    BY ItemTexts
  <2>2. x = "pair" => Shows(w, g, <<"\\", "u", "H", "\\", "u", "L">>) /\ Len(Source[x]) = 6
    BY <2>1
  <2> QED
    BY <2>2, SixShown
<1> QED
  BY <1>1, <1>2, <1>3, <1>4, <1>5, <1>6, <1>7, <1>8, <1>9, <1>10, <1>11, <1>12, <1>13, <1>14

-----------------------------------------------------------------------------
(* encoding/json on the text of items. *)
Literal(out) == [mode |-> "plain", out |-> out, high |-> FALSE]

Escaping(mode, out) == [mode |-> mode, out |-> out, high |-> FALSE]

(* The same after the first half of a surrogate pair. *)
HalfLiteral(out) == [mode |-> "plain", out |-> out, high |-> TRUE]

HalfEscaping(mode, out) == [mode |-> mode, out |-> out, high |-> TRUE]

Invalid == [mode |-> "invalid", out |-> <<>>, high |-> FALSE]

(* Unquoting, a plain symbol means itself. *)
LEMMA UnquotePlain ==
    ASSUME NEW out, NEW s \in {"a", "n", "s", "close", "fence", "r1", "r2"}
    PROVE  UnquoteStep(Literal(out), s) = Literal(Append(out, s))
BY DEF UnquoteStep, Literal

(* Unquoting, a backslash begins an escape. *)
LEMMA UnquoteBackslash ==
    ASSUME NEW out
    PROVE  /\ UnquoteStep(Literal(out), "\\") = Escaping("escaped", out)
           /\ UnquoteStep(HalfLiteral(out), "\\") = HalfEscaping("escaped", out)
BY DEF UnquoteStep, Literal, Escaping, HalfLiteral, HalfEscaping

(* Unquoting, a bare quote or newline makes the string invalid. *)
LEMMA UnquoteBare ==
    ASSUME NEW out, NEW s \in {"q", "NL"}
    PROVE  UnquoteStep(Literal(out), s) = Invalid
BY DEF UnquoteStep, Literal, Invalid

(* An invalid string stays invalid. *)
LEMMA UnquoteInvalid ==
    ASSUME NEW s
    PROVE  UnquoteStep(Invalid, s) = Invalid
BY DEF UnquoteStep, Invalid

(* Unquoting, what each escape means; a high surrogate waits for its low one. *)
LEMMA UnquoteEscape ==
    ASSUME NEW out
    PROVE  /\ \A s \in {"q", "\\"} : UnquoteStep(Escaping("escaped", out), s)
                                         = Literal(Append(out, s))
           /\ UnquoteStep(Escaping("escaped", out), "n") = Literal(Append(out, "NL"))
           /\ UnquoteStep(Escaping("escaped", out), "u") = Escaping("unicode", out)
           /\ UnquoteStep(Escaping("unicode", out), "X") = Literal(Append(out, "U+X"))
           /\ UnquoteStep(Escaping("unicode", out), "H") = HalfLiteral(Append(out, "U+FFFD"))
           /\ UnquoteStep(HalfEscaping("escaped", out), "u") = HalfEscaping("unicode", out)
           /\ UnquoteStep(HalfEscaping("unicode", out), "L")
                 = Literal(Append(Front(out), "U+HL"))
BY DEF UnquoteStep, Literal, Escaping, HalfLiteral, HalfEscaping

(* Append as a concatenation. *)
LEMMA AppendOne ==
    ASSUME NEW out \in Seq(Symbols), NEW s \in Symbols
    PROVE  Append(out, s) = out \o <<s>> /\ Append(out, s) \in Seq(Symbols)
OBVIOUS

(* Two symbols appended as a concatenation. *)
LEMMA AppendTwo ==
    ASSUME NEW out \in Seq(Symbols), NEW s \in Symbols, NEW r \in Symbols
    PROVE  Append(Append(out, s), r) = out \o <<s, r>>
<1>1. <<s, r>> \in Seq(Symbols) /\ Len(<<s, r>>) = 2 /\ <<s, r>>[1] = s /\ <<s, r>>[2] = r
  OBVIOUS
<1> DEFINE t == <<s, r>>
           a == out \o t
           b == Append(Append(out, s), r)
<1> HIDE DEF t
<1>2. /\ a \in Seq(Symbols) /\ Len(a) = Len(out) + 2 /\ \A i \in 1..Len(out) : a[i] = out[i]
      /\ a[Len(out) + 1] = s /\ a[Len(out) + 2] = r
  BY <1>1 DEF t
<1>3. /\ b \in Seq(Symbols) /\ Len(b) = Len(out) + 2 /\ \A i \in 1..Len(out) : b[i] = out[i]
      /\ b[Len(out) + 1] = s /\ b[Len(out) + 2] = r
  <2> DEFINE c == Append(out, s)
  <2>1. /\ c \in Seq(Symbols) /\ Len(c) = Len(out) + 1 /\ \A i \in 1..Len(out) : c[i] = out[i]
        /\ c[Len(out) + 1] = s
    OBVIOUS
  <2> HIDE DEF c
  <2>2. /\ Append(c, r) \in Seq(Symbols) /\ Len(Append(c, r)) = Len(c) + 1
        /\ \A i \in 1..Len(c) : Append(c, r)[i] = c[i]
        /\ Append(c, r)[Len(c) + 1] = r
    BY <2>1
  <2>3. Len(out) \in Nat
    OBVIOUS
  <2> QED
    BY <2>1, <2>2, <2>3 DEF c
<1> HIDE DEF a, b
<1>4. \A i \in 1..Len(a) : a[i] = b[i]
  <2> SUFFICES ASSUME NEW i \in 1..Len(a) PROVE a[i] = b[i]
    OBVIOUS
  <2>1. i \in 1..Len(out) \/ i = Len(out) + 1 \/ i = Len(out) + 2
    BY <1>2
  <2> QED
    BY <1>2, <1>3, <2>1
<1>5. a = b
  BY <1>2, <1>3, <1>4
<1> QED
  BY <1>5 DEF a, b, t

(* Front takes the last symbol away again. *)
LEMMA FrontIs ==
    ASSUME NEW out \in Seq(Symbols), NEW s \in Symbols
    PROVE  Front(Append(out, s)) = out /\ Last(Append(out, s)) = s /\ Append(out, s) # <<>>
<1> DEFINE a == Append(out, s)
           b == Front(a)
<1>1. a \in Seq(Symbols) /\ Len(a) = Len(out) + 1 /\ \A i \in 1..Len(out) : a[i] = out[i]
  OBVIOUS
<1>2. b = SubSeq(a, 1, Len(a) - 1)
  BY DEF Front
<1>3. Len(out) \in Nat
  OBVIOUS
<1>4. a[Len(a)] = s
  OBVIOUS
<1> HIDE DEF a
<1>5. b \in Seq(Symbols) /\ Len(b) = Len(out) /\ \A i \in 1..Len(out) : b[i] = a[i]
  BY <1>1, <1>2, <1>3
<1> HIDE DEF b
<1>6. b = out
  BY <1>1, <1>5
<1>7. Last(a) = s /\ a # <<>>
  BY <1>1, <1>3, <1>4 DEF Last
<1> QED
  BY <1>6, <1>7 DEF a, b

(* The symbols, one by one. *)
LEMMA SymbolsTyped ==
    /\ "a" \in Symbols /\ "n" \in Symbols /\ "s" \in Symbols /\ "close" \in Symbols
    /\ "fence" \in Symbols /\ "r1" \in Symbols /\ "r2" \in Symbols /\ "NL" \in Symbols
    /\ "q" \in Symbols /\ "\\" \in Symbols /\ "u" \in Symbols /\ "X" \in Symbols
    /\ "H" \in Symbols /\ "L" \in Symbols /\ "U+X" \in Symbols /\ "U+HL" \in Symbols
    /\ "U+FFFD" \in Symbols /\ "open" \in Symbols /\ ":" \in Symbols /\ "," \in Symbols
    /\ "content" \in Symbols /\ "text" \in Symbols /\ "other" \in Symbols
BY DEF Symbols

-----------------------------------------------------------------------------
Raw == {"rawNewline", "rawQuote"}

(* Unquoting over the symbols of one item. *)
LEMMA UnquotesSteps ==
    ASSUME NEW w \in Seq(Symbols), NEW f, Unquotes(f, w), NEW g \in Nat, NEW m \in 1..6,
           g + m <= Len(w)
    PROVE  /\ f[g + 1] = UnquoteStep(f[g], w[g + 1])
           /\ m \in {2, 3, 6} => f[g + 2] = UnquoteStep(f[g + 1], w[g + 2])
           /\ m \in {3, 6} => f[g + 3] = UnquoteStep(f[g + 2], w[g + 3])
           /\ m = 6 => /\ f[g + 4] = UnquoteStep(f[g + 3], w[g + 4])
                       /\ f[g + 5] = UnquoteStep(f[g + 4], w[g + 5])
                       /\ f[g + 6] = UnquoteStep(f[g + 5], w[g + 6])
<1>1. ASSUME NEW j \in 1..m PROVE f[g + j] = UnquoteStep(f[g + j - 1], w[g + j])
  <2> DEFINE i == g + j
  <2>1. i \in 1..Len(w)
    OBVIOUS
  <2> HIDE DEF i
  <2>2. f[i] = UnquoteStep(f[i - 1], w[i])
    BY <2>1 DEF Unquotes
  <2> QED
    BY <2>2 DEF i
<1>2. /\ g + 1 - 1 = g /\ g + 2 - 1 = g + 1 /\ g + 3 - 1 = g + 2 /\ g + 4 - 1 = g + 3
      /\ g + 5 - 1 = g + 4 /\ g + 6 - 1 = g + 5
  OBVIOUS
<1>3. f[g + 1] = UnquoteStep(f[g], w[g + 1])
  BY <1>1, <1>2
<1>4. m \in {2, 3, 6} => f[g + 2] = UnquoteStep(f[g + 1], w[g + 2])
  BY <1>1, <1>2
<1>5. m \in {3, 6} => f[g + 3] = UnquoteStep(f[g + 2], w[g + 3])
  BY <1>1, <1>2
<1>6. m = 6 => f[g + 4] = UnquoteStep(f[g + 3], w[g + 4])
  BY <1>1, <1>2
<1>7. m = 6 => f[g + 5] = UnquoteStep(f[g + 4], w[g + 5])
  BY <1>1, <1>2
<1>8. m = 6 => f[g + 6] = UnquoteStep(f[g + 5], w[g + 6])
  BY <1>1, <1>2
<1> QED
  BY <1>3, <1>4, <1>5, <1>6, <1>7, <1>8

(* Unquoting an item adds what it means, or the string is invalid for a raw newline or quote. *)
LEMMA UnquotesItem ==
    ASSUME NEW w, NEW f, Unquotes(f, w), NEW g, NEW x, ItemAt(w, g, x),
           NEW out \in Seq(Symbols), f[g] = Literal(out)
    PROVE  /\ x \in Raw => f[g + Len(Source[x])] = Invalid
           /\ x \notin Raw => f[g + Len(Source[x])] = Literal(out \o Meaning[x])
<1> DEFINE m == Len(Source[x])
<1>1. /\ w \in Seq(Symbols) /\ g \in Nat /\ x \in Items /\ g + m <= Len(w)
      /\ Shows(w, g, Source[x])
  BY DEF ItemAt
<1>2. m \in 1..6
  BY <1>1, TextsTyped
<1>3. /\ x \in Singles => Source[x] = Meaning[x] /\ Source[x] = <<w[g + 1]>> /\ m = 1
      /\ x \in {"rune", "newline", "quote", "backslash"} => m = 2
      /\ x = "unicode" => m = 3
      /\ x = "pair" => m = 6
  <2>1. x \in Singles => Source[x] = Meaning[x] /\ Source[x] = <<w[g + 1]>> /\ m = 1
    BY <1>1, SymbolsOf
  <2>2. x \in {"rune", "newline", "quote", "backslash"} => m = 2
    <3>1. (x = "rune" => m = 2) /\ (x = "newline" => m = 2)
      BY <1>1, SymbolsOf, ZenonT(60)
    <3>2. (x = "quote" => m = 2) /\ (x = "backslash" => m = 2)
      BY <1>1, SymbolsOf, ZenonT(60)
    <3> QED
      BY <3>1, <3>2
  <2>3. (x = "unicode" => m = 3) /\ (x = "pair" => m = 6)
    BY <1>1, SymbolsOf, ZenonT(60)
  <2> QED
    BY <2>1, <2>2, <2>3
<1> HIDE DEF m
<1>11. /\ f[g + 1] = UnquoteStep(f[g], w[g + 1])
       /\ m \in {2, 3, 6} => f[g + 2] = UnquoteStep(f[g + 1], w[g + 2])
       /\ m \in {3, 6} => f[g + 3] = UnquoteStep(f[g + 2], w[g + 3])
       /\ m = 6 => /\ f[g + 4] = UnquoteStep(f[g + 3], w[g + 4])
                   /\ f[g + 5] = UnquoteStep(f[g + 4], w[g + 5])
                   /\ f[g + 6] = UnquoteStep(f[g + 5], w[g + 6])
  BY <1>1, <1>2, UnquotesSteps
<1> SUFFICES /\ x \in Raw => f[g + m] = Invalid
             /\ x \notin Raw => f[g + m] = Literal(out \o Meaning[x])
  BY DEF m
<1>4. CASE x \in Singles \ Raw
  <2>1. Meaning[x] = <<w[g + 1]>> /\ m = 1
    BY <1>3, <1>4
  <2>2. w[g + 1] \in {"a", "n", "s", "close", "fence"}
    BY <1>1, <1>4, SymbolsOf, ZenonT(60) DEF Singles, Raw
  <2>3. f[g + 1] = Literal(Append(out, w[g + 1]))
    <3>1. f[g + 1] = UnquoteStep(Literal(out), w[g + 1])
      BY <1>11
    <3> QED
      BY <2>2, <3>1, UnquotePlain
  <2>4. w[g + 1] \in Symbols
    BY <2>2, SymbolsTyped
  <2> QED
    BY <1>4, <2>1, <2>3, <2>4, AppendOne
<1>5. CASE x \in Raw
  <2>1. m = 1 /\ w[g + 1] \in {"q", "NL"}
    BY <1>1, <1>3, <1>5, SymbolsOf DEF Singles, Raw
  <2>2. f[g + 1] = Invalid
    BY <1>11, <2>1, UnquoteBare
  <2> QED
    BY <1>5, <2>1, <2>2
<1>6. CASE x = "rune"
  <2>1. m = 2 /\ w[g + 1] = "r1" /\ w[g + 2] = "r2"
    BY <1>1, <1>3, <1>6, SymbolsOf
  <2>2. f[g + 1] = Literal(Append(out, "r1"))
    BY <1>11, <2>1, UnquotePlain
  <2>3. f[g + 2] = Literal(Append(Append(out, "r1"), "r2"))
    <3>1. f[g + 2] = UnquoteStep(Literal(Append(out, "r1")), "r2")
      BY <1>11, <2>1, <2>2
    <3> QED
      BY <3>1, UnquotePlain
  <2>4. Append(Append(out, "r1"), "r2") = out \o Meaning[x]
    <3>1. Meaning[x] = <<"r1", "r2">>
      BY <1>6, ItemTexts
    <3>2. "r1" \in Symbols /\ "r2" \in Symbols
      BY SymbolsTyped
    <3>3. Append(Append(out, "r1"), "r2") = out \o <<"r1", "r2">>
      BY <3>2, AppendTwo
    <3> QED
      BY <3>1, <3>3
  <2> QED
    BY <1>6, <2>1, <2>3, <2>4 DEF Raw
<1>7. CASE x \in {"newline", "quote", "backslash"}
  <2>1. m = 2 /\ w[g + 1] = "\\"
    BY <1>1, <1>3, <1>7, SymbolsOf
  <2>2. f[g + 1] = Escaping("escaped", out)
    BY <1>11, <2>1, UnquoteBackslash
  <2>3. f[g + 2] = UnquoteStep(Escaping("escaped", out), w[g + 2])
    BY <1>11, <2>1, <2>2
  <2>4. CASE x = "newline"
    <3>1. f[g + 2] = Literal(Append(out, "NL"))
      BY <1>1, <2>3, <2>4, SymbolsOf, UnquoteEscape
    <3> QED
      BY <2>1, <2>4, <3>1, AppendOne, SymbolsTyped, ItemTexts DEF Raw
  <2>5. CASE x = "quote"
    <3>1. f[g + 2] = Literal(Append(out, "q"))
      BY <1>1, <2>3, <2>5, SymbolsOf, UnquoteEscape
    <3> QED
      BY <2>1, <2>5, <3>1, AppendOne, SymbolsTyped, ItemTexts DEF Raw
  <2>6. CASE x = "backslash"
    <3>1. f[g + 2] = Literal(Append(out, "\\"))
      BY <1>1, <2>3, <2>6, SymbolsOf, UnquoteEscape
    <3> QED
      BY <2>1, <2>6, <3>1, AppendOne, SymbolsTyped, ItemTexts DEF Raw
  <2> QED
    BY <1>7, <2>4, <2>5, <2>6
<1>8. CASE x = "unicode"
  <2>1. m = 3 /\ w[g + 1] = "\\" /\ w[g + 2] = "u" /\ w[g + 3] = "X"
    BY <1>1, <1>3, <1>8, SymbolsOf
  <2>2. f[g + 1] = Escaping("escaped", out)
    BY <1>11, <2>1, UnquoteBackslash
  <2>3. f[g + 2] = Escaping("unicode", out)
    BY <1>11, <2>1, <2>2, UnquoteEscape
  <2>4. f[g + 3] = Literal(Append(out, "U+X"))
    BY <1>11, <2>1, <2>3, UnquoteEscape
  <2> QED
    BY <1>8, <2>1, <2>4, AppendOne, SymbolsTyped, ItemTexts DEF Raw
<1>9. CASE x = "pair"
  <2>1. /\ m = 6 /\ w[g + 1] = "\\" /\ w[g + 2] = "u" /\ w[g + 3] = "H"
        /\ w[g + 4] = "\\" /\ w[g + 5] = "u" /\ w[g + 6] = "L"
    BY <1>1, <1>3, <1>9, SymbolsOf
  <2> DEFINE half == Append(out, "U+FFFD")
  <2>2. f[g + 1] = Escaping("escaped", out)
    BY <1>11, <2>1, UnquoteBackslash
  <2>3. f[g + 2] = Escaping("unicode", out)
    BY <1>11, <2>1, <2>2, UnquoteEscape
  <2>4. f[g + 3] = HalfLiteral(half)
    BY <1>11, <2>1, <2>3, UnquoteEscape
  <2>5. Front(half) = out
    BY FrontIs, SymbolsTyped
  <2> HIDE DEF half
  <2>6. f[g + 4] = HalfEscaping("escaped", half)
    BY <1>11, <2>1, <2>4, UnquoteBackslash
  <2>7. f[g + 5] = HalfEscaping("unicode", half)
    BY <1>11, <2>1, <2>6, UnquoteEscape
  <2>8. f[g + 6] = Literal(Append(out, "U+HL"))
    BY <1>11, <2>1, <2>5, <2>7, UnquoteEscape
  <2> QED
    BY <1>9, <2>1, <2>8, AppendOne, SymbolsTyped, ItemTexts DEF Raw
<1>10. x \in (Singles \ Raw) \cup Raw \cup {"rune", "newline", "quote", "backslash", "unicode", "pair"}
  BY <1>1, ItemIsOne DEF Singles, Raw
<1> QED
  BY <1>4, <1>5, <1>6, <1>7, <1>8, <1>9, <1>10

(* No raw form among the first n items. *)
Clean(body, n) == \A k \in 1..n : body[k] \notin Raw

(* Once it is invalid, a string is invalid to its end. *)
LEMMA InvalidStays ==
    ASSUME NEW w \in Seq(Symbols), NEW f, Unquotes(f, w), NEW i \in 0..Len(w), f[i] = Invalid
    PROVE  \A j \in i..Len(w) : f[j] = Invalid
<1> DEFINE I == {l \in 0..(Len(w) - i) : f[i + l] = Invalid}
           m == Len(w) - i
<1>1. m \in Nat /\ i \in Nat /\ Len(w) \in Nat
  OBVIOUS
<1>2. 0 \in I
  OBVIOUS
<1>3. ASSUME NEW l \in 1..m, l - 1 \in I PROVE l \in I
  <2> DEFINE j == i + l
  <2>1. j \in 1..Len(w) /\ f[j - 1] = Invalid /\ l \in 0..(Len(w) - i)
    <3>1. i + (l - 1) = i + l - 1
      BY <1>1
    <3> QED
      BY <1>1, <1>3, <3>1
  <2> HIDE DEF j
  <2>2. f[j] = UnquoteStep(f[j - 1], w[j])
    BY <2>1 DEF Unquotes
  <2>3. f[j] = Invalid
    BY <2>1, <2>2, UnquoteInvalid
  <2> QED
    BY <2>1, <2>3 DEF j
<1> HIDE DEF m
<1>4. \A n \in 0..m : n \in I
  <2> HIDE DEF I
  <2> QED
    BY <1>1, <1>2, <1>3, UpToInduction
<1> SUFFICES ASSUME NEW j \in i..Len(w) PROVE f[j] = Invalid
  OBVIOUS
<1>5. j - i \in 0..m /\ i + (j - i) = j
  BY <1>1 DEF m
<1>6. f[i + (j - i)] = Invalid
  BY <1>4, <1>5
<1> QED
  BY <1>5, <1>6

Unquoted(f, body, k) ==
    IF Clean(body, k) THEN f[EndOf(body, k)] = Literal(Flat(Meaning, SubSeq(body, 1, k)))
    ELSE f[EndOf(body, k)] = Invalid

(* Unquoting a body gives what it means, as long as no item of it is raw. *)
LEMMA UnquotesRun ==
    ASSUME NEW w, NEW f, Unquotes(f, w), NEW body, NEW n, Holds(w, 0, body, n)
    PROVE  \A k \in 0..n : Unquoted(f, body, k)
<1>1. /\ w \in Seq(Symbols) /\ body \in Seq(Items) /\ n \in 0..Len(body)
      /\ EndOf(body, n) <= Len(w) /\ n \in Nat
      /\ \A k \in 1..n : ItemAt(w, EndOf(body, k - 1), body[k])
  <2>1. EndOf(body, n) \in Nat
    BY Ends DEF Holds
  <2>2. \A k \in 1..n : 0 + EndOf(body, k - 1) = EndOf(body, k - 1)
    <3> SUFFICES ASSUME NEW k \in 1..n PROVE 0 + EndOf(body, k - 1) = EndOf(body, k - 1)
      OBVIOUS
    <3>1. body \in Seq(Items) /\ k \in 1..Len(body)
      BY DEF Holds
    <3>2. EndOf(body, k - 1) \in Nat
      BY <3>1, Ends
    <3> QED
      BY <3>2
  <2> QED
    BY <2>1, <2>2 DEF Holds
<1> DEFINE I == {k \in 0..n : Unquoted(f, body, k)}
<1>2. 0 \in I
  <2>1. Clean(body, 0)
    BY DEF Clean
  <2>2. EndOf(body, 0) = 0 /\ Flat(Meaning, SubSeq(body, 1, 0)) = <<>>
    BY <1>1, Ends, FlatMeaning
  <2>3. f[0] = Literal(<<>>)
    BY DEF Unquotes, Literal
  <2>4. f[EndOf(body, 0)] = Literal(Flat(Meaning, SubSeq(body, 1, 0)))
    BY <2>2, <2>3
  <2>5. 0 \in 0..n
    BY <1>1
  <2> QED
    BY <2>1, <2>4, <2>5 DEF Unquoted
<1>3. ASSUME NEW k \in 1..n, k - 1 \in I PROVE k \in I
  <2> DEFINE out == Flat(Meaning, SubSeq(body, 1, k - 1))
             g == EndOf(body, k - 1)
             x == body[k]
  <2>1. k \in 1..Len(body) /\ k \in 0..n /\ k - 1 \in 0..Len(body) /\ k \in 0..Len(body)
    BY <1>1
  <2>2. /\ g \in Nat /\ Len(Source[x]) \in 1..6 /\ EndOf(body, k) = g + Len(Source[x])
        /\ EndOf(body, k) \in Nat /\ x \in Items
    BY <1>1, <2>1, Ends
  <2>3. ItemAt(w, g, x)
    BY <1>1
  <2>4. out \in Seq(Symbols) /\ Flat(Meaning, SubSeq(body, 1, k)) = out \o Meaning[x]
    BY <1>1, <2>1, FlatMeaning
  <2>5. g + Len(Source[x]) <= Len(w)
    BY <2>3 DEF ItemAt
  <2>6. Unquoted(f, body, k - 1)
    BY <1>3
  <2>7. Clean(body, k) <=> Clean(body, k - 1) /\ x \notin Raw
    <3>1. 1..k = 1..(k - 1) \cup {k}
      BY <2>1
    <3> QED
      BY <3>1 DEF Clean
  <2>8. CASE Clean(body, k - 1)
    <3>1. f[g] = Literal(out)
      BY <2>6, <2>8 DEF Unquoted
    <3> HIDE DEF g, x, out
    <3>2. /\ x \in Raw => f[g + Len(Source[x])] = Invalid
          /\ x \notin Raw => f[g + Len(Source[x])] = Literal(out \o Meaning[x])
      BY <2>3, <2>4, <3>1, UnquotesItem
    <3> QED
      BY <2>1, <2>2, <2>4, <2>7, <2>8, <3>2 DEF Unquoted
  <2>9. CASE ~Clean(body, k - 1)
    <3>1. f[g] = Invalid
      BY <2>6, <2>9 DEF Unquoted
    <3> DEFINE e == EndOf(body, k)
    <3>2. g \in 0..Len(w) /\ e \in g..Len(w)
      BY <1>1, <2>2, <2>5
    <3> HIDE DEF g, e
    <3>3. f[e] = Invalid
      BY <1>1, <3>1, <3>2, InvalidStays
    <3> QED
      BY <2>1, <2>7, <2>9, <3>3 DEF Unquoted, e
  <2> QED
    BY <2>8, <2>9
<1>4. \A k \in 0..n : k \in I
  <2> HIDE DEF I
  <2> QED
    BY <1>1, <1>2, <1>3, UpToInduction
<1> QED
  BY <1>4

(* No item means a text that ends in the middle of a rune. *)
LEMMA MeaningEnds ==
    ASSUME NEW x \in Items
    PROVE  Len(Meaning[x]) \in 1..2 /\ Meaning[x][Len(Meaning[x])] # "r1"
<1>1. /\ x = "a" => Meaning[x] = <<"a">>
      /\ x = "n" => Meaning[x] = <<"n">>
      /\ x = "space" => Meaning[x] = <<"s">>
      /\ x = "brace" => Meaning[x] = <<"close">>
      /\ x = "fence" => Meaning[x] = <<"fence">>
      /\ x \in {"rawNewline", "newline"} => Meaning[x] = <<"NL">>
      /\ x \in {"rawQuote", "quote"} => Meaning[x] = <<"q">>
      /\ x = "backslash" => Meaning[x] = <<"\\">>
      /\ x = "unicode" => Meaning[x] = <<"U+X">>
      /\ x = "pair" => Meaning[x] = <<"U+HL">>
  BY ItemTexts
<1>2. x # "rune" => \E s : Meaning[x] = <<s>> /\ s # "r1"
  BY <1>1, ItemIsOne
<1>3. CASE x # "rune"
  <2>1. PICK s : Meaning[x] = <<s>> /\ s # "r1"
    BY <1>2, <1>3
  <2> QED
    BY <2>1
<1>4. CASE x = "rune"
  <2>1. Meaning[x] = <<"r1", "r2">>
    BY <1>4, ItemTexts
  <2>2. Len(<<"r1", "r2">>) = 2 /\ <<"r1", "r2">>[2] = "r2"
    OBVIOUS
  <2> QED
    BY <2>1, <2>2
<1> QED
  BY <1>3, <1>4

(* What a text means does not end in the middle of a character. *)
LEMMA FlatEnds ==
    ASSUME NEW body \in Seq(Items), NEW n \in 0..Len(body),
           NEW out, out = Flat(Meaning, SubSeq(body, 1, n))
    PROVE  out \in Seq(Symbols) /\ (n = 0 <=> out = <<>>) /\ (n # 0 => Last(out) # "r1")
<1>1. CASE n = 0
  <2>1. out = <<>> /\ <<>> \in Seq(Symbols)
    BY <1>1, FlatMeaning
  <2> QED
    BY <1>1, <2>1
<1>2. CASE n # 0
  <2> DEFINE before == Flat(Meaning, SubSeq(body, 1, n - 1))
             item == Meaning[body[n]]
  <2>1. n \in 1..Len(body) /\ n - 1 \in 0..Len(body) /\ body[n] \in Items
    BY <1>2
  <2>2. before \in Seq(Symbols) /\ out = before \o item
    BY <2>1, FlatMeaning
  <2>3. item \in Seq(Symbols) /\ Len(item) \in 1..2 /\ item[Len(item)] # "r1"
    BY <2>1, MeaningEnds, TextsTyped
  <2> HIDE DEF before, item
  <2>4. Joined(out, before, item)
    BY <2>2, <2>3, PutTogether
  <2>5. Len(item) \in 1..Len(item) /\ Len(before) \in Nat /\ out \in Seq(Symbols)
        /\ Len(out) = Len(before) + Len(item)
    <3>1. Len(item) \in 1..Len(item)
      <4>1. \A m \in 1..2 : m \in 1..m
        OBVIOUS
      <4> QED
        BY <2>3, <4>1
    <3> QED
      BY <2>4, <3>1 DEF Joined
  <2>6. out[Len(before) + Len(item)] = item[Len(item)]
    BY <2>4, <2>5 DEF Joined
  <2>7. out # <<>>
    BY <2>3, <2>5
  <2> QED
    BY <1>2, <2>3, <2>5, <2>6, <2>7 DEF Last
<1> QED
  BY <1>1, <1>2

-----------------------------------------------------------------------------
(* A string literal that is whole. *)
LEMMA UnquoteWhole ==
    ASSUME NEW w, NEW body, NEW n, Holds(w, 0, body, n), Len(w) = EndOf(body, n), Clean(body, n)
    PROVE  Unquote(w) = Decoded(Flat(Meaning, SubSeq(body, 1, n)))
<1> DEFINE f == Unquoting(w)
           out == Flat(Meaning, SubSeq(body, 1, n))
<1>1. w \in Seq(Symbols) /\ body \in Seq(Items) /\ n \in 0..Len(body) /\ n \in 0..n
  BY DEF Holds
<1>2. Unquotes(f, w)
  BY <1>1, UnquotingDefined
<1>3. f[Len(w)] = Literal(out)
  <2> HIDE DEF f
  <2>1. Unquoted(f, body, n)
    BY <1>1, <1>2, UnquotesRun
  <2> QED
    BY <2>1 DEF Unquoted
<1>4. ~(out # <<>> /\ Last(out) = "r1")
  BY <1>1, FlatEnds
<1> HIDE DEF out
<1>5. f[Len(w)].mode = "plain" /\ f[Len(w)].out = out
  BY <1>3 DEF Literal
<1> QED
  BY <1>4, <1>5 DEF Unquote, out

(* One with a bare quote or newline in it. *)
LEMMA UnquoteUnclean ==
    ASSUME NEW w, NEW body, NEW n, Holds(w, 0, body, n), ~Clean(body, n)
    PROVE  Unquote(w) = Undecoded
<1> DEFINE f == Unquoting(w)
           e == EndOf(body, n)
<1>1. w \in Seq(Symbols) /\ body \in Seq(Items) /\ n \in 0..Len(body) /\ n \in 0..n
  BY DEF Holds
<1>2. Unquotes(f, w)
  BY <1>1, UnquotingDefined
<1>3. e \in Nat /\ e <= Len(w) /\ Len(w) \in Nat
  BY <1>1, Ends DEF Holds
<1>4. f[e] = Invalid
  <2> HIDE DEF f
  <2>1. Unquoted(f, body, n)
    BY <1>1, <1>2, UnquotesRun
  <2> QED
    BY <2>1 DEF Unquoted
<1> HIDE DEF e
<1>5. f[Len(w)] = Invalid
  <2> HIDE DEF f
  <2>1. e \in 0..Len(w) /\ Len(w) \in e..Len(w)
    BY <1>3
  <2> QED
    BY <1>1, <1>2, <1>4, <2>1, InvalidStays
<1>6. f[Len(w)].mode # "plain"
  BY <1>5 DEF Invalid
<1> QED
  BY <1>6 DEF Unquote

(* What there is of an item that was cut off. *)
Halved(w, g, l) ==
    \/ l = 1 /\ w[g + 1] = "r1"
    \/ l = 1 /\ w[g + 1] = "\\"
    \/ l = 2 /\ w[g + 1] = "\\" /\ w[g + 2] = "u"
    \/ l = 3 /\ w[g + 1] = "\\" /\ w[g + 2] = "u" /\ w[g + 3] = "H"
    \/ l = 4 /\ w[g + 1] = "\\" /\ w[g + 2] = "u" /\ w[g + 3] = "H" /\ w[g + 4] = "\\"
    \/ l = 5 /\ w[g + 1] = "\\" /\ w[g + 2] = "u" /\ w[g + 3] = "H" /\ w[g + 4] = "\\"
             /\ w[g + 5] = "u"

(* A string cut off in the middle of an item is undecoded, or ends with a replacement rune. *)
LEMMA UnquoteHalved ==
    ASSUME NEW w, NEW body, NEW n, Holds(w, 0, body, n), NEW l, Halved(w, EndOf(body, n), l),
           Len(w) = EndOf(body, n) + l
    PROVE  \/ Unquote(w) = Undecoded
           \/ Unquote(w) = Decoded(Append(Flat(Meaning, SubSeq(body, 1, n)), "U+FFFD"))
<1> DEFINE f == Unquoting(w)
           out == Flat(Meaning, SubSeq(body, 1, n))
           g == EndOf(body, n)
<1>1. w \in Seq(Symbols) /\ body \in Seq(Items) /\ n \in 0..Len(body) /\ n \in 0..n
  BY DEF Holds
<1>2. Unquotes(f, w)
  BY <1>1, UnquotingDefined
<1>3. g \in Nat /\ Len(w) = g + l /\ Halved(w, g, l)
  BY <1>1, Ends
<1>4. CASE ~Clean(body, n)
  BY <1>4, UnquoteUnclean
<1> SUFFICES ASSUME Clean(body, n)
             PROVE  \/ Unquote(w) = Undecoded
                    \/ Unquote(w) = Decoded(Append(out, "U+FFFD"))
  BY <1>4
<1>5. f[g] = Literal(out)
  <2> HIDE DEF f
  <2>1. Unquoted(f, body, n)
    BY <1>1, <1>2, UnquotesRun
  <2> QED
    BY <2>1 DEF Unquoted
<1>6. out \in Seq(Symbols)
  BY <1>1, FlatMeaning
<1> HIDE DEF out, g, f
<1>7. ASSUME f[Len(w)].mode # "plain" PROVE Unquote(w) = Undecoded
  BY <1>7 DEF Unquote, f
<1>8. ASSUME NEW m \in 1..6, g + m <= Len(w)
      PROVE  /\ f[g + 1] = UnquoteStep(f[g], w[g + 1])
             /\ m \in {2, 3, 6} => f[g + 2] = UnquoteStep(f[g + 1], w[g + 2])
             /\ m \in {3, 6} => f[g + 3] = UnquoteStep(f[g + 2], w[g + 3])
  BY <1>1, <1>2, <1>3, <1>8, UnquotesSteps
<1>9. CASE l = 1 /\ w[g + 1] = "r1"
  <2>1. 1 \in 1..6 /\ g + 1 <= Len(w) /\ Len(w) = g + 1
    BY <1>3, <1>9
  <2>2. f[g + 1] = UnquoteStep(Literal(out), "r1")
    BY <1>5, <1>8, <1>9, <2>1
  <2>3. f[Len(w)] = Literal(Append(out, "r1"))
    BY <2>1, <2>2, UnquotePlain
  <2> DEFINE a == Append(out, "r1")
  <2>4. Front(a) = out /\ Last(a) = "r1" /\ a # <<>>
    BY <1>6, FrontIs, SymbolsTyped
  <2>5. f[Len(w)].mode = "plain" /\ f[Len(w)].out = a
    BY <2>3 DEF Literal
  <2> HIDE DEF a
  <2> QED
    BY <2>4, <2>5 DEF Unquote, f
<1>10. CASE l = 1 /\ w[g + 1] = "\\"
  <2>1. 1 \in 1..6 /\ g + 1 <= Len(w) /\ Len(w) = g + 1
    BY <1>3, <1>10
  <2>2. f[g + 1] = UnquoteStep(Literal(out), "\\")
    BY <1>5, <1>8, <1>10, <2>1
  <2>3. f[Len(w)] = Escaping("escaped", out)
    BY <2>1, <2>2, UnquoteBackslash
  <2> QED
    BY <1>7, <2>3 DEF Escaping
<1>11. CASE l \in 2..5 /\ w[g + 1] = "\\" /\ w[g + 2] = "u"
  <2>1. 2 \in 1..6 /\ g + 2 <= Len(w) /\ Len(w) = g + l
    BY <1>3, <1>11
  <2>2. f[g + 1] = UnquoteStep(Literal(out), "\\") /\ f[g + 2] = UnquoteStep(f[g + 1], "u")
    BY <1>5, <1>8, <1>11, <2>1
  <2>3. f[g + 1] = Escaping("escaped", out)
    BY <2>2, UnquoteBackslash
  <2>4. f[g + 2] = Escaping("unicode", out)
    BY <2>2, <2>3, UnquoteEscape
  <2>5. CASE l = 2
    <3>1. f[Len(w)] = Escaping("unicode", out)
      BY <2>1, <2>4, <2>5
    <3> QED
      BY <1>7, <3>1 DEF Escaping
  <2>6. CASE l \in 3..5 /\ w[g + 3] = "H"
    <3> DEFINE a == Append(out, "U+FFFD")
    <3>1. 3 \in 1..6 /\ g + 3 <= Len(w)
      BY <1>3, <2>1, <2>6
    <3>2. f[g + 3] = UnquoteStep(Escaping("unicode", out), "H")
      BY <1>8, <2>4, <2>6, <3>1
    <3>3. f[g + 3] = HalfLiteral(a)
      BY <3>2, UnquoteEscape
    <3>4. Last(a) = "U+FFFD"
      BY <1>6, FrontIs, SymbolsTyped
    <3> HIDE DEF a
    <3>5. CASE l = 3
      <4>1. f[Len(w)] = HalfLiteral(a)
        BY <2>1, <3>3, <3>5
      <4>2. f[Len(w)].mode = "plain" /\ f[Len(w)].out = a
        BY <4>1 DEF HalfLiteral
      <4> QED
        BY <3>4, <4>2 DEF Unquote, f, a
    <3>6. CASE l \in 4..5 /\ w[g + 4] = "\\"
      <4> DEFINE h == g + 3
      <4>1. h \in Nat /\ 1 \in 1..6 /\ h + 1 <= Len(w) /\ h + 1 = g + 4
        BY <1>3, <2>1, <3>6
      <4>2. f[h] = HalfLiteral(a)
        BY <3>3
      <4> HIDE DEF h
      <4>3. f[h + 1] = UnquoteStep(f[h], w[h + 1])
        BY <1>1, <1>2, <4>1, UnquotesSteps
      <4>4. f[h + 1] = UnquoteStep(HalfLiteral(a), "\\")
        BY <3>6, <4>1, <4>2, <4>3
      <4>5. f[g + 4] = HalfEscaping("escaped", a)
        BY <4>1, <4>4, UnquoteBackslash
      <4>6. CASE l = 4
        <5>1. f[Len(w)] = HalfEscaping("escaped", a)
          BY <2>1, <4>5, <4>6
        <5> QED
          BY <1>7, <5>1 DEF HalfEscaping
      <4>7. CASE l = 5 /\ w[g + 5] = "u"
        <5> DEFINE i == g + 4
        <5>1. i \in Nat /\ 1 \in 1..6 /\ i + 1 <= Len(w) /\ i + 1 = g + 5 /\ Len(w) = g + 5
          BY <1>3, <2>1, <4>7
        <5>2. f[i] = HalfEscaping("escaped", a)
          BY <4>5
        <5> HIDE DEF i
        <5>3. f[i + 1] = UnquoteStep(f[i], w[i + 1])
          BY <1>1, <1>2, <5>1, UnquotesSteps
        <5>4. f[i + 1] = UnquoteStep(HalfEscaping("escaped", a), "u")
          BY <4>7, <5>1, <5>2, <5>3
        <5>5. f[Len(w)] = HalfEscaping("unicode", a)
          BY <5>1, <5>4, UnquoteEscape
        <5> QED
          BY <1>7, <5>5 DEF HalfEscaping
      <4> QED
        BY <1>3, <3>6, <4>6, <4>7 DEF Halved
    <3> QED
      BY <1>3, <2>6, <3>5, <3>6 DEF Halved
  <2> QED
    BY <1>3, <1>11, <2>5, <2>6 DEF Halved
<1> QED
  BY <1>3, <1>9, <1>10, <1>11 DEF Halved

(* After the first j symbols, c has an opening: the colon is at n and the  *)
(* quote of the value at o.                                                *)
Begins(c, j, n, key, o) ==
    /\ c \in Seq(Symbols) /\ j \in Nat /\ n \in {j + 5, j + 6} /\ o \in {n + 1, n + 2}
    /\ o <= Len(c) /\ key \in {"content", "text", "other"}
    /\ c[j + 1] = "open" /\ c[j + 2] = "q" /\ c[j + 3] = key /\ c[j + 4] = "q"
    /\ (n = j + 6 => c[j + 5] = "s") /\ c[n] = ":" /\ (o = n + 2 => c[n + 1] = "s")
    /\ c[o] = "q"

(* What is not in braces is not an object. *)
LEMMA NotObject ==
    ASSUME NEW c \in Seq(Symbols), c # <<>>, c[1] \notin White, c[Len(c)] \notin White,
           c[1] # "open" \/ c[Len(c)] # "close"
    PROVE  Unmarshal(c) = Undecoded
<1>1. TrimSpace(c) = c
  BY NothingToTrim
<1>2. Object(c) = Undecoded
  BY DEF Object, Last
<1> QED
  BY <1>1, <1>2 DEF Unmarshal

(* An object with one string member is decoded to the string if its key is content. *)
LEMMA ObjectValue ==
    ASSUME NEW c, NEW n, NEW key, NEW o, Begins(c, 0, n, key, o), NEW l, l = Len(c),
           c[l] = "close", NEW e \in o..(l - 1), c[e] \notin White,
           \A i \in (e + 1)..(l - 1) : c[i] \in White
    PROVE  Unmarshal(c) = IF key = "content" THEN StringValue(SubSeq(c, o, e)) ELSE Undecoded
<1>1. /\ c \in Seq(Symbols) /\ n \in {5, 6} /\ o \in {n + 1, n + 2} /\ o <= l
      /\ c[1] = "open" /\ c[2] = "q" /\ c[3] = key /\ c[4] = "q"
      /\ (n = 6 => c[5] = "s") /\ c[n] = ":" /\ (o = n + 2 => c[n + 1] = "s") /\ c[o] = "q"
  BY DEF Begins
<1>2. l \in Nat /\ n \in Nat /\ o \in Nat /\ e \in Nat /\ 6 <= o /\ o <= e /\ e <= l - 1
  BY <1>1
<1>3. TrimSpace(c) = c
  <2>1. c # <<>> /\ c[1] \notin White /\ c[Len(c)] \notin White
    BY <1>1, <1>2 DEF White
  <2> QED
    BY <1>1, <2>1, NothingToTrim
<1> DEFINE inner == SubSeq(c, 2, l - 1)
           u == TrimSpace(inner)
<1>4. IsPart(inner, c, 2, l - 1)
  BY <1>1, <1>2 DEF IsPart
<1> HIDE DEF inner
<1>5. IsPart(u, c, 2, e)
  <2>1. 2 \in 2..(l - 1) /\ e \in 2..(l - 1) /\ c[2] \notin White
        /\ \A i \in 2..(2 - 1) : c[i] \in White
    BY <1>1, <1>2 DEF White
  <2> QED
    BY <1>4, <2>1, TrimSpaceIs
<1>6. Unmarshal(c) = Member(u)
  <2>1. Unmarshal(c) = Object(c)
    BY <1>3 DEF Unmarshal
  <2>2. Len(c) >= 2 /\ c[1] = "open" /\ Last(c) = "close"
    BY <1>1, <1>2 DEF Last
  <2> QED
    BY <2>1, <2>2 DEF Object, inner
<1> HIDE DEF u
<1>7. u \in Seq(Symbols) /\ Len(u) = e - 1 /\ u[1] = "q" /\ u[2] = key /\ u[3] = "q"
  <2>1. u \in Seq(Symbols) /\ Len(u) = e - 2 + 1 /\ \A i \in 1..(e - 2 + 1) : u[i] = c[2 + i - 1]
    BY <1>5, PartIs DEF PartBounds
  <2>2. 1 \in 1..(e - 2 + 1) /\ 2 \in 1..(e - 2 + 1) /\ 3 \in 1..(e - 2 + 1)
    BY <1>2
  <2>3. u[1] = c[2 + 1 - 1] /\ u[2] = c[2 + 2 - 1] /\ u[3] = c[2 + 3 - 1]
    BY <2>1, <2>2
  <2>4. u[1] = c[2] /\ u[2] = c[3] /\ u[3] = c[4]
    BY <2>3
  <2> QED
    BY <1>1, <1>2, <2>1, <2>4
<1>8. Len(u) > 3
  BY <1>2, <1>7
<1>9. SubSeq(u, 1, 3) = <<"q", "content", "q">> <=> key = "content"
  <2> DEFINE v == SubSeq(u, 1, 3)
  <2>1. IsPart(v, u, 1, 3)
    BY <1>7, <1>8 DEF IsPart
  <2> HIDE DEF v
  <2>2. v \in Seq(Symbols) /\ Len(v) = 3 /\ \A i \in 1..3 : v[i] = u[1 + i - 1]
    <3>1. 3 - 1 + 1 = 3
      OBVIOUS
    <3> QED
      BY <2>1, <3>1, PartIs DEF PartBounds
  <2>3. v[1] = "q" /\ v[2] = key /\ v[3] = "q"
    <3>1. v[1] = u[1 + 1 - 1] /\ v[2] = u[1 + 2 - 1] /\ v[3] = u[1 + 3 - 1]
      BY <2>2
    <3> QED
      BY <1>7, <3>1
  <2>4. ASSUME v = <<"q", "content", "q">> PROVE key = "content"
    <3>1. v[2] = "content"
      BY <2>4
    <3> QED
      BY <2>3, <3>1
  <2>5. ASSUME key = "content" PROVE v = <<"q", "content", "q">>
    <3>1. v = <<v[1], v[2], v[3]>>
      BY <2>2
    <3> QED
      BY <2>3, <2>5, <3>1
  <2> QED
    BY <2>4, <2>5 DEF v
<1>10. CASE key # "content"
  BY <1>6, <1>9, <1>10 DEF Member
<1>11. CASE key = "content"
  <2> DEFINE t == Rest(u, 4)
             v == TrimLeft(t)
             x == TrimLeft(Tail(v))
  <2>1. IsPart(t, c, 5, e)
    <3>1. IsPart(t, c, 2 + 4 - 1, e)
      BY <1>2, <1>5, RestOfPart
    <3> QED
      BY <3>1
  <2> HIDE DEF t
  <2>2. IsPart(v, c, n, e)
    <3>1. n \in 5..e /\ c[n] \notin White
      BY <1>1, <1>2 DEF White
    <3>2. \A i \in 5..(n - 1) : c[i] \in White
      BY <1>1 DEF White
    <3> QED
      BY <2>1, <3>1, <3>2, TrimLeftIs
  <2> HIDE DEF v
  <2>3. IsPart(Tail(v), c, n + 1, e)
    <3>1. n <= e
      BY <1>1, <1>2
    <3> QED
      BY <2>2, <3>1, TailOfPart
  <2>4. IsPart(x, c, o, e)
    <3>1. o \in (n + 1)..e /\ c[o] \notin White
      BY <1>1, <1>2 DEF White
    <3>2. \A i \in (n + 1)..(o - 1) : c[i] \in White
      BY <1>1 DEF White
    <3> QED
      BY <2>3, <3>1, <3>2, TrimLeftIs
  <2> HIDE DEF x
  <2>5. x = SubSeq(c, o, e)
    BY <2>4 DEF IsPart
  <2>6. StartsWith(v, ":")
    <3>1. v \in Seq(Symbols) /\ Len(v) = e - n + 1 /\ \A i \in 1..(e - n + 1) : v[i] = c[n + i - 1]
      BY <2>2, PartIs DEF PartBounds
    <3>2. 1 \in 1..(e - n + 1) /\ n + 1 - 1 = n
      BY <1>1, <1>2
    <3>3. v[1] = c[n + 1 - 1]
      BY <3>1, <3>2
    <3> QED
      BY <1>1, <3>1, <3>2, <3>3 DEF StartsWith
  <2>7. Member(u) = Value(v)
    BY <1>8, <1>9, <1>11 DEF Member, v, t
  <2>8. Value(v) = StringValue(x)
    BY <2>6 DEF Value, x
  <2> QED
    BY <1>6, <1>11, <2>5, <2>7, <2>8
<1> QED
  BY <1>10, <1>11

(* A string that is closed before the last brace, and one that is not. *)
LEMMA ObjectClosed ==
    ASSUME NEW c, NEW n, NEW o, Begins(c, 0, n, "content", o), NEW l, l = Len(c),
           c[l] = "close", NEW e \in (o + 1)..(l - 1), c[e] = "q",
           \A i \in (e + 1)..(l - 1) : c[i] \in White
    PROVE  Unmarshal(c) = Unquote(SubSeq(c, o + 1, e - 1))
<1>1. c \in Seq(Symbols) /\ o \in Nat /\ o >= 1 /\ c[o] = "q" /\ l \in Nat
  BY DEF Begins
<1>2. e \in Nat /\ o + 1 <= e /\ e <= l - 1 /\ e \in o..(l - 1) /\ c[e] \notin White
  BY <1>1 DEF White
<1> DEFINE u == SubSeq(c, o, e)
<1>3. Unmarshal(c) = StringValue(u)
  <2>1. Unmarshal(c) = IF "content" = "content" THEN StringValue(SubSeq(c, o, e)) ELSE Undecoded
    BY <1>2, ObjectValue
  <2> QED
    BY <2>1
<1>4. IsPart(u, c, o, e)
  BY <1>1, <1>2 DEF IsPart
<1> HIDE DEF u
<1>5. /\ u \in Seq(Symbols) /\ Len(u) = e - o + 1
      /\ \A i \in 1..(e - o + 1) : u[i] = c[o + i - 1]
  BY <1>4, PartIs DEF PartBounds
<1> DEFINE k == e - o + 1
<1>6. k \in Nat /\ k >= 2 /\ 1 \in 1..k /\ k \in 1..k /\ o + 1 - 1 = o /\ o + k - 1 = e
  BY <1>1, <1>2
<1>7. Len(u) = k /\ u[1] = c[o + 1 - 1] /\ u[k] = c[o + k - 1]
  BY <1>5, <1>6
<1> HIDE DEF k
<1>8. u[1] = "q" /\ u[k] = "q"
  BY <1>1, <1>6, <1>7
<1> DEFINE v == SubSeq(u, 2, k - 1)
<1>9. StringValue(u) = Unquote(v)
  BY <1>6, <1>7, <1>8 DEF StringValue, Last
<1>10. IsPart(v, u, 2, k - 1)
  BY <1>5, <1>6, <1>7 DEF IsPart
<1> HIDE DEF v
<1>11. IsPart(v, c, o + 2 - 1, o + (k - 1) - 1)
  BY <1>4, <1>10, PartOfPart
<1>12. o + 2 - 1 = o + 1 /\ o + (k - 1) - 1 = e - 1
  BY <1>1, <1>2, <1>6
<1>13. v = SubSeq(c, o + 1, e - 1)
  BY <1>11, <1>12 DEF IsPart
<1> QED
  BY <1>3, <1>9, <1>13

(* An object whose string is not closed before its brace is undecoded. *)
LEMMA ObjectOpen ==
    ASSUME NEW c, NEW n, NEW key, NEW o, Begins(c, 0, n, key, o), NEW l, l = Len(c),
           c[l] = "close", NEW e \in o..(l - 1), c[e] \notin White, c[e] # "q" \/ e = o,
           \A i \in (e + 1)..(l - 1) : c[i] \in White
    PROVE  Unmarshal(c) = Undecoded
<1>1. c \in Seq(Symbols) /\ o \in Nat /\ o >= 1 /\ l \in Nat
  BY DEF Begins
<1>2. e \in Nat /\ o <= e /\ e <= l - 1
  BY <1>1
<1> DEFINE u == SubSeq(c, o, e)
<1>3. Unmarshal(c) = IF key = "content" THEN StringValue(u) ELSE Undecoded
  BY ObjectValue
<1>4. IsPart(u, c, o, e)
  BY <1>1, <1>2 DEF IsPart
<1> HIDE DEF u
<1> DEFINE k == e - o + 1
<1>5. /\ u \in Seq(Symbols) /\ Len(u) = k
      /\ \A i \in 1..k : u[i] = c[o + i - 1]
  BY <1>4, PartIs DEF PartBounds
<1>6. k \in Nat /\ k >= 1 /\ k \in 1..k /\ o + k - 1 = e /\ (e = o => k = 1)
  BY <1>1, <1>2
<1> HIDE DEF k
<1>7. u[k] = c[e]
  BY <1>5, <1>6
<1>8. StringValue(u) = Undecoded
  <2>1. CASE e = o
    <3>1. ~(Len(u) >= 2)
      BY <1>5, <1>6, <2>1
    <3> QED
      BY <3>1 DEF StringValue
  <2>2. CASE c[e] # "q"
    BY <1>5, <1>7, <2>2 DEF StringValue, Last
  <2> QED
    BY <2>1, <2>2
<1> QED
  BY <1>3, <1>8

(* A part of a text, wherever it is. *)
Within(u, t) == \E a, b \in Nat : IsPart(u, t, a, b)

(* Within is transitive. *)
LEMMA WithinWithin ==
    ASSUME NEW t, NEW u, Within(u, t), NEW v, Within(v, u)
    PROVE  Within(v, t)
<1>1. PICK a, b \in Nat : IsPart(u, t, a, b)
  BY DEF Within
<1>2. PICK i, j \in Nat : IsPart(v, u, i, j)
  BY DEF Within
<1>3. IsPart(v, t, a + i - 1, a + j - 1)
  BY <1>1, <1>2, PartOfPart
<1>4. a + i - 1 \in Nat /\ a + j - 1 \in Nat
  BY <1>3 DEF IsPart
<1> QED
  BY <1>3, <1>4 DEF Within

(* What is within a text is a text. *)
LEMMA WithinTyped ==
    ASSUME NEW t, NEW u, Within(u, t)
    PROVE  u \in Seq(Symbols) /\ t \in Seq(Symbols)
<1>1. PICK a, b \in Nat : IsPart(u, t, a, b)
  BY DEF Within
<1> QED
  BY <1>1, PartIs DEF PartBounds

(* A text is within itself. *)
LEMMA WithinSelf == ASSUME NEW t \in Seq(Symbols) PROVE Within(t, t)
<1>1. IsPart(t, t, 1, Len(t)) /\ Len(t) \in Nat
  BY WholeIs
<1> QED
  BY <1>1 DEF Within

(* What follows a position is within the text. *)
LEMMA RestWithin ==
    ASSUME NEW t \in Seq(Symbols), NEW i \in Nat, 1 <= i, i <= Len(t) + 1
    PROVE  Within(Rest(t, i), t)
<1> DEFINE b == Len(t)
<1>1. IsPart(t, t, 1, b) /\ b \in Nat /\ i <= b - 1 + 2
  BY WholeIs
<1> HIDE DEF b
<1>2. IsPart(Rest(t, i), t, 1 + i - 1, b)
  BY <1>1, RestOfPart
<1>3. 1 + i - 1 \in Nat
  OBVIOUS
<1> QED
  BY <1>1, <1>2, <1>3 DEF Within

(* A text without its first symbol is within it. *)
LEMMA TailWithin ==
    ASSUME NEW t \in Seq(Symbols), t # <<>>
    PROVE  Within(Tail(t), t)
<1> DEFINE b == Len(t)
<1>1. IsPart(t, t, 1, b) /\ b \in Nat /\ 1 <= b
  BY WholeIs
<1> HIDE DEF b
<1>2. IsPart(Tail(t), t, 1 + 1, b)
  BY <1>1, TailOfPart
<1>3. 1 + 1 \in Nat
  OBVIOUS
<1> QED
  BY <1>1, <1>2, <1>3 DEF Within

(* The empty text is within every text. *)
LEMMA EmptyWithin ==
    ASSUME NEW t \in Seq(Symbols)
    PROVE  Within(<<>>, t)
<1> DEFINE u == SubSeq(t, 1, 0)
<1>1. IsPart(u, t, 1, 0)
  <2>1. 1 \in Nat /\ 0 \in Nat /\ 1 <= 1 /\ 1 <= 0 + 1 /\ 0 <= Len(t)
    OBVIOUS
  <2> QED
    BY <2>1 DEF IsPart
<1>2. u = <<>>
  OBVIOUS
<1>3. IsPart(<<>>, t, 1, 0) /\ 1 \in Nat /\ 0 \in Nat
  BY <1>1, <1>2
<1> QED
  BY <1>3 DEF Within

(* The first symbol of a kind, if there is one. *)
LEMMA FirstExists ==
    ASSUME NEW m \in Nat, NEW S, S \subseteq 1..m, S # {}
    PROVE  \E f \in S : (\A i \in S : f <= i) /\ FirstOf(S) = f
<1> DEFINE I == {l \in 0..m : (\E i \in S : i <= l) =>
                    \E f \in S : \A i \in S : f <= i}
<1>1. 0 \in I
  OBVIOUS
<1>2. ASSUME NEW l \in 1..m, l - 1 \in I PROVE l \in I
  <2>1. l \in Nat /\ l - 1 \in 0..m /\ l \in 0..m
    OBVIOUS
  <2>2. CASE \E i \in S : i <= l - 1
    BY <1>2, <2>1, <2>2
  <2>3. CASE ~ \E i \in S : i <= l - 1
    <3>1. \A i \in S : l <= i
      <4> SUFFICES ASSUME NEW i \in S PROVE l <= i
        OBVIOUS
      <4>1. i \in 1..m /\ ~(i <= l - 1)
        BY <2>3
      <4> QED
        BY <4>1, <2>1
    <3>2. ASSUME NEW i \in S, i <= l PROVE i = l
      <4>1. i \in 1..m /\ l <= i
        BY <3>1
      <4> QED
        BY <4>1, <2>1, <3>2
    <3> QED
      BY <2>1, <3>1, <3>2
  <2> QED
    BY <2>2, <2>3
<1>3. m \in I
  <2> HIDE DEF I
  <2>1. \A n \in 0..m : n \in I
    BY <1>1, <1>2, UpToInduction
  <2>2. m \in 0..m
    OBVIOUS
  <2> QED
    BY <2>1, <2>2
<1>4. \E i \in S : i <= m
  <2>1. PICK i \in S : TRUE
    OBVIOUS
  <2>2. i \in 1..m
    OBVIOUS
  <2> QED
    BY <2>1, <2>2
<1>5. PICK f \in S : \A i \in S : f <= i
  BY <1>3, <1>4
<1>6. S \subseteq Int
  OBVIOUS
<1>7. FirstOf(S) = f
  BY <1>5, <1>6, FirstIs
<1> QED
  BY <1>5, <1>7

(* TrimLeft only takes away. *)
LEMMA TrimLeftWithin ==
    ASSUME NEW t \in Seq(Symbols)
    PROVE  Within(TrimLeft(t), t)
<1>1. CASE Blank(t)
  BY <1>1, EmptyWithin DEF TrimLeft
<1>2. CASE ~Blank(t)
  <2> DEFINE S == {i \in DOMAIN t : t[i] \notin White}
             m == Len(t)
  <2>1. m \in Nat /\ DOMAIN t = 1..m
    OBVIOUS
  <2>2. S \subseteq 1..m /\ S # {}
    BY <1>2, <2>1 DEF Blank
  <2>3. TrimLeft(t) = Rest(t, FirstOf(S))
    BY <1>2 DEF TrimLeft
  <2> HIDE DEF S
  <2>4. PICK f \in S : FirstOf(S) = f
    BY <2>1, <2>2, FirstExists
  <2>5. f \in 1..m
    BY <2>2
  <2>6. f \in Nat /\ 1 <= f /\ f <= Len(t) + 1
    BY <2>1, <2>5
  <2>7. Within(Rest(t, f), t)
    BY <2>6, RestWithin
  <2> QED
    BY <2>3, <2>4, <2>7
<1> QED
  BY <1>1, <1>2

(* TrimRight only takes away. *)
LEMMA TrimRightWithin ==
    ASSUME NEW t \in Seq(Symbols), NEW cutset
    PROVE  Within(TrimRight(t, cutset), t)
<1> DEFINE S == {i \in DOMAIN t : t[i] \notin cutset}
           m == Len(t)
<1>1. m \in Nat /\ DOMAIN t = 1..m /\ IsPart(t, t, 1, m)
  BY WholeIs
<1>2. CASE S = {}
  BY <1>2, EmptyWithin DEF TrimRight
<1>3. CASE S # {}
  <2>1. PICK i \in S : TRUE
    BY <1>3
  <2>2. i \in Nat /\ 1 <= i /\ i <= m /\ t[i] \notin cutset
    BY <1>1
  <2> HIDE DEF m, S
  <2>3. PICK e \in i..m : t[e] \notin cutset /\ \A j \in (e + 1)..m : t[j] \in cutset
    BY <1>1, <2>2, LastNotIn
  <2>4. e \in 1..m /\ e \in Nat /\ 1 \in Nat
    BY <1>1, <2>2
  <2>5. IsPart(TrimRight(t, cutset), t, 1, e)
    BY <1>1, <2>3, <2>4, TrimRightIs
  <2> QED
    BY <2>4, <2>5 DEF Within
<1> QED
  BY <1>2, <1>3

(* TrimSpace only takes away. *)
LEMMA TrimSpaceWithin ==
    ASSUME NEW t \in Seq(Symbols)
    PROVE  Within(TrimSpace(t), t)
<1>1. Within(TrimLeft(t), t)
  BY TrimLeftWithin
<1>2. TrimLeft(t) \in Seq(Symbols)
  BY <1>1, WithinTyped
<1>3. Within(TrimRight(TrimLeft(t), White), TrimLeft(t))
  BY <1>2, TrimRightWithin
<1> QED
  BY <1>1, <1>3, WithinWithin DEF TrimSpace

-----------------------------------------------------------------------------
(* A text in which no quote comes after a colon has no value. *)
Valueless(w) ==
    \A i \in 1..Len(w) : \A j \in 1..Len(w) : i < j /\ w[i] = ":" => w[j] # "q"

(* A part of a text without a value has none. *)
LEMMA ValuelessWithin ==
    ASSUME NEW t, Valueless(t), NEW u, Within(u, t)
    PROVE  Valueless(u)
<1>1. PICK a, b \in Nat : IsPart(u, t, a, b)
  BY DEF Within
<1>2. /\ t \in Seq(Symbols) /\ a \in Nat /\ b \in Nat /\ 1 <= a /\ a <= b + 1 /\ b <= Len(t)
      /\ u \in Seq(Symbols) /\ Len(u) = b - a + 1
      /\ \A l \in 1..(b - a + 1) : u[l] = t[a + l - 1]
  BY <1>1, PartIs DEF PartBounds
<1> SUFFICES ASSUME NEW i \in 1..Len(u), NEW j \in 1..Len(u), i < j, u[i] = ":"
             PROVE  u[j] # "q"
  BY DEF Valueless
<1>3. u[i] = t[a + i - 1] /\ u[j] = t[a + j - 1]
  BY <1>2
<1>4. a + i - 1 \in 1..Len(t) /\ a + j - 1 \in 1..Len(t) /\ a + i - 1 < a + j - 1
  BY <1>2
<1> QED
  BY <1>3, <1>4 DEF Valueless

(* A colon first, and then no string. *)
LEMMA NoValue ==
    ASSUME NEW v \in Seq(Symbols), Valueless(v)
    PROVE  Value(v) = Undecoded
<1>1. CASE StartsWith(v, ":")
  <2> DEFINE x == TrimLeft(Tail(v))
  <2>1. v # <<>> /\ v[1] = ":"
    BY <1>1 DEF StartsWith
  <2> DEFINE b == Len(v)
  <2>2. b \in Nat /\ 1 <= b /\ IsPart(v, v, 1, b)
    BY <2>1, WholeIs
  <2> HIDE DEF b
  <2>3. IsPart(Tail(v), v, 1 + 1, b)
    BY <2>2, TailOfPart
  <2>4. Tail(v) \in Seq(Symbols)
    BY <2>3, PartIs DEF PartBounds
  <2>5. Within(x, Tail(v))
    BY <2>4, TrimLeftWithin
  <2>6. PICK i, j \in Nat : IsPart(x, Tail(v), i, j)
    BY <2>5 DEF Within
  <2> HIDE DEF x
  <2>7. IsPart(x, v, 1 + 1 + i - 1, 1 + 1 + j - 1)
    BY <2>3, <2>6, PartOfPart
  <2> DEFINE k == 1 + 1 + i - 1
             l == 1 + 1 + j - 1
  <2>8. /\ k \in Nat /\ l \in Nat /\ l <= Len(v) /\ x \in Seq(Symbols) /\ Len(x) = l - k + 1
        /\ \A m \in 1..(l - k + 1) : x[m] = v[k + m - 1]
    BY <2>7, PartIs DEF PartBounds
  <2>9. 1 < k
    <3>1. 1 <= i
      BY <2>6 DEF IsPart
    <3> QED
      BY <3>1
  <2> HIDE DEF k, l
  <2>10. ASSUME x # <<>> PROVE x[1] # "q"
    <3>1. Len(x) >= 1
      BY <2>8, <2>10
    <3>2. 1 \in 1..(l - k + 1) /\ k + 1 - 1 = k /\ k <= Len(v)
      BY <2>8, <3>1
    <3>3. x[1] = v[k]
      BY <2>8, <3>2
    <3>4. 1 \in 1..Len(v) /\ k \in 1..Len(v)
      BY <2>8, <2>9, <3>2
    <3> QED
      BY <2>1, <2>9, <3>3, <3>4 DEF Valueless
  <2>11. StringValue(x) = Undecoded
    <3>1. Len(x) >= 2 => x # <<>>
      BY <2>8
    <3> QED
      BY <2>10, <3>1 DEF StringValue
  <2> QED
    BY <1>1, <2>11 DEF Value, x
<1>2. CASE ~StartsWith(v, ":")
  BY <1>2 DEF Value
<1> QED
  BY <1>1, <1>2

(* json.Unmarshal does not decode a text without a value. *)
LEMMA UnmarshalValueless ==
    ASSUME NEW w \in Seq(Symbols), Valueless(w)
    PROVE  Unmarshal(w) = Undecoded
<1> DEFINE t == TrimSpace(w)
           inner == SubSeq(t, 2, Len(t) - 1)
           u == TrimSpace(inner)
           v == TrimLeft(Rest(u, 4))
<1>1. Within(t, w)
  BY TrimSpaceWithin
<1>2. t \in Seq(Symbols)
  BY <1>1, WithinTyped
<1> SUFFICES ASSUME Len(t) >= 2, Len(u) > 3 PROVE Value(v) = Undecoded
  BY DEF Unmarshal, Object, Member
<1> HIDE DEF t
<1>3. Within(inner, t)
  <2>1. IsPart(inner, t, 2, Len(t) - 1) /\ Len(t) - 1 \in Nat /\ 2 \in Nat
    BY <1>2 DEF IsPart
  <2> HIDE DEF inner
  <2> QED
    BY <2>1 DEF Within
<1>4. inner \in Seq(Symbols)
  BY <1>3, WithinTyped
<1> HIDE DEF inner
<1>5. Within(u, inner)
  BY <1>4, TrimSpaceWithin
<1>6. u \in Seq(Symbols)
  BY <1>5, WithinTyped
<1> HIDE DEF u
<1>7. Within(Rest(u, 4), u)
  BY <1>6, RestWithin
<1>8. Rest(u, 4) \in Seq(Symbols)
  BY <1>7, WithinTyped
<1>9. Within(v, Rest(u, 4))
  BY <1>8, TrimLeftWithin
<1> HIDE DEF v
<1>10. Within(v, w)
  BY <1>1, <1>3, <1>5, <1>7, <1>9, WithinWithin
<1>11. v \in Seq(Symbols) /\ Valueless(v)
  BY <1>10, WithinTyped, ValuelessWithin
<1> QED
  BY <1>11, NoValue

(* scanJSONString finds no key in a text without a value. *)
LEMMA ScanKeyValueless ==
    ASSUME NEW w \in Seq(Symbols), Valueless(w), NEW key
    PROVE  ScanKey(w, key) = Undecoded
<1> DEFINE found == {i \in 1..(Len(w) - 2) : SubSeq(w, i, i + 2) = <<"q", key, "q">>}
           after == Rest(w, FirstOf(found) + 3)
           colons == {i \in DOMAIN after : after[i] = ":"}
           behind == Rest(after, FirstOf(colons) + 1)
           value == TrimSpace(behind)
<1> SUFFICES ASSUME found # {}, colons # {} PROVE ~StartsWith(value, "q")
  BY DEF ScanKey
<1> DEFINE b == Len(w)
<1>1. b \in Nat /\ IsPart(w, w, 1, b)
  BY WholeIs
<1>2. found \subseteq 1..b
  OBVIOUS
<1> HIDE DEF b
<1>3. PICK f \in found : FirstOf(found) = f
  <2> HIDE DEF found
  <2> QED
    BY <1>1, <1>2, FirstExists
<1>4. f \in Nat /\ 1 <= f /\ f + 2 <= b
  BY <1>1 DEF b
<1> HIDE DEF found
<1>5. IsPart(after, w, f + 3, b)
  <2>1. f + 3 \in Nat /\ 1 <= f + 3 /\ f + 3 <= b - 1 + 2
    BY <1>1, <1>4
  <2>2. IsPart(Rest(w, f + 3), w, 1 + (f + 3) - 1, b)
    BY <1>1, <2>1, RestOfPart
  <2>3. 1 + (f + 3) - 1 = f + 3
    BY <1>4
  <2> QED
    BY <1>3, <2>2, <2>3
<1> HIDE DEF after
<1>6. after \in Seq(Symbols)
  BY <1>5, PartIs DEF PartBounds
<1> DEFINE m == Len(after)
<1>7. m \in Nat /\ colons \subseteq 1..m /\ IsPart(after, after, 1, m)
  BY <1>6, WholeIs
<1> HIDE DEF m
<1>8. PICK g \in colons : FirstOf(colons) = g
  <2> HIDE DEF colons
  <2> QED
    BY <1>7, FirstExists
<1>9. g \in 1..m /\ after[g] = ":" /\ g \in Nat
  BY <1>7
<1> HIDE DEF colons
<1>10. IsPart(behind, after, g + 1, m)
  <2>1. g + 1 \in Nat /\ 1 <= g + 1 /\ g + 1 <= m - 1 + 2
    BY <1>7, <1>9
  <2>2. IsPart(Rest(after, g + 1), after, 1 + (g + 1) - 1, m)
    BY <1>7, <2>1, RestOfPart
  <2>3. 1 + (g + 1) - 1 = g + 1
    BY <1>9
  <2> QED
    BY <1>8, <2>2, <2>3
<1> HIDE DEF behind
<1>11. behind \in Seq(Symbols)
  BY <1>10, PartIs DEF PartBounds
<1>12. PICK i, j \in Nat : IsPart(value, behind, i, j)
  BY <1>11, TrimSpaceWithin DEF Within
<1> HIDE DEF value
<1> DEFINE k == g + 1 + i - 1
           l == g + 1 + j - 1
<1>13. IsPart(value, after, k, l)
  BY <1>10, <1>12, PartOfPart
<1>14. g < k
  <2>1. 1 <= i
    BY <1>12 DEF IsPart
  <2> QED
    BY <1>9, <2>1
<1> HIDE DEF k, l
<1>15. /\ k \in Nat /\ l \in Nat /\ l <= Len(after) /\ value \in Seq(Symbols)
       /\ Len(value) = l - k + 1 /\ \A x \in 1..(l - k + 1) : value[x] = after[k + x - 1]
  BY <1>13, PartIs DEF PartBounds
<1>16. Valueless(after)
  <2>1. Within(after, w)
    <3>1. f + 3 \in Nat
      BY <1>4
    <3> QED
      BY <1>1, <1>5, <3>1 DEF Within
  <2> QED
    BY <2>1, ValuelessWithin
<1> SUFFICES ASSUME value # <<>>, value[1] = "q" PROVE FALSE
  BY DEF StartsWith
<1>17. 1 \in 1..(l - k + 1) /\ k + 1 - 1 = k /\ k <= Len(after)
  BY <1>15
<1>18. after[k] = "q"
  BY <1>15, <1>17
<1>19. k \in 1..Len(after) /\ g \in 1..Len(after)
  BY <1>9, <1>14, <1>15, <1>17 DEF m
<1>20. \A x \in 1..Len(after) : \A y \in 1..Len(after) : x < y /\ after[x] = ":" => after[y] # "q"
  BY <1>16 DEF Valueless
<1>21. after[k] # "q"
  BY <1>9, <1>14, <1>19, <1>20
<1> QED
  BY <1>18, <1>21

(* The states of the scan for open strings and braces. *)
InText(out) == [out |-> out, inString |-> TRUE, escaped |-> FALSE, openBraces |-> 1]

InEscape(out) == [out |-> out, inString |-> TRUE, escaped |-> TRUE, openBraces |-> 1]

Outside(out, n) == [out |-> out, inString |-> FALSE, escaped |-> FALSE, openBraces |-> n]

Verbatim == Symbols \ {"\\", "q", "NL"}

(* What structuralRepair does with a symbol inside a string: only a raw newline changes. *)
LEMMA StructInside ==
    ASSUME NEW out
    PROVE  /\ \A s \in Verbatim : StructuralStep(InText(out), s) = InText(out \o <<s>>)
           /\ StructuralStep(InText(out), "\\") = InEscape(out \o <<"\\">>)
           /\ StructuralStep(InText(out), "NL") = InText(out \o <<"\\", "n">>)
           /\ StructuralStep(InText(out), "q") = Outside(out \o <<"q">>, 1)
           /\ \A s \in Symbols : StructuralStep(InEscape(out), s) = InText(out \o <<s>>)
<1>1. ASSUME NEW s \in Verbatim PROVE StructuralStep(InText(out), s) = InText(out \o <<s>>)
  BY <1>1 DEF StructuralStep, InText, Verbatim
<1>2. StructuralStep(InText(out), "\\") = InEscape(out \o <<"\\">>)
  BY DEF StructuralStep, InText, InEscape
<1>3. StructuralStep(InText(out), "NL") = InText(out \o <<"\\", "n">>)
  BY DEF StructuralStep, InText
<1>4. StructuralStep(InText(out), "q") = Outside(out \o <<"q">>, 1)
  BY DEF StructuralStep, InText, Outside
<1>5. ASSUME NEW s \in Symbols PROVE StructuralStep(InEscape(out), s) = InText(out \o <<s>>)
  BY DEF StructuralStep, InText, InEscape
<1> QED
  BY <1>1, <1>2, <1>3, <1>4, <1>5

(* What structuralRepair does with a symbol outside of strings: it counts the braces. *)
LEMMA StructOutside ==
    ASSUME NEW out
    PROVE  /\ StructuralStep(Outside(out, 0), "open") = Outside(out \o <<"open">>, 1)
           /\ StructuralStep(Outside(out, 1), "q") = InText(out \o <<"q">>)
           /\ StructuralStep(Outside(out, 1), "close") = Outside(out \o <<"close">>, 0)
           /\ \A s \in Symbols \ {"q", "open", "close"} :
                 StructuralStep(Outside(out, 1), s) = Outside(out \o <<s>>, 1)
<1>1. StructuralStep(Outside(out, 0), "open") = Outside(out \o <<"open">>, 1)
  BY DEF StructuralStep, Outside
<1>2. StructuralStep(Outside(out, 1), "q") = InText(out \o <<"q">>)
  BY DEF StructuralStep, Outside, InText
<1>3. StructuralStep(Outside(out, 1), "close") = Outside(out \o <<"close">>, 0)
  BY DEF StructuralStep, Outside
<1>4. ASSUME NEW s \in Symbols \ {"q", "open", "close"}
      PROVE  StructuralStep(Outside(out, 1), s) = Outside(out \o <<s>>, 1)
  BY <1>4 DEF StructuralStep, Outside
<1> QED
  BY <1>1, <1>2, <1>3, <1>4

(* What was written before, and the next i symbols as they are. *)
Upto(out, w, g, i) == out \o SubSeq(w, g + 1, g + i)

(* A text taken over symbol by symbol. *)
LEMMA UptoNext ==
    ASSUME NEW out \in Seq(Symbols), NEW w \in Seq(Symbols), NEW g \in Nat, NEW i \in Nat,
           g + i + 1 <= Len(w)
    PROVE  /\ Upto(out, w, g, 0) = out
           /\ Upto(out, w, g, i) \in Seq(Symbols) /\ w[g + i + 1] \in Symbols
           /\ Upto(out, w, g, i) \o <<w[g + i + 1]>> = Upto(out, w, g, i + 1)
<1>1. Upto(out, w, g, 0) = out
  <2>1. SubSeq(w, g + 1, g + 0) = <<>>
    OBVIOUS
  <2> QED
    BY <2>1 DEF Upto
<1>2. g + i + 1 \in 1..Len(w) /\ w[g + i + 1] \in Symbols
  OBVIOUS
<1> DEFINE s == w[g + i + 1]
           u == SubSeq(w, g + 1, g + i)
           v == SubSeq(w, g + 1, g + (i + 1))
<1>3. u \in Seq(Symbols) /\ Len(u) = i /\ v \in Seq(Symbols) /\ Len(v) = i + 1
  OBVIOUS
<1>4. \A j \in 1..i : u[j] = w[g + j] /\ v[j] = w[g + j]
  OBVIOUS
<1>5. v[i + 1] = s
  OBVIOUS
<1>6. (out \o u) \o <<s>> = out \o v
  <2> HIDE DEF u, v, s
  <2>1. s \in Symbols
    BY <1>2 DEF s
  <2>2. \A j \in 1..i : u[j] = v[j]
    BY <1>4
  <2>3. v = u \o <<s>>
    BY <1>3, <1>5, <2>1, <2>2
  <2> QED
    BY <1>3, <2>1, <2>3
<1>7. Upto(out, w, g, i) = out \o u /\ Upto(out, w, g, i + 1) = out \o v
  BY DEF Upto
<1>8. out \o u \in Seq(Symbols)
  <2> HIDE DEF u
  <2> QED
    BY <1>3
<1> HIDE DEF u, v, s
<1>9. Upto(out, w, g, i) \in Seq(Symbols) /\ Upto(out, w, g, i) \o <<s>> = Upto(out, w, g, i + 1)
  BY <1>6, <1>7, <1>8
<1> QED
  BY <1>1, <1>2, <1>9 DEF s

(* One symbol of a string is kept as it is. *)
LEMMA StructKeeps ==
    ASSUME NEW w \in Seq(Symbols), NEW f, Structures(f, w), NEW out \in Seq(Symbols),
           NEW g \in Nat, NEW i \in Nat, g + i + 1 <= Len(w)
    PROVE  /\ f[g + i] = InText(Upto(out, w, g, i)) /\ w[g + i + 1] \in Verbatim
                 => f[g + (i + 1)] = InText(Upto(out, w, g, i + 1))
           /\ f[g + i] = InText(Upto(out, w, g, i)) /\ w[g + i + 1] = "\\"
                 => f[g + (i + 1)] = InEscape(Upto(out, w, g, i + 1))
           /\ f[g + i] = InEscape(Upto(out, w, g, i))
                 => f[g + (i + 1)] = InText(Upto(out, w, g, i + 1))
<1> DEFINE m == g + i + 1
<1>1. m \in 1..Len(w) /\ m - 1 = g + i /\ m = g + (i + 1)
  OBVIOUS
<1> DEFINE s == w[m]
<1>2. f[m] = StructuralStep(f[m - 1], s)
  <2> HIDE DEF m
  <2> QED
    BY <1>1 DEF Structures
<1>3. f[g + (i + 1)] = StructuralStep(f[g + i], s)
  BY <1>1, <1>2
<1> DEFINE u == Upto(out, w, g, i)
           v == Upto(out, w, g, i + 1)
<1>4. s \in Symbols /\ u \o <<s>> = v
  BY UptoNext
<1> HIDE DEF m, s, u, v
<1>5. ASSUME f[g + i] = InText(u), s \in Verbatim PROVE f[g + (i + 1)] = InText(v)
  BY <1>3, <1>4, <1>5, StructInside
<1>6. ASSUME f[g + i] = InText(u), s = "\\" PROVE f[g + (i + 1)] = InEscape(v)
  BY <1>3, <1>4, <1>6, StructInside
<1>7. ASSUME f[g + i] = InEscape(u) PROVE f[g + (i + 1)] = InText(v)
  BY <1>3, <1>4, <1>7, StructInside
<1> QED
  BY <1>5, <1>6, <1>7 DEF m, s, u, v

(* The symbols an item is written with, apart from backslash, quote and newline. *)
LEMMA VerbatimAre ==
    /\ "a" \in Verbatim /\ "n" \in Verbatim /\ "s" \in Verbatim /\ "close" \in Verbatim
    /\ "fence" \in Verbatim /\ "r1" \in Verbatim /\ "r2" \in Verbatim /\ "u" \in Verbatim
    /\ "X" \in Verbatim /\ "H" \in Verbatim /\ "L" \in Verbatim
BY DEF Verbatim, Symbols

(* An item: a bare newline becomes an escape. *)
Esc(x) == IF x = "rawNewline" THEN "newline" ELSE x

(* Inside a string structuralRepair keeps an item, with a raw newline escaped. *)
LEMMA StructItem ==
    ASSUME NEW w, NEW f, Structures(f, w), NEW g, NEW x, ItemAt(w, g, x), x # "rawQuote",
           NEW out \in Seq(Symbols), f[g] = InText(out)
    PROVE  f[g + Len(Source[x])] = InText(out \o Source[Esc(x)])
<1>1. w \in Seq(Symbols) /\ g \in Nat /\ x \in Items /\ g + Len(Source[x]) <= Len(w)
      /\ Shows(w, g, Source[x]) /\ Len(Source[x]) \in 1..6
  BY TextsTyped DEF ItemAt
<1> DEFINE l == Len(Source[x])
           U(i) == Upto(out, w, g, i)
<1>2. f[g + 0] = InText(U(0))
  <2>1. U(0) = out
    <3>1. 0 \in Nat /\ g + 0 + 1 <= Len(w)
      <4>1. Len(w) \in Nat /\ l \in 1..6 /\ g + l <= Len(w) /\ g \in Nat
        BY <1>1
      <4> HIDE DEF l
      <4> QED
        BY <4>1
    <3> QED
      BY <1>1, <3>1, UptoNext
  <2>2. g + 0 = g
    BY <1>1
  <2> QED
    BY <2>1, <2>2
<1>3. ASSUME NEW i \in 0..5, i < l
      PROVE  /\ f[g + i] = InText(U(i)) /\ w[g + i + 1] \in Verbatim
                   => f[g + (i + 1)] = InText(U(i + 1))
             /\ f[g + i] = InText(U(i)) /\ w[g + i + 1] = "\\"
                   => f[g + (i + 1)] = InEscape(U(i + 1))
             /\ f[g + i] = InEscape(U(i)) => f[g + (i + 1)] = InText(U(i + 1))
  <2>1. i \in Nat /\ g + i + 1 <= Len(w)
    BY <1>1, <1>3
  <2> QED
    BY <1>1, <2>1, StructKeeps
<1>4. U(l) = out \o Source[x]
  <2> DEFINE t == Source[x]
             v == SubSeq(w, g + 1, g + l)
  <2>1. t \in Seq(Symbols)
    BY <1>1, TextsTyped
  <2>2. \A j \in 1..l : w[g + j] = t[j]
    BY <1>1 DEF Shows
  <2> HIDE DEF l, t
  <2>3. l \in Nat /\ Len(t) = l /\ g + l <= Len(w) /\ g \in Nat
    BY <1>1 DEF l, t
  <2>4. v \in Seq(Symbols) /\ Len(v) = l /\ \A j \in 1..l : v[j] = w[g + j]
    BY <1>1, <2>3
  <2>5. v = t
    <3> HIDE DEF v
    <3> QED
      BY <2>1, <2>2, <2>3, <2>4
  <2> QED
    BY <2>5 DEF Upto, t
<1> HIDE DEF U
<1>5. CASE x = "rawNewline"
  <2>1. Source[x] = <<w[g + 1]>> /\ l = 1 /\ w[g + 1] = "NL"
    BY <1>1, <1>5, SymbolsOf DEF Singles
  <2>2. f[g + 1] = StructuralStep(f[g], "NL")
    <3> DEFINE m == g + 1
    <3>1. m \in 1..Len(w) /\ m - 1 = g /\ w[m] = "NL"
      BY <1>1, <2>1
    <3> HIDE DEF m
    <3>2. f[m] = StructuralStep(f[m - 1], w[m])
      BY <3>1 DEF Structures
    <3>3. f[m] = StructuralStep(f[g], "NL")
      BY <3>1, <3>2
    <3> QED
      BY <3>3 DEF m
  <2>3. f[g + 1] = InText(out \o <<"\\", "n">>)
    BY <2>2, StructInside
  <2>4. Source[Esc(x)] = <<"\\", "n">>
    BY <1>5, ItemTexts DEF Esc
  <2> QED
    BY <2>1, <2>3, <2>4
<1> SUFFICES ASSUME x # "rawNewline" PROVE f[g + l] = InText(U(l))
  BY <1>4, <1>5 DEF Esc
<1>6. 0 \in 0..5 /\ 1 \in 0..5 /\ 2 \in 0..5 /\ 3 \in 0..5 /\ 4 \in 0..5 /\ 5 \in 0..5
      /\ g + 0 + 1 = g + 1 /\ g + 1 + 1 = g + 2 /\ g + 2 + 1 = g + 3 /\ g + 3 + 1 = g + 4
      /\ g + 4 + 1 = g + 5 /\ g + 5 + 1 = g + 6
      /\ 0 + 1 = 1 /\ 1 + 1 = 2 /\ 2 + 1 = 3 /\ 3 + 1 = 4 /\ 4 + 1 = 5 /\ 5 + 1 = 6
  BY <1>1
<1>7. CASE x \in {"a", "n", "space", "brace", "fence"}
  <2>1. l = 1
    BY <1>1, <1>7, SymbolsOf DEF Singles
  <2>2. w[g + 1] \in Verbatim
    <3>1. /\ x = "a" => w[g + 1] = "a"
          /\ x = "n" => w[g + 1] = "n"
          /\ x = "space" => w[g + 1] = "s"
          /\ x = "brace" => w[g + 1] = "close"
          /\ x = "fence" => w[g + 1] = "fence"
      BY <1>1, SymbolsOf
    <3> HIDE DEF U, l
    <3> QED
      BY <1>7, <3>1, VerbatimAre
  <2>3. f[g + (0 + 1)] = InText(U(0 + 1))
    BY <1>2, <1>3, <1>6, <2>1, <2>2
  <2> QED
    BY <1>6, <2>1, <2>3
<1>8. CASE x = "rune"
  <2>1. l = 2 /\ w[g + 1] = "r1" /\ w[g + 2] = "r2"
    BY <1>1, <1>8, SymbolsOf
  <2>2. w[g + 1] \in Verbatim /\ w[g + 2] \in Verbatim
    BY <2>1, VerbatimAre
  <2>3. f[g + (0 + 1)] = InText(U(0 + 1))
    BY <1>2, <1>3, <1>6, <2>1, <2>2
  <2>4. f[g + 1] = InText(U(1))
    BY <1>6, <2>3
  <2>5. f[g + (1 + 1)] = InText(U(1 + 1))
    BY <1>3, <1>6, <2>1, <2>2, <2>4
  <2> QED
    BY <1>6, <2>1, <2>5
<1>9. CASE x \in {"newline", "quote", "backslash", "unicode", "pair"}
  <2>0. /\ x = "newline" => l = 2 /\ w[g + 1] = "\\"
        /\ x = "quote" => l = 2 /\ w[g + 1] = "\\"
        /\ x = "backslash" => l = 2 /\ w[g + 1] = "\\"
        /\ x = "unicode" => l = 3 /\ w[g + 1] = "\\"
        /\ x = "pair" => l = 6 /\ w[g + 1] = "\\"
    <3>1. x = "newline" => l = 2 /\ w[g + 1] = "\\"
      BY <1>1, SymbolsOf, ZenonT(60)
    <3>2. x = "quote" => l = 2 /\ w[g + 1] = "\\"
      BY <1>1, SymbolsOf, ZenonT(60)
    <3>3. x = "backslash" => l = 2 /\ w[g + 1] = "\\"
      BY <1>1, SymbolsOf, ZenonT(60)
    <3>4. x = "unicode" => l = 3 /\ w[g + 1] = "\\"
      BY <1>1, SymbolsOf, ZenonT(60)
    <3>5. x = "pair" => l = 6 /\ w[g + 1] = "\\"
      BY <1>1, SymbolsOf, ZenonT(60)
    <3> QED
      BY <3>1, <3>2, <3>3, <3>4, <3>5
  <2> HIDE DEF l
  <2>1. w[g + 1] = "\\" /\ l \in {2, 3, 6} /\ 0 < l /\ 1 < l
    BY <1>9, <2>0
  <2>2. f[g + (0 + 1)] = InEscape(U(0 + 1))
    BY <1>2, <1>3, <1>6, <2>1
  <2>3. f[g + 1] = InEscape(U(1))
    BY <1>6, <2>2
  <2>4. f[g + (1 + 1)] = InText(U(1 + 1))
    BY <1>3, <1>6, <2>1, <2>3
  <2>5. f[g + 2] = InText(U(2))
    BY <1>6, <2>4
  <2>6. CASE x \in {"newline", "quote", "backslash"}
    <3>1. l = 2
      BY <2>0, <2>6
    <3> QED
      BY <2>5, <3>1
  <2>7. CASE x = "unicode"
    <3>1. l = 3 /\ w[g + 3] = "X"
      BY <1>1, <2>7, SymbolsOf DEF l
    <3>2. f[g + (2 + 1)] = InText(U(2 + 1))
      BY <1>3, <1>6, <2>5, <3>1, VerbatimAre
    <3> QED
      BY <1>6, <3>1, <3>2
  <2>8. CASE x = "pair"
    <3>1. l = 6 /\ w[g + 3] = "H" /\ w[g + 4] = "\\" /\ w[g + 5] = "u" /\ w[g + 6] = "L"
      BY <1>1, <2>8, SymbolsOf DEF l
    <3>2. f[g + (2 + 1)] = InText(U(2 + 1))
      BY <1>3, <1>6, <2>5, <3>1, VerbatimAre
    <3>3. f[g + 3] = InText(U(3))
      BY <1>6, <3>2
    <3>4. f[g + (3 + 1)] = InEscape(U(3 + 1))
      BY <1>3, <1>6, <3>1, <3>3
    <3>5. f[g + 4] = InEscape(U(4))
      BY <1>6, <3>4
    <3>6. f[g + (4 + 1)] = InText(U(4 + 1))
      BY <1>3, <1>6, <3>1, <3>5
    <3>7. f[g + 5] = InText(U(5))
      BY <1>6, <3>6
    <3>8. f[g + (5 + 1)] = InText(U(5 + 1))
      BY <1>3, <1>6, <3>1, <3>7, VerbatimAre
    <3> QED
      BY <1>6, <3>1, <3>8
  <2> QED
    BY <1>9, <2>6, <2>7, <2>8
<1> QED
  BY <1>1, <1>7, <1>8, <1>9, ItemIsOne

(* A body with its bare newlines escaped, and no bare quote in its first n items. *)
Escaped(body) == [i \in DOMAIN body |-> Esc(body[i])]

Quoteless(body, n) == \A k \in 1..n : body[k] # "rawQuote"

(* An escaped item means what the item means. *)
LEMMA EscIs ==
    ASSUME NEW x \in Items
    PROVE  Esc(x) \in Items /\ Meaning[Esc(x)] = Meaning[x] /\ (x # "rawQuote" => Esc(x) \notin Raw)
<1>1. "newline" \in Items
  BY DEF Items, Source
<1>2. CASE x = "rawNewline"
  <2>1. Esc(x) = "newline"
    BY <1>2 DEF Esc
  <2>2. Meaning["newline"] = <<"NL">> /\ Meaning["rawNewline"] = <<"NL">>
    BY ItemTexts
  <2> QED
    BY <1>1, <1>2, <2>1, <2>2 DEF Raw
<1>3. CASE x # "rawNewline"
  BY <1>3 DEF Esc, Raw
<1> QED
  BY <1>2, <1>3

(* An escaped body means what the body means, and is clean unless it has raw quotes. *)
LEMMA EscapedIs ==
    ASSUME NEW body \in Seq(Items)
    PROVE  /\ Escaped(body) \in Seq(Items) /\ Len(Escaped(body)) = Len(body)
           /\ \A k \in 1..Len(body) : Escaped(body)[k] = Esc(body[k])
           /\ \A k \in 0..Len(body) : /\ Flat(Meaning, SubSeq(Escaped(body), 1, k))
                                            = Flat(Meaning, SubSeq(body, 1, k))
                                      /\ Quoteless(body, k) => Clean(Escaped(body), k)
<1> DEFINE e == Escaped(body)
           m == Len(body)
<1>1. m \in Nat /\ DOMAIN body = 1..m
  OBVIOUS
<1>2. \A k \in 1..m : body[k] \in Items /\ Esc(body[k]) \in Items
  <2>1. \A k \in 1..m : body[k] \in Items
    BY <1>1
  <2> QED
    BY <2>1, EscIs
<1>3. e = [i \in 1..m |-> Esc(body[i])]
  BY <1>1 DEF Escaped
<1> HIDE DEF e
<1>4. e \in Seq(Items) /\ Len(e) = m
  <2> HIDE DEF m
  <2> QED
    BY <1>1, <1>2, <1>3
<1>5. \A k \in 1..m : e[k] = Esc(body[k])
  BY <1>3
<1> DEFINE I == {k \in 0..m : Flat(Meaning, SubSeq(e, 1, k)) = Flat(Meaning, SubSeq(body, 1, k))}
<1>6. 0 \in I
  <2>1. Flat(Meaning, SubSeq(e, 1, 0)) = <<>> /\ Flat(Meaning, SubSeq(body, 1, 0)) = <<>>
    BY <1>4, FlatMeaning
  <2> QED
    BY <1>1, <2>1
<1>7. ASSUME NEW k \in 1..m, k - 1 \in I PROVE k \in I
  <2>1. k \in 0..m /\ k \in 1..Len(e)
    BY <1>1, <1>4
  <2>2. Flat(Meaning, SubSeq(e, 1, k)) = Flat(Meaning, SubSeq(e, 1, k - 1)) \o Meaning[e[k]]
    BY <1>4, <2>1, FlatMeaning
  <2>3. Flat(Meaning, SubSeq(body, 1, k))
          = Flat(Meaning, SubSeq(body, 1, k - 1)) \o Meaning[body[k]]
    BY FlatMeaning
  <2>4. Meaning[e[k]] = Meaning[body[k]]
    BY <1>2, <1>5, EscIs
  <2> QED
    BY <1>7, <2>1, <2>2, <2>3, <2>4
<1>8. \A k \in 0..m : k \in I
  <2> HIDE DEF I, m
  <2> QED
    BY <1>1, <1>6, <1>7, UpToInduction
<1>9. ASSUME NEW k \in 0..m, Quoteless(body, k) PROVE Clean(e, k)
  <2> SUFFICES ASSUME NEW l \in 1..k PROVE e[l] \notin Raw
    BY DEF Clean
  <2>1. l \in 1..m /\ body[l] # "rawQuote"
    BY <1>1, <1>9 DEF Quoteless
  <2> QED
    BY <1>2, <1>5, <2>1, EscIs
<1> QED
  BY <1>4, <1>5, <1>8, <1>9 DEF e

(* What is written and what is meant by the first items is a text. *)
LEMMA FlatTyped ==
    ASSUME NEW body \in Seq(Items), NEW k \in 0..Len(body)
    PROVE  Flat(Source, SubSeq(body, 1, k)) \in Seq(Symbols)
           /\ Flat(Meaning, SubSeq(body, 1, k)) \in Seq(Symbols)
           /\ Len(Flat(Source, SubSeq(body, 1, k))) = EndOf(body, k)
BY FlatSource, FlatMeaning DEF EndOf

(* Concatenation is associative. *)
LEMMA Associative ==
    ASSUME NEW s \in Seq(Symbols), NEW t \in Seq(Symbols), NEW u \in Seq(Symbols)
    PROVE  (s \o t) \o u = s \o (t \o u) /\ s \o t \in Seq(Symbols) /\ s \o <<>> = s
           /\ Len(s \o t) = Len(s) + Len(t)
OBVIOUS

(* The items of a string so far. *)
StructsTo(f, o, out, body, k) ==
    f[o + EndOf(body, k)] = InText(out \o Flat(Source, SubSeq(Escaped(body), 1, k)))

(* Inside a string structuralRepair keeps a body without raw quotes, item by item. *)
LEMMA StructsRun ==
    ASSUME NEW w, NEW f, Structures(f, w), NEW o, NEW body, NEW n, Holds(w, o, body, n),
           Quoteless(body, n), NEW out \in Seq(Symbols), f[o] = InText(out)
    PROVE  \A k \in 0..n : StructsTo(f, o, out, body, k)
<1>1. /\ w \in Seq(Symbols) /\ body \in Seq(Items) /\ n \in 0..Len(body) /\ o \in Nat
      /\ n \in Nat /\ \A k \in 1..n : ItemAt(w, o + EndOf(body, k - 1), body[k])
  BY DEF Holds
<1> DEFINE I == {k \in 0..n : StructsTo(f, o, out, body, k)}
           e == Escaped(body)
<1>2. e \in Seq(Items) /\ Len(e) = Len(body) /\ \A k \in 1..Len(body) : e[k] = Esc(body[k])
  BY <1>1, EscapedIs
<1> HIDE DEF e
<1>3. 0 \in I
  <2>1. EndOf(body, 0) = 0 /\ Flat(Source, SubSeq(e, 1, 0)) = <<>>
    BY <1>1, <1>2, Ends, FlatSource
  <2>2. o + EndOf(body, 0) = o
    BY <1>1, <2>1
  <2>3. out \o <<>> = out
    OBVIOUS
  <2>4. f[o + EndOf(body, 0)] = InText(out \o Flat(Source, SubSeq(e, 1, 0)))
    BY <2>1, <2>2, <2>3
  <2>5. 0 \in 0..n
    BY <1>1
  <2> QED
    BY <2>4, <2>5 DEF StructsTo, e
<1>4. ASSUME NEW k \in 1..n, k - 1 \in I PROVE k \in I
  <2> DEFINE before == Flat(Source, SubSeq(e, 1, k - 1))
             g == o + EndOf(body, k - 1)
             x == body[k]
             item == Source[Esc(x)]
  <2>1. k \in 1..Len(body) /\ k \in 0..n /\ k - 1 \in 0..Len(e) /\ k \in 1..Len(e)
    BY <1>1, <1>2
  <2>2. /\ EndOf(body, k - 1) \in Nat /\ Len(Source[x]) \in 1..6 /\ x \in Items
        /\ EndOf(body, k) = EndOf(body, k - 1) + Len(Source[x])
    BY <1>1, <2>1, Ends
  <2>3. g \in Nat /\ o + EndOf(body, k) = g + Len(Source[x])
    BY <1>1, <2>2
  <2>4. ItemAt(w, g, x) /\ x # "rawQuote"
    BY <1>1 DEF Quoteless
  <2>5. before \in Seq(Symbols) /\ item \in Seq(Symbols)
        /\ Flat(Source, SubSeq(e, 1, k)) = before \o item
    <3>1. before \in Seq(Symbols) /\ Flat(Source, SubSeq(e, 1, k)) = before \o Source[e[k]]
      BY <1>2, <2>1, FlatSource
    <3>2. e[k] = Esc(x) /\ Esc(x) \in Items
      BY <1>2, <2>1, <2>2, EscIs
    <3>3. item \in Seq(Symbols)
      BY <3>2, TextsTyped
    <3> QED
      BY <3>1, <3>2, <3>3
  <2>6. f[g] = InText(out \o before)
    BY <1>4 DEF StructsTo, e
  <2> HIDE DEF g, x
  <2> DEFINE upto == out \o before
  <2> HIDE DEF before
  <2>7. upto \in Seq(Symbols)
    BY <2>5, Associative
  <2>8. f[g] = InText(upto)
    BY <2>6
  <2> HIDE DEF upto
  <2>9. f[g + Len(Source[x])] = InText(upto \o Source[Esc(x)])
    BY <2>4, <2>7, <2>8, StructItem
  <2> HIDE DEF item
  <2>10. upto \o item = out \o Flat(Source, SubSeq(e, 1, k))
    <3>1. (out \o before) \o item = out \o (before \o item)
      BY <2>5, Associative, SMTT(30)
    <3> QED
      BY <2>5, <3>1 DEF upto
  <2>11. f[o + EndOf(body, k)] = InText(out \o Flat(Source, SubSeq(e, 1, k)))
    BY <2>3, <2>9, <2>10 DEF item
  <2> QED
    BY <2>1, <2>11 DEF StructsTo, e
<1>5. \A k \in 0..n : k \in I
  <2> HIDE DEF I
  <2> QED
    BY <1>1, <1>3, <1>4, UpToInduction
<1> QED
  BY <1>5

(* What there is of an item that was cut off is kept. *)
LEMMA StructHalved ==
    ASSUME NEW w \in Seq(Symbols), NEW f, Structures(f, w), NEW g \in Nat, NEW l, Halved(w, g, l),
           g + l <= Len(w), NEW out \in Seq(Symbols), f[g] = InText(out)
    PROVE  f[g + l] = InText(Upto(out, w, g, l)) \/ f[g + l] = InEscape(Upto(out, w, g, l))
<1> DEFINE U(i) == Upto(out, w, g, i)
<1>1. l \in 1..5 /\ (l = 1 => w[g + 1] = "r1" \/ w[g + 1] = "\\")
      /\ (l \in 2..5 => w[g + 1] = "\\" /\ w[g + 2] = "u")
      /\ (l \in 3..5 => w[g + 3] = "H") /\ (l \in 4..5 => w[g + 4] = "\\")
      /\ (l = 5 => w[g + 5] = "u")
  BY DEF Halved
<1>2. f[g + 0] = InText(U(0))
  <2>1. U(0) = out
    <3>1. 0 \in Nat /\ g + 0 + 1 <= Len(w)
      BY <1>1
    <3> QED
      BY <1>1, <3>1, UptoNext
  <2>2. g + 0 = g
    BY <1>1
  <2> QED
    BY <2>1, <2>2
<1>3. ASSUME NEW i \in 0..4, i < l
      PROVE  /\ f[g + i] = InText(U(i)) /\ w[g + i + 1] \in Verbatim
                   => f[g + (i + 1)] = InText(U(i + 1))
             /\ f[g + i] = InText(U(i)) /\ w[g + i + 1] = "\\"
                   => f[g + (i + 1)] = InEscape(U(i + 1))
             /\ f[g + i] = InEscape(U(i)) => f[g + (i + 1)] = InText(U(i + 1))
  <2>1. i \in Nat /\ g + i + 1 <= Len(w)
    BY <1>1, <1>3
  <2>2. /\ f[g + i] = InText(Upto(out, w, g, i)) /\ w[g + i + 1] \in Verbatim
             => f[g + (i + 1)] = InText(Upto(out, w, g, i + 1))
        /\ f[g + i] = InText(Upto(out, w, g, i)) /\ w[g + i + 1] = "\\"
             => f[g + (i + 1)] = InEscape(Upto(out, w, g, i + 1))
        /\ f[g + i] = InEscape(Upto(out, w, g, i))
             => f[g + (i + 1)] = InText(Upto(out, w, g, i + 1))
    BY <2>1, StructKeeps
  <2> QED
    BY <2>2
<1> HIDE DEF U
<1>6. 0 \in 0..4 /\ 1 \in 0..4 /\ 2 \in 0..4 /\ 3 \in 0..4 /\ 4 \in 0..4
      /\ g + 0 + 1 = g + 1 /\ g + 1 + 1 = g + 2 /\ g + 2 + 1 = g + 3 /\ g + 3 + 1 = g + 4
      /\ g + 4 + 1 = g + 5
      /\ 0 + 1 = 1 /\ 1 + 1 = 2 /\ 2 + 1 = 3 /\ 3 + 1 = 4 /\ 4 + 1 = 5
  BY <1>1
<1>7. CASE l = 1
  <2>1. f[g + (0 + 1)] = InText(U(0 + 1)) \/ f[g + (0 + 1)] = InEscape(U(0 + 1))
    BY <1>1, <1>2, <1>3, <1>6, <1>7, VerbatimAre
  <2> QED
    BY <1>6, <1>7, <2>1 DEF U
<1>8. CASE l \in 2..5
  <2>1. f[g + (0 + 1)] = InEscape(U(0 + 1))
    BY <1>1, <1>2, <1>3, <1>6, <1>8
  <2>2. f[g + 1] = InEscape(U(1))
    BY <1>6, <2>1
  <2>3. f[g + (1 + 1)] = InText(U(1 + 1))
    BY <1>1, <1>3, <1>6, <1>8, <2>2
  <2>4. f[g + 2] = InText(U(2))
    BY <1>6, <2>3
  <2>5. CASE l = 2
    BY <2>4, <2>5 DEF U
  <2>6. CASE l \in 3..5
    <3>1. f[g + (2 + 1)] = InText(U(2 + 1))
      BY <1>1, <1>3, <1>6, <2>4, <2>6, VerbatimAre
    <3>2. f[g + 3] = InText(U(3))
      BY <1>6, <3>1
    <3>3. CASE l = 3
      BY <3>2, <3>3 DEF U
    <3>4. CASE l \in 4..5
      <4>1. f[g + (3 + 1)] = InEscape(U(3 + 1))
        BY <1>1, <1>3, <1>6, <3>2, <3>4
      <4>2. f[g + 4] = InEscape(U(4))
        BY <1>6, <4>1
      <4>3. CASE l = 4
        BY <4>2, <4>3 DEF U
      <4>4. CASE l = 5
        <5>1. f[g + (4 + 1)] = InText(U(4 + 1))
          BY <1>1, <1>3, <1>6, <4>2, <4>4
        <5> QED
          BY <1>6, <4>4, <5>1 DEF U
      <4> QED
        BY <3>4, <4>3, <4>4
    <3> QED
      BY <2>6, <3>3, <3>4
  <2> QED
    BY <1>8, <2>5, <2>6
<1> QED
  BY <1>1, <1>7, <1>8

(* The first p symbols of an opening, with the colon at n and the quote of *)
(* the value at o.                                                         *)
Starts(c, n, key, o, p) ==
    /\ c \in Seq(Symbols) /\ n \in {5, 6} /\ o \in {n + 1, n + 2}
    /\ p \in 0..o /\ p <= Len(c) /\ key \in {"content", "text", "other"}
    /\ (p >= 1 => c[1] = "open") /\ (p >= 2 => c[2] = "q") /\ (p >= 3 => c[3] = key)
    /\ (p >= 4 => c[4] = "q") /\ (p >= 5 /\ n = 6 => c[5] = "s") /\ (p >= n => c[n] = ":")
    /\ (p >= n + 1 /\ o = n + 2 => c[n + 1] = "s") /\ (p >= o => c[o] = "q")

(* An object that begins is copied up to its string. *)
LEMMA BeginsStarts ==
    ASSUME NEW c, NEW n, NEW key, NEW o, Begins(c, 0, n, key, o)
    PROVE  Starts(c, n, key, o, o)
BY DEF Begins, Starts

(* The state after i symbols of an opening. *)
StructsOpening(f, c, o, i) ==
    /\ i = 0 => f[i] = Outside(<<>>, 0)
    /\ i \in {2, 3, o} => f[i] = InText(SubSeq(c, 1, i))
    /\ i \in 1..(o - 1) /\ i \notin {2, 3} => f[i] = Outside(SubSeq(c, 1, i), 1)

(* The first symbols of a text, one by one. *)
LEMMA OneMore ==
    ASSUME NEW c \in Seq(Symbols), NEW i \in 1..Len(c)
    PROVE  /\ c[i] \in Symbols /\ SubSeq(c, 1, i - 1) \in Seq(Symbols)
           /\ SubSeq(c, 1, i - 1) \o <<c[i]>> = SubSeq(c, 1, i)
<1> DEFINE u == SubSeq(c, 1, i - 1)
           v == SubSeq(c, 1, i)
           s == c[i]
<1>1. u \in Seq(Symbols) /\ Len(u) = i - 1 /\ v \in Seq(Symbols) /\ Len(v) = i /\ s \in Symbols
  OBVIOUS
<1>2. \A l \in 1..(i - 1) : u[l] = c[l] /\ v[l] = c[l]
  OBVIOUS
<1>3. v[i] = s
  OBVIOUS
<1> HIDE DEF u, v, s
<1>4. v = u \o <<s>>
  BY <1>1, <1>2, <1>3, SMTT(30)
<1> QED
  BY <1>1, <1>4 DEF u, v, s

(* structuralRepair copies the opening of an object and is inside its string behind it. *)
LEMMA StructsOpen ==
    ASSUME NEW c, NEW n, NEW key, NEW o, NEW p, Starts(c, n, key, o, p), NEW f, Structures(f, c)
    PROVE  \A i \in 0..p : StructsOpening(f, c, o, i)
<1>1. /\ c \in Seq(Symbols) /\ n \in {5, 6} /\ o \in {n + 1, n + 2}
      /\ p \in 0..o /\ p <= Len(c) /\ key \in {"content", "text", "other"}
      /\ (p >= 1 => c[1] = "open") /\ (p >= 2 => c[2] = "q") /\ (p >= 3 => c[3] = key)
      /\ (p >= 4 => c[4] = "q") /\ (p >= 5 /\ n = 6 => c[5] = "s") /\ (p >= n => c[n] = ":")
      /\ (p >= n + 1 /\ o = n + 2 => c[n + 1] = "s") /\ (p >= o => c[o] = "q")
  BY DEF Starts
<1>2. p \in Nat /\ o \in 6..8 /\ Len(c) \in Nat
  BY <1>1
<1> DEFINE I == {i \in 0..p : StructsOpening(f, c, o, i)}
<1>3. 0 \in I
  <2>1. f[0] = Outside(<<>>, 0)
    BY DEF Structures, Outside
  <2>2. 0 \in 0..p /\ ~(0 \in {2, 3, o}) /\ ~(0 \in 1..(o - 1))
    BY <1>2
  <2> QED
    BY <2>1, <2>2 DEF StructsOpening
<1>4. ASSUME NEW i \in 1..p, i - 1 \in I PROVE i \in I
  <2> DEFINE u == SubSeq(c, 1, i - 1)
             v == SubSeq(c, 1, i)
             s == c[i]
  <2>1. i \in Nat /\ i \in 1..Len(c) /\ i \in 1..8 /\ i <= p /\ i \in 0..p
    BY <1>1, <1>2
  <2>2. s \in Symbols /\ u \in Seq(Symbols) /\ u \o <<s>> = v
    BY <1>1, <2>1, OneMore
  <2>3. f[i] = StructuralStep(f[i - 1], s)
    BY <2>1 DEF Structures
  <2>4. StructsOpening(f, c, o, i - 1)
    BY <1>4
  <2> HIDE DEF I
  <2>5. CASE i = 1
    <3>1. s = "open" /\ f[i - 1] = Outside(<<>>, 0) /\ ~(i \in {2, 3, o}) /\ i # 0
      BY <1>1, <1>2, <2>1, <2>4, <2>5 DEF StructsOpening
    <3>2. u = <<>>
      BY <2>5
    <3> HIDE DEF u, v, s
    <3>3. f[i] = Outside(v, 1)
      BY <2>2, <2>3, <3>1, <3>2, StructOutside
    <3> QED
      BY <2>1, <3>1, <3>3 DEF StructsOpening, I, v
  <2>6. CASE i = 2
    <3>1. s = "q" /\ i - 1 \in 1..(o - 1) /\ i - 1 \notin {2, 3} /\ i # 0 /\ i \in {2, 3, o}
      BY <1>1, <1>2, <2>1, <2>6
    <3>2. f[i - 1] = Outside(u, 1)
      BY <2>4, <3>1 DEF StructsOpening
    <3> HIDE DEF u, v, s
    <3>3. f[i] = InText(v)
      BY <2>2, <2>3, <3>1, <3>2, StructOutside
    <3> QED
      BY <2>1, <2>6, <3>1, <3>3 DEF StructsOpening, I, v
  <2>7. CASE i = 3
    <3>1. s = key /\ i - 1 \in {2, 3, o} /\ i # 0 /\ i \in {2, 3, o}
      BY <1>1, <1>2, <2>1, <2>7
    <3>2. f[i - 1] = InText(u)
      BY <2>4, <3>1 DEF StructsOpening
    <3>3. s \in Verbatim
      BY <1>1, <3>1 DEF Verbatim, Symbols
    <3> HIDE DEF u, v, s
    <3>4. f[i] = InText(v)
      BY <2>2, <2>3, <3>2, <3>3, StructInside
    <3> QED
      BY <2>1, <2>7, <3>1, <3>4 DEF StructsOpening, I, v
  <2>8. CASE i = 4
    <3>1. s = "q" /\ i - 1 \in {2, 3, o} /\ i # 0 /\ i \notin {2, 3, o}
      BY <1>1, <1>2, <2>1, <2>8
    <3>2. f[i - 1] = InText(u)
      BY <2>4, <3>1 DEF StructsOpening
    <3> HIDE DEF u, v, s
    <3>3. f[i] = Outside(v, 1)
      BY <2>2, <2>3, <3>1, <3>2, StructInside
    <3> QED
      BY <2>1, <3>1, <3>3 DEF StructsOpening, I, v
  <2>9. CASE i \in 5..(o - 1)
    <3>1. i - 1 \in 1..(o - 1) /\ i - 1 \notin {2, 3} /\ i # 0 /\ i \notin {2, 3, o}
      BY <1>2, <2>9
    <3>2. s = "s" \/ s = ":"
      BY <1>1, <1>2, <2>1, <2>9
    <3>3. f[i - 1] = Outside(u, 1)
      BY <2>4, <3>1 DEF StructsOpening
    <3>4. s \in Symbols \ {"q", "open", "close"}
      BY <2>2, <3>2
    <3> HIDE DEF u, v, s
    <3>5. f[i] = Outside(v, 1)
      BY <2>2, <2>3, <3>3, <3>4, StructOutside
    <3> QED
      BY <2>1, <3>1, <3>5 DEF StructsOpening, I, v
  <2>10. CASE i = o
    <3>1. s = "q" /\ i - 1 \in 1..(o - 1) /\ i - 1 \notin {2, 3} /\ i # 0 /\ i \in {2, 3, o}
      BY <1>1, <1>2, <2>1, <2>10
    <3>2. f[i - 1] = Outside(u, 1)
      BY <2>4, <3>1 DEF StructsOpening
    <3> HIDE DEF u, v, s
    <3>3. f[i] = InText(v)
      BY <2>2, <2>3, <3>1, <3>2, StructOutside
    <3>4. ~(i \in 1..(o - 1))
      BY <1>2, <2>10
    <3> QED
      BY <2>1, <3>1, <3>3, <3>4 DEF StructsOpening, I, v
  <2> QED
    BY <1>1, <1>2, <2>1, <2>5, <2>6, <2>7, <2>8, <2>9, <2>10
<1>5. \A i \in 0..p : i \in I
  <2> HIDE DEF I
  <2> QED
    BY <1>2, <1>3, <1>4, UpToInduction
<1> QED
  BY <1>5

-----------------------------------------------------------------------------
(* The scan of a text, from its first brace after j symbols on, ends in st. *)
EndsIn(c, j, st) ==
    /\ c \in Seq(Symbols) /\ j \in Nat /\ j + 1 <= Len(c) /\ c[j + 1] = "open"
    /\ \A i \in 1..j : c[i] # "open"
    /\ Structuring(Rest(c, j + 1))[Len(Rest(c, j + 1))] = st

(* What the text becomes. *)
LEMMA RepairFrom ==
    ASSUME NEW c, NEW j, NEW end, EndsIn(c, j, end)
    PROVE  AttemptStructuralRepair(c)
             = TrimRight(IF end.inString THEN Append(end.out, "q") ELSE end.out, White \cup {","})
               \o [i \in 1..end.openBraces |-> "close"]
<1> DEFINE braces == {i \in DOMAIN c : c[i] = "open"}
<1>1. /\ c \in Seq(Symbols) /\ j \in Nat /\ j + 1 <= Len(c) /\ c[j + 1] = "open"
      /\ \A i \in 1..j : c[i] # "open"
  BY DEF EndsIn
<1>2. j + 1 \in braces /\ braces \subseteq Int
  BY <1>1
<1>3. \A i \in braces : j + 1 <= i
  BY <1>1
<1>4. FirstOf(braces) = j + 1
  <2> HIDE DEF braces
  <2> QED
    BY <1>2, <1>3, FirstIs
<1>5. Rest(c, FirstOf(braces)) = Rest(c, j + 1)
  BY <1>4
<1>6. braces # {}
  BY <1>2
<1>7. Structuring(Rest(c, j + 1))[Len(Rest(c, j + 1))] = end
  BY DEF EndsIn
<1> QED
  BY <1>5, <1>6, <1>7 DEF AttemptStructuralRepair

(* The braces structuralRepair adds: none or one. *)
LEMMA NoneOrOne ==
    [i \in 1..0 |-> "close"] = <<>> /\ [i \in 1..1 |-> "close"] = <<"close">>
OBVIOUS

(* What cannot be trimmed. *)
LEMMA KeptWhole ==
    ASSUME NEW u \in Seq(Symbols), u # <<>>, u[Len(u)] \in {"q", "close"}
    PROVE  TrimRight(u, White \cup {","}) = u
<1> DEFINE b == Len(u)
<1>1. b \in Nat /\ b >= 1 /\ b \in 1..b
  OBVIOUS
<1>2. IsPart(u, u, 1, b)
  BY WholeIs
<1>3. u[b] \notin White \cup {","}
  BY DEF White
<1> HIDE DEF b
<1>4. \A i \in (b + 1)..b : u[i] \in White \cup {","}
  <2>1. ASSUME NEW i \in (b + 1)..b PROVE FALSE
    BY <1>1
  <2> QED
    BY <2>1
<1>5. IsPart(TrimRight(u, White \cup {","}), u, 1, b)
  BY <1>1, <1>2, <1>3, <1>4, TrimRightIs
<1> QED
  BY <1>2, <1>5, SamePart

(* structuralRepair closes a string that is open at the end, and its object. *)
LEMMA RepairOpen ==
    ASSUME NEW c, NEW j, NEW out \in Seq(Symbols),
           EndsIn(c, j, InText(out)) \/ EndsIn(c, j, InEscape(out))
    PROVE  AttemptStructuralRepair(c) = (out \o <<"q">>) \o <<"close">>
<1>1. PICK end : end \in {InText(out), InEscape(out)} /\ EndsIn(c, j, end)
  OBVIOUS
<1>2. AttemptStructuralRepair(c)
             = TrimRight(IF end.inString THEN Append(end.out, "q") ELSE end.out, White \cup {","})
               \o [i \in 1..end.openBraces |-> "close"]
  BY <1>1, RepairFrom
<1>3. end.inString = TRUE /\ end.out = out /\ end.openBraces = 1
  BY <1>1 DEF InText, InEscape
<1> DEFINE u == Append(out, "q")
<1>4. u = out \o <<"q">> /\ u \in Seq(Symbols)
  BY AppendOne, SymbolsTyped
<1>5. AttemptStructuralRepair(c) = TrimRight(u, White \cup {","}) \o <<"close">>
  BY <1>2, <1>3, NoneOrOne
<1>6. u # <<>> /\ u[Len(u)] = "q"
  OBVIOUS
<1> HIDE DEF u
<1>7. TrimRight(u, White \cup {","}) = u
  BY <1>4, <1>6, KeptWhole
<1> QED
  BY <1>4, <1>5, <1>7

(* structuralRepair of a closed string trims white space and commas, and closes the object. *)
LEMMA RepairOutside ==
    ASSUME NEW c, NEW j, NEW out, NEW n \in {0, 1}, EndsIn(c, j, Outside(out, n))
    PROVE  AttemptStructuralRepair(c)
             = TrimRight(out, White \cup {","}) \o (IF n = 1 THEN <<"close">> ELSE <<>>)
<1> DEFINE end == Outside(out, n)
<1>1. AttemptStructuralRepair(c)
             = TrimRight(IF end.inString THEN Append(end.out, "q") ELSE end.out, White \cup {","})
               \o [i \in 1..end.openBraces |-> "close"]
  BY RepairFrom
<1>2. end.inString = FALSE /\ end.out = out /\ end.openBraces = n
  BY DEF Outside
<1> HIDE DEF end
<1>3. AttemptStructuralRepair(c) = TrimRight(out, White \cup {","}) \o [i \in 1..n |-> "close"]
  BY <1>1, <1>2
<1>4. CASE n = 0
  BY <1>3, <1>4, NoneOrOne
<1>5. CASE n = 1
  BY <1>3, <1>5, NoneOrOne
<1> QED
  BY <1>4, <1>5

(* The whole of what was written, if its last symbol is a quote or brace. *)
LEMMA RepairClosed ==
    ASSUME NEW c, NEW j, NEW out \in Seq(Symbols), NEW n \in {0, 1}, EndsIn(c, j, Outside(out, n)),
           out # <<>>, out[Len(out)] \in {"q", "close"}
    PROVE  AttemptStructuralRepair(c) = IF n = 1 THEN out \o <<"close">> ELSE out
<1>1. AttemptStructuralRepair(c)
             = TrimRight(out, White \cup {","}) \o (IF n = 1 THEN <<"close">> ELSE <<>>)
  BY RepairOutside
<1>2. TrimRight(out, White \cup {","}) = out
  BY KeptWhole
<1>3. out \o <<>> = out
  OBVIOUS
<1> QED
  BY <1>1, <1>2, <1>3

(* The symbols that can be in a string as the model writes it. *)
Textual == {"a", "n", "s", "close", "fence", "r1", "r2", "NL", "q", "\\", "u", "X", "H", "L"}

(* Which items they can be of. *)
FitsIn(s, x, j) ==
    /\ s \in Textual
    /\ s \in White => x \in {"space", "rawNewline"}
    /\ s = "close" => x = "brace"
    /\ s = "fence" => x = "fence"
    /\ s = "q" => x = "rawQuote" \/ (x = "quote" /\ j = 2)

(* Which symbols may be at which place of which item. *)
LEMMA Fits ==
    /\ FitsIn("a", "a", 1) /\ FitsIn("n", "n", 1) /\ FitsIn("s", "space", 1)
    /\ FitsIn("close", "brace", 1) /\ FitsIn("fence", "fence", 1)
    /\ FitsIn("r1", "rune", 1) /\ FitsIn("r2", "rune", 2)
    /\ FitsIn("NL", "rawNewline", 1) /\ FitsIn("q", "rawQuote", 1)
    /\ FitsIn("n", "newline", 2) /\ FitsIn("q", "quote", 2)
    /\ \A x \in Items, j \in 1..6 : FitsIn("\\", x, j) /\ FitsIn("u", x, j) /\ FitsIn("X", x, j)
          /\ FitsIn("H", x, j) /\ FitsIn("L", x, j)
BY DEF FitsIn, Textual, White

(* The symbols of an item fit in it. *)
LEMMA ItemSymbols ==
    ASSUME NEW w, NEW g, NEW x, ItemAt(w, g, x), NEW j \in 1..Len(Source[x])
    PROVE  FitsIn(w[g + j], x, j)
<1> DEFINE l == Len(Source[x])
<1>0. x \in Items /\ Shows(w, g, Source[x]) /\ l \in 1..6 /\ j \in 1..l
  BY TextsTyped DEF ItemAt
<1>1. x \in Items /\ Shows(w, g, Source[x]) /\ l \in 1..6 /\ j \in 1..6 /\ j <= l /\ 1 <= j
  <2> HIDE DEF l
  <2> QED
    BY <1>0
<1>2. CASE x \in Singles
  <2>1. l = 1
    BY <1>1, <1>2, SymbolsOf
  <2>2. j = 1
    BY <1>1, <2>1
  <2>3. /\ x = "a" => w[g + 1] = "a"
        /\ x = "n" => w[g + 1] = "n"
        /\ x = "space" => w[g + 1] = "s"
        /\ x = "brace" => w[g + 1] = "close"
        /\ x = "fence" => w[g + 1] = "fence"
    BY <1>1, SymbolsOf
  <2>4. /\ x = "rawNewline" => w[g + 1] = "NL"
        /\ x = "rawQuote" => w[g + 1] = "q"
    BY <1>1, SymbolsOf
  <2> HIDE DEF l
  <2> QED
    BY <1>2, <2>2, <2>3, <2>4, Fits DEF Singles
<1>3. CASE x = "rune"
  <2>1. l = 2 /\ w[g + 1] = "r1" /\ w[g + 2] = "r2"
    BY <1>1, <1>3, SymbolsOf
  <2>2. j = 1 \/ j = 2
    BY <1>1, <2>1
  <2> HIDE DEF l
  <2> QED
    BY <1>3, <2>1, <2>2, Fits
<1>4. CASE x = "newline"
  <2>1. l = 2 /\ w[g + 1] = "\\" /\ w[g + 2] = "n"
    BY <1>1, <1>4, SymbolsOf
  <2>2. j = 1 \/ j = 2
    BY <1>1, <2>1
  <2> HIDE DEF l
  <2> QED
    BY <1>1, <1>4, <2>1, <2>2, Fits
<1>5. CASE x = "quote"
  <2>1. l = 2 /\ w[g + 1] = "\\" /\ w[g + 2] = "q"
    BY <1>1, <1>5, SymbolsOf
  <2>2. j = 1 \/ j = 2
    BY <1>1, <2>1
  <2> HIDE DEF l
  <2> QED
    BY <1>1, <1>5, <2>1, <2>2, Fits
<1>6. CASE x = "backslash"
  <2>1. l = 2 /\ w[g + 1] = "\\" /\ w[g + 2] = "\\"
    BY <1>1, <1>6, SymbolsOf
  <2>2. j = 1 \/ j = 2
    BY <1>1, <2>1
  <2> HIDE DEF l
  <2> QED
    BY <1>1, <1>6, <2>1, <2>2, Fits
<1>7. CASE x = "unicode"
  <2>1. l = 3 /\ w[g + 1] = "\\" /\ w[g + 2] = "u" /\ w[g + 3] = "X"
    BY <1>1, <1>7, SymbolsOf
  <2>2. j = 1 \/ j = 2 \/ j = 3
    BY <1>1, <2>1
  <2> HIDE DEF l
  <2> QED
    BY <1>1, <1>7, <2>1, <2>2, Fits
<1>8. CASE x = "pair"
  <2>1. w[g + 1] = "\\" /\ w[g + 2] = "u" /\ w[g + 3] = "H"
    BY <1>1, <1>8, SymbolsOf
  <2>3. w[g + 4] = "\\" /\ w[g + 5] = "u" /\ w[g + 6] = "L"
    BY <1>1, <1>8, SymbolsOf
  <2>2. j = 1 \/ j = 2 \/ j = 3 \/ j = 4 \/ j = 5 \/ j = 6
    BY <1>1
  <2> HIDE DEF l
  <2> QED
    BY <1>1, <1>8, <2>1, <2>2, <2>3, Fits
<1> QED
  BY <1>1, <1>2, <1>3, <1>4, <1>5, <1>6, <1>7, <1>8, ItemIsOne DEF Singles

(* A symbol of the text is one of an item. *)
LEMMA PlaceOf ==
    ASSUME NEW body \in Seq(Items), NEW n \in 0..Len(body), NEW i \in 1..EndOf(body, n)
    PROVE  \E p \in 1..n : EndOf(body, p - 1) < i /\ i <= EndOf(body, p)
<1> DEFINE P(k) == i <= EndOf(body, k) => \E p \in 1..k : EndOf(body, p - 1) < i /\ i <= EndOf(body, p)
           I == {k \in 0..n : P(k)}
<1>1. n \in Nat /\ EndOf(body, n) \in Nat /\ EndOf(body, 0) = 0 /\ i \in Nat /\ i >= 1
  BY Ends
<1>2. P(0)
  BY <1>1
<1>3. ASSUME NEW k \in 1..n, P(k - 1) PROVE P(k)
  <2>1. k \in 1..Len(body) /\ k \in Nat
    BY <1>1
  <2>2. EndOf(body, k - 1) \in Nat
    BY <2>1, Ends
  <2>3. CASE i <= EndOf(body, k - 1)
    <3>1. PICK p \in 1..(k - 1) : EndOf(body, p - 1) < i /\ i <= EndOf(body, p)
      BY <1>3, <2>3
    <3>2. p \in 1..k
      BY <2>1
    <3> QED
      BY <3>1, <3>2
  <2>4. CASE ~(i <= EndOf(body, k - 1))
    <3>1. EndOf(body, k - 1) < i /\ k \in 1..k
      BY <1>1, <2>1, <2>2, <2>4
    <3> QED
      BY <3>1
  <2> QED
    BY <2>3, <2>4
<1>4. n \in I
  <2> HIDE DEF P
  <2>1. 0 \in I /\ \A k \in 1..n : k - 1 \in I => k \in I
    <3>1. 0 \in I
      BY <1>1, <1>2
    <3>2. ASSUME NEW k \in 1..n, k - 1 \in I PROVE k \in I
      BY <1>1, <1>3, <3>2
    <3> QED
      BY <3>1, <3>2
  <2> HIDE DEF I
  <2>2. \A k \in 0..n : k \in I
    BY <1>1, <2>1, UpToInduction
  <2> QED
    BY <1>1, <2>2
<1>5. i <= EndOf(body, n)
  BY <1>1
<1> QED
  BY <1>4, <1>5

(* A symbol of the items that w holds. *)
LEMMA HeldSymbol ==
    ASSUME NEW w, NEW o, NEW body, NEW n, Holds(w, o, body, n),
           NEW i \in (o + 1)..(o + EndOf(body, n))
    PROVE  \E p \in 1..n : \E j \in 1..Len(Source[body[p]]) :
              i = o + EndOf(body, p - 1) + j /\ FitsIn(w[i], body[p], j)
<1>1. /\ o \in Nat /\ body \in Seq(Items) /\ n \in 0..Len(body) /\ EndOf(body, n) \in Nat
      /\ \A k \in 1..n : ItemAt(w, o + EndOf(body, k - 1), body[k])
  BY Ends DEF Holds
<1>2. i \in Nat /\ i - o \in 1..EndOf(body, n)
  BY <1>1
<1>3. PICK p \in 1..n : EndOf(body, p - 1) < i - o /\ i - o <= EndOf(body, p)
  BY <1>1, <1>2, PlaceOf
<1>4. /\ p \in 1..Len(body) /\ EndOf(body, p - 1) \in Nat /\ Len(Source[body[p]]) \in 1..6
      /\ EndOf(body, p) = EndOf(body, p - 1) + Len(Source[body[p]])
  BY <1>1, Ends
<1> DEFINE g == o + EndOf(body, p - 1)
           j == i - g
<1>5. g \in Nat /\ j \in 1..Len(Source[body[p]]) /\ g + j = i
  <2> DEFINE y == EndOf(body, p - 1)
             z == EndOf(body, p)
             l == Len(Source[body[p]])
  <2>1. y \in Nat /\ l \in 1..6 /\ z = y + l /\ y < i - o /\ i - o <= z /\ o \in Nat /\ i \in Nat
    BY <1>1, <1>2, <1>3, <1>4
  <2> HIDE DEF y, z, l
  <2>2. o + y \in Nat /\ i - (o + y) \in 1..l /\ (o + y) + (i - (o + y)) = i
    BY <2>1
  <2> QED
    BY <2>2 DEF y, l
<1>6. ItemAt(w, g, body[p])
  BY <1>1
<1> HIDE DEF g, j
<1>7. FitsIn(w[g + j], body[p], j)
  BY <1>5, <1>6, ItemSymbols
<1> QED
  BY <1>5, <1>7 DEF g

(* The items that a part holds. *)
LEMMA ItemInPart ==
    ASSUME NEW u, NEW t, NEW a, NEW b, IsPart(u, t, a, b), NEW g, NEW x, ItemAt(t, g, x),
           a <= g + 1, g + Len(Source[x]) <= b
    PROVE  ItemAt(u, g - a + 1, x)
<1> DEFINE l == Len(Source[x])
           h == g - a + 1
<1>1. /\ t \in Seq(Symbols) /\ a \in Nat /\ b \in Nat /\ 1 <= a /\ a <= b + 1 /\ b <= Len(t)
      /\ u \in Seq(Symbols) /\ Len(u) = b - a + 1
      /\ \A i \in 1..(b - a + 1) : u[i] = t[a + i - 1]
  BY PartIs DEF PartBounds
<1>2. g \in Nat /\ x \in Items /\ l \in 1..6 /\ \A i \in 1..l : t[g + i] = Source[x][i]
  BY TextsTyped DEF ItemAt, Shows
<1>5. a <= g + 1 /\ g + l <= b
  OBVIOUS
<1>6. /\ a \in Nat /\ b \in Nat /\ g \in Nat /\ l \in Nat /\ a <= g + 1 /\ g + l <= b
      /\ Len(u) = b - a + 1 /\ h = g - a + 1
  BY <1>1, <1>2, <1>5
<1> HIDE DEF l, h
<1>3. h \in Nat /\ h + l <= Len(u)
  BY ONLY <1>6
<1>4. ASSUME NEW i \in 1..l PROVE u[h + i] = Source[x][i]
  <2>1. h + i \in 1..(b - a + 1) /\ a + (h + i) - 1 = g + i
    BY ONLY <1>3, <1>6, i \in 1..l
  <2>2. u[h + i] = t[a + (h + i) - 1]
    BY <1>1, <2>1
  <2> QED
    BY <1>2, <2>1, <2>2
<1> QED
  BY <1>1, <1>2, <1>3, <1>4 DEF ItemAt, Shows, l, h

(* A part that has all symbols of the items holds the items. *)
LEMMA HoldsInPart ==
    ASSUME NEW u, NEW t, NEW a, NEW b, IsPart(u, t, a, b), NEW o, NEW body, NEW n,
           Holds(t, o, body, n), a <= o + 1, o + EndOf(body, n) <= b
    PROVE  Holds(u, o - a + 1, body, n)
<1>1. /\ t \in Seq(Symbols) /\ a \in Nat /\ b \in Nat /\ 1 <= a /\ a <= b + 1 /\ b <= Len(t)
      /\ u \in Seq(Symbols) /\ Len(u) = b - a + 1
  BY PartIs DEF PartBounds
<1>2. /\ o \in Nat /\ body \in Seq(Items) /\ n \in 0..Len(body) /\ EndOf(body, n) \in Nat
      /\ \A k \in 1..n : ItemAt(t, o + EndOf(body, k - 1), body[k])
  BY Ends DEF Holds
<1>3. o - a + 1 \in Nat /\ o - a + 1 + EndOf(body, n) <= Len(u)
  BY <1>1, <1>2
<1>4. ASSUME NEW k \in 1..n PROVE ItemAt(u, o - a + 1 + EndOf(body, k - 1), body[k])
  <2>1. k \in 1..Len(body) /\ k \in 0..n
    BY <1>2
  <2>2. /\ EndOf(body, k - 1) \in Nat /\ Len(Source[body[k]]) \in 1..6
        /\ EndOf(body, k) = EndOf(body, k - 1) + Len(Source[body[k]])
        /\ EndOf(body, k) <= EndOf(body, n)
    BY <1>2, <2>1, Ends, EndsInOrder
  <2> DEFINE g == o + EndOf(body, k - 1)
  <2>3. a <= g + 1 /\ g + Len(Source[body[k]]) <= b /\ g - a + 1 = o - a + 1 + EndOf(body, k - 1)
    <3> DEFINE y == EndOf(body, k - 1)
               z == EndOf(body, k)
               l == Len(Source[body[k]])
               e == EndOf(body, n)
    <3>1. /\ y \in Nat /\ l \in 1..6 /\ z = y + l /\ z <= e /\ e \in Nat /\ o \in Nat
          /\ a \in Nat /\ b \in Nat /\ a <= o + 1 /\ o + e <= b
      BY <1>1, <1>2, <2>2
    <3> HIDE DEF y, z, l, e
    <3>2. a <= o + y + 1 /\ o + y + l <= b /\ o + y - a + 1 = o - a + 1 + y
      BY <3>1
    <3>3. g = o + y
      BY DEF y
    <3> HIDE DEF g
    <3>4. a <= g + 1 /\ g + l <= b /\ g - a + 1 = o - a + 1 + y
      BY <3>1, <3>2, <3>3
    <3> QED
      BY <3>4 DEF y, l
  <2>4. ItemAt(t, g, body[k])
    BY <1>2
  <2> HIDE DEF g
  <2>5. ItemAt(u, g - a + 1, body[k])
    BY <2>3, <2>4, ItemInPart
  <2> QED
    BY <2>3, <2>5
<1> QED
  BY <1>1, <1>2, <1>3, <1>4 DEF Holds

(* An object that begins has at least six symbols before its string. *)
LEMMA BeginsTyped ==
    ASSUME NEW c, NEW j, NEW n, NEW key, NEW o, Begins(c, j, n, key, o)
    PROVE  /\ c \in Seq(Symbols) /\ Len(c) \in Nat /\ j \in Nat /\ n \in Nat /\ o \in Nat
           /\ o >= j + 6 /\ o <= Len(c) /\ c[o] = "q" /\ c[j + 1] = "open"
           /\ key \in {"content", "text", "other"}
BY DEF Begins

(* An object that ends as it should. *)
WholeForm(r, n, key, o, b, k, g) ==
    /\ Begins(r, 0, n, key, o) /\ Holds(r, o, b, k) /\ g = o + EndOf(b, k) /\ r[g + 1] = "q"
    /\ Len(r) \in {g + 2, g + 3} /\ (Len(r) = g + 3 => r[g + 2] = "s") /\ r[Len(r)] = "close"

(* A whole object is decoded to what its clean body means. *)
LEMMA WholeObject ==
    ASSUME NEW r, NEW n, NEW key, NEW o, NEW b, NEW k, NEW g, WholeForm(r, n, key, o, b, k, g)
    PROVE  Unmarshal(r) = IF key = "content" /\ Clean(b, k)
                          THEN Decoded(Flat(Meaning, SubSeq(b, 1, k))) ELSE Undecoded
<1> DEFINE m == EndOf(b, k)
           l == Len(r)
           e == g + 1
<1>0. Begins(r, 0, n, key, o) /\ Holds(r, o, b, k)
  BY DEF WholeForm
<1>1. /\ r \in Seq(Symbols) /\ o \in Nat /\ o >= 6 /\ b \in Seq(Items) /\ k \in 0..Len(b)
      /\ m \in Nat
  BY <1>0, BeginsTyped, Ends DEF Holds
<1>2. /\ g = o + m /\ l \in {g + 2, g + 3}
      /\ (l = g + 3 => r[g + 2] = "s") /\ r[l] = "close" /\ r[e] = "q"
  BY DEF WholeForm
<1> HIDE DEF m, l
<1>3. e \in Nat /\ e \in (o + 1)..(l - 1) /\ e \in o..(l - 1) /\ r[e] = "q" /\ e - 1 = o + m
      /\ g \in Nat /\ l \in Nat
  BY <1>1, <1>2
<1>4. \A i \in (e + 1)..(l - 1) : r[i] \in White
  <2> SUFFICES ASSUME NEW i \in (e + 1)..(l - 1) PROVE r[i] \in White
    OBVIOUS
  <2>1. l = g + 3 /\ i = g + 2
    BY <1>2, <1>3
  <2>2. r[g + 2] = "s"
    BY <1>2, <2>1
  <2> QED
    BY <2>1, <2>2 DEF White
<1> HIDE DEF e
<1>5. l = Len(r) /\ r[l] = "close"
  BY <1>2 DEF l
<1>6. CASE key = "content"
  <2> DEFINE v == SubSeq(r, o + 1, e - 1)
  <2>1. Begins(r, 0, n, "content", o)
    BY <1>0, <1>6
  <2>2. Unmarshal(r) = Unquote(v)
    BY <1>3, <1>4, <1>5, <2>1, ObjectClosed
  <2>3. IsPart(v, r, o + 1, e - 1)
    <3>1. o + 1 \in Nat /\ e - 1 \in Nat /\ 1 <= o + 1 /\ o + 1 <= (e - 1) + 1 /\ e - 1 <= Len(r)
      BY <1>1, <1>2, <1>3, <1>5
    <3> QED
      BY <1>1, <3>1 DEF IsPart
  <2> HIDE DEF v
  <2>4. o + 1 <= o + 1 /\ o + EndOf(b, k) <= e - 1
    BY <1>1, <1>2, <1>3 DEF m
  <2>5. Holds(v, o - (o + 1) + 1, b, k)
    BY <1>0, <2>3, <2>4, HoldsInPart
  <2>6. o - (o + 1) + 1 = 0
    BY <1>1
  <2>7. Holds(v, 0, b, k)
    BY <2>5, <2>6
  <2>8. Len(v) = EndOf(b, k)
    <3>1. Len(v) = (e - 1) - (o + 1) + 1
      BY <2>3, PartIs DEF PartBounds
    <3> QED
      BY <1>1, <1>2, <1>3, <3>1 DEF m
  <2>9. CASE Clean(b, k)
    BY <1>6, <2>2, <2>7, <2>8, <2>9, UnquoteWhole
  <2>10. CASE ~Clean(b, k)
    BY <1>6, <2>2, <2>7, <2>10, UnquoteUnclean
  <2> QED
    BY <2>9, <2>10
<1>7. CASE key # "content"
  <2>1. r[e] \notin White
    BY <1>3 DEF White
  <2>2. Unmarshal(r) = IF key = "content" THEN StringValue(SubSeq(r, o, e)) ELSE Undecoded
    BY <1>0, <1>3, <1>4, <1>5, <2>1, ObjectValue
  <2> QED
    BY <1>7, <2>2
<1> QED
  BY <1>6, <1>7

(* An item cut in its middle, copied to another place. *)
LEMMA HalvedSame ==
    ASSUME NEW r, NEW g \in Nat, NEW l \in 1..5, Halved(r, g, l), NEW v, NEW m \in Nat,
           \A i \in 1..l : v[m + i] = r[g + i]
    PROVE  Halved(v, m, l)
<1>1. v[m + 1] = r[g + 1]
  OBVIOUS
<1>2. l \in 2..5 => v[m + 2] = r[g + 2]
  OBVIOUS
<1>3. l \in 3..5 => v[m + 3] = r[g + 3]
  OBVIOUS
<1>4. l \in 4..5 => v[m + 4] = r[g + 4]
  OBVIOUS
<1>5. l = 5 => v[m + 5] = r[g + 5]
  OBVIOUS
<1> QED
  BY <1>1, <1>2, <1>3, <1>4, <1>5 DEF Halved

(* One whose string ends within an item. *)
HalfForm(r, n, key, o, b, k, g, l) ==
    /\ Begins(r, 0, n, key, o) /\ Holds(r, o, b, k) /\ g = o + EndOf(b, k)
    /\ l \in 1..5 /\ Halved(r, g, l)
    /\ Len(r) = g + l + 2 /\ r[g + l + 1] = "q" /\ r[g + l + 2] = "close"

(* An object whose string ends in the middle of an item: undecoded, or a replacement at its end. *)
LEMMA HalfObject ==
    ASSUME NEW r, NEW n, NEW key, NEW o, NEW b, NEW k, NEW g, NEW l,
           HalfForm(r, n, key, o, b, k, g, l)
    PROVE  \/ Unmarshal(r) = Undecoded
           \/ /\ key = "content"
              /\ Unmarshal(r) = Decoded(Append(Flat(Meaning, SubSeq(b, 1, k)), "U+FFFD"))
<1> DEFINE m == EndOf(b, k)
           e == g + l + 1
           s == g + l + 2
<1>0. Begins(r, 0, n, key, o) /\ Holds(r, o, b, k) /\ l \in 1..5 /\ Halved(r, g, l)
  BY DEF HalfForm
<1>1. /\ r \in Seq(Symbols) /\ o \in Nat /\ o >= 6 /\ b \in Seq(Items) /\ k \in 0..Len(b)
      /\ m \in Nat
  BY <1>0, BeginsTyped, Ends DEF Holds
<1>7. g = o + m /\ s = Len(r) /\ r[s] = "close" /\ r[e] = "q"
  BY DEF HalfForm
<1> HIDE DEF m
<1>2. g = o + m /\ g \in Nat /\ s \in Nat /\ s = Len(r) /\ r[s] = "close"
  BY <1>0, <1>1, <1>7
<1>3. e \in Nat /\ e \in (o + 1)..(s - 1) /\ e \in o..(s - 1) /\ r[e] = "q" /\ e - 1 = o + m + l
      /\ s - 1 = e
  BY <1>0, <1>1, <1>7
<1>4. \A i \in (e + 1)..(s - 1) : r[i] \in White
  <2>1. ASSUME NEW i \in (e + 1)..(s - 1) PROVE FALSE
    BY <1>3
  <2> QED
    BY <2>1
<1> HIDE DEF e, s
<1>5. CASE key = "content"
  <2> DEFINE v == SubSeq(r, o + 1, e - 1)
  <2>1. Begins(r, 0, n, "content", o)
    BY <1>0, <1>5
  <2>2. Unmarshal(r) = Unquote(v)
    BY <1>2, <1>3, <1>4, <2>1, ObjectClosed
  <2>3. IsPart(v, r, o + 1, e - 1)
    <3>1. o + 1 \in Nat /\ e - 1 \in Nat /\ 1 <= o + 1 /\ o + 1 <= (e - 1) + 1 /\ e - 1 <= Len(r)
      BY <1>1, <1>2, <1>3
    <3> QED
      BY <1>1, <3>1 DEF IsPart
  <2> HIDE DEF v
  <2>4. o + 1 <= o + 1 /\ o + EndOf(b, k) <= e - 1
    <3>1. o + 1 <= o + 1 /\ o + m <= e - 1
      BY <1>0, <1>1, <1>2, <1>3
    <3> QED
      BY <3>1 DEF m
  <2>5. Holds(v, o - (o + 1) + 1, b, k)
    BY <1>0, <2>3, <2>4, HoldsInPart
  <2>6. o - (o + 1) + 1 = 0
    BY <1>1
  <2>7. Holds(v, 0, b, k)
    BY <2>5, <2>6
  <2>8. Len(v) = EndOf(b, k) + l /\ \A i \in 1..(m + l) : v[i] = r[o + i]
    <3>1. Len(v) = (e - 1) - (o + 1) + 1
          /\ \A i \in 1..((e - 1) - (o + 1) + 1) : v[i] = r[(o + 1) + i - 1]
      BY <2>3, PartIs DEF PartBounds
    <3>2. (e - 1) - (o + 1) + 1 = m + l
      BY <1>0, <1>1, <1>2, <1>3
    <3>3. \A i \in 1..(m + l) : (o + 1) + i - 1 = o + i
      BY <1>1
    <3> QED
      BY <3>1, <3>2, <3>3 DEF m
  <2>9. \A i \in 1..l : v[m + i] = r[g + i]
    <3> SUFFICES ASSUME NEW i \in 1..l PROVE v[m + i] = r[g + i]
      OBVIOUS
    <3>1. m + i \in 1..(m + l) /\ o + (m + i) = g + i
      BY <1>0, <1>1, <1>2
    <3> QED
      BY <2>8, <3>1
  <2>10. Halved(v, EndOf(b, k), l)
    <3>1. Halved(v, m, l)
      BY <1>0, <1>1, <1>2, <2>9, HalvedSame
    <3> QED
      BY <3>1 DEF m
  <2>11. \/ Unquote(v) = Undecoded
         \/ Unquote(v) = Decoded(Append(Flat(Meaning, SubSeq(b, 1, k)), "U+FFFD"))
    BY <2>7, <2>8, <2>10, UnquoteHalved
  <2> QED
    BY <1>5, <2>2, <2>11
<1>6. CASE key # "content"
  <2>1. r[e] \notin White
    BY <1>3 DEF White
  <2>2. Unmarshal(r) = IF key = "content" THEN StringValue(SubSeq(r, o, e)) ELSE Undecoded
    BY <1>0, <1>2, <1>3, <1>4, <2>1, ObjectValue
  <2> QED
    BY <1>6, <2>2
<1> QED
  BY <1>5, <1>6

(* One with a bare quote or newline in it, and more after that. *)
BrokenForm(r, n, key, o, b, k, g) ==
    /\ Begins(r, 0, n, key, o) /\ Holds(r, o, b, k) /\ ~Clean(b, k) /\ g = o + EndOf(b, k)
    /\ g < Len(r) /\ r[g + 1] \notin White /\ r[g + 1] # "close" /\ r[Len(r)] \notin White

(* An object with a raw symbol in its string is undecoded. *)
LEMMA BrokenObject ==
    ASSUME NEW r, NEW n, NEW key, NEW o, NEW b, NEW k, NEW g, BrokenForm(r, n, key, o, b, k, g)
    PROVE  Unmarshal(r) = Undecoded
<1> DEFINE m == EndOf(b, k)
           l == Len(r)
<1>0. Begins(r, 0, n, key, o) /\ Holds(r, o, b, k)
  BY DEF BrokenForm
<1>1. /\ r \in Seq(Symbols) /\ o \in Nat /\ o >= 6 /\ b \in Seq(Items) /\ k \in 0..Len(b)
      /\ m \in Nat /\ r[1] = "open" /\ r # <<>>
  <2>1. r \in Seq(Symbols) /\ o >= 0 + 6 /\ o \in Nat /\ o <= Len(r) /\ r[0 + 1] = "open"
    BY <1>0, BeginsTyped
  <2>2. b \in Seq(Items) /\ k \in 0..Len(b) /\ m \in Nat
    BY <1>0, Ends DEF Holds
  <2> QED
    BY <2>1, <2>2
<1>7. /\ g = o + m /\ g < l /\ r[g + 1] \notin White /\ r[g + 1] # "close" /\ r[l] \notin White
      /\ ~Clean(b, k)
  BY DEF BrokenForm
<1>2. g = o + m /\ g \in Nat /\ l \in Nat /\ g + 1 <= l
  <2>1. l \in Nat
    BY <1>1
  <2> HIDE DEF m, l
  <2> QED
    BY <1>1, <1>7, <2>1
<1>3. CASE r[l] # "close"
  BY <1>1, <1>3, <1>7, NotObject DEF White
<1>4. CASE r[l] = "close"
  <2> HIDE DEF m, l
  <2>1. g + 1 <= l - 1 /\ g + 1 \in Nat /\ l - 1 \in Nat
    <3>1. g + 1 # l
      BY <1>4, <1>7
    <3> QED
      BY <1>2, <3>1
  <2>2. PICK e \in (g + 1)..(l - 1) :
           r[e] \notin White /\ \A i \in (e + 1)..(l - 1) : r[i] \in White
    <3> DEFINE i == g + 1
               h == l - 1
    <3>1. i \in Nat /\ h \in Nat /\ i <= h
      BY <2>1
    <3>2. r[i] \notin White
      BY <1>7
    <3> HIDE DEF i, h
    <3>3. \E e \in i..h : r[e] \notin White /\ \A x \in (e + 1)..h : r[x] \in White
      BY <3>1, <3>2, LastNotIn
    <3> QED
      BY <3>3 DEF i, h
  <2>3. e \in o..(l - 1) /\ e \in (o + 1)..(l - 1) /\ l = Len(r) /\ e \in Nat /\ g <= e - 1
    BY <1>1, <1>2, <2>1, <2>2 DEF l
  <2>4. CASE r[e] # "q"
    BY <1>0, <1>4, <2>2, <2>3, <2>4, ObjectOpen
  <2>5. CASE r[e] = "q" /\ key = "content"
    <3> DEFINE v == SubSeq(r, o + 1, e - 1)
    <3>1. Begins(r, 0, n, "content", o)
      BY <1>0, <2>5
    <3>2. Unmarshal(r) = Unquote(v)
      BY <1>4, <2>2, <2>3, <2>5, <3>1, ObjectClosed
    <3>3. IsPart(v, r, o + 1, e - 1)
      <4>1. o + 1 \in Nat /\ e - 1 \in Nat /\ 1 <= o + 1 /\ o + 1 <= (e - 1) + 1 /\ e - 1 <= Len(r)
        BY <1>1, <1>2, <2>3
      <4> QED
        BY <1>1, <4>1 DEF IsPart
    <3> HIDE DEF v
    <3>4. o + 1 <= o + 1 /\ o + EndOf(b, k) <= e - 1
      <4>1. o + 1 <= o + 1 /\ o + m <= e - 1
        BY <1>1, <1>2, <2>3
      <4> QED
        BY <4>1 DEF m
    <3>5. Holds(v, o - (o + 1) + 1, b, k)
      BY <1>0, <3>3, <3>4, HoldsInPart
    <3>6. o - (o + 1) + 1 = 0
      BY <1>1
    <3>7. Holds(v, 0, b, k)
      BY <3>5, <3>6
    <3> QED
      BY <1>7, <3>2, <3>7, UnquoteUnclean
  <2>6. CASE key # "content"
    <3>1. Unmarshal(r) = IF key = "content" THEN StringValue(SubSeq(r, o, e)) ELSE Undecoded
      BY <1>0, <1>4, <2>2, <2>3, ObjectValue
    <3> QED
      BY <2>6, <3>1
  <2> QED
    BY <2>4, <2>5, <2>6
<1> QED
  BY <1>3, <1>4

(* An escape at the end of a string literal. *)
LEMMA UnquoteEscaped ==
    ASSUME NEW w, NEW body, NEW n, Holds(w, 0, body, n), NEW g, g = EndOf(body, n),
           Len(w) = g + 1, w[g + 1] = "\\"
    PROVE  Unquote(w) = Undecoded
<1> DEFINE f == Unquoting(w)
           out == Flat(Meaning, SubSeq(body, 1, n))
<1>1. w \in Seq(Symbols) /\ body \in Seq(Items) /\ n \in 0..Len(body) /\ n \in 0..n
  BY DEF Holds
<1>2. Unquotes(f, w)
  BY <1>1, UnquotingDefined
<1>3. g \in Nat
  BY <1>1, Ends
<1>4. CASE ~Clean(body, n)
  BY <1>4, UnquoteUnclean
<1>5. CASE Clean(body, n)
  <2>1. f[g] = Literal(out)
    <3> HIDE DEF f
    <3>1. Unquoted(f, body, n)
      BY <1>1, <1>2, UnquotesRun
    <3> QED
      BY <1>5, <3>1 DEF Unquoted
  <2> HIDE DEF out, f
  <2>2. f[g + 1] = UnquoteStep(f[g], w[g + 1])
    <3>1. 1 \in 1..6 /\ g + 1 <= Len(w)
      BY <1>1, <1>3
    <3> QED
      BY <1>1, <1>2, <1>3, <3>1, UnquotesSteps
  <2>3. f[g + 1] = UnquoteStep(Literal(out), "\\")
    BY <2>1, <2>2
  <2>4. f[g + 1] = Escaping("escaped", out)
    BY <2>3, UnquoteBackslash
  <2>5. f[Len(w)].mode # "plain"
    BY <2>4 DEF Escaping
  <2> QED
    BY <2>5 DEF Unquote, f
<1> QED
  BY <1>4, <1>5

-----------------------------------------------------------------------------
(* What is left of a writing when everything around the object is gone but *)
(* j symbols of prose: its opening, and the first k items up to g.         *)
Prose(c, j) == j = 0 \/ (j = 2 /\ c[1] = "other" /\ c[2] = "s")

Cleaned(c, j, n, key, o, body, k, g) ==
    /\ Prose(c, j) /\ Begins(c, j, n, key, o) /\ Holds(c, o, body, k) /\ ~Ambiguous(body)
    /\ g = o + EndOf(body, k)

(* The text was cut after an item, or within one, or after them all.       *)
CutAfter(c, j, n, key, o, body, k, g) ==
    Cleaned(c, j, n, key, o, body, k, g) /\ Len(c) = g /\ c[g] \notin White

CutWithin(c, j, n, key, o, body, k, g, l) ==
    /\ Cleaned(c, j, n, key, o, body, k, g) /\ k < Len(body)
    /\ l \in 1..5 /\ Halved(c, g, l) /\ Len(c) = g + l

Through(c, j, n, key, o, body, k, g) ==
    /\ Cleaned(c, j, n, key, o, body, k, g) /\ k = Len(body) /\ c[g + 1] = "q"
    /\ \/ Len(c) = g + 1
       \/ Len(c) = g + 2 /\ c[g + 2] \in {"close", ","}
       \/ Len(c) = g + 3 /\ c[g + 2] \in {"s", ","} /\ c[g + 3] = "close"

(* What a text holds that was cleaned: an object that begins, and items of its body. *)
LEMMA CleanedTyped ==
    ASSUME NEW c, NEW j, NEW n, NEW key, NEW o, NEW body, NEW k, NEW g,
           Cleaned(c, j, n, key, o, body, k, g)
    PROVE  /\ c \in Seq(Symbols) /\ Len(c) \in Nat /\ j \in Nat /\ n \in Nat /\ o \in Nat
           /\ o >= j + 6 /\ g >= o /\ g <= Len(c) /\ g \in Nat /\ EndOf(body, k) \in Nat
           /\ g = o + EndOf(body, k) /\ c # <<>>
           /\ body \in Seq(Items) /\ k \in 0..Len(body) /\ k \in Nat /\ Len(body) \in Nat
           /\ c[o] = "q" /\ c[1] \notin White /\ (j # 0 => c[1] # "open")
           /\ key \in {"content", "text", "other"}
           /\ Begins(c, j, n, key, o) /\ Holds(c, o, body, k) /\ ~Ambiguous(body)
<1>1. /\ c \in Seq(Symbols) /\ Len(c) \in Nat /\ j \in Nat /\ n \in Nat /\ o \in Nat
      /\ o >= j + 6 /\ c[o] = "q" /\ c[j + 1] = "open" /\ key \in {"content", "text", "other"}
      /\ o <= Len(c)
  BY BeginsTyped DEF Cleaned
<1>2. Holds(c, o, body, k) /\ g = o + EndOf(body, k) /\ Begins(c, j, n, key, o) /\ ~Ambiguous(body)
  BY DEF Cleaned
<1>3. body \in Seq(Items) /\ k \in 0..Len(body) /\ o + EndOf(body, k) <= Len(c)
  BY <1>2 DEF Holds
<1>4. EndOf(body, k) \in Nat /\ k \in Nat /\ Len(body) \in Nat
  BY <1>3, Ends
<1>5. g >= o /\ g <= Len(c) /\ g \in Nat
  BY <1>1, <1>2, <1>3, <1>4
<1>6. c[1] \notin White /\ (j # 0 => c[1] # "open")
  <2>1. j = 0 \/ (j = 2 /\ c[1] = "other")
    BY DEF Cleaned, Prose
  <2>2. j = 0 => c[1] = "open"
    BY <1>1
  <2> QED
    BY <2>1, <2>2 DEF White
<1>7. c # <<>>
  BY <1>1
<1> QED
  BY <1>1, <1>2, <1>3, <1>4, <1>5, <1>6, <1>7

(* A text that was cut after an item is no object, whatever its end looks like. *)
LEMMA CutAfterUndecoded ==
    ASSUME NEW c, NEW j, NEW n, NEW key, NEW o, NEW body, NEW k, NEW g,
           CutAfter(c, j, n, key, o, body, k, g)
    PROVE  Unmarshal(c) = Undecoded
<1>0. Cleaned(c, j, n, key, o, body, k, g) /\ Len(c) = g /\ c[g] \notin White
  BY DEF CutAfter
<1>1. /\ c \in Seq(Symbols) /\ Len(c) \in Nat /\ j \in Nat /\ n \in Nat /\ o \in Nat
      /\ o >= j + 6 /\ g >= o /\ g <= Len(c) /\ g \in Nat /\ EndOf(body, k) \in Nat
      /\ g = o + EndOf(body, k) /\ c # <<>>
      /\ body \in Seq(Items) /\ k \in 0..Len(body) /\ k \in Nat /\ Len(body) \in Nat
      /\ c[o] = "q" /\ c[1] \notin White /\ (j # 0 => c[1] # "open")
      /\ key \in {"content", "text", "other"}
      /\ Begins(c, j, n, key, o) /\ Holds(c, o, body, k) /\ ~Ambiguous(body)
  <2>1. Cleaned(c, j, n, key, o, body, k, g)
    BY <1>0
  <2> QED
    BY <2>1, CleanedTyped
<1>2. CASE j # 0 \/ c[g] # "close"
  <2>1. c[1] # "open" \/ c[Len(c)] # "close"
    BY <1>0, <1>1, <1>2
  <2>2. c[Len(c)] \notin White
    BY <1>0
  <2> QED
    BY <1>1, <2>1, <2>2, NotObject
<1>3. CASE j = 0 /\ c[g] = "close"
  <2>0. Begins(c, 0, n, key, o)
    BY <1>1, <1>3
  <2>1. o # g /\ o <= g - 1 /\ g - 1 \in Nat
    <3>1. o # g
      BY <1>1, <1>3
    <3> QED
      BY <1>1, <3>1
  <2>2. PICK e \in o..(g - 1) : c[e] \notin White /\ \A i \in (e + 1)..(g - 1) : c[i] \in White
    <3> DEFINE h == g - 1
    <3>1. h \in Nat /\ o <= h /\ c[o] \notin White
      BY <1>1, <2>1 DEF White
    <3> HIDE DEF h
    <3>2. \E e \in o..h : c[e] \notin White /\ \A i \in (e + 1)..h : c[i] \in White
      BY <1>1, <3>1, LastNotIn
    <3> QED
      BY <3>2 DEF h
  <2>3. e \in Nat /\ o <= e /\ e <= g - 1
    BY <1>1, <2>1, <2>2
  <2>4. CASE c[e] # "q" \/ e = o
    <3>1. g = Len(c)
      BY <1>0
    <3> QED
      BY <1>3, <2>0, <2>2, <2>4, <3>1, ObjectOpen
  <2>5. CASE c[e] = "q" /\ e # o
    <3>1. e \in (o + 1)..(o + EndOf(body, k)) /\ e \in (o + 1)..(g - 1)
      BY <1>1, <2>3, <2>5
    <3>2. PICK p \in 1..k : \E i \in 1..Len(Source[body[p]]) :
              e = o + EndOf(body, p - 1) + i /\ FitsIn(c[e], body[p], i)
      BY <1>1, <3>1, HeldSymbol
    <3>3. PICK i \in 1..Len(Source[body[p]]) :
              e = o + EndOf(body, p - 1) + i /\ FitsIn(c[e], body[p], i)
      BY <3>2
    <3> DEFINE y == EndOf(body, p - 1)
               z == EndOf(body, p)
               l == Len(Source[body[p]])
               x == body[p]
    <3>4. y \in Nat /\ l \in 1..6 /\ z = y + l /\ x \in Items /\ z \in Nat /\ z <= EndOf(body, k)
          /\ p \in 1..Len(body) /\ p \in Nat /\ p - 1 \in 0..k /\ p \in 0..k
      <4>1. p \in 1..Len(body) /\ p \in 0..Len(body) /\ p \in 0..k /\ p \in Nat /\ p - 1 \in 0..k
        BY <1>1
      <4>2. y \in Nat /\ l \in 1..6 /\ z = y + l /\ x \in Items /\ z \in Nat
        BY <1>1, <4>1, Ends
      <4>3. z <= EndOf(body, k)
        BY <1>1, <4>1, EndsInOrder
      <4> QED
        BY <4>1, <4>2, <4>3
    <3>5. e = o + y + i /\ i \in 1..l /\ (x = "rawQuote" \/ (x = "quote" /\ i = 2))
      BY <2>5, <3>3 DEF FitsIn
    <3>6. ItemAt(c, o + y, x)
      BY <1>1 DEF Holds
    <3> HIDE DEF y, z, l, x
    <3>7. CASE x = "rawQuote"
      <4>1. l = 1
        <5>1. Shows(c, o + y, Source[x]) /\ x \in Singles
          BY <3>6, <3>7 DEF ItemAt, Singles
        <5>2. Len(Source[x]) = 1
          BY <5>1, SymbolsOf
        <5> QED
          BY <5>2 DEF l, x
      <4>2. e = o + z
        BY <1>1, <3>4, <3>5, <4>1
      <4>3. p < k
        <5>1. p # k
          BY <1>1, <2>3, <4>2 DEF z
        <5> QED
          BY <1>1, <3>4, <5>1
      <4> DEFINE q == p + 1
      <4>4. q \in 1..k /\ q - 1 = p /\ q \in 1..Len(body)
        BY <1>1, <3>4, <4>3
      <4>5. body[q] \notin {"space", "rawNewline", "brace"}
        <5>1. p \in DOMAIN body /\ body[p] = "rawQuote"
          BY <1>1, <3>4, <3>7 DEF x
        <5> QED
          BY <1>1, <5>1 DEF Ambiguous
      <4> HIDE DEF q
      <4>6. ItemAt(c, o + EndOf(body, q - 1), body[q])
        BY <1>1, <4>4 DEF Holds
      <4>7. ItemAt(c, e, body[q]) /\ Len(Source[body[q]]) \in 1..6
        <5>1. body[q] \in Items
          BY <1>1, <4>4
        <5> QED
          BY <4>2, <4>4, <4>6, <5>1, TextsTyped DEF z
      <4>8. FitsIn(c[e + 1], body[q], 1)
        <5>1. 1 \in 1..Len(Source[body[q]])
          <6>1. \A m \in 1..6 : 1 \in 1..m
            OBVIOUS
          <6> QED
            BY <4>7, <6>1
        <5> QED
          BY <4>7, <5>1, ItemSymbols
      <4>9. c[e + 1] \notin White /\ c[e + 1] # "close"
        BY <4>5, <4>8 DEF FitsIn
      <4>10. e + 1 \in (e + 1)..(g - 1) \/ e + 1 = g
        <5>1. g \in Nat /\ e \in Nat /\ e <= g - 1
          BY <1>1, <2>3
        <5> QED
          BY <5>1
      <4>11. e + 1 # g
        BY <1>3, <4>9
      <4> QED
        BY <2>2, <4>9, <4>10, <4>11
    <3>8. CASE x = "quote" /\ i = 2
      <4>1. l = 2 /\ c[o + y + 1] = "\\"
        <5>1. Shows(c, o + y, Source[x])
          BY <3>6 DEF ItemAt
        <5>2. Len(Source[x]) = 2 /\ c[(o + y) + 1] = "\\"
          BY <3>8, <5>1, SymbolsOf
        <5> QED
          BY <5>2 DEF l, x
      <4>2. e = o + y + 2 /\ e - 1 = o + y + 1
        BY <1>1, <3>4, <3>5, <3>8
      <4>3. CASE key # "content"
        <5>1. g = Len(c) /\ c[e] \notin White
          BY <1>0, <2>5 DEF White
        <5>2. Unmarshal(c) = IF key = "content" THEN StringValue(SubSeq(c, o, e)) ELSE Undecoded
          BY <1>3, <2>0, <2>2, <5>1, ObjectValue
        <5> QED
          BY <4>3, <5>2
      <4>4. CASE key = "content"
        <5> DEFINE v == SubSeq(c, o + 1, e - 1)
        <5>1. g = Len(c) /\ Begins(c, 0, n, "content", o)
          BY <1>0, <2>0, <4>4
        <5>2. Unmarshal(c) = Unquote(v)
          BY <1>3, <2>2, <2>5, <3>1, <5>1, ObjectClosed
        <5>3. IsPart(v, c, o + 1, e - 1)
          <6>1. o + 1 \in Nat /\ e - 1 \in Nat /\ 1 <= o + 1 /\ o + 1 <= (e - 1) + 1
                /\ e - 1 <= Len(c)
            BY <1>0, <1>1, <2>3, <4>2, <3>4
          <6> QED
            BY <1>1, <6>1 DEF IsPart
        <5> HIDE DEF v
        <5>4. Holds(c, o, body, p - 1)
          BY <1>1, <3>4, HoldsLess
        <5>5. o + 1 <= o + 1 /\ o + EndOf(body, p - 1) <= e - 1
          <6>1. o + 1 <= o + 1 /\ o + y <= e - 1
            BY <1>1, <3>4, <4>2
          <6> QED
            BY <6>1 DEF y
        <5>6. Holds(v, o - (o + 1) + 1, body, p - 1)
          BY <5>3, <5>4, <5>5, HoldsInPart
        <5>7. o - (o + 1) + 1 = 0
          BY <1>1
        <5>8. Holds(v, 0, body, p - 1)
          BY <5>6, <5>7
        <5>9. Len(v) = y + 1 /\ v[y + 1] = "\\"
          <6>1. Len(v) = (e - 1) - (o + 1) + 1
                /\ \A h \in 1..((e - 1) - (o + 1) + 1) : v[h] = c[(o + 1) + h - 1]
            BY <5>3, PartIs DEF PartBounds
          <6>2. (e - 1) - (o + 1) + 1 = y + 1 /\ y + 1 \in 1..(y + 1)
                /\ (o + 1) + (y + 1) - 1 = o + y + 1
            BY <1>1, <3>4, <4>2
          <6>3. v[y + 1] = c[(o + 1) + (y + 1) - 1]
            BY <6>1, <6>2
          <6> QED
            BY <4>1, <6>1, <6>2, <6>3
        <5>10. y = EndOf(body, p - 1)
          BY DEF y
        <5>11. Unquote(v) = Undecoded
          BY <5>8, <5>9, <5>10, UnquoteEscaped
        <5> QED
          BY <5>2, <5>11
      <4> QED
        BY <4>3, <4>4
    <3> QED
      BY <3>5, <3>7, <3>8
  <2> QED
    BY <2>4, <2>5
<1> QED
  BY <1>2, <1>3

(* The symbols of an item cut in its middle. *)
LEMMA HalvedSymbols ==
    ASSUME NEW w, NEW g \in Nat, NEW l \in 1..5, Halved(w, g, l)
    PROVE  /\ w[g + 1] \in {"r1", "\\"} /\ w[g + l] \in {"r1", "\\", "u", "H"}
           /\ \A i \in 1..l : w[g + i] \in {"r1", "\\", "u", "H"}
<1>1. l = 1 \/ l = 2 \/ l = 3 \/ l = 4 \/ l = 5
  OBVIOUS
<1>2. CASE l = 1
  <2>1. w[g + 1] \in {"r1", "\\"}
    BY <1>2 DEF Halved
  <2>2. \A i \in 1..1 : i = 1
    OBVIOUS
  <2> QED
    BY <1>2, <2>1, <2>2
<1>3. CASE l = 2
  <2>1. w[g + 1] = "\\" /\ w[g + 2] = "u"
    BY <1>3 DEF Halved
  <2>2. \A i \in 1..2 : i = 1 \/ i = 2
    OBVIOUS
  <2> QED
    BY <1>3, <2>1, <2>2
<1>4. CASE l = 3
  <2>1. w[g + 1] = "\\" /\ w[g + 2] = "u" /\ w[g + 3] = "H"
    BY <1>4 DEF Halved
  <2>2. \A i \in 1..3 : i = 1 \/ i = 2 \/ i = 3
    OBVIOUS
  <2> QED
    BY <1>4, <2>1, <2>2
<1>5. CASE l = 4
  <2>1. w[g + 1] = "\\" /\ w[g + 2] = "u" /\ w[g + 3] = "H" /\ w[g + 4] = "\\"
    BY <1>5 DEF Halved
  <2>2. \A i \in 1..4 : i = 1 \/ i = 2 \/ i = 3 \/ i = 4
    OBVIOUS
  <2> QED
    BY <1>5, <2>1, <2>2
<1>6. CASE l = 5
  <2>1. w[g + 1] = "\\" /\ w[g + 2] = "u" /\ w[g + 3] = "H" /\ w[g + 4] = "\\" /\ w[g + 5] = "u"
    BY <1>6 DEF Halved
  <2>2. \A i \in 1..5 : i = 1 \/ i = 2 \/ i = 3 \/ i = 4 \/ i = 5
    OBVIOUS
  <2> QED
    BY <1>6, <2>1, <2>2
<1> QED
  BY <1>1, <1>2, <1>3, <1>4, <1>5, <1>6

(* A text cut in the middle of an item is not decoded as it stands. *)
LEMMA CutWithinUndecoded ==
    ASSUME NEW c, NEW j, NEW n, NEW key, NEW o, NEW body, NEW k, NEW g, NEW l,
           CutWithin(c, j, n, key, o, body, k, g, l)
    PROVE  Unmarshal(c) = Undecoded
<1>1. Cleaned(c, j, n, key, o, body, k, g)
  BY DEF CutWithin
<1>2. c \in Seq(Symbols) /\ g \in Nat /\ c # <<>> /\ c[1] \notin White
  BY <1>1, CleanedTyped
<1>3. l \in 1..5 /\ Halved(c, g, l) /\ Len(c) = g + l
  BY DEF CutWithin
<1>4. c[g + l] \in {"r1", "\\", "u", "H"}
  BY <1>2, <1>3, HalvedSymbols
<1>5. c[Len(c)] \in {"r1", "\\", "u", "H"}
  BY <1>3, <1>4
<1>6. c[Len(c)] \notin White /\ c[Len(c)] # "close"
  BY <1>5 DEF White
<1> QED
  BY <1>2, <1>6, NotObject

(* A text with all of its body is decoded to what the body means, or not at all. *)
LEMMA ThroughUnmarshal ==
    ASSUME NEW c, NEW j, NEW n, NEW key, NEW o, NEW body, NEW k, NEW g,
           Through(c, j, n, key, o, body, k, g)
    PROVE  \/ Unmarshal(c) = Undecoded
           \/ key = "content" /\ Unmarshal(c) = Decoded(Flat(Meaning, SubSeq(body, 1, k)))
<1>0. /\ c[g + 1] = "q"
      /\ \/ Len(c) = g + 1
         \/ Len(c) = g + 2 /\ c[g + 2] \in {"close", ","}
         \/ Len(c) = g + 3 /\ c[g + 2] \in {"s", ","} /\ c[g + 3] = "close"
  BY DEF Through
<1>1. /\ c \in Seq(Symbols) /\ Len(c) \in Nat /\ j \in Nat /\ n \in Nat /\ o \in Nat
      /\ o >= j + 6 /\ g >= o /\ g <= Len(c) /\ g \in Nat /\ EndOf(body, k) \in Nat
      /\ g = o + EndOf(body, k) /\ c # <<>>
      /\ body \in Seq(Items) /\ k \in 0..Len(body) /\ k \in Nat /\ Len(body) \in Nat
      /\ c[o] = "q" /\ c[1] \notin White /\ (j # 0 => c[1] # "open")
      /\ key \in {"content", "text", "other"}
      /\ Begins(c, j, n, key, o) /\ Holds(c, o, body, k) /\ ~Ambiguous(body)
  <2>1. Cleaned(c, j, n, key, o, body, k, g)
    BY DEF Through
  <2> QED
    BY <2>1, CleanedTyped
<1>2. CASE j # 0 \/ c[Len(c)] # "close"
  <2>1. c[Len(c)] \notin White
    BY <1>0 DEF White
  <2>2. c[1] # "open" \/ c[Len(c)] # "close"
    BY <1>1, <1>2
  <2> QED
    BY <1>1, <2>1, <2>2, NotObject
<1>3. CASE j = 0 /\ c[Len(c)] = "close" /\ c[g + 2] # ","
  <2>1. Begins(c, 0, n, key, o)
    BY <1>1, <1>3
  <2>2. Len(c) \in {g + 2, g + 3} /\ (Len(c) = g + 3 => c[g + 2] = "s")
    <3>1. CASE Len(c) = g + 1
      BY <1>0, <1>3, <3>1
    <3>2. CASE Len(c) = g + 2
      BY <1>1, <3>2
    <3>3. CASE Len(c) = g + 3 /\ c[g + 2] \in {"s", ","}
      BY <1>3, <3>3
    <3> QED
      BY <1>0, <3>1, <3>2, <3>3
  <2>3. WholeForm(c, n, key, o, body, k, g)
    BY <1>0, <1>1, <1>3, <2>1, <2>2 DEF WholeForm
  <2> QED
    BY <2>3, WholeObject
<1>4. CASE j = 0 /\ c[Len(c)] = "close" /\ c[g + 2] = ","
  <2>0. Begins(c, 0, n, key, o)
    BY <1>1, <1>4
  <2> DEFINE l == Len(c)
             e == g + 2
  <2>1. l = g + 3
    BY <1>0, <1>4
  <2>2. e \in o..(l - 1) /\ c[e] = "," /\ c[l] = "close"
    <3>1. e \in o..(l - 1)
      BY <1>1, <2>1, SMTT(30)
    <3> QED
      BY <1>4, <3>1
  <2>3. \A i \in (e + 1)..(l - 1) : c[i] \in White
    <3>1. ASSUME NEW i \in (e + 1)..(l - 1) PROVE FALSE
      BY <1>1, <2>1, SMTT(30)
    <3> QED
      BY <3>1
  <2>4. c[e] \notin White /\ c[e] # "q"
    BY <2>2 DEF White
  <2>5. l = Len(c)
    OBVIOUS
  <2> HIDE DEF e, l
  <2> QED
    BY <2>0, <2>2, <2>3, <2>4, <2>5, ObjectOpen
<1> QED
  BY <1>2, <1>3, <1>4

-----------------------------------------------------------------------------
(* The repair looks at nothing before the first brace. *)
LEMMA Unprosed ==
    ASSUME NEW c, NEW j, NEW n, NEW key, NEW o, NEW body, NEW k, NEW g,
           Cleaned(c, j, n, key, o, body, k, g)
    PROVE  /\ Cleaned(Rest(c, j + 1), 0, n - j, key, o - j, body, k, g - j)
           /\ Len(Rest(c, j + 1)) = Len(c) - j
           /\ \A i \in 1..(Len(c) - j) : Rest(c, j + 1)[i] = c[j + i]
           /\ AttemptStructuralRepair(c) = AttemptStructuralRepair(Rest(c, j + 1))
<1> DEFINE w == Rest(c, j + 1)
           l == Len(c)
<1>1. /\ c \in Seq(Symbols) /\ l \in Nat /\ j \in Nat /\ n \in Nat /\ o \in Nat
      /\ o >= j + 6 /\ g >= o /\ g <= l /\ g \in Nat /\ EndOf(body, k) \in Nat
      /\ g = o + EndOf(body, k) /\ c # <<>>
      /\ body \in Seq(Items) /\ k \in 0..Len(body) /\ k \in Nat /\ Len(body) \in Nat
      /\ c[o] = "q" /\ c[1] \notin White /\ (j # 0 => c[1] # "open")
      /\ key \in {"content", "text", "other"}
      /\ Begins(c, j, n, key, o) /\ Holds(c, o, body, k) /\ ~Ambiguous(body)
  BY CleanedTyped
<1>2. IsPart(w, c, j + 1, l)
  <2>1. IsPart(c, c, 1, l)
    BY <1>1, WholeIs
  <2> HIDE DEF l
  <2>2. j + 1 \in Nat /\ 1 <= j + 1 /\ j + 1 <= l - 1 + 2 /\ 1 + (j + 1) - 1 = j + 1
    BY <1>1
  <2>3. IsPart(Rest(c, j + 1), c, 1 + (j + 1) - 1, l)
    BY <2>1, <2>2, RestOfPart
  <2> QED
    BY <2>2, <2>3
<1> HIDE DEF w, l
<1>3. w \in Seq(Symbols) /\ Len(w) = l - j /\ \A i \in 1..(l - j) : w[i] = c[j + i]
  <2>1. /\ w \in Seq(Symbols) /\ Len(w) = l - (j + 1) + 1
        /\ \A i \in 1..(l - (j + 1) + 1) : w[i] = c[j + 1 + i - 1]
    BY <1>2, PartIs DEF PartBounds
  <2>2. l - (j + 1) + 1 = l - j /\ \A i \in 1..(l - j) : j + 1 + i - 1 = j + i
    BY <1>1
  <2> QED
    BY <2>1, <2>2
<1>4. Begins(w, 0, n - j, key, o - j)
  <2>1. /\ n \in {j + 5, j + 6} /\ o \in {n + 1, n + 2}
        /\ c[j + 1] = "open" /\ c[j + 2] = "q" /\ c[j + 3] = key /\ c[j + 4] = "q"
        /\ (n = j + 6 => c[j + 5] = "s") /\ c[n] = ":" /\ (o = n + 2 => c[n + 1] = "s")
        /\ c[o] = "q"
    BY <1>1 DEF Begins
  <2>2. /\ n - j \in {5, 6} /\ o - j \in {n - j + 1, n - j + 2} /\ o - j <= l - j
        /\ (n - j = 6 <=> n = j + 6) /\ (o - j = n - j + 2 <=> o = n + 2)
        /\ j + (n - j) = n /\ j + (o - j) = o /\ j + (n - j + 1) = n + 1
    BY <1>1, <2>1
  <2>3. /\ 1 \in 1..(l - j) /\ 2 \in 1..(l - j) /\ 3 \in 1..(l - j) /\ 4 \in 1..(l - j)
        /\ 5 \in 1..(l - j) /\ n - j \in 1..(l - j) /\ n - j + 1 \in 1..(l - j)
        /\ o - j \in 1..(l - j)
    BY <1>1, <2>1, SMTT(30)
  <2>4. /\ w[1] = c[j + 1] /\ w[2] = c[j + 2] /\ w[3] = c[j + 3] /\ w[4] = c[j + 4]
        /\ w[5] = c[j + 5]
    BY <1>3, <2>3
  <2>5. w[n - j] = c[n] /\ w[n - j + 1] = c[n + 1] /\ w[o - j] = c[o]
    <3>1. w[n - j] = c[j + (n - j)]
      BY <1>3, <2>3
    <3>2. w[n - j + 1] = c[j + (n - j + 1)]
      BY <1>3, <2>3
    <3>3. w[o - j] = c[j + (o - j)]
      BY <1>3, <2>3
    <3> QED
      BY <2>2, <3>1, <3>2, <3>3
  <2> DEFINE x == n - j
             y == o - j
  <2>6. /\ x \in {0 + 5, 0 + 6} /\ y \in {x + 1, x + 2} /\ y <= Len(w)
        /\ w[0 + 1] = "open" /\ w[0 + 2] = "q" /\ w[0 + 3] = key /\ w[0 + 4] = "q"
        /\ (x = 0 + 6 => w[0 + 5] = "s")
    BY <1>3, <2>1, <2>2, <2>4
  <2>7. w[x] = ":" /\ (y = x + 2 => w[x + 1] = "s") /\ w[y] = "q"
    BY <2>1, <2>2, <2>5
  <2> HIDE DEF x, y
  <2>8. Begins(w, 0, x, key, y)
    BY <1>1, <1>3, <2>6, <2>7 DEF Begins
  <2> QED
    BY <2>8 DEF x, y
<1>5. Holds(w, o - j, body, k)
  <2>1. j + 1 <= o + 1 /\ o + EndOf(body, k) <= l /\ o - (j + 1) + 1 = o - j
    BY <1>1
  <2>2. Holds(w, o - (j + 1) + 1, body, k)
    BY <1>1, <1>2, <2>1, HoldsInPart
  <2> QED
    BY <2>1, <2>2
<1>6. g - j = o - j + EndOf(body, k)
  BY <1>1
<1>7. Cleaned(w, 0, n - j, key, o - j, body, k, g - j)
  BY <1>1, <1>4, <1>5, <1>6 DEF Cleaned, Prose
<1>8. AttemptStructuralRepair(c) = AttemptStructuralRepair(w)
  <2> DEFINE st == Structuring(w)[Len(w)]
  <2>1. EndsIn(c, j, st)
    <3>1. c[j + 1] = "open" /\ j + 1 <= Len(c)
      BY <1>1 DEF Begins, l
    <3>2. ASSUME NEW i \in 1..j PROVE c[i] # "open"
      <4>1. j = 2 /\ c[1] = "other" /\ c[2] = "s"
        BY <3>2 DEF Cleaned, Prose
      <4>2. i = 1 \/ i = 2
        BY <4>1
      <4> QED
        BY <4>1, <4>2
    <3> QED
      BY <1>1, <3>1, <3>2 DEF EndsIn, w
  <2>2. EndsIn(w, 0, st)
    <3>1. w[0 + 1] = "open" /\ 0 + 1 <= Len(w)
      BY <1>1, <1>3, <1>4 DEF Begins
    <3>2. Rest(w, 0 + 1) = w
      BY <1>3, WholeIs
    <3> QED
      BY <1>3, <3>1, <3>2 DEF EndsIn
  <2> HIDE DEF st
  <2> QED
    BY <2>1, <2>2, RepairFrom
<1> QED
  BY <1>3, <1>7, <1>8 DEF w, l

(* An opening, the first k items of a body and a tail. *)
Rebuild(c, o, b, k, t) == (SubSeq(c, 1, o) \o Flat(Source, SubSeq(b, 1, k))) \o t

Rebuilds(r, c, n, key, o, b, k, t) ==
    /\ Begins(c, 0, n, key, o) /\ b \in Seq(Items) /\ k \in 0..Len(b) /\ t \in Seq(Symbols)
    /\ r = Rebuild(c, o, b, k, t)

(* A text rebuilt of an opening, items and an end holds them. *)
LEMMA RebuiltIs ==
    ASSUME NEW r, NEW c, NEW n, NEW key, NEW o, NEW b, NEW k, NEW t,
           Rebuilds(r, c, n, key, o, b, k, t)
    PROVE  /\ Begins(r, 0, n, key, o) /\ Holds(r, o, b, k)
           /\ Len(r) = o + EndOf(b, k) + Len(t) /\ Len(t) \in Nat
           /\ \A i \in 1..Len(t) : r[o + EndOf(b, k) + i] = t[i]
<1>1. Begins(c, 0, n, key, o) /\ b \in Seq(Items) /\ k \in 0..Len(b) /\ t \in Seq(Symbols)
      /\ r = Rebuild(c, o, b, k, t)
  BY DEF Rebuilds
<1>2. c \in Seq(Symbols) /\ Len(c) \in Nat /\ n \in Nat /\ o \in Nat /\ o >= 6 /\ o <= Len(c)
      /\ key \in {"content", "text", "other"}
  BY <1>1, BeginsTyped
<1> DEFINE u == SubSeq(c, 1, o)
           v == Flat(Source, SubSeq(b, 1, k))
           w == u \o v
           g == o + EndOf(b, k)
<1>3. u \in Seq(Symbols) /\ Len(u) = o /\ \A i \in 1..o : u[i] = c[i]
  <2>1. IsPart(u, c, 1, o)
    BY <1>2 DEF IsPart
  <2>2. o - 1 + 1 = o /\ \A i \in 1..o : 1 + i - 1 = i
    BY <1>2
  <2> HIDE DEF u
  <2>3. u \in Seq(Symbols) /\ Len(u) = o - 1 + 1 /\ \A i \in 1..(o - 1 + 1) : u[i] = c[1 + i - 1]
    BY <2>1, PartIs DEF PartBounds
  <2> QED
    BY <2>2, <2>3
<1>4. v \in Seq(Symbols) /\ Len(v) = EndOf(b, k)
  BY <1>1, FlatTyped
<1>5. Joined(w, u, v)
  BY <1>3, <1>4, PutTogether
<1>6. r = w \o t
  BY <1>1 DEF Rebuild
<1> HIDE DEF u, v, w
<1>7. Joined(r, w, t)
  <2>1. w \in Seq(Symbols)
    BY <1>5 DEF Joined
  <2> QED
    BY <1>1, <1>6, <2>1, PutTogether
<1>8. /\ r \in Seq(Symbols) /\ Len(r) = g + Len(t) /\ Len(t) \in Nat /\ g \in Nat
      /\ EndOf(b, k) \in Nat
  BY <1>2, <1>3, <1>4, <1>5, <1>7 DEF Joined
<1>9. /\ \A i \in 1..o : r[i] = c[i]
      /\ \A i \in 1..EndOf(b, k) : r[o + i] = v[i]
      /\ \A i \in 1..Len(t) : r[g + i] = t[i]
  <2>1. \A i \in 1..o : i \in 1..Len(w) /\ w[i] = c[i]
    BY <1>2, <1>3, <1>4, <1>5, <1>8 DEF Joined
  <2>2. \A i \in 1..EndOf(b, k) : o + i \in 1..Len(w) /\ w[o + i] = v[i]
    BY <1>2, <1>3, <1>4, <1>5, <1>8 DEF Joined
  <2>3. Len(w) = g
    BY <1>3, <1>4, <1>5 DEF Joined
  <2> QED
    BY <1>7, <2>1, <2>2, <2>3 DEF Joined
<1>10. Begins(r, 0, n, key, o)
  <2>1. /\ n \in {5, 6} /\ o \in {n + 1, n + 2} /\ c[1] = "open" /\ c[2] = "q" /\ c[3] = key
        /\ c[4] = "q" /\ (n = 6 => c[5] = "s") /\ c[n] = ":" /\ (o = n + 2 => c[n + 1] = "s")
        /\ c[o] = "q"
    BY <1>1 DEF Begins
  <2>2. /\ 1 \in 1..o /\ 2 \in 1..o /\ 3 \in 1..o /\ 4 \in 1..o /\ 5 \in 1..o /\ n \in 1..o
        /\ n + 1 \in 1..o /\ o \in 1..o
    BY <1>2, <2>1
  <2>3. /\ r[1] = c[1] /\ r[2] = c[2] /\ r[3] = c[3] /\ r[4] = c[4] /\ r[5] = c[5] /\ r[n] = c[n]
        /\ r[n + 1] = c[n + 1] /\ r[o] = c[o]
    BY <1>9, <2>2
  <2>4. /\ n \in {0 + 5, 0 + 6} /\ o <= Len(r) /\ r[0 + 1] = "open" /\ r[0 + 2] = "q"
        /\ r[0 + 3] = key /\ r[0 + 4] = "q" /\ (n = 0 + 6 => r[0 + 5] = "s")
    BY <1>2, <1>8, <2>1, <2>3
  <2> QED
    BY <1>2, <1>8, <2>1, <2>3, <2>4 DEF Begins
<1>11. Holds(r, o, b, k)
  <2>1. ASSUME NEW i \in 1..k PROVE ItemAt(r, o + EndOf(b, i - 1), b[i])
    <3> DEFINE y == EndOf(b, i - 1)
               x == b[i]
               l == Len(Source[x])
    <3>1. i \in 1..Len(b) /\ i \in 0..k /\ k \in Nat
      BY <1>1
    <3>2. x \in Items /\ y \in Nat /\ l \in 1..6 /\ EndOf(b, i) = y + l
      BY <1>1, <3>1, Ends
    <3>3. EndOf(b, i) <= EndOf(b, k)
      BY <1>1, <3>1, EndsInOrder
    <3>4. \A h \in 1..l : y + h <= Len(v) /\ v[y + h] = Source[x][h]
      BY <1>1, <3>1, FlatPlaces DEF v, EndOf
    <3> HIDE DEF y, x, l
    <3>5. \A h \in 1..l : y + h \in 1..EndOf(b, k) /\ o + (y + h) = (o + y) + h
      BY <1>2, <1>8, <3>2, <3>3
    <3>6. ASSUME NEW h \in 1..l PROVE r[(o + y) + h] = Source[x][h]
      <4>1. r[o + (y + h)] = v[y + h]
        BY <1>9, <3>5
      <4> QED
        BY <3>4, <3>5, <4>1
    <3>7. o + y + l <= Len(r) /\ o + y \in Nat
      BY <1>2, <1>8, <3>2, <3>3
    <3>8. \A h \in 1..Len(Source[x]) : r[(o + y) + h] = Source[x][h]
      BY <3>6 DEF l
    <3>9. ItemAt(r, o + y, x)
      BY <1>8, <3>2, <3>7, <3>8 DEF ItemAt, Shows, l
    <3> QED
      BY <3>9 DEF y, x
  <2>2. o + EndOf(b, k) <= Len(r)
    BY <1>8
  <2> QED
    BY <1>1, <1>2, <1>8, <2>1, <2>2 DEF Holds
<1> QED
  BY <1>8, <1>9, <1>10, <1>11

(* What comes of an object that is rebuilt so. *)
LEMMA RebuiltWhole ==
    ASSUME NEW r, NEW c, NEW n, NEW key, NEW o, NEW b, NEW k, NEW t,
           Rebuilds(r, c, n, key, o, b, k, t), t \in {<<"q", "close">>, <<"q", "s", "close">>}
    PROVE  Unmarshal(r) = IF key = "content" /\ Clean(b, k)
                          THEN Decoded(Flat(Meaning, SubSeq(b, 1, k))) ELSE Undecoded
<1> DEFINE g == o + EndOf(b, k)
<1>1. /\ Begins(r, 0, n, key, o) /\ Holds(r, o, b, k)
      /\ Len(r) = g + Len(t) /\ Len(t) \in Nat
      /\ \A i \in 1..Len(t) : r[g + i] = t[i]
  BY RebuiltIs
<1>2. o \in Nat /\ b \in Seq(Items) /\ k \in 0..Len(b)
  BY <1>1 DEF Holds
<1>3. g \in Nat
  BY <1>2, Ends
<1>4. g = o + EndOf(b, k)
  OBVIOUS
<1> HIDE DEF g
<1>5. CASE t = <<"q", "close">>
  <2>1. Len(t) = 2 /\ t[1] = "q" /\ t[2] = "close"
    BY <1>5
  <2>2. 1 \in 1..2 /\ 2 \in 1..2
    OBVIOUS
  <2>3. r[g + 1] = "q" /\ r[g + 2] = "close" /\ Len(r) = g + 2
    BY <1>1, <2>1, <2>2
  <2>4. Len(r) \in {g + 2, g + 3} /\ Len(r) # g + 3 /\ r[Len(r)] = "close"
    BY <1>3, <2>3
  <2>5. WholeForm(r, n, key, o, b, k, g)
    BY <1>1, <1>4, <2>3, <2>4 DEF WholeForm
  <2> QED
    BY <2>5, WholeObject
<1>6. CASE t = <<"q", "s", "close">>
  <2>1. Len(t) = 3 /\ t[1] = "q" /\ t[2] = "s" /\ t[3] = "close"
    BY <1>6
  <2>2. 1 \in 1..3 /\ 2 \in 1..3 /\ 3 \in 1..3
    OBVIOUS
  <2>3. r[g + 1] = "q" /\ r[g + 2] = "s" /\ r[g + 3] = "close" /\ Len(r) = g + 3
    BY <1>1, <2>1, <2>2
  <2>4. Len(r) \in {g + 2, g + 3} /\ r[Len(r)] = "close"
    BY <1>3, <2>3
  <2>5. WholeForm(r, n, key, o, b, k, g)
    BY <1>1, <1>4, <2>3, <2>4 DEF WholeForm
  <2> QED
    BY <2>5, WholeObject
<1> QED
  BY <1>5, <1>6

(* What the structural repair has written after p items. *)
Kept(c, o, body, p) == SubSeq(c, 1, o) \o Flat(Source, SubSeq(Escaped(body), 1, p))

(* structuralRepair keeps the opening of a text and its items without raw quotes. *)
LEMMA StructsCleaned ==
    ASSUME NEW c, NEW n, NEW key, NEW o, NEW body, NEW k, NEW g,
           Cleaned(c, 0, n, key, o, body, k, g), NEW p \in 0..k, Quoteless(body, p)
    PROVE  /\ Kept(c, o, body, p) \in Seq(Symbols)
           /\ Structuring(c)[o + EndOf(body, p)] = InText(Kept(c, o, body, p))
           /\ Structures(Structuring(c), c)
<1>1. Begins(c, 0, n, key, o) /\ Holds(c, o, body, k)
  BY DEF Cleaned
<1>2. c \in Seq(Symbols) /\ o \in Nat /\ o <= Len(c) /\ o >= 6 /\ body \in Seq(Items)
      /\ k \in 0..Len(body)
  BY <1>1, BeginsTyped DEF Holds
<1> DEFINE f == Structuring(c)
           out == SubSeq(c, 1, o)
<1>3. Structures(f, c)
  BY <1>2, StructuringDefined
<1>4. Starts(c, n, key, o, o)
  BY <1>1, BeginsStarts
<1> HIDE DEF f
<1>5. f[o] = InText(out)
  <2>1. o \in 0..o /\ o \in {2, 3, o}
    BY <1>2
  <2>2. StructsOpening(f, c, o, o)
    BY <1>3, <1>4, <2>1, StructsOpen
  <2> QED
    BY <2>1, <2>2 DEF StructsOpening
<1>6. out \in Seq(Symbols)
  BY <1>2
<1> HIDE DEF out
<1>7. Holds(c, o, body, p)
  BY <1>1, HoldsLess
<1>8. p \in 0..p /\ p \in 0..Len(body)
  BY <1>2
<1>9. StructsTo(f, o, out, body, p)
  BY <1>3, <1>5, <1>6, <1>7, <1>8, StructsRun
<1>10. Flat(Source, SubSeq(Escaped(body), 1, p)) \in Seq(Symbols)
  <2>1. Escaped(body) \in Seq(Items) /\ p \in 0..Len(Escaped(body))
    BY <1>2, <1>8, EscapedIs
  <2> QED
    BY <2>1, FlatTyped
<1>11. out \o Flat(Source, SubSeq(Escaped(body), 1, p)) \in Seq(Symbols)
  BY <1>6, <1>10, Associative
<1> QED
  BY <1>3, <1>9, <1>11 DEF StructsTo, Kept, f, out

(* The repaired text, once the state at the end is known. *)
LEMMA EndsWhole ==
    ASSUME NEW c, NEW n, NEW key, NEW o, Begins(c, 0, n, key, o), NEW st,
           Structuring(c)[Len(c)] = st
    PROVE  EndsIn(c, 0, st)
<1>1. c \in Seq(Symbols) /\ 0 + 1 <= Len(c) /\ c[0 + 1] = "open"
  BY BeginsTyped
<1>2. Rest(c, 0 + 1) = c
  BY <1>1, WholeIs
<1> QED
  BY <1>1, <1>2 DEF EndsIn

(* The rebuilt object has the items that stand for the same. *)
LEMMA RebuiltMeans ==
    ASSUME NEW c, NEW n, NEW key, NEW o, NEW body, NEW k, NEW g,
           Cleaned(c, 0, n, key, o, body, k, g), NEW p \in 0..k, Quoteless(body, p),
           NEW t, t \in {<<"q", "close">>, <<"q", "s", "close">>}
    PROVE  Unmarshal(Kept(c, o, body, p) \o t)
             = IF key = "content" THEN Decoded(Flat(Meaning, SubSeq(body, 1, p))) ELSE Undecoded
<1>1. Begins(c, 0, n, key, o) /\ body \in Seq(Items) /\ k \in 0..Len(body)
  BY DEF Cleaned, Holds
<1> DEFINE esc == Escaped(body)
           r == Kept(c, o, body, p) \o t
<1>2. p \in 0..Len(body)
  BY <1>1
<1>3. /\ esc \in Seq(Items) /\ p \in 0..Len(esc) /\ Clean(esc, p)
      /\ Flat(Meaning, SubSeq(esc, 1, p)) = Flat(Meaning, SubSeq(body, 1, p))
  BY <1>1, <1>2, EscapedIs
<1>4. t \in Seq(Symbols)
  <2>1. "q" \in Symbols /\ "s" \in Symbols /\ "close" \in Symbols
    BY SymbolsTyped
  <2>2. <<"q", "close">> \in Seq(Symbols) /\ <<"q", "s", "close">> \in Seq(Symbols)
    BY <2>1, TwoAreSeq, ThreeAreSeq
  <2> QED
    BY <2>2
<1>5. r = Rebuild(c, o, esc, p, t)
  BY DEF Rebuild, Kept
<1> HIDE DEF esc, r
<1>6. Rebuilds(r, c, n, key, o, esc, p, t)
  BY <1>1, <1>3, <1>4, <1>5 DEF Rebuilds
<1>7. Unmarshal(r) = IF key = "content" /\ Clean(esc, p)
                     THEN Decoded(Flat(Meaning, SubSeq(esc, 1, p))) ELSE Undecoded
  BY <1>6, RebuiltWhole
<1> QED
  BY <1>3, <1>7 DEF r

(* Two symbols more. *)
LEMMA TwoMore ==
    ASSUME NEW u \in Seq(Symbols), NEW a \in Symbols, NEW b \in Symbols
    PROVE  (u \o <<a>>) \o <<b>> = u \o <<a, b>> /\ u \o <<a>> \in Seq(Symbols)
<1>1. Append(u, a) = u \o <<a>> /\ Append(u, a) \in Seq(Symbols)
  BY AppendOne
<1>2. Append(Append(u, a), b) = Append(u, a) \o <<b>>
  BY <1>1, AppendOne
<1>3. Append(Append(u, a), b) = u \o <<a, b>>
  BY AppendTwo
<1> QED
  BY <1>1, <1>2, <1>3

(* The last of a text with one symbol more. *)
LEMMA LastOfMore ==
    ASSUME NEW u \in Seq(Symbols), NEW a \in Symbols
    PROVE  /\ u \o <<a>> \in Seq(Symbols) /\ u \o <<a>> # <<>> /\ (u \o <<a>>)[Len(u \o <<a>>)] = a
           /\ Len(u \o <<a>>) = Len(u) + 1 /\ \A i \in 1..Len(u) : (u \o <<a>>)[i] = u[i]
OBVIOUS

-----------------------------------------------------------------------------
(* The structural repair of a text cut after an item, without bare quotes. *)
LEMMA CutAfterQuoteless ==
    ASSUME NEW c, NEW n, NEW key, NEW o, NEW body, NEW k, NEW g,
           CutAfter(c, 0, n, key, o, body, k, g), Quoteless(body, k)
    PROVE  Unmarshal(AttemptStructuralRepair(c))
             = IF key = "content" THEN Decoded(Flat(Meaning, SubSeq(body, 1, k))) ELSE Undecoded
<1>0. Cleaned(c, 0, n, key, o, body, k, g)
  BY DEF CutAfter
<1>1. Len(c) = g /\ g = o + EndOf(body, k) /\ Begins(c, 0, n, key, o) /\ k \in 0..k
  BY <1>0 DEF CutAfter, Cleaned, Holds
<1> DEFINE u == Kept(c, o, body, k)
<1>2. u \in Seq(Symbols) /\ Structuring(c)[o + EndOf(body, k)] = InText(u)
  BY <1>0, <1>1, StructsCleaned
<1>3. Structuring(c)[Len(c)] = InText(u)
  BY <1>1, <1>2
<1>4. AttemptStructuralRepair(c) = u \o <<"q", "close">>
  <2> HIDE DEF u
  <2>1. EndsIn(c, 0, InText(u))
    BY <1>1, <1>3, EndsWhole
  <2>2. AttemptStructuralRepair(c) = (u \o <<"q">>) \o <<"close">>
    BY <1>2, <2>1, RepairOpen
  <2>3. "q" \in Symbols /\ "close" \in Symbols
    BY SymbolsTyped
  <2>4. (u \o <<"q">>) \o <<"close">> = u \o <<"q", "close">>
    BY <1>2, <2>3, TwoMore
  <2> QED
    BY <2>2, <2>4
<1> QED
  BY <1>0, <1>1, <1>4, RebuiltMeans

(* The same with a bare quote as its last item, which closes the string. *)
LEMMA CutAfterQuote ==
    ASSUME NEW c, NEW n, NEW key, NEW o, NEW body, NEW k, NEW g,
           CutAfter(c, 0, n, key, o, body, k, g), k # 0, body[k] = "rawQuote",
           Quoteless(body, k - 1)
    PROVE  Unmarshal(AttemptStructuralRepair(c))
             = IF key = "content" THEN Decoded(Flat(Meaning, SubSeq(body, 1, k - 1)))
               ELSE Undecoded
<1>0. Cleaned(c, 0, n, key, o, body, k, g)
  BY DEF CutAfter
<1> DEFINE p == k - 1
           y == o + EndOf(body, p)
<1>1. /\ Len(c) = g /\ g = o + EndOf(body, k) /\ Begins(c, 0, n, key, o)
      /\ Holds(c, o, body, k)
  BY <1>0 DEF CutAfter, Cleaned
<1>2. k \in 1..Len(body) /\ k \in 1..k /\ p \in 0..k /\ body \in Seq(Items) /\ o \in Nat
      /\ c \in Seq(Symbols)
  BY <1>1 DEF Holds
<1>3. EndOf(body, p) \in Nat /\ EndOf(body, k) = EndOf(body, p) + Len(Source[body[k]])
  BY <1>2, Ends
<1>4. ItemAt(c, y, "rawQuote")
  BY <1>1, <1>2 DEF Holds
<1>5. c[y + 1] = "q" /\ Len(Source[body[k]]) = 1
  <2>1. Shows(c, y, Source["rawQuote"]) /\ "rawQuote" \in Singles
    BY <1>4 DEF ItemAt, Singles
  <2> QED
    BY <2>1, SymbolsOf
<1>6. g = y + 1 /\ y \in Nat
  BY <1>1, <1>2, <1>3, <1>5
<1> DEFINE u == Kept(c, o, body, p)
<1>7. u \in Seq(Symbols) /\ Structuring(c)[y] = InText(u) /\ Structures(Structuring(c), c)
  BY <1>0, <1>2, StructsCleaned
<1>8. Structuring(c)[Len(c)] = Outside(u \o <<"q">>, 1)
  <2>1. y + 1 \in 1..Len(c) /\ (y + 1) - 1 = y
    BY <1>1, <1>6
  <2>2. Structuring(c)[y + 1] = StructuralStep(Structuring(c)[(y + 1) - 1], c[y + 1])
    BY <1>7, <2>1 DEF Structures
  <2> HIDE DEF u, y
  <2>3. Structuring(c)[y + 1] = StructuralStep(InText(u), "q")
    BY <1>5, <1>7, <2>1, <2>2
  <2>4. Structuring(c)[y + 1] = Outside(u \o <<"q">>, 1)
    BY <2>3, StructInside
  <2> QED
    BY <1>1, <1>6, <2>4
<1>9. AttemptStructuralRepair(c) = u \o <<"q", "close">>
  <2> HIDE DEF u
  <2> DEFINE v == u \o <<"q">>
  <2>1. EndsIn(c, 0, Outside(v, 1))
    BY <1>1, <1>8, EndsWhole
  <2>2. v \in Seq(Symbols) /\ v # <<>> /\ v[Len(v)] = "q"
    BY <1>7, LastOfMore, SymbolsTyped
  <2> HIDE DEF v
  <2>3. AttemptStructuralRepair(c) = v \o <<"close">>
    BY <2>1, <2>2, RepairClosed
  <2>4. "q" \in Symbols /\ "close" \in Symbols
    BY SymbolsTyped
  <2>5. (u \o <<"q">>) \o <<"close">> = u \o <<"q", "close">>
    BY <1>7, <2>4, TwoMore
  <2> QED
    BY <2>3, <2>5 DEF v
<1>10. Quoteless(body, p) /\ p \in 0..k
  BY <1>2
<1>11. Kept(c, o, body, p) = u
  OBVIOUS
<1>12. SubSeq(body, 1, k - 1) = SubSeq(body, 1, p)
  OBVIOUS
<1> HIDE DEF u, p
<1>13. Unmarshal(Kept(c, o, body, p) \o <<"q", "close">>)
         = IF key = "content" THEN Decoded(Flat(Meaning, SubSeq(body, 1, p))) ELSE Undecoded
  BY <1>0, <1>10, RebuiltMeans
<1> QED
  BY <1>9, <1>11, <1>12, <1>13

(* The structural repair of a text cut within an item. *)
LEMMA CutWithinQuoteless ==
    ASSUME NEW c, NEW n, NEW key, NEW o, NEW body, NEW k, NEW g, NEW l,
           CutWithin(c, 0, n, key, o, body, k, g, l), Quoteless(body, k)
    PROVE  \/ Unmarshal(AttemptStructuralRepair(c)) = Undecoded
           \/ /\ key = "content"
              /\ Unmarshal(AttemptStructuralRepair(c))
                   = Decoded(Append(Flat(Meaning, SubSeq(body, 1, k)), "U+FFFD"))
<1>0. Cleaned(c, 0, n, key, o, body, k, g)
  BY DEF CutWithin
<1>1. l \in 1..5 /\ Halved(c, g, l) /\ Len(c) = g + l
  BY DEF CutWithin
<1>2. /\ g = o + EndOf(body, k) /\ Begins(c, 0, n, key, o) /\ body \in Seq(Items)
      /\ k \in 0..k /\ k \in 0..Len(body) /\ g \in Nat /\ c \in Seq(Symbols) /\ Len(c) \in Nat
  BY <1>0, CleanedTyped DEF Cleaned, Holds
<1> DEFINE esc == Escaped(body)
           u == Kept(c, o, body, k)
           h == SubSeq(c, g + 1, g + l)
           v == u \o h
           t == h \o <<"q", "close">>
           r == (v \o <<"q">>) \o <<"close">>
           y == o + EndOf(esc, k)
<1>3. u \in Seq(Symbols) /\ Structuring(c)[g] = InText(u) /\ Structures(Structuring(c), c)
  BY <1>0, <1>2, StructsCleaned
<1>4. IsPart(h, c, g + 1, g + l)
  <2>1. g + 1 \in Nat /\ g + l \in Nat /\ 1 <= g + 1 /\ g + 1 <= (g + l) + 1 /\ g + l <= Len(c)
    BY <1>1, <1>2
  <2> QED
    BY <1>2, <2>1 DEF IsPart
<1>5. h \in Seq(Symbols) /\ Len(h) = l /\ \A i \in 1..l : h[i] = c[g + i]
  <2>1. (g + l) - (g + 1) + 1 = l /\ \A i \in 1..l : (g + 1) + i - 1 = g + i
    BY <1>1, <1>2
  <2> HIDE DEF h
  <2>2. h \in Seq(Symbols) /\ Len(h) = (g + l) - (g + 1) + 1
        /\ \A i \in 1..((g + l) - (g + 1) + 1) : h[i] = c[(g + 1) + i - 1]
    BY <1>4, PartIs DEF PartBounds
  <2> QED
    BY <2>1, <2>2
<1>6. "q" \in Symbols /\ "close" \in Symbols
  BY SymbolsTyped
<1>7. EndsIn(c, 0, InText(v)) \/ EndsIn(c, 0, InEscape(v))
  <2>1. v = Upto(u, c, g, l)
    BY DEF Upto
  <2> HIDE DEF u, v
  <2>2. g + l <= Len(c)
    BY <1>1, <1>2
  <2>3. Structuring(c)[g + l] = InText(v) \/ Structuring(c)[g + l] = InEscape(v)
    BY <1>1, <1>2, <1>3, <2>1, <2>2, StructHalved
  <2>4. Structuring(c)[Len(c)] = InText(v) \/ Structuring(c)[Len(c)] = InEscape(v)
    BY <1>1, <2>3
  <2> QED
    BY <1>2, <2>4, EndsWhole
<1>8. esc \in Seq(Items) /\ k \in 0..Len(esc)
      /\ Flat(Meaning, SubSeq(esc, 1, k)) = Flat(Meaning, SubSeq(body, 1, k))
  BY <1>2, EscapedIs
<1>9. u = SubSeq(c, 1, o) \o Flat(Source, SubSeq(esc, 1, k))
  BY DEF Kept
<1>10. <<"q", "close">> \in Seq(Symbols) /\ <<"q">> \in Seq(Symbols)
  BY <1>6, TwoAreSeq, OneIsSeq
<1>11. t \in Seq(Symbols) /\ Len(t) = l + 2 /\ (\A i \in 1..l : t[i] = c[g + i])
       /\ t[l + 1] = "q" /\ t[l + 2] = "close"
  <2>1. Joined(t, h, <<"q", "close">>)
    <3> HIDE DEF h
    <3> QED
      BY <1>5, <1>10, PutTogether
  <2> HIDE DEF t, h
  <2>2. Len(<<"q", "close">>) = 2 /\ 1 \in 1..2 /\ 2 \in 1..2
    OBVIOUS
  <2>3. t[Len(h) + 1] = "q" /\ t[Len(h) + 2] = "close"
    BY <2>1, <2>2 DEF Joined
  <2> QED
    BY <1>5, <2>1, <2>2, <2>3 DEF Joined
<1>12. AttemptStructuralRepair(c) = r
  <2> HIDE DEF h, u
  <2>1. v \in Seq(Symbols)
    BY <1>3, <1>5, Associative
  <2> HIDE DEF v
  <2> QED
    BY <1>7, <2>1, RepairOpen
<1>13. r = u \o t
  <2> HIDE DEF h, u
  <2>1. v \in Seq(Symbols) /\ v \o <<"q", "close">> = u \o (h \o <<"q", "close">>)
    BY <1>3, <1>5, <1>10, Associative
  <2>2. v \o <<"q", "close">> = u \o t
    BY <2>1
  <2> HIDE DEF v, t
  <2>3. r = v \o <<"q", "close">>
    BY <1>6, <2>1, TwoMore
  <2> QED
    BY <2>2, <2>3
<1>14. Rebuilds(r, c, n, key, o, esc, k, t)
  <2>1. r = Rebuild(c, o, esc, k, t)
    BY <1>9, <1>13 DEF Rebuild
  <2> HIDE DEF r, esc, t
  <2> QED
    BY <1>2, <1>8, <1>11, <2>1 DEF Rebuilds
<1> HIDE DEF esc, u, h, v, t, r
<1>15. /\ Begins(r, 0, n, key, o) /\ Holds(r, o, esc, k)
       /\ Len(r) = y + Len(t) /\ Len(t) \in Nat
       /\ \A i \in 1..Len(t) : r[y + i] = t[i]
  BY <1>14, RebuiltIs
<1>16. y \in Nat
  <2>1. o \in Nat
    BY <1>2, BeginsTyped
  <2> QED
    BY <1>8, <2>1, Ends
<1>17. y = o + EndOf(esc, k)
  OBVIOUS
<1> HIDE DEF y
<1>18. \A i \in 1..l : i \in 1..(l + 2)
  BY <1>1
<1>19. l + 1 \in 1..(l + 2) /\ l + 2 \in 1..(l + 2) /\ y + (l + 1) = y + l + 1
       /\ y + (l + 2) = y + l + 2
  BY <1>1, <1>16
<1>20. \A i \in 1..l : r[y + i] = c[g + i]
  BY <1>11, <1>15, <1>18
<1>21. r[y + (l + 1)] = "q" /\ r[y + (l + 2)] = "close"
  BY <1>11, <1>15, <1>19
<1>22. r[y + l + 1] = "q" /\ r[y + l + 2] = "close"
  BY <1>19, <1>21
<1>23. Halved(r, y, l)
  BY <1>1, <1>2, <1>16, <1>20, HalvedSame
<1>24. Len(r) = y + l + 2
  BY <1>1, <1>11, <1>15, <1>16
<1>25. HalfForm(r, n, key, o, esc, k, y, l)
  BY <1>1, <1>15, <1>17, <1>22, <1>23, <1>24 DEF HalfForm
<1>26. \/ Unmarshal(r) = Undecoded
       \/ /\ key = "content"
          /\ Unmarshal(r) = Decoded(Append(Flat(Meaning, SubSeq(esc, 1, k)), "U+FFFD"))
  BY <1>25, HalfObject
<1> QED
  BY <1>8, <1>12, <1>26

-----------------------------------------------------------------------------
(* Three symbols more. *)
LEMMA ThreeMore ==
    ASSUME NEW u \in Seq(Symbols), NEW a \in Symbols, NEW b \in Symbols, NEW d \in Symbols
    PROVE  (u \o <<a, b>>) \o <<d>> = u \o <<a, b, d>>
<1> DEFINE l == Len(u)
           v == u \o <<a, b>>
           x == v \o <<d>>
           y == u \o <<a, b, d>>
<1>1. l \in Nat /\ <<a, b>> \in Seq(Symbols) /\ Len(<<a, b>>) = 2 /\ <<d>> \in Seq(Symbols)
      /\ Len(<<d>>) = 1 /\ <<a, b, d>> \in Seq(Symbols) /\ Len(<<a, b, d>>) = 3
  BY OneIsSeq, TwoAreSeq, ThreeAreSeq
<1>2. Joined(v, u, <<a, b>>) /\ Joined(y, u, <<a, b, d>>)
  BY <1>1, PutTogether
<1>3. Joined(x, v, <<d>>)
  <2>1. v \in Seq(Symbols)
    BY <1>2 DEF Joined
  <2> HIDE DEF v
  <2> QED
    BY <1>1, <2>1, PutTogether
<1> HIDE DEF v, x, y
<1>4. v \in Seq(Symbols) /\ Len(v) = l + 2 /\ (\A i \in 1..l : v[i] = u[i])
      /\ v[l + 1] = a /\ v[l + 2] = b
  BY <1>1, <1>2 DEF Joined
<1>5. y \in Seq(Symbols) /\ Len(y) = l + 3 /\ (\A i \in 1..l : y[i] = u[i])
      /\ y[l + 1] = a /\ y[l + 2] = b /\ y[l + 3] = d
  BY <1>1, <1>2 DEF Joined
<1>6. x \in Seq(Symbols) /\ Len(x) = l + 3 /\ (\A i \in 1..l : x[i] = u[i])
      /\ x[l + 1] = a /\ x[l + 2] = b /\ x[l + 3] = d
  <2>1. x \in Seq(Symbols) /\ Len(x) = (l + 2) + 1 /\ (\A i \in 1..(l + 2) : x[i] = v[i])
        /\ x[(l + 2) + 1] = d
    BY <1>1, <1>3, <1>4 DEF Joined
  <2>2. (l + 2) + 1 = l + 3 /\ l + 1 \in 1..(l + 2) /\ l + 2 \in 1..(l + 2)
        /\ \A i \in 1..l : i \in 1..(l + 2)
    BY <1>1
  <2> QED
    BY <1>4, <2>1, <2>2
<1>7. \A i \in 1..(l + 3) : i \in 1..l \/ i = l + 1 \/ i = l + 2 \/ i = l + 3
  BY <1>1
<1>8. x = y
  BY <1>5, <1>6, <1>7
<1> QED
  BY <1>8 DEF v, x, y

(* The text ended: what it becomes, for each of its ends. *)
LEMMA ThroughQuoteless ==
    ASSUME NEW c, NEW n, NEW key, NEW o, NEW body, NEW k, NEW g,
           Through(c, 0, n, key, o, body, k, g), Quoteless(body, k)
    PROVE  \/ Unmarshal(AttemptStructuralRepair(c))
                = IF key = "content" THEN Decoded(Flat(Meaning, SubSeq(body, 1, k))) ELSE Undecoded
           \/ /\ Len(c) = g + 3 /\ c[g + 2] = "," /\ c[g + 3] = "close"
              /\ Unmarshal(AttemptStructuralRepair(c)) = Undecoded
<1>0. Cleaned(c, 0, n, key, o, body, k, g)
  BY DEF Through
<1>1. /\ c[g + 1] = "q"
      /\ \/ Len(c) = g + 1
         \/ Len(c) = g + 2 /\ c[g + 2] \in {"close", ","}
         \/ Len(c) = g + 3 /\ c[g + 2] \in {"s", ","} /\ c[g + 3] = "close"
  BY DEF Through
<1>2. /\ g = o + EndOf(body, k) /\ Begins(c, 0, n, key, o) /\ body \in Seq(Items)
      /\ k \in 0..k /\ k \in 0..Len(body) /\ g \in Nat /\ c \in Seq(Symbols) /\ Len(c) \in Nat
  BY <1>0, CleanedTyped DEF Cleaned, Holds
<1> DEFINE u == Kept(c, o, body, k)
           v == u \o <<"q">>
           f == Structuring(c)
<1>3. u \in Seq(Symbols) /\ f[g] = InText(u) /\ Structures(f, c)
  BY <1>0, <1>2, StructsCleaned
<1>4. "q" \in Symbols /\ "s" \in Symbols /\ "close" \in Symbols /\ "," \in Symbols
  BY SymbolsTyped
<1>5. \A x \in {<<"q", "close">>, <<"q", "s", "close">>} :
        AttemptStructuralRepair(c) = u \o x =>
          Unmarshal(AttemptStructuralRepair(c))
            = IF key = "content" THEN Decoded(Flat(Meaning, SubSeq(body, 1, k))) ELSE Undecoded
  BY <1>0, <1>2, RebuiltMeans
<1> HIDE DEF u, f
<1>6. v \in Seq(Symbols) /\ v # <<>> /\ v[Len(v)] = "q" /\ Len(v) \in Nat
  <2>1. v \in Seq(Symbols) /\ v # <<>> /\ v[Len(v)] = "q"
    BY <1>3, <1>4, LastOfMore
  <2> QED
    BY <2>1
<1>7. v \o <<"close">> = u \o <<"q", "close">>
  BY <1>3, <1>4, TwoMore
<1>8. f[g + 1] = Outside(v, 1)
  <2>0. Len(c) = g + 1 \/ Len(c) = g + 2 \/ Len(c) = g + 3
    BY <1>1
  <2>1. g + 1 \in 1..Len(c) /\ (g + 1) - 1 = g
    BY <1>2, <2>0
  <2>2. f[g + 1] = StructuralStep(f[(g + 1) - 1], c[g + 1])
    BY <1>3, <2>1 DEF Structures
  <2>3. f[g + 1] = StructuralStep(InText(u), "q")
    BY <1>1, <1>3, <2>1, <2>2
  <2> QED
    BY <2>3, StructInside
<1>9. ASSUME g + 2 <= Len(c) PROVE f[g + 2] = StructuralStep(Outside(v, 1), c[g + 2])
  <2>1. g + 2 \in 1..Len(c) /\ (g + 2) - 1 = g + 1
    BY <1>2, <1>9
  <2>2. f[g + 2] = StructuralStep(f[(g + 2) - 1], c[g + 2])
    BY <1>3, <2>1 DEF Structures
  <2> QED
    BY <1>8, <2>1, <2>2
<1> HIDE DEF v
<1>10. CASE Len(c) = g + 1
  <2>1. EndsIn(c, 0, Outside(v, 1))
    BY <1>2, <1>8, <1>10, EndsWhole DEF f
  <2>2. AttemptStructuralRepair(c) = v \o <<"close">>
    BY <1>6, <2>1, RepairClosed
  <2> QED
    BY <1>5, <1>7, <2>2
<1>11. CASE Len(c) = g + 2 /\ c[g + 2] = "close"
  <2>1. f[g + 2] = Outside(v \o <<"close">>, 0)
    BY <1>2, <1>9, <1>11, StructOutside
  <2> DEFINE x == v \o <<"close">>
  <2>2. x \in Seq(Symbols) /\ x # <<>> /\ x[Len(x)] = "close"
    BY <1>4, <1>6, LastOfMore
  <2> HIDE DEF x
  <2>3. EndsIn(c, 0, Outside(x, 0))
    BY <1>2, <1>11, <2>1, EndsWhole DEF f, x
  <2>4. AttemptStructuralRepair(c) = x
    BY <2>2, <2>3, RepairClosed
  <2> QED
    BY <1>5, <1>7, <2>4 DEF x
<1>12. CASE Len(c) = g + 2 /\ c[g + 2] = ","
  <2>1. f[g + 2] = Outside(v \o <<",">>, 1)
    <3>1. "," \in Symbols \ {"q", "open", "close"}
      BY <1>4
    <3>2. g + 2 <= Len(c)
      <4>1. Len(c) = g + 2
        BY <1>12
      <4> QED
        BY <1>2, <4>1
    <3>3. f[g + 2] = StructuralStep(Outside(v, 1), ",")
      BY <1>9, <1>12, <3>2
    <3> QED
      BY <3>1, <3>3, StructOutside
  <2> DEFINE x == v \o <<",">>
             e == Len(v)
  <2>2. x \in Seq(Symbols) /\ Len(x) = e + 1 /\ x[Len(x)] = "," /\ \A i \in 1..e : x[i] = v[i]
    BY <1>4, <1>6, LastOfMore
  <2> HIDE DEF x
  <2>3. e \in Nat /\ e >= 1 /\ e \in 1..e
    BY <1>6
  <2>4. EndsIn(c, 0, Outside(x, 1))
    BY <1>2, <1>12, <2>1, EndsWhole DEF f, x
  <2>5. AttemptStructuralRepair(c) = TrimRight(x, White \cup {","}) \o <<"close">>
    BY <2>4, RepairOutside
  <2>6. x[e] = "q"
    BY <1>6, <2>2, <2>3
  <2>9. x[e + 1] = ","
    BY <2>2
  <2>10. \A i \in 1..e : x[i] = v[i]
    BY <2>2
  <2>11. v \in Seq(Symbols) /\ Len(v) = e /\ x \in Seq(Symbols) /\ Len(x) = e + 1
    BY <1>6, <2>2
  <2> HIDE DEF e
  <2>7. IsPart(TrimRight(x, White \cup {","}), x, 1, e)
    <3>1. IsPart(x, x, 1, e + 1)
      <4>1. IsPart(x, x, 1, Len(x))
        BY <2>11, WholeIs
      <4> QED
        BY <2>11, <4>1
    <3>2. e \in 1..(e + 1) /\ x[e] \notin White \cup {","}
      <4>1. e \in 1..(e + 1)
        BY <2>3
      <4> QED
        BY <2>6, <4>1 DEF White
    <3>3. \A i \in (e + 1)..(e + 1) : x[i] \in White \cup {","}
      <4>1. \A i \in (e + 1)..(e + 1) : i = e + 1
        BY <2>3
      <4> QED
        BY <2>9, <4>1
    <3> QED
      BY <3>1, <3>2, <3>3, TrimRightIs
  <2>8. TrimRight(x, White \cup {","}) = v
    <3>1. v = SubSeq(x, 1, e)
      BY <2>3, <2>10, <2>11
    <3> QED
      BY <2>7, <3>1 DEF IsPart
  <2> QED
    BY <1>5, <1>7, <2>5, <2>8
<1>13. CASE Len(c) = g + 3 /\ c[g + 2] \in {"s", ","} /\ c[g + 3] = "close"
  <2> DEFINE s == c[g + 2]
             w == v \o <<s>>
             x == w \o <<"close">>
  <2>1. s \in Symbols \ {"q", "open", "close"} /\ s \in {"s", ","}
    BY <1>4, <1>13
  <2>2. f[g + 2] = Outside(w, 1)
    <3>0. g + 2 <= Len(c)
      <4>1. Len(c) = g + 3
        BY <1>13
      <4> QED
        BY <1>2, <4>1
    <3>1. f[g + 2] = StructuralStep(Outside(v, 1), s)
      BY <1>9, <3>0
    <3> HIDE DEF s
    <3> QED
      BY <2>1, <3>1, StructOutside
  <2>3. f[g + 3] = Outside(x, 0)
    <3>0. Len(c) = g + 3
      BY <1>13
    <3>1. g + 3 \in 1..Len(c) /\ (g + 3) - 1 = g + 2
      BY <1>2, <3>0
    <3>2. f[g + 3] = StructuralStep(f[(g + 3) - 1], c[g + 3])
      BY <1>3, <3>1 DEF Structures
    <3>3. f[g + 3] = StructuralStep(Outside(w, 1), "close")
      BY <1>13, <2>2, <3>1, <3>2
    <3> HIDE DEF w
    <3> QED
      BY <3>3, StructOutside
  <2>4. w \in Seq(Symbols)
    BY <1>6, <2>1, LastOfMore
  <2>5. x \in Seq(Symbols) /\ x # <<>> /\ x[Len(x)] = "close"
    BY <1>4, <2>4, LastOfMore
  <2>6. EndsIn(c, 0, Outside(x, 0))
    <3> HIDE DEF x
    <3> QED
      BY <1>2, <1>13, <2>3, EndsWhole DEF f
  <2>7. AttemptStructuralRepair(c) = x
    <3> HIDE DEF x
    <3> QED
      BY <2>5, <2>6, RepairClosed
  <2>8. x = u \o <<"q", s, "close">>
    <3>1. w = u \o <<"q", s>>
      <4> HIDE DEF s
      <4> QED
        BY <1>3, <1>4, <2>1, TwoMore DEF v
    <3>2. x = (u \o <<"q", s>>) \o <<"close">>
      BY <3>1
    <3> HIDE DEF w, s, x
    <3> QED
      BY <1>3, <1>4, <2>1, <3>2, ThreeMore, ZenonT(60)
  <2>10. CASE s = "s"
    <3>1. AttemptStructuralRepair(c) = u \o <<"q", "s", "close">>
      BY <2>7, <2>8, <2>10
    <3> QED
      BY <1>5, <3>1
  <2>11. CASE s = ","
    <3>1. AttemptStructuralRepair(c) = x /\ x = u \o <<"q", ",", "close">>
      BY <2>7, <2>8, <2>11
    <3> DEFINE esc == Escaped(body)
               t == <<"q", ",", "close">>
               z == o + EndOf(esc, k)
               l == Len(x)
    <3>2. esc \in Seq(Items) /\ k \in 0..Len(esc)
      BY <1>2, EscapedIs
    <3>3. t \in Seq(Symbols) /\ Len(t) = 3 /\ t[2] = "," /\ t[3] = "close"
      BY <1>4, ThreeAreSeq
    <3>4. x = Rebuild(c, o, esc, k, t)
      BY <3>1 DEF Rebuild, Kept, u
    <3> HIDE DEF esc, t, x
    <3>5. Rebuilds(x, c, n, key, o, esc, k, t)
      BY <1>2, <3>2, <3>3, <3>4 DEF Rebuilds
    <3>6. /\ Begins(x, 0, n, key, o) /\ Holds(x, o, esc, k)
          /\ Len(x) = z + Len(t)
          /\ \A i \in 1..Len(t) : x[z + i] = t[i]
      BY <3>5, RebuiltIs
    <3>7. z \in Nat /\ o \in Nat /\ o <= z
      <4>1. o \in Nat
        BY <1>2, BeginsTyped
      <4> QED
        BY <3>2, <4>1, Ends
    <3>8. l = z + 3
      BY <3>3, <3>6
    <3> HIDE DEF z
    <3>9. 2 \in 1..3 /\ 3 \in 1..3
      OBVIOUS
    <3>10. x[z + 2] = "," /\ x[z + 3] = "close"
      BY <3>3, <3>6, <3>9
    <3> DEFINE e == z + 2
    <3>11. e \in o..(l - 1)
      BY <3>7, <3>8
    <3>12. \A i \in (e + 1)..(l - 1) : x[i] \in White
      <4>1. ASSUME NEW i \in (e + 1)..(l - 1) PROVE FALSE
        BY <3>7, <3>8
      <4> QED
        BY <4>1
    <3>13. x[l] = "close" /\ x[e] = "," /\ x[e] \notin White /\ x[e] # "q" /\ l = Len(x)
      BY <3>8, <3>10 DEF White
    <3> HIDE DEF e, l
    <3>14. Unmarshal(x) = Undecoded
      BY <3>6, <3>11, <3>12, <3>13, ObjectOpen
    <3> QED
      BY <1>13, <2>11, <3>1, <3>14
  <2> QED
    BY <2>1, <2>10, <2>11
<1> QED
  BY <1>1, <1>10, <1>11, <1>12, <1>13

(* A text that begins with another. *)
Grown(x, u) ==
    /\ x \in Seq(Symbols) /\ u \in Seq(Symbols) /\ Len(x) <= Len(u)
    /\ \A i \in 1..Len(x) : u[i] = x[i]

(* A text that grew goes on to grow. *)
LEMMA GrownMore ==
    ASSUME NEW x, NEW u, Grown(x, u), NEW t \in Seq(Symbols)
    PROVE  Grown(x, u \o t)
<1> DEFINE v == u \o t
<1>1. x \in Seq(Symbols) /\ u \in Seq(Symbols) /\ Len(x) <= Len(u)
      /\ \A i \in 1..Len(x) : u[i] = x[i]
  BY DEF Grown
<1>2. Joined(v, u, t)
  BY <1>1, PutTogether
<1> HIDE DEF v
<1>3. v \in Seq(Symbols) /\ Len(v) = Len(u) + Len(t) /\ Len(t) \in Nat /\ Len(u) \in Nat
      /\ \A i \in 1..Len(u) : v[i] = u[i]
  BY <1>2 DEF Joined
<1>4. Len(x) \in Nat /\ Len(x) <= Len(v) /\ \A i \in 1..Len(x) : i \in 1..Len(u)
  BY <1>1, <1>3
<1>5. Grown(x, v)
  BY <1>1, <1>3, <1>4 DEF Grown
<1> QED
  BY <1>5 DEF v

(* A text grows from itself. *)
LEMMA GrownSelf == ASSUME NEW x \in Seq(Symbols) PROVE Grown(x, x)
BY DEF Grown

(* What begins in a text, and the items it holds, stay when it grows. *)
LEMMA GrownParts ==
    ASSUME NEW x, NEW u, Grown(x, u)
    PROVE  /\ \A n, key, o : Begins(x, 0, n, key, o) => Begins(u, 0, n, key, o)
           /\ \A o, b, k : Holds(x, o, b, k) => Holds(u, o, b, k)
<1>1. x \in Seq(Symbols) /\ u \in Seq(Symbols) /\ Len(x) <= Len(u)
      /\ Len(x) \in Nat /\ Len(u) \in Nat /\ \A i \in 1..Len(x) : u[i] = x[i]
  BY DEF Grown
<1>2. ASSUME NEW n, NEW key, NEW o, Begins(x, 0, n, key, o) PROVE Begins(u, 0, n, key, o)
  <2>1. /\ n \in {5, 6} /\ o \in {n + 1, n + 2} /\ o <= Len(x) /\ key \in {"content", "text", "other"}
        /\ x[1] = "open" /\ x[2] = "q" /\ x[3] = key /\ x[4] = "q"
        /\ (n = 6 => x[5] = "s") /\ x[n] = ":" /\ (o = n + 2 => x[n + 1] = "s") /\ x[o] = "q"
    BY <1>2 DEF Begins
  <2>2. /\ 1 \in 1..Len(x) /\ 2 \in 1..Len(x) /\ 3 \in 1..Len(x) /\ 4 \in 1..Len(x)
        /\ 5 \in 1..Len(x) /\ n \in 1..Len(x) /\ n + 1 \in 1..Len(x) /\ o \in 1..Len(x)
        /\ o <= Len(u)
    BY <1>1, <2>1
  <2>3. /\ u[1] = x[1] /\ u[2] = x[2] /\ u[3] = x[3] /\ u[4] = x[4] /\ u[5] = x[5] /\ u[n] = x[n]
        /\ u[n + 1] = x[n + 1] /\ u[o] = x[o]
    BY <1>1, <2>2
  <2>4. /\ n \in {0 + 5, 0 + 6} /\ u[0 + 1] = "open" /\ u[0 + 2] = "q"
        /\ u[0 + 3] = key /\ u[0 + 4] = "q" /\ (n = 0 + 6 => u[0 + 5] = "s")
    BY <2>1, <2>3
  <2> QED
    BY <1>1, <2>1, <2>2, <2>3, <2>4 DEF Begins
<1>3. ASSUME NEW o, NEW b, NEW k, Holds(x, o, b, k) PROVE Holds(u, o, b, k)
  <2>1. /\ o \in Nat /\ b \in Seq(Items) /\ k \in 0..Len(b) /\ o + EndOf(b, k) <= Len(x)
        /\ \A i \in 1..k : ItemAt(x, o + EndOf(b, i - 1), b[i])
    BY <1>3 DEF Holds
  <2>2. ASSUME NEW g, NEW y, ItemAt(x, g, y) PROVE ItemAt(u, g, y)
    <3>1. g \in Nat /\ y \in Items /\ g + Len(Source[y]) <= Len(x)
          /\ \A j \in 1..Len(Source[y]) : x[g + j] = Source[y][j]
      BY <2>2 DEF ItemAt, Shows
    <3>2. Len(Source[y]) \in Nat
      BY <3>1, TextsTyped
    <3>3. g + Len(Source[y]) <= Len(u) /\ \A j \in 1..Len(Source[y]) : g + j \in 1..Len(x)
      BY <1>1, <3>1, <3>2
    <3>4. \A j \in 1..Len(Source[y]) : u[g + j] = Source[y][j]
      BY <1>1, <3>1, <3>3
    <3> QED
      BY <1>1, <3>1, <3>3, <3>4 DEF ItemAt, Shows
  <2>3. EndOf(b, k) \in Nat
    BY <2>1, Ends
  <2>4. o + EndOf(b, k) <= Len(u)
    BY <1>1, <2>1, <2>3
  <2>5. \A i \in 1..k : ItemAt(u, o + EndOf(b, i - 1), b[i])
    BY <2>1, <2>2
  <2> QED
    BY <1>1, <2>1, <2>4, <2>5 DEF Holds
<1> QED
  BY <1>2, <1>3

-----------------------------------------------------------------------------
(* A state of the structural scan that has written x and perhaps more. *)
Wrote(st, x) ==
    /\ Grown(x, st.out) /\ st.openBraces \in Nat
    /\ st.inString \in BOOLEAN /\ st.escaped \in BOOLEAN

(* What structuralRepair wrote stays written by its next step. *)
LEMMA WroteNext ==
    ASSUME NEW st, NEW x, Wrote(st, x), NEW s \in Symbols
    PROVE  Wrote(StructuralStep(st, s), x)
<1>1. Grown(x, st.out) /\ st.openBraces \in Nat /\ st.inString \in {TRUE, FALSE}
      /\ st.escaped \in {TRUE, FALSE}
  BY DEF Wrote
<1>2. <<s>> \in Seq(Symbols) /\ <<"\\", "n">> \in Seq(Symbols)
  BY SymbolsTyped, OneIsSeq, TwoAreSeq
<1> DEFINE to == StructuralStep(st, s)
<1>3. Grown(x, st.out \o <<s>>) /\ Grown(x, st.out \o <<"\\", "n">>)
  BY <1>1, <1>2, GrownMore
<1>4. to.out \in {st.out, st.out \o <<s>>, st.out \o <<"\\", "n">>}
  BY DEF StructuralStep
<1>5. to.inString \in BOOLEAN /\ to.escaped \in BOOLEAN
  <2>1. CASE st.inString = TRUE
    <3>1. CASE st.escaped = TRUE
      BY <2>1, <3>1 DEF StructuralStep
    <3>2. CASE st.escaped = FALSE
      BY <2>1, <3>2 DEF StructuralStep
    <3> QED
      BY <1>1, <3>1, <3>2
  <2>2. CASE st.inString = FALSE
    BY <1>1, <2>2 DEF StructuralStep
  <2> QED
    BY <1>1, <2>1, <2>2
<1>6. to.openBraces \in Nat
  <2>1. to.openBraces \in {st.openBraces, st.openBraces + 1}
        \/ (st.openBraces # 0 /\ to.openBraces = st.openBraces - 1)
    BY DEF StructuralStep
  <2> HIDE DEF to
  <2> QED
    BY <1>1, <2>1
<1> HIDE DEF to
<1>7. Wrote(to, x)
  BY <1>1, <1>3, <1>4, <1>5, <1>6 DEF Wrote
<1> QED
  BY <1>7 DEF to

(* What structuralRepair wrote stays written to the end. *)
LEMMA WroteRun ==
    ASSUME NEW c \in Seq(Symbols), NEW f, Structures(f, c), NEW x, NEW i \in 0..Len(c),
           Wrote(f[i], x)
    PROVE  Wrote(f[Len(c)], x)
<1> DEFINE m == Len(c) - i
           I == {j \in 0..m : Wrote(f[i + j], x)}
<1>1. m \in Nat /\ i \in Nat /\ Len(c) \in Nat
  OBVIOUS
<1>2. i + m = Len(c)
  BY <1>1
<1>3. 0 \in I
  <2>1. i + 0 = i /\ 0 \in 0..m
    BY <1>1
  <2> QED
    BY <2>1
<1>4. ASSUME NEW j \in 1..m, j - 1 \in I PROVE j \in I
  <2> HIDE DEF m
  <2>1. i + j \in 1..Len(c) /\ (i + j) - 1 = i + (j - 1) /\ j \in 0..m
    BY <1>1, <1>2
  <2>2. f[i + j] = StructuralStep(f[i + (j - 1)], c[i + j])
    BY <2>1 DEF Structures
  <2>3. Wrote(f[i + (j - 1)], x) /\ c[i + j] \in Symbols
    BY <1>4, <2>1
  <2>4. Wrote(f[i + j], x)
    BY <2>2, <2>3, WroteNext
  <2> QED
    BY <2>1, <2>4
<1> HIDE DEF m, I
<1>5. \A j \in 0..m : j \in I
  BY <1>1, <1>3, <1>4, UpToInduction
<1>6. m \in 0..m
  BY <1>1
<1>7. Wrote(f[i + m], x)
  BY <1>5, <1>6 DEF I
<1> QED
  BY <1>2, <1>7

(* A text whose last symbol is not trimmed. *)
Solid(x) == x \in Seq(Symbols) /\ x # <<>> /\ x[Len(x)] \notin White \cup {","}

(* The repaired text has it too, and does not end in white space. *)
LEMMA RepairWrote ==
    ASSUME NEW c, NEW end, EndsIn(c, 0, end), NEW x, Wrote(end, x), Solid(x)
    PROVE  LET r == AttemptStructuralRepair(c)
           IN  Grown(x, r) /\ r[Len(r)] \notin White
<1> DEFINE u == IF end.inString THEN Append(end.out, "q") ELSE end.out
           cutset == White \cup {","}
           v == TrimRight(u, cutset)
           t == [i \in 1..end.openBraces |-> "close"]
           r == v \o t
           a == Len(x)
           b == Len(u)
<1>1. AttemptStructuralRepair(c) = r
  BY RepairFrom
<1>2. Grown(x, end.out) /\ end.openBraces \in Nat /\ end.inString \in BOOLEAN
  BY DEF Wrote
<1>3. Grown(x, u)
  <2>1. end.out \in Seq(Symbols)
    BY <1>2 DEF Grown
  <2>2. Append(end.out, "q") = end.out \o <<"q">> /\ <<"q">> \in Seq(Symbols)
    BY <2>1, AppendOne, OneIsSeq, SymbolsTyped
  <2>3. Grown(x, Append(end.out, "q"))
    BY <1>2, <2>2, GrownMore
  <2> QED
    BY <1>2, <2>3
<1> HIDE DEF u
<1>4. /\ x \in Seq(Symbols) /\ u \in Seq(Symbols) /\ a <= b /\ a \in Nat /\ b \in Nat
      /\ \A i \in 1..a : u[i] = x[i]
  <2>1. /\ x \in Seq(Symbols) /\ u \in Seq(Symbols) /\ Len(x) <= Len(u)
        /\ \A i \in 1..Len(x) : u[i] = x[i]
    BY <1>3 DEF Grown
  <2>2. Len(x) \in Nat /\ Len(u) \in Nat
    BY <2>1
  <2> QED
    BY <2>1, <2>2
<1>5. a >= 1 /\ a \in 1..a
  <2>0. x # <<>> /\ x \in Seq(Symbols)
    BY DEF Solid
  <2>1. Len(x) \in Nat /\ Len(x) # 0
    BY <2>0
  <2> QED
    BY <2>1
<1> HIDE DEF a, b
<1>6. u[a] \notin cutset
  BY <1>4, <1>5 DEF a, Solid
<1>7. PICK e \in a..b : u[e] \notin cutset /\ \A i \in (e + 1)..b : u[i] \in cutset
  <2> HIDE DEF cutset
  <2> QED
    BY <1>4, <1>6, LastNotIn, ZenonT(60)
<1>8. e \in Nat /\ e >= 1 /\ e \in 1..b /\ a <= e /\ e <= b
  <2>1. e \in a..b
    BY <1>7
  <2> QED
    BY <1>4, <1>5, <2>1
<1>9. IsPart(v, u, 1, e)
  <2>1. IsPart(u, u, 1, b)
    BY <1>4, WholeIs DEF b
  <2> HIDE DEF cutset
  <2> QED
    BY <1>7, <1>8, <2>1, TrimRightIs
<1> HIDE DEF v
<1>10. v \in Seq(Symbols) /\ Len(v) = e /\ \A i \in 1..e : v[i] = u[i]
  <2>1. v \in Seq(Symbols) /\ Len(v) = e - 1 + 1 /\ \A i \in 1..(e - 1 + 1) : v[i] = u[1 + i - 1]
    BY <1>9, PartIs DEF PartBounds
  <2>2. e - 1 + 1 = e /\ \A i \in 1..e : 1 + i - 1 = i
    BY <1>8
  <2> QED
    BY <2>1, <2>2
<1>11. Grown(x, v)
  <2>1. a <= Len(v) /\ \A i \in 1..a : i \in 1..e
    BY <1>4, <1>8, <1>10
  <2>2. a = Len(x)
    BY DEF a
  <2> QED
    BY <1>4, <1>10, <2>1, <2>2 DEF Grown
<1>12. t \in Seq(Symbols) /\ Len(t) = end.openBraces /\ \A i \in 1..end.openBraces : t[i] = "close"
  <2> DEFINE q == end.openBraces
  <2>1. "close" \in Symbols /\ q \in Nat
    BY <1>2, SymbolsTyped
  <2> HIDE DEF q
  <2>2. [i \in 1..q |-> "close"] \in Seq(Symbols) /\ Len([i \in 1..q |-> "close"]) = q
    BY <2>1
  <2> QED
    BY <2>2 DEF q
<1> HIDE DEF t
<1>13. Grown(x, r) /\ Joined(r, v, t)
  BY <1>10, <1>11, <1>12, GrownMore, PutTogether
<1> HIDE DEF r
<1>14. r[Len(r)] \notin White
  <2>1. /\ Len(r) = e + Len(t) /\ (\A i \in 1..e : r[i] = v[i])
        /\ \A i \in 1..Len(t) : r[e + i] = t[i]
    BY <1>10, <1>13 DEF Joined
  <2>2. CASE end.openBraces = 0
    <3>1. Len(r) = e /\ e \in 1..e
      <4>1. Len(t) = 0
        BY <1>12, <2>2
      <4> QED
        BY <1>8, <2>1, <4>1
    <3>2. r[Len(r)] = u[e]
      BY <1>10, <2>1, <3>1
    <3> QED
      BY <1>7, <3>2
  <2>3. CASE end.openBraces # 0
    <3> DEFINE q == end.openBraces
    <3>1. q \in Nat /\ q # 0 /\ Len(t) = q /\ (\A i \in 1..q : t[i] = "close")
      BY <1>2, <1>12, <2>3
    <3> HIDE DEF q
    <3>3. q \in 1..q
      BY <3>1
    <3>2. r[Len(r)] = "close"
      BY <2>1, <3>1, <3>3
    <3> QED
      BY <3>2 DEF White
  <2> QED
    BY <2>2, <2>3
<1> QED
  BY <1>1, <1>13, <1>14

(* The first bare quote of a body is its p-th item, and s follows it. *)
Breaks(c, o, body, p, s) ==
    /\ p \in 1..Len(body) /\ body[p] = "rawQuote" /\ Quoteless(body, p - 1)
    /\ o + EndOf(body, p) + 1 <= Len(c) /\ c[o + EndOf(body, p) + 1] = s
    /\ s \in Symbols \ {"s", "NL", "close", ",", "open"}

(* After a raw quote that breaks the object, structuralRepair's result is not decoded. *)
LEMMA BrokenRepair ==
    ASSUME NEW c, NEW n, NEW key, NEW o, NEW body, NEW k, NEW g, NEW p, NEW s,
           Cleaned(c, 0, n, key, o, body, k, g), p \in 1..k, Breaks(c, o, body, p, s)
    PROVE  Unmarshal(AttemptStructuralRepair(c)) = Undecoded
<1>1. /\ Begins(c, 0, n, key, o) /\ Holds(c, o, body, k) /\ c \in Seq(Symbols) /\ o \in Nat
      /\ body \in Seq(Items) /\ k \in 0..Len(body) /\ k \in Nat
  <2>1. Begins(c, 0, n, key, o) /\ Holds(c, o, body, k)
    BY DEF Cleaned
  <2>2. c \in Seq(Symbols) /\ o \in Nat
    BY <2>1, BeginsTyped
  <2>3. body \in Seq(Items) /\ k \in 0..Len(body) /\ k \in Nat
    BY <2>1 DEF Holds
  <2> QED
    BY <2>1, <2>2, <2>3
<1>2. /\ p \in 1..Len(body) /\ body[p] = "rawQuote" /\ Quoteless(body, p - 1)
      /\ s \in Symbols \ {"s", "NL", "close", ",", "open"}
  BY DEF Breaks
<1> DEFINE f == Structuring(c)
           esc == Escaped(body)
           q == p - 1
           z == o + EndOf(body, q)
           y == o + EndOf(body, p)
           u == Kept(c, o, body, q)
           v == u \o <<"q">>
           x == v \o <<s>>
           d == o + EndOf(esc, p)
<1>3. p \in Nat /\ q \in Nat /\ q \in 0..k /\ q \in 0..Len(body) /\ p \in 0..Len(body)
      /\ p \in 1..p
  <2>1. p \in 1..k /\ k \in 0..Len(body) /\ k \in Nat /\ Len(body) \in Nat
    BY <1>1
  <2> QED
    BY <2>1
<1>4. u \in Seq(Symbols) /\ f[z] = InText(u) /\ Structures(f, c)
  <2>1. Quoteless(body, q)
    BY <1>2
  <2> HIDE DEF q
  <2> QED
    BY <1>3, <2>1, StructsCleaned
<1>5. y = z + 1 /\ z \in Nat /\ c[z + 1] = "q" /\ Source["rawQuote"] = <<"q">>
  <2>1. ItemAt(c, z, "rawQuote")
    BY <1>1, <1>2, <1>3 DEF Holds
  <2>2. Shows(c, z, Source["rawQuote"]) /\ "rawQuote" \in Singles
    BY <2>1 DEF ItemAt, Singles
  <2>3. Source["rawQuote"] = <<c[z + 1]>> /\ Len(Source["rawQuote"]) = 1 /\ c[z + 1] = "q"
    BY <2>2, SymbolsOf
  <2>4. EndOf(body, q) \in Nat /\ EndOf(body, p) = EndOf(body, q) + 1
    BY <1>1, <1>2, <1>3, <2>3, Ends
  <2> QED
    BY <1>1, <2>3, <2>4
<1>6. y + 1 <= Len(c) /\ c[y + 1] = s
  BY DEF Breaks
<1>7. "q" \in Symbols /\ s \in Symbols /\ Len(c) \in Nat
  <2>1. Len(c) \in Nat
    BY <1>1
  <2> QED
    BY <1>2, <2>1, SymbolsTyped
<1> HIDE DEF f, u, z
<1>8. f[y] = Outside(v, 1)
  <2>1. z + 1 \in 1..Len(c) /\ (z + 1) - 1 = z
    BY <1>5, <1>6, <1>7
  <2>2. f[z + 1] = StructuralStep(f[(z + 1) - 1], c[z + 1])
    BY <1>4, <2>1 DEF Structures
  <2>3. f[z + 1] = StructuralStep(InText(u), "q")
    BY <1>4, <1>5, <2>1, <2>2
  <2>4. f[z + 1] = Outside(u \o <<"q">>, 1)
    BY <2>3, StructInside
  <2> QED
    BY <1>5, <2>4
<1>9. v \in Seq(Symbols)
  BY <1>4, <1>7, LastOfMore
<1> HIDE DEF v, y
<1>10. x \in Seq(Symbols) /\ x # <<>> /\ x[Len(x)] = s
  BY <1>7, <1>9, LastOfMore
<1>11. Wrote(f[y + 1], x)
  <2>1. y + 1 \in 1..Len(c) /\ (y + 1) - 1 = y
    BY <1>5, <1>6, <1>7
  <2>2. f[y + 1] = StructuralStep(f[(y + 1) - 1], c[y + 1])
    BY <1>4, <2>1 DEF Structures
  <2>3. f[y + 1] = StructuralStep(Outside(v, 1), s)
    BY <1>6, <1>8, <2>1, <2>2
  <2>4. f[y + 1] = InText(x) \/ f[y + 1] = Outside(x, 1)
    <3>1. CASE s = "q"
      BY <2>3, <3>1, StructOutside
    <3>2. CASE s # "q"
      <4>1. s \in Symbols \ {"q", "open", "close"}
        BY <1>2, <3>2
      <4> QED
        BY <2>3, <4>1, StructOutside
    <3> QED
      BY <3>1, <3>2
  <2>5. Grown(x, x)
    BY <1>10, GrownSelf
  <2> HIDE DEF x
  <2>6. f[y + 1].out = x /\ f[y + 1].openBraces = 1 /\ f[y + 1].inString \in {TRUE, FALSE}
        /\ f[y + 1].escaped \in {TRUE, FALSE}
    <3>1. CASE f[y + 1] = InText(x)
      BY <3>1 DEF InText
    <3>2. CASE f[y + 1] = Outside(x, 1)
      BY <3>2 DEF Outside
    <3> QED
      BY <2>4, <3>1, <3>2
  <2>7. 1 \in Nat
    OBVIOUS
  <2> DEFINE st == f[y + 1]
  <2>8. Grown(x, st.out) /\ st.openBraces \in Nat /\ st.inString \in {TRUE, FALSE}
        /\ st.escaped \in {TRUE, FALSE}
    BY <2>5, <2>6, <2>7
  <2> HIDE DEF st
  <2>9. Wrote(st, x)
    BY <2>8 DEF Wrote
  <2> QED
    BY <2>9 DEF st
<1>12. Solid(x)
  BY <1>2, <1>10 DEF Solid, White
<1>13. x = Rebuild(c, o, esc, p, <<s>>)
  <2>1. v = SubSeq(c, 1, o) \o Flat(Source, SubSeq(esc, 1, p))
    <3>1. esc \in Seq(Items) /\ Len(esc) = Len(body) /\ esc[p] = "rawQuote"
      <4>1. esc[p] = Esc(body[p])
        BY <1>1, <1>2, EscapedIs
      <4>2. esc[p] = "rawQuote"
        BY <1>2, <4>1 DEF Esc
      <4> QED
        BY <1>1, <4>2, EscapedIs
    <3>2. Flat(Source, SubSeq(esc, 1, p)) = Flat(Source, SubSeq(esc, 1, p - 1)) \o <<"q">>
      BY <1>2, <1>5, <3>1, FlatSource
    <3>3. Flat(Source, SubSeq(esc, 1, q)) \in Seq(Symbols)
      BY <1>3, <3>1, FlatSource
    <3>4. SubSeq(c, 1, o) \in Seq(Symbols) /\ <<"q">> \in Seq(Symbols)
      <4>1. SubSeq(c, 1, o) \in Seq(Symbols)
        <5>1. o <= Len(c)
          BY <1>1, BeginsTyped
        <5> QED
          BY <1>1, <5>1
      <4> QED
        BY <1>7, <4>1, OneIsSeq
    <3>5. u = SubSeq(c, 1, o) \o Flat(Source, SubSeq(esc, 1, q))
      BY DEF u, Kept
    <3> DEFINE a == SubSeq(c, 1, o)
               b == Flat(Source, SubSeq(esc, 1, q))
               t == <<"q">>
    <3>6. (a \o b) \o t = a \o (b \o t)
      <4>1. a \in Seq(Symbols) /\ b \in Seq(Symbols) /\ t \in Seq(Symbols)
        BY <3>3, <3>4
      <4> HIDE DEF a, b, t
      <4> QED
        BY <4>1, Associative, SMTT(30)
    <3> HIDE DEF esc
    <3> QED
      BY <3>2, <3>5, <3>6 DEF v
  <2> QED
    BY <2>1 DEF Rebuild
<1>14. esc \in Seq(Items) /\ p \in 0..Len(esc) /\ esc[p] = "rawQuote"
  <2>1. Esc("rawQuote") = "rawQuote"
    BY DEF Esc
  <2> QED
    BY <1>1, <1>2, <1>3, <2>1, EscapedIs
<1>15. <<s>> \in Seq(Symbols) /\ Len(<<s>>) = 1 /\ <<s>>[1] = s
  BY <1>7, OneIsSeq
<1> HIDE DEF x, esc
<1>16. Rebuilds(x, c, n, key, o, esc, p, <<s>>)
  BY <1>1, <1>13, <1>14, <1>15 DEF Rebuilds
<1>17. /\ Begins(x, 0, n, key, o) /\ Holds(x, o, esc, p)
       /\ Len(x) = d + 1
       /\ x[d + 1] = s
  <2> DEFINE t == <<s>>
  <2>1. Rebuilds(x, c, n, key, o, esc, p, t) /\ Len(t) = 1 /\ t[1] = s
    BY <1>15, <1>16
  <2> HIDE DEF t
  <2>2. /\ Begins(x, 0, n, key, o) /\ Holds(x, o, esc, p)
        /\ Len(x) = d + Len(t)
        /\ \A i \in 1..Len(t) : x[d + i] = t[i]
    BY <2>1, RebuiltIs
  <2>3. 1 \in 1..1
    OBVIOUS
  <2> QED
    BY <2>1, <2>2, <2>3
<1> DEFINE end == f[Len(c)]
           r == AttemptStructuralRepair(c)
<1>18. EndsIn(c, 0, end)
  BY <1>1, EndsWhole DEF f
<1>19. Wrote(end, x)
  <2>1. y + 1 \in 0..Len(c)
    BY <1>5, <1>6, <1>7
  <2> QED
    BY <1>1, <1>4, <1>11, <2>1, WroteRun
<1> HIDE DEF end
<1>20. Grown(x, r) /\ r[Len(r)] \notin White
  BY <1>12, <1>18, <1>19, RepairWrote
<1> HIDE DEF r
<1>21. Begins(r, 0, n, key, o) /\ Holds(r, o, esc, p)
  BY <1>17, <1>20, GrownParts
<1>22. d \in Nat
  BY <1>1, <1>14, Ends
<1>23. d < Len(r) /\ r[d + 1] = s
  <2>1. d + 1 \in 1..Len(x) /\ Len(x) <= Len(r) /\ Len(r) \in Nat
    <3>1. Len(x) <= Len(r) /\ r \in Seq(Symbols)
      BY <1>20 DEF Grown
    <3>2. d + 1 \in 1..(d + 1)
      BY <1>22
    <3> QED
      BY <1>17, <3>1, <3>2
  <2>2. r[d + 1] = x[d + 1]
    BY <1>20, <2>1 DEF Grown
  <2> HIDE DEF d
  <2> QED
    BY <1>17, <1>22, <2>1, <2>2
<1>24. ~Clean(esc, p)
  <2>1. p \in 1..p
    BY <1>3
  <2> QED
    BY <1>14, <2>1 DEF Clean, Raw
<1>25. d = o + EndOf(esc, p)
  OBVIOUS
<1> HIDE DEF d
<1>26. BrokenForm(r, n, key, o, esc, p, d)
  <2>1. r[d + 1] \notin White /\ r[d + 1] # "close"
    BY <1>2, <1>23 DEF White
  <2> QED
    BY <1>20, <1>21, <1>23, <1>24, <1>25, <2>1 DEF BrokenForm
<1>27. Unmarshal(r) = Undecoded
  BY <1>26, BrokenObject
<1> QED
  BY <1>27 DEF r

(* The first bare quote among the first k items of a body. *)
LEMMA FirstQuote ==
    ASSUME NEW body, NEW k \in Nat, ~Quoteless(body, k)
    PROVE  \E p \in 1..k : body[p] = "rawQuote" /\ Quoteless(body, p - 1)
<1> DEFINE S == {p \in 1..k : body[p] = "rawQuote"}
<1>1. S \subseteq 1..k /\ S # {}
  BY DEF Quoteless
<1>2. PICK f \in S : \A i \in S : f <= i
  <2> HIDE DEF S
  <2> QED
    BY <1>1, FirstExists
<1>3. f \in 1..k /\ body[f] = "rawQuote"
  BY <1>2
<1>4. ASSUME NEW i \in 1..(f - 1), body[i] = "rawQuote" PROVE FALSE
  <2>1. i \in 1..k /\ i < f
    BY <1>3
  <2>2. i \in S
    BY <1>4, <2>1
  <2>3. f <= i
    BY <1>2, <2>2
  <2> QED
    BY <1>3, <2>1, <2>3
<1>5. Quoteless(body, f - 1)
  BY <1>4 DEF Quoteless
<1> QED
  BY <1>3, <1>5

(* What follows a bare quote within the text is no white space or brace. *)
LEMMA QuoteFollowed ==
    ASSUME NEW c, NEW o, NEW body, NEW k, Holds(c, o, body, k), ~Ambiguous(body),
           NEW p \in 1..k, p # k, body[p] = "rawQuote"
    PROVE  /\ o + EndOf(body, p) + 1 <= o + EndOf(body, k)
           /\ c[o + EndOf(body, p) + 1] \in Textual \ {"s", "NL", "close"}
<1>1. /\ body \in Seq(Items) /\ k \in 0..Len(body) /\ k \in Nat /\ Len(body) \in Nat /\ o \in Nat
      /\ \A i \in 1..k : ItemAt(c, o + EndOf(body, i - 1), body[i])
  BY DEF Holds
<1> DEFINE q == p + 1
           y == o + EndOf(body, p)
           x == body[q]
           l == Len(Source[x])
<1>2. q \in 1..k /\ q - 1 = p /\ q \in 1..Len(body) /\ p \in 1..Len(body) /\ q \in 0..k
      /\ p \in 0..Len(body)
  BY <1>1
<1>3. x \in Items /\ l \in 1..6 /\ EndOf(body, p) \in Nat /\ EndOf(body, q) = EndOf(body, p) + l
  BY <1>1, <1>2, Ends
<1>4. EndOf(body, q) <= EndOf(body, k) /\ EndOf(body, k) \in Nat
  BY <1>1, <1>2, Ends, EndsInOrder
<1>5. x \notin {"space", "rawNewline", "brace"}
  BY <1>1, <1>2 DEF Ambiguous
<1>6. ItemAt(c, y, x)
  BY <1>1, <1>2
<1>7. 1 \in 1..l
  <2>1. \A m \in 1..6 : 1 \in 1..m
    OBVIOUS
  <2> QED
    BY <1>3, <2>1
<1> HIDE DEF q, y, x
<1>8. FitsIn(c[y + 1], x, 1)
  BY <1>6, <1>7, ItemSymbols
<1>9. c[y + 1] \in Textual \ {"s", "NL", "close"}
  BY <1>5, <1>8 DEF FitsIn, White
<1> HIDE DEF l
<1>10. o + EndOf(body, p) + 1 <= o + EndOf(body, k)
  BY <1>1, <1>3, <1>4
<1> QED
  BY <1>9, <1>10 DEF y

(* The symbols of items are neither commas nor opening braces. *)
LEMMA TextualSymbols == Textual \subseteq Symbols \ {",", "open"}
BY DEF Textual, Symbols

(* The text has a bare quote that is not its end. *)
LEMMA BrokenCleaned ==
    ASSUME NEW c, NEW n, NEW key, NEW o, NEW body, NEW k, NEW g,
           Cleaned(c, 0, n, key, o, body, k, g), NEW p \in 1..k,
           body[p] = "rawQuote", Quoteless(body, p - 1),
           p # k \/ (g + 1 <= Len(c) /\ c[g + 1] \in Textual \ {"s", "NL", "close"})
    PROVE  Unmarshal(AttemptStructuralRepair(c)) = Undecoded
<1>1. Holds(c, o, body, k) /\ ~Ambiguous(body) /\ g = o + EndOf(body, k)
  BY DEF Cleaned
<1>2. /\ k \in 0..Len(body) /\ o \in Nat /\ body \in Seq(Items) /\ c \in Seq(Symbols)
      /\ o + EndOf(body, k) <= Len(c)
  BY <1>1 DEF Holds
<1>3. k \in Nat /\ p \in 1..Len(body) /\ Len(c) \in Nat /\ EndOf(body, k) \in Nat /\ p \in Nat
      /\ EndOf(body, p) \in Nat
  <2>1. k \in Nat /\ Len(body) \in Nat /\ Len(c) \in Nat
    BY <1>2
  <2>2. p \in 1..Len(body) /\ p \in Nat /\ p \in 0..Len(body)
    BY <1>2, <2>1
  <2> QED
    BY <1>2, <2>1, <2>2, Ends
<1> DEFINE y == o + EndOf(body, p)
           s == c[y + 1]
<1>4. y + 1 <= Len(c) /\ s \in Textual \ {"s", "NL", "close"}
  <2>1. CASE p # k
    <3>1. o + EndOf(body, p) + 1 <= o + EndOf(body, k) /\ s \in Textual \ {"s", "NL", "close"}
      BY <1>1, <2>1, QuoteFollowed
    <3> QED
      BY <1>2, <1>3, <3>1
  <2>2. CASE p = k
    <3>1. y = g
      BY <1>1, <2>2
    <3> QED
      BY <2>2, <3>1
  <2> QED
    BY <2>1, <2>2
<1> HIDE DEF s
<1>5. s \in Symbols \ {"s", "NL", "close", ",", "open"}
  BY <1>4, TextualSymbols
<1>6. Breaks(c, o, body, p, s)
  BY <1>3, <1>4, <1>5 DEF Breaks, s
<1> QED
  BY <1>6, BrokenRepair

============================================================================
