----------------------- MODULE StreamTransformProofs -----------------------
(***************************************************************************)
(* Proofs about the streaming translation, for any choices, tool calls,    *)
(* sizes of the side buffer and entries the upstream may send: nothing of  *)
(* the answer is lost, doubled or reordered, real tool calls keep their    *)
(* fragments under consistent numbers, standard content and the synthetic  *)
(* answer are mixed only when the buffer was full, and the finish reason   *)
(* is truthful.  A choice is Working until its finish_reason and Settled   *)
(* from then on; each stage of an entry keeps a choice at work (Stage), up *)
(* to the fragments that were treated, and EmitFinish settles it.          *)
(***************************************************************************)
EXTENDS StreamTransform, FiniteSetTheorems, WellFoundedInduction, TLAPS

(* The pieces of a sequence come from places further and further on. *)
Increasing(seq) == \A i, j \in DOMAIN seq : i < j => Before(seq[i].at, seq[j].at)

(* The places that the pieces of a sequence come from. *)
Places(seq) == {seq[j].at : j \in DOMAIN seq}

(* Every place of A is before every place of B. *)
AllBefore(A, B) == \A p \in A, q \in B : Before(p, q)

(* The content of choice c, when the upstream sent the standard content  *)
(* std and the synthetic answer syn: what was sent is delivered, or in   *)
(* the side buffer or held by the decoder, behind what was delivered;    *)
(* and a flushed buffer was full.                                        *)
Content(o, s, c, std, syn) ==
    LET got == Got(o, c, "content")
    IN  /\ InOrder(o, c, "content")
        /\ Increasing(s.sideBuffer) /\ Increasing(s.held)
        /\ AllBefore(Standard(got), Places(s.sideBuffer))
        /\ AllBefore(Synthetic(got), Places(s.held))
        /\ Places(s.sideBuffer) \subseteq std
        /\ FirstOf(Standard(got), std)
        /\ syn = Synthetic(got) \cup Places(s.held)
        /\ s.hasSynthetic => s.sideBuffer = <<>>
        /\ ~s.hasSynthetic => std = Standard(got) \cup Places(s.sideBuffer) /\ syn = {}
        /\ s.sideBufferEmitted <=> Standard(got) # {}
        /\ s.sideBufferEmitted => s.sideBuffer = <<>>
        /\ s.sideBufferEmitted => Cardinality(Standard(got)) >= sideBufferBytes
        /\ s.contentEmitted <=> Synthetic(got) # {}

(* The pieces themselves, of the chunks of a kind. *)
PiecesOf(o, c, kind) == {Piece(o, p) : p \in Pieces(o, c, kind)}

(* The real calls seen have the numbers 0, 1, .. nextRealIndex - 1, one  *)
(* each, and each piece goes under the number of its call.               *)
Numbered(es, s, pieces) ==
    /\ \A x \in pieces :
        /\ s.realToolsSeen[Frag(es, x.at).index] # NoIndex
        /\ x.frag = [Frag(es, x.at) EXCEPT !.index = s.realToolsSeen[Frag(es, x.at).index]]
    /\ \A i \in ToolIndexes : s.realToolsSeen[i] # NoIndex =>
        /\ s.realToolsSeen[i] < s.nextRealIndex
        /\ \E x \in pieces : Frag(es, x.at).index = i
        /\ \A j \in ToolIndexes : s.realToolsSeen[j] = s.realToolsSeen[i] => i = j
    /\ \A m \in 0..(s.nextRealIndex - 1) : \E i \in ToolIndexes : s.realToolsSeen[i] = m
    /\ \A x \in pieces : x.frag.index # 0 =>
        \E y \in pieces : Before(y.at, x.at) /\ y.frag.index = x.frag.index - 1

(* The real calls of choice c, when the fragments at these places were   *)
(* sent: they are delivered or in emit, waiting for the end of the loop. *)
Tools(o, emit, s, c, es, places) ==
    /\ InOrder(o, c, "tools")
    /\ Increasing(emit)
    /\ AllBefore(Got(o, c, "tools"), Places(emit))
    /\ Got(o, c, "tools") \cup Places(emit) = SentReal(es, places)
    /\ Numbered(es, s, PiecesOf(o, c, "tools") \cup {emit[j] : j \in DOMAIN emit})

(* The index of the synthetic call is known from its first fragment on. *)
Synth(s, indexes) ==
    /\ s.hasSynthetic <=> s.syntheticToolIndex # NoIndex
    /\ indexes = IF s.hasSynthetic THEN {s.syntheticToolIndex} ELSE {}

(* Choice c before its finish_reason, in the middle of an entry of es:   *)
(* of the fragments those at places were treated, of the content std.    *)
Stage(o, emit, s, c, es, places, std) ==
    /\ Content(o, s, c, std, SentSynthetic(es, places))
    /\ Tools(o, emit, s, c, es, places)
    /\ Synth(s, SyntheticIndex(es, places))
    /\ Chunks(o, c, "finish") = {}

(* The same between two entries. *)
Working(o, s, c, es) == Stage(o, <<>>, s, c, es, FragsOf(es, c), SentStandard(es, c))

(* Choice c has finished: its content is delivered, its real calls are,  *)
(* and its last chunk tells the reason.                                  *)
Delivered(o, c, es, places, std) ==
    LET got == Got(o, c, "content")
    IN  /\ InOrder(o, c, "content")
        /\ FirstOf(Standard(got), std)
        /\ Synthetic(got) \in {{}, SentSynthetic(es, places)}
        /\ SyntheticIndex(es, places) = {} => got = std
        /\ Standard(got) # {} /\ Synthetic(got) # {} => Cardinality(Standard(got)) >= sideBufferBytes

Kept(o, c, es, places) ==
    /\ InOrder(o, c, "tools")
    /\ Got(o, c, "tools") = SentReal(es, places)
    /\ Renumbered(es, PiecesOf(o, c, "tools"))

Closed(o, c, reason) ==
    /\ Chunks(o, c, "finish") # {}
    /\ \A i \in Chunks(o, c, "finish") :
        /\ \A j \in DOMAIN o : o[j].choice = c => j <= i
        /\ o[i].data[1].reason = "tool_calls" <=>
                reason = "tool_calls" /\ Pieces(o, c, "tools") # {}

Settled(o, c, es) ==
    /\ Delivered(o, c, es, FragsOf(es, c), SentStandard(es, c))
    /\ Kept(o, c, es, FragsOf(es, c))
    /\ \E n \in Entries(es, c) :
        /\ es[n].delta.finish # "none"
        /\ \A m \in Entries(es, c) : es[m].delta.finish # "none" => m = n
        /\ Closed(o, c, es[n].delta.finish)

(* The inductive invariant. [DONE] is the only chunk of no choice. *)
IInv ==
    /\ TypeOK
    /\ phase = "reading" => \A i \in DOMAIN out : out[i].choice # NoIndex
    /\ \A c \in ChoiceSet :
        /\ ~Finished(fed, c) => Working(out, state[c], c, fed)
        /\ Finished(fed, c) => Settled(out, c, fed)
-----------------------------------------------------------------------------
(* Places are ordered strictly and totally. *)
LEMMA BeforeIsAnOrder ==
    /\ \A p \in Place : ~Before(p, p)
    /\ \A p, q \in Place : Before(p, q) => ~Before(q, p)
    /\ \A p, q \in Place : p # q => Before(p, q) \/ Before(q, p)
    /\ \A p, q, r \in Place : Before(p, q) /\ Before(q, r) => Before(p, r)
BY DEF Before, Place

(* Append, read element by element. *)
LEMMA Appended ==
    ASSUME NEW S, NEW seq \in Seq(S), NEW x \in S
    PROVE  /\ Append(seq, x) \in Seq(S)
           /\ Len(Append(seq, x)) = Len(seq) + 1
           /\ DOMAIN Append(seq, x) = 1..(Len(seq) + 1)
           /\ DOMAIN seq = 1..Len(seq)
           /\ Len(seq) \in Nat
           /\ \A i \in DOMAIN seq : Append(seq, x)[i] = seq[i]
           /\ Append(seq, x)[Len(seq) + 1] = x
OBVIOUS

(* A chunk written is a Chunk, and what it carries a sequence. *)
LEMMA ChunkTyped ==
    ASSUME NEW o \in Seq(Chunk), NEW i \in DOMAIN o
    PROVE  o[i] \in Chunk /\ DOMAIN o[i].data = 1..Len(o[i].data) /\ Len(o[i].data) \in Nat
<1>1. o[i] \in Chunk
  OBVIOUS
<1>2. \E D : o[i].data \in Seq(D)
  BY <1>1 DEF Chunk
<1> QED
  BY <1>1, <1>2

(* Where a piece is: at a position of a chunk of its kind. *)
LEMMA PiecesPlaced ==
    ASSUME NEW o \in Seq(Chunk), NEW c, NEW kind, NEW p \in Pieces(o, c, kind)
    PROVE  /\ p \in Place
           /\ p[1] \in Chunks(o, c, kind)
           /\ p[1] \in 1..Len(o)
           /\ p[2] \in DOMAIN o[p[1]].data
<1>1. PICK i \in Chunks(o, c, kind) : p \in {i} \X DOMAIN o[i].data
  BY DEF Pieces
<1>2. i \in DOMAIN o
  BY DEF Chunks
<1>3. DOMAIN o[i].data \subseteq Nat
  BY <1>2, ChunkTyped
<1> QED
  BY <1>1, <1>2, <1>3 DEF Place

(* What one more chunk adds to the chunks and pieces of a kind. *)
LEMMA PiecesAppended ==
    ASSUME NEW o \in Seq(Chunk), NEW x \in Chunk, NEW c, NEW kind
    PROVE  /\ x.choice = c /\ x.kind = kind =>
                /\ Pieces(Append(o, x), c, kind) =
                       Pieces(o, c, kind) \cup ({Len(o) + 1} \X DOMAIN x.data)
                /\ Chunks(Append(o, x), c, kind) = Chunks(o, c, kind) \cup {Len(o) + 1}
           /\ ~(x.choice = c /\ x.kind = kind) =>
                /\ Pieces(Append(o, x), c, kind) = Pieces(o, c, kind)
                /\ Chunks(Append(o, x), c, kind) = Chunks(o, c, kind)
           /\ \A p \in Pieces(o, c, kind) : Piece(Append(o, x), p) = Piece(o, p)
           /\ \A j \in DOMAIN x.data : Piece(Append(o, x), <<Len(o) + 1, j>>) = x.data[j]
<1> DEFINE o2 == Append(o, x)
<1>1. /\ DOMAIN o2 = 1..(Len(o) + 1) /\ DOMAIN o = 1..Len(o) /\ Len(o) \in Nat
      /\ \A i \in DOMAIN o : o2[i] = o[i]
      /\ o2[Len(o) + 1] = x
  BY Appended
<1> HIDE DEF o2
<1>2. Chunks(o2, c, kind) =
          Chunks(o, c, kind) \cup IF x.choice = c /\ x.kind = kind THEN {Len(o) + 1} ELSE {}
  BY <1>1 DEF Chunks
<1>3. Chunks(o, c, kind) \subseteq DOMAIN o
  BY DEF Chunks
<1>4. Pieces(o2, c, kind) =
          Pieces(o, c, kind) \cup IF x.choice = c /\ x.kind = kind
                                  THEN {Len(o) + 1} \X DOMAIN x.data ELSE {}
  BY <1>1, <1>2, <1>3 DEF Pieces
<1>5. \A p \in Pieces(o, c, kind) : Piece(o2, p) = Piece(o, p)
  BY <1>1, PiecesPlaced DEF Piece
<1>6. \A j \in DOMAIN x.data : Piece(o2, <<Len(o) + 1, j>>) = x.data[j]
  BY <1>1 DEF Piece
<1> QED
  BY <1>2, <1>4, <1>5, <1>6 DEF o2

(* A chunk of another choice or kind changes nothing. *)
LEMMA OtherAppended ==
    ASSUME NEW o \in Seq(Chunk), NEW x \in Chunk, NEW c, NEW kind,
           ~(x.choice = c /\ x.kind = kind)
    PROVE  /\ Pieces(Append(o, x), c, kind) = Pieces(o, c, kind)
           /\ Chunks(Append(o, x), c, kind) = Chunks(o, c, kind)
           /\ PiecesOf(Append(o, x), c, kind) = PiecesOf(o, c, kind)
           /\ Got(Append(o, x), c, kind) = Got(o, c, kind)
           /\ InOrder(o, c, kind) => InOrder(Append(o, x), c, kind)
<1>1. Pieces(Append(o, x), c, kind) = Pieces(o, c, kind)
  BY PiecesAppended
<1>2. Chunks(Append(o, x), c, kind) = Chunks(o, c, kind)
  BY PiecesAppended
<1>3. \A p \in Pieces(o, c, kind) : Piece(Append(o, x), p) = Piece(o, p)
  BY PiecesAppended
<1>4. PiecesOf(Append(o, x), c, kind) = PiecesOf(o, c, kind)
  BY <1>1, <1>3 DEF PiecesOf
<1>5. Got(Append(o, x), c, kind) = Got(o, c, kind)
  BY <1>1, <1>3 DEF Got
<1>6. InOrder(o, c, kind) => InOrder(Append(o, x), c, kind)
  BY <1>1, <1>3 DEF InOrder
<1> QED
  BY <1>1, <1>2, <1>4, <1>5, <1>6

(* A chunk of this choice and kind adds its pieces. *)
LEMMA KindAppended ==
    ASSUME NEW o \in Seq(Chunk), NEW x \in Chunk
    PROVE  /\ PiecesOf(Append(o, x), x.choice, x.kind) =
                 PiecesOf(o, x.choice, x.kind) \cup {x.data[j] : j \in DOMAIN x.data}
           /\ Got(Append(o, x), x.choice, x.kind) = Got(o, x.choice, x.kind) \cup Places(x.data)
           /\ Chunks(Append(o, x), x.choice, x.kind) = Chunks(o, x.choice, x.kind) \cup {Len(o) + 1}
<1> DEFINE o2 == Append(o, x)
           old == Pieces(o, x.choice, x.kind)
           new == {Len(o) + 1} \X DOMAIN x.data
<1>1. /\ Pieces(o2, x.choice, x.kind) = old \cup new
      /\ \A p \in old : Piece(o2, p) = Piece(o, p)
      /\ \A j \in DOMAIN x.data : Piece(o2, <<Len(o) + 1, j>>) = x.data[j]
      /\ Chunks(o2, x.choice, x.kind) = Chunks(o, x.choice, x.kind) \cup {Len(o) + 1}
  BY PiecesAppended
<1> HIDE DEF o2, old
<1>2. /\ {Piece(o2, p) : p \in old} = {Piece(o, p) : p \in old}
      /\ {Piece(o2, p).at : p \in old} = {Piece(o, p).at : p \in old}
  BY <1>1
<1>3. /\ {Piece(o2, p) : p \in new} = {x.data[j] : j \in DOMAIN x.data}
      /\ {Piece(o2, p).at : p \in new} = {x.data[j].at : j \in DOMAIN x.data}
  <2>1. \A p \in new : \E j \in DOMAIN x.data : p = <<Len(o) + 1, j>>
    OBVIOUS
  <2>2. \A j \in DOMAIN x.data : <<Len(o) + 1, j>> \in new
    OBVIOUS
  <2> HIDE DEF new
  <2>3. \A p \in new : \E j \in DOMAIN x.data : Piece(o2, p) = x.data[j]
    BY <1>1, <2>1
  <2>4. \A j \in DOMAIN x.data : \E p \in new : Piece(o2, p) = x.data[j]
    BY <1>1, <2>2
  <2>5. {Piece(o2, p) : p \in new} = {x.data[j] : j \in DOMAIN x.data}
    BY <2>3, <2>4
  <2>6. {Piece(o2, p).at : p \in new} = {x.data[j].at : j \in DOMAIN x.data}
    BY <2>3, <2>4
  <2> QED
    BY <2>5, <2>6
<1> HIDE DEF new
<1>4. PiecesOf(o2, x.choice, x.kind) = {Piece(o2, p) : p \in old} \cup {Piece(o2, p) : p \in new}
  BY <1>1 DEF PiecesOf
<1>5. Got(o2, x.choice, x.kind) = {Piece(o2, p).at : p \in old} \cup {Piece(o2, p).at : p \in new}
  BY <1>1 DEF Got
<1> QED
  BY <1>1, <1>2, <1>3, <1>4, <1>5 DEF o2, old, PiecesOf, Got, Places

(* The order is kept when what is added is in order and behind what was  *)
(* there, source by source.                                              *)
LEMMA OrderAppended ==
    ASSUME NEW o \in Seq(Chunk), NEW x \in Chunk,
           InOrder(o, x.choice, x.kind), Increasing(x.data),
           \A p \in Got(o, x.choice, x.kind), q \in Places(x.data) :
               SameSource(p, q) => Before(p, q)
    PROVE  InOrder(Append(o, x), x.choice, x.kind)
<1> DEFINE o2 == Append(o, x)
           old == Pieces(o, x.choice, x.kind)
           new == {Len(o) + 1} \X DOMAIN x.data
<1>1. /\ Pieces(o2, x.choice, x.kind) = old \cup new
      /\ \A p \in old : Piece(o2, p) = Piece(o, p)
      /\ \A j \in DOMAIN x.data : Piece(o2, <<Len(o) + 1, j>>) = x.data[j]
  BY PiecesAppended
<1>2. \A p \in old : p[1] \in 1..Len(o) /\ p \in Place
  BY PiecesPlaced
<1>3. Len(o) \in Nat /\ Len(o2) = Len(o) + 1 /\ o2[Len(o) + 1] = x /\ o2 \in Seq(Chunk)
      /\ Len(o) + 1 \in DOMAIN o2
  BY Appended
<1>4. DOMAIN x.data \subseteq Nat
  BY <1>3, ChunkTyped
<1> HIDE DEF o2
<1> SUFFICES ASSUME NEW p \in old \cup new, NEW q \in old \cup new, Before(p, q),
                    SameSource(Piece(o2, p).at, Piece(o2, q).at)
             PROVE  Before(Piece(o2, p).at, Piece(o2, q).at)
  BY <1>1 DEF InOrder, o2
<1>5. CASE p \in old /\ q \in old
  BY <1>1, <1>5 DEF InOrder
<1>6. CASE p \in old /\ q \in new
  <2>1. PICK j \in DOMAIN x.data : q = <<Len(o) + 1, j>>
    BY <1>6
  <2>2. Piece(o2, q).at \in Places(x.data)
    BY <1>1, <2>1 DEF Places
  <2>3. Piece(o2, p).at \in Got(o, x.choice, x.kind)
    BY <1>1, <1>6 DEF Got
  <2> QED
    BY <2>2, <2>3
<1>7. CASE p \in new /\ q \in old
  <2>1. p[1] = Len(o) + 1 /\ q[1] \in 1..Len(o)
    BY <1>2, <1>7
  <2> QED
    BY <1>3, <2>1 DEF Before
<1>8. CASE p \in new /\ q \in new
  <2>1. PICK i \in DOMAIN x.data, j \in DOMAIN x.data : p = <<Len(o) + 1, i>> /\ q = <<Len(o) + 1, j>>
    BY <1>8
  <2>2. i < j
    BY <1>3, <1>4, <2>1 DEF Before
  <2> QED
    BY <1>1, <2>1, <2>2 DEF Increasing
<1> QED
  BY <1>5, <1>6, <1>7, <1>8

-----------------------------------------------------------------------------
(* The records the stages work on. *)
Z == [s : ChoiceStreamState, out : Seq(Chunk), conflict : BOOLEAN, emit : Seq(ToolPiece)]

(* The chunk that Write appends. *)
Line(c, kind, data) == [choice |-> c, kind |-> kind, data |-> data]

(* The fields of a choice's state. *)
LEMMA StateTyped ==
    ASSUME NEW s \in ChoiceStreamState
    PROVE  /\ s.hasSynthetic \in BOOLEAN
           /\ s.syntheticToolIndex \in ToolIndexes \cup {NoIndex}
           /\ s.sideBuffer \in Seq(TextPiece)
           /\ s.sideBufferEmitted \in BOOLEAN
           /\ s.realToolsSeen \in [ToolIndexes -> Nat \cup {NoIndex}]
           /\ s.nextRealIndex \in Nat
           /\ s.roleEmitted \in BOOLEAN
           /\ s.held \in Seq(TextPiece)
           /\ s.contentEmitted \in BOOLEAN
BY DEF ChoiceStreamState

(* The fields of a stage's record. *)
LEMMA StageTyped ==
    ASSUME NEW z \in Z
    PROVE  /\ z.s \in ChoiceStreamState /\ z.out \in Seq(Chunk)
           /\ z.conflict \in BOOLEAN /\ z.emit \in Seq(ToolPiece)
BY DEF Z

(* What the stages write is a Chunk. *)
LEMMA LinesAreChunks ==
    ASSUME NEW c \in ChoiceSet \cup {NoIndex}
    PROVE  /\ \A data \in Seq(TextPiece) :
                /\ Line(c, "content", data) \in Chunk
                /\ Line(c, "reasoning", data) \in Chunk
           /\ \A data \in Seq(ToolPiece) : Line(c, "tools", data) \in Chunk
           /\ \A r \in {"stop", "tool_calls"} : Line(c, "finish", <<[reason |-> r]>>) \in Chunk
           /\ Line(c, "role", <<>>) \in Chunk /\ Line(c, "done", <<>>) \in Chunk
<1> DEFINE D == TextPiece \cup ToolPiece \cup [reason : {"stop", "tool_calls"}]
<1>1. /\ Seq(TextPiece) \subseteq Seq(D) /\ Seq(ToolPiece) \subseteq Seq(D)
      /\ <<>> \in Seq(D)
  OBVIOUS
<1>2. ASSUME NEW r \in {"stop", "tool_calls"} PROVE <<[reason |-> r]>> \in Seq(D)
  <2>1. [reason |-> r] \in D
    OBVIOUS
  <2> QED
    BY <2>1
<1>3. ASSUME NEW data \in Seq(D),
             NEW kind \in {"role", "reasoning", "tools", "content", "finish", "done"}
      PROVE  Line(c, kind, data) \in Chunk
  <2> HIDE DEF D
  <2>1. Chunk = [choice : ChoiceSet \cup {NoIndex},
                 kind : {"role", "reasoning", "tools", "content", "finish", "done"},
                 data : Seq(D)]
    BY DEF Chunk, D
  <2> QED
    BY <2>1 DEF Line
<1> QED
  BY <1>1, <1>2, <1>3

(* Write appends one chunk and changes nothing else. *)
LEMMA Written ==
    ASSUME NEW z \in Z, NEW c, NEW kind, NEW data, Line(c, kind, data) \in Chunk
    PROVE  /\ Write(z, c, kind, data) \in Z
           /\ Write(z, c, kind, data) = [z EXCEPT !.out = Append(z.out, Line(c, kind, data))]
           /\ Write(z, c, kind, data).out = Append(z.out, Line(c, kind, data))
           /\ Write(z, c, kind, data).s = z.s
           /\ Write(z, c, kind, data).emit = z.emit
           /\ Write(z, c, kind, data).conflict = z.conflict
<1>1. z.out \in Seq(Chunk)
  BY StageTyped
<1>2. Append(z.out, Line(c, kind, data)) \in Seq(Chunk)
  BY <1>1
<1> QED
  BY <1>2 DEF Write, Line, Z

(* A piece from further on keeps a sequence increasing. *)
LEMMA PlacesAppended ==
    ASSUME NEW S, NEW seq \in Seq(S), NEW x \in S
    PROVE  /\ Places(Append(seq, x)) = Places(seq) \cup {x.at}
           /\ Increasing(seq) /\ AllBefore(Places(seq), {x.at}) => Increasing(Append(seq, x))
<1>1. /\ DOMAIN Append(seq, x) = 1..(Len(seq) + 1)
      /\ DOMAIN seq = 1..Len(seq)
      /\ Len(seq) \in Nat
      /\ \A i \in DOMAIN seq : Append(seq, x)[i] = seq[i]
      /\ Append(seq, x)[Len(seq) + 1] = x
  BY Appended
<1>2. Places(Append(seq, x)) = Places(seq) \cup {x.at}
  BY <1>1 DEF Places
<1>3. ASSUME Increasing(seq), AllBefore(Places(seq), {x.at}),
             NEW i \in 1..(Len(seq) + 1), NEW j \in 1..(Len(seq) + 1), i < j
      PROVE  Before(Append(seq, x)[i].at, Append(seq, x)[j].at)
  <2>1. i \in DOMAIN seq
    BY <1>1, <1>3
  <2>2. CASE j \in DOMAIN seq
    BY <1>1, <1>3, <2>1, <2>2 DEF Increasing
  <2>3. CASE j = Len(seq) + 1
    BY <1>1, <1>3, <2>1, <2>3 DEF AllBefore, Places
  <2> QED
    BY <1>1, <2>2, <2>3
<1> QED
  BY <1>1, <1>2, <1>3 DEF Increasing

(* The empty sequence. *)
LEMMA NoPlaces == Places(<<>>) = {} /\ Increasing(<<>>)
BY DEF Places, Increasing

(* A place is standard content or a fragment of a tool call. *)
LEMMA SourcesApart ==
    ASSUME NEW A, NEW B
    PROVE  /\ A = Standard(A) \cup Synthetic(A)
           /\ Standard(A) = A => Synthetic(A) = {}
           /\ Synthetic(A) = A => Standard(A) = {}
           /\ Standard({}) = {} /\ Synthetic({}) = {}
           /\ B \subseteq A /\ Standard(A) = A => Standard(B) = B
           /\ B \subseteq A /\ Synthetic(A) = A => Synthetic(B) = B
BY DEF Standard, Synthetic

-----------------------------------------------------------------------------
(* Content depends on no other chunk, and on the state only as far as it *)
(* buffers and holds.                                                    *)
LEMMA ContentKept ==
    ASSUME NEW o \in Seq(Chunk), NEW x \in Chunk, NEW s, NEW s2, NEW c, NEW std, NEW syn,
           ~(x.choice = c /\ x.kind = "content"), Content(o, s, c, std, syn),
           s2.sideBuffer = s.sideBuffer, s2.held = s.held, s2.hasSynthetic = s.hasSynthetic,
           s2.sideBufferEmitted = s.sideBufferEmitted, s2.contentEmitted = s.contentEmitted
    PROVE  Content(Append(o, x), s2, c, std, syn)
<1>1. /\ Got(Append(o, x), c, "content") = Got(o, c, "content")
      /\ InOrder(o, c, "content") => InOrder(Append(o, x), c, "content")
  BY OtherAppended
<1> QED
  BY <1>1 DEF Content

(* The same when nothing is written. *)
LEMMA ContentSame ==
    ASSUME NEW o, NEW s, NEW s2, NEW c, NEW std, NEW syn, Content(o, s, c, std, syn),
           s2.sideBuffer = s.sideBuffer, s2.held = s.held, s2.hasSynthetic = s.hasSynthetic,
           s2.sideBufferEmitted = s.sideBufferEmitted, s2.contentEmitted = s.contentEmitted
    PROVE  Content(o, s2, c, std, syn)
BY DEF Content

(* More of the answer is written after what was written of its source. *)
LEMMA TextWritten ==
    ASSUME NEW o \in Seq(Chunk), NEW c \in ChoiceSet, NEW data \in Seq(TextPiece),
           InOrder(o, c, "content"), Increasing(data),
           \/ /\ Standard(Places(data)) = Places(data)
              /\ AllBefore(Standard(Got(o, c, "content")), Places(data))
           \/ /\ Synthetic(Places(data)) = Places(data)
              /\ AllBefore(Synthetic(Got(o, c, "content")), Places(data))
    PROVE  /\ Got(Append(o, Line(c, "content", data)), c, "content") =
                 Got(o, c, "content") \cup Places(data)
           /\ InOrder(Append(o, Line(c, "content", data)), c, "content")
<1> DEFINE x == Line(c, "content", data)
<1>1. x \in Chunk
  BY LinesAreChunks
<1>2. x.choice = c /\ x.kind = "content" /\ x.data = data
  BY DEF Line
<1> HIDE DEF x
<1>3. Got(Append(o, x), c, "content") = Got(o, c, "content") \cup Places(data)
  BY <1>1, <1>2, KindAppended
<1>4. ASSUME NEW p \in Got(o, c, "content"), NEW q \in Places(data), SameSource(p, q)
      PROVE  Before(p, q)
  <2>1. \/ p \in Standard(Got(o, c, "content")) /\ AllBefore(Standard(Got(o, c, "content")), Places(data))
        \/ p \in Synthetic(Got(o, c, "content")) /\ AllBefore(Synthetic(Got(o, c, "content")), Places(data))
    BY <1>4 DEF SameSource, Standard, Synthetic
  <2> QED
    BY <2>1 DEF AllBefore
<1>5. InOrder(Append(o, x), c, "content")
  BY <1>1, <1>2, <1>4, OrderAppended
<1> QED
  BY <1>3, <1>5 DEF x

(* The tool calls seen are the same. *)
SameCalls(s, s2) ==
    /\ s2.hasSynthetic = s.hasSynthetic /\ s2.syntheticToolIndex = s.syntheticToolIndex
    /\ s2.realToolsSeen = s.realToolsSeen /\ s2.nextRealIndex = s.nextRealIndex

(* decoder.Feed. *)
LEMMA Fed ==
    ASSUME NEW z \in Z, NEW c \in ChoiceSet, NEW p \in Place, NEW hold \in BOOLEAN,
           NEW std, NEW syn, Content(z.out, z.s, c, std, syn), z.s.hasSynthetic,
           Synthetic(syn) = syn, p[2] # 0, AllBefore(syn, {p})
    PROVE  LET y == Feed(z, c, p, hold)
           IN  /\ y \in Z
               /\ y.out = z.out \/ \E data \in Seq(TextPiece) : y.out = Append(z.out, Line(c, "content", data))
               /\ y.emit = z.emit
               /\ SameCalls(z.s, y.s)
               /\ Content(y.out, y.s, c, std, syn \cup {p})
<1> DEFINE held == Append(z.s.held, Text(p))
           got == Got(z.out, c, "content")
<1>1. Text(p) \in TextPiece /\ Text(p).at = p
  BY DEF Text, TextPiece
<1>2. /\ z.s \in ChoiceStreamState /\ z.out \in Seq(Chunk) /\ z.emit \in Seq(ToolPiece)
      /\ z.s.held \in Seq(TextPiece) /\ z.s.contentEmitted \in BOOLEAN
  BY StateTyped, StageTyped
<1>3. held \in Seq(TextPiece)
  BY <1>1, <1>2
<1>4. Places(z.s.held) \subseteq syn /\ Increasing(z.s.held) /\ syn = Synthetic(got) \cup Places(z.s.held)
  BY DEF Content
<1>5. /\ Places(held) = Places(z.s.held) \cup {p}
      /\ Increasing(held)
  <2>1. AllBefore(Places(z.s.held), {p})
    BY <1>4 DEF AllBefore
  <2> QED
    BY <1>1, <1>2, <1>4, <2>1, PlacesAppended
<1>6. AllBefore(Synthetic(got), Places(held))
  BY <1>4, <1>5 DEF AllBefore, Content
<1>7. Synthetic(Places(held)) = Places(held) /\ Standard(Places(held)) = {}
  BY <1>4, <1>5 DEF Synthetic, Standard
<1>8. CASE hold
  <2> DEFINE s2 == [z.s EXCEPT !.held = held]
  <2>1. Feed(z, c, p, hold) = [z EXCEPT !.s = s2]
    BY <1>8 DEF Feed, Z
  <2>2. s2 \in ChoiceStreamState /\ SameCalls(z.s, s2)
    BY <1>2, <1>3 DEF ChoiceStreamState, SameCalls
  <2>3. /\ s2.sideBuffer = z.s.sideBuffer /\ s2.held = held /\ s2.hasSynthetic = z.s.hasSynthetic
        /\ s2.sideBufferEmitted = z.s.sideBufferEmitted /\ s2.contentEmitted = z.s.contentEmitted
    BY <1>2 DEF ChoiceStreamState
  <2> HIDE DEF s2, held
  <2>4. Content(z.out, s2, c, std, syn \cup {p})
    BY <1>4, <1>5, <1>6, <2>3 DEF Content
  <2>5. [z EXCEPT !.s = s2] \in Z /\ [z EXCEPT !.s = s2].s = s2
        /\ [z EXCEPT !.s = s2].out = z.out /\ [z EXCEPT !.s = s2].emit = z.emit
    BY <2>2 DEF Z
  <2> QED
    BY <2>1, <2>2, <2>4, <2>5
<1>9. CASE ~hold
  <2> DEFINE s2 == [z.s EXCEPT !.held = <<>>, !.contentEmitted = TRUE]
             o2 == Append(z.out, Line(c, "content", held))
  <2>1. Line(c, "content", held) \in Chunk
    BY <1>3, LinesAreChunks
  <2>2. Feed(z, c, p, hold) = [z EXCEPT !.s = s2, !.out = o2]
    BY <1>9 DEF Feed, Z, Write, Line
  <2>3. s2 \in ChoiceStreamState /\ SameCalls(z.s, s2)
    <3>1. <<>> \in Seq(TextPiece)
      OBVIOUS
    <3> QED
      BY <1>2, <3>1 DEF ChoiceStreamState, SameCalls
  <2>4. /\ s2.sideBuffer = z.s.sideBuffer /\ s2.held = <<>> /\ s2.hasSynthetic = z.s.hasSynthetic
        /\ s2.sideBufferEmitted = z.s.sideBufferEmitted /\ s2.contentEmitted = TRUE
    BY <1>2 DEF ChoiceStreamState
  <2>5. Got(o2, c, "content") = got \cup Places(held) /\ InOrder(o2, c, "content")
    BY <1>2, <1>3, <1>5, <1>6, <1>7, TextWritten DEF Content
  <2>6. o2 \in Seq(Chunk)
    BY <1>2, <2>1
  <2> HIDE DEF s2, o2, held, got
  <2>7. /\ Standard(Got(o2, c, "content")) = Standard(got)
        /\ Synthetic(Got(o2, c, "content")) = Synthetic(got) \cup Places(held)
    <3>1. /\ Standard(got \cup Places(held)) = Standard(got) \cup Standard(Places(held))
          /\ Synthetic(got \cup Places(held)) = Synthetic(got) \cup Synthetic(Places(held))
      BY DEF Standard, Synthetic
    <3> QED
      BY <1>7, <2>5, <3>1
  <2>8. syn \cup {p} = Synthetic(Got(o2, c, "content")) \cup Places(s2.held)
    BY <1>4, <1>5, <2>4, <2>7, NoPlaces
  <2>9. AllBefore(Synthetic(Got(o2, c, "content")), Places(s2.held)) /\ Increasing(s2.held)
    BY <2>4, NoPlaces DEF AllBefore
  <2>10. Synthetic(Got(o2, c, "content")) # {}
    BY <1>5, <2>7
  <2>11. Content(o2, s2, c, std, syn \cup {p})
    BY <2>4, <2>5, <2>7, <2>8, <2>9, <2>10 DEF Content, got
  <2>12. [z EXCEPT !.s = s2, !.out = o2] \in Z /\ [z EXCEPT !.s = s2, !.out = o2].s = s2
        /\ [z EXCEPT !.s = s2, !.out = o2].out = o2 /\ [z EXCEPT !.s = s2, !.out = o2].emit = z.emit
    BY <2>3, <2>6 DEF Z
  <2>13. \E data \in Seq(TextPiece) : o2 = Append(z.out, Line(c, "content", data))
    BY <1>3 DEF o2
  <2> QED
    BY <2>2, <2>3, <2>11, <2>12, <2>13
<1> QED
  BY <1>8, <1>9

-----------------------------------------------------------------------------
(* One more fragment q of a tool call is sent. *)
LEMMA SyntheticSent ==
    ASSUME NEW es, NEW places, NEW q, NEW s \in ChoiceStreamState,
           \A p \in places \cup {q} : Frag(es, p) \in Frags,
           Synth(s, SyntheticIndex(es, places)), IsSynthetic(s, Frag(es, q)),
           Frag(es, q).name = "none" <=> Frag(es, q).index \in Indexes(es, places),
           Frag(es, q).name = "synthetic" => SyntheticIndex(es, places) = {}
    PROVE  /\ SyntheticIndex(es, places \cup {q}) = {Frag(es, q).index}
           /\ SentSynthetic(es, places \cup {q}) =
                 SentSynthetic(es, places) \cup IF Frag(es, q).args THEN {q} ELSE {}
           /\ SentReal(es, places \cup {q}) = SentReal(es, places)
<1> DEFINE f == Frag(es, q)
           old == SyntheticIndex(es, places)
<1>1. f \in Frags /\ f.index \in ToolIndexes /\ f.index # NoIndex /\ f.args \in BOOLEAN
  BY IndexAssumption DEF Frags
<1>2. SyntheticIndex(es, places \cup {q}) = old \cup IF f.name = "synthetic" THEN {f.index} ELSE {}
  BY DEF SyntheticIndex, Indexes
<1>3. old = IF s.hasSynthetic THEN {s.syntheticToolIndex} ELSE {}
  BY DEF Synth
<1>4. CASE f.name = "synthetic"
  <2>1. old = {} /\ f.index \notin Indexes(es, places)
    BY <1>4
  <2>2. \A p \in places : Frag(es, p).index # f.index
    BY <2>1 DEF Indexes
  <2>3. SyntheticIndex(es, places \cup {q}) = {f.index}
    BY <1>2, <1>4, <2>1
  <2>4. SentSynthetic(es, places) = {} /\ SentReal(es, places) = places
    BY <2>1 DEF SentSynthetic, SentReal
  <2>5. SentReal(es, places \cup {q}) = places
    <3>1. q \notin places
      BY <2>2
    <3> QED
      BY <2>2, <2>3, <3>1 DEF SentReal
  <2>6. SentSynthetic(es, places \cup {q}) = IF f.args THEN {q} ELSE {}
    BY <1>1, <2>2, <2>3 DEF SentSynthetic
  <2> QED
    BY <2>3, <2>4, <2>5, <2>6
<1>5. CASE f.name # "synthetic"
  <2>1. s.syntheticToolIndex = f.index
    BY <1>5 DEF IsSynthetic
  <2>2. old = {f.index}
    BY <1>1, <1>3, <2>1 DEF Synth
  <2>3. SyntheticIndex(es, places \cup {q}) = {f.index}
    BY <1>2, <1>5, <2>2
  <2>4. SentSynthetic(es, places \cup {q}) = SentSynthetic(es, places) \cup IF f.args THEN {q} ELSE {}
    BY <1>1, <2>2, <2>3 DEF SentSynthetic
  <2>5. SentReal(es, places \cup {q}) = SentReal(es, places)
    BY <2>2, <2>3 DEF SentReal
  <2> QED
    BY <2>3, <2>4, <2>5
<1> QED
  BY <1>4, <1>5

(* The next fragment sent is one of a real call: it is added to those. *)
LEMMA RealSent ==
    ASSUME NEW es, NEW places, NEW q, NEW s,
           Synth(s, SyntheticIndex(es, places)), ~IsSynthetic(s, Frag(es, q))
    PROVE  /\ SyntheticIndex(es, places \cup {q}) = SyntheticIndex(es, places)
           /\ SentSynthetic(es, places \cup {q}) = SentSynthetic(es, places)
           /\ SentReal(es, places \cup {q}) = SentReal(es, places) \cup {q}
<1> DEFINE f == Frag(es, q)
           old == SyntheticIndex(es, places)
<1>1. s.syntheticToolIndex # f.index /\ f.name # "synthetic"
  BY DEF IsSynthetic
<1>2. SyntheticIndex(es, places \cup {q}) = old
  BY <1>1 DEF SyntheticIndex, Indexes
<1>3. f.index \notin old
  BY <1>1 DEF Synth
<1>4. SentSynthetic(es, places \cup {q}) = SentSynthetic(es, places)
  BY <1>2, <1>3 DEF SentSynthetic
<1>5. SentReal(es, places \cup {q}) = SentReal(es, places) \cup {q}
  BY <1>2, <1>3 DEF SentReal
<1> QED
  BY <1>2, <1>4, <1>5

(* The real calls depend on no chunk of another kind, and on the state   *)
(* only as far as it numbers them.                                       *)
LEMMA ToolsKept ==
    ASSUME NEW o \in Seq(Chunk), NEW x \in Chunk, NEW emit, NEW s, NEW s2, NEW c, NEW es,
           NEW places, NEW places2,
           ~(x.choice = c /\ x.kind = "tools"), Tools(o, emit, s, c, es, places),
           SentReal(es, places2) = SentReal(es, places), SameCalls(s, s2)
    PROVE  Tools(Append(o, x), emit, s2, c, es, places2)
<1>1. /\ Got(Append(o, x), c, "tools") = Got(o, c, "tools")
      /\ PiecesOf(Append(o, x), c, "tools") = PiecesOf(o, c, "tools")
      /\ InOrder(o, c, "tools") => InOrder(Append(o, x), c, "tools")
  BY OtherAppended
<1> QED
  BY <1>1 DEF Tools, Numbered, SameCalls

(* The same when nothing is written. *)
LEMMA ToolsSame ==
    ASSUME NEW o, NEW emit, NEW s, NEW s2, NEW c, NEW es, NEW places, NEW places2,
           Tools(o, emit, s, c, es, places),
           s2.realToolsSeen = s.realToolsSeen, s2.nextRealIndex = s.nextRealIndex,
           SentReal(es, places2) = SentReal(es, places)
    PROVE  Tools(o, emit, s2, c, es, places2)
BY DEF Tools, Numbered

(* No other chunk is a finish chunk. *)
LEMMA FinishKept ==
    ASSUME NEW o \in Seq(Chunk), NEW x \in Chunk, NEW c, x.kind # "finish"
    PROVE  Chunks(Append(o, x), c, "finish") = Chunks(o, c, "finish")
BY OtherAppended

(* The synthetic call opens, or goes on: the side buffer is dropped. *)
LEMMA Opens ==
    ASSUME NEW o, NEW s \in ChoiceStreamState, NEW c, NEW std, NEW syn, NEW i \in ToolIndexes,
           Content(o, s, c, std, syn)
    PROVE  LET s2 == [s EXCEPT !.hasSynthetic = TRUE, !.syntheticToolIndex = i,
                               !.sideBuffer = IF s.sideBufferEmitted THEN @ ELSE <<>>]
           IN  /\ s2 \in ChoiceStreamState
               /\ s2.hasSynthetic /\ s2.syntheticToolIndex = i
               /\ s2.realToolsSeen = s.realToolsSeen /\ s2.nextRealIndex = s.nextRealIndex
               /\ Content(o, s2, c, std, syn)
<1> DEFINE s2 == [s EXCEPT !.hasSynthetic = TRUE, !.syntheticToolIndex = i,
                           !.sideBuffer = IF s.sideBufferEmitted THEN @ ELSE <<>>]
<1>1. s2 \in ChoiceStreamState
  <2>1. <<>> \in Seq(TextPiece)
    OBVIOUS
  <2> QED
    BY <2>1 DEF ChoiceStreamState
<1>2. /\ s2.hasSynthetic = TRUE /\ s2.syntheticToolIndex = i
      /\ s2.realToolsSeen = s.realToolsSeen /\ s2.nextRealIndex = s.nextRealIndex
      /\ s2.sideBuffer = IF s.sideBufferEmitted THEN s.sideBuffer ELSE <<>>
      /\ s2.held = s.held /\ s2.sideBufferEmitted = s.sideBufferEmitted
      /\ s2.contentEmitted = s.contentEmitted
  BY DEF ChoiceStreamState
<1> HIDE DEF s2
<1>3. s2.sideBuffer = <<>>
  BY <1>2 DEF Content
<1>4. Places(s2.sideBuffer) = {} /\ Increasing(s2.sideBuffer)
  BY <1>3, NoPlaces
<1>5. Content(o, s2, c, std, syn)
  BY <1>2, <1>3, <1>4 DEF Content, AllBefore
<1> QED
  BY <1>1, <1>2, <1>5 DEF s2

(* What a stage of the work on an entry of choice c may do to the chunks.  *)
Grown(o, o2, c) ==
    /\ Len(o) <= Len(o2)
    /\ \A i \in DOMAIN o : o2[i] = o[i]
    /\ \A i \in DOMAIN o2 : i > Len(o) => o2[i].choice = c

(* One chunk of the choice, none, or more and then more. *)
LEMMA GrownByOne ==
    ASSUME NEW o \in Seq(Chunk), NEW x \in Chunk
    PROVE  Grown(o, Append(o, x), x.choice)
BY Appended DEF Grown

LEMMA NotGrown ==
    ASSUME NEW o \in Seq(Chunk), NEW c
    PROVE  Grown(o, o, c)
BY DEF Grown

LEMMA GrownTwice ==
    ASSUME NEW o \in Seq(Chunk), NEW o2 \in Seq(Chunk), NEW o3 \in Seq(Chunk), NEW c,
           Grown(o, o2, c), Grown(o2, o3, c)
    PROVE  Grown(o, o3, c)
<1>1. /\ DOMAIN o = 1..Len(o) /\ DOMAIN o2 = 1..Len(o2) /\ DOMAIN o3 = 1..Len(o3)
      /\ Len(o) \in Nat /\ Len(o2) \in Nat /\ Len(o3) \in Nat
  OBVIOUS
<1>2. Len(o) <= Len(o2) /\ Len(o2) <= Len(o3)
  BY DEF Grown
<1>3. \A i \in DOMAIN o : o3[i] = o[i]
  BY <1>1, <1>2 DEF Grown
<1>4. ASSUME NEW i \in DOMAIN o3, i > Len(o) PROVE o3[i].choice = c
  <2>1. CASE i > Len(o2)
    BY <2>1 DEF Grown
  <2>2. CASE ~(i > Len(o2))
    <3>1. i \in DOMAIN o2
      BY <1>1, <2>2
    <3> QED
      BY <1>4, <3>1 DEF Grown
  <2> QED
    BY <2>1, <2>2
<1> QED
  BY <1>1, <1>2, <1>3, <1>4 DEF Grown

(* SyntheticFrag keeps the choice at work, with one fragment more sent. *)
LEMMA SyntheticWorked ==
    ASSUME NEW z \in Z, NEW c \in ChoiceSet, NEW es, NEW places, NEW std, NEW q \in Place,
           NEW hold \in BOOLEAN,
           \A p \in places \cup {q} : Frag(es, p) \in Frags,
           AllBefore(places, {q}), q[2] # 0, \A p \in places : p[2] # 0,
           Stage(z.out, z.emit, z.s, c, es, places, std),
           Frag(es, q).name = "none" <=> Frag(es, q).index \in Indexes(es, places),
           Frag(es, q).name = "synthetic" => SyntheticIndex(es, places) = {},
           IsSynthetic(z.s, Frag(es, q))
    PROVE  LET y == SyntheticFrag(z, c, Frag(es, q), q, hold)
           IN  /\ y \in Z /\ Grown(z.out, y.out, c)
               /\ Stage(y.out, y.emit, y.s, c, es, places \cup {q}, std)
<1> DEFINE f == Frag(es, q)
           syn == SentSynthetic(es, places)
           s1 == [z.s EXCEPT !.hasSynthetic = TRUE, !.syntheticToolIndex = f.index,
                             !.sideBuffer = IF z.s.sideBufferEmitted THEN @ ELSE <<>>]
           conflict1 == z.conflict \/ z.s.sideBuffer # <<>> \/ z.s.sideBufferEmitted
           z1 == [z EXCEPT !.s = s1, !.conflict = conflict1]
           y == SyntheticFrag(z, c, f, q, hold)
<1>1. /\ z.s \in ChoiceStreamState /\ z.out \in Seq(Chunk) /\ z.emit \in Seq(ToolPiece)
      /\ f \in Frags /\ f.index \in ToolIndexes /\ f.index # NoIndex /\ f.args \in BOOLEAN
  BY StageTyped, IndexAssumption DEF Frags
<1>2. /\ Content(z.out, z.s, c, std, syn) /\ Tools(z.out, z.emit, z.s, c, es, places)
      /\ Synth(z.s, SyntheticIndex(es, places)) /\ Chunks(z.out, c, "finish") = {}
  BY DEF Stage
<1>3. /\ SyntheticIndex(es, places \cup {q}) = {f.index}
      /\ SentSynthetic(es, places \cup {q}) = syn \cup IF f.args THEN {q} ELSE {}
      /\ SentReal(es, places \cup {q}) = SentReal(es, places)
  BY <1>1, <1>2, SyntheticSent
<1>4. /\ s1 \in ChoiceStreamState /\ s1.hasSynthetic /\ s1.syntheticToolIndex = f.index
      /\ s1.realToolsSeen = z.s.realToolsSeen /\ s1.nextRealIndex = z.s.nextRealIndex
      /\ Content(z.out, s1, c, std, syn)
  <2> HIDE DEF f, syn
  <2> DEFINE i == f.index
  <2>1. i \in ToolIndexes
    BY <1>1
  <2> HIDE DEF i
  <2>2. LET s2 == [z.s EXCEPT !.hasSynthetic = TRUE, !.syntheticToolIndex = i,
                              !.sideBuffer = IF z.s.sideBufferEmitted THEN @ ELSE <<>>]
        IN  /\ s2 \in ChoiceStreamState
            /\ s2.hasSynthetic /\ s2.syntheticToolIndex = i
            /\ s2.realToolsSeen = z.s.realToolsSeen /\ s2.nextRealIndex = z.s.nextRealIndex
            /\ Content(z.out, s2, c, std, syn)
    BY <1>1, <1>2, <2>1, Opens
  <2> QED
    BY <2>2 DEF i
<1>5. y = IF f.args THEN Feed(z1, c, q, hold) ELSE z1
  BY <1>1 DEF SyntheticFrag, Z
<1>6. conflict1 \in BOOLEAN
  BY <1>1
<1> HIDE DEF s1, conflict1, syn, f
<1>7. z1 \in Z /\ z1.s = s1 /\ z1.out = z.out /\ z1.emit = z.emit
  BY <1>4, <1>6 DEF Z
<1> HIDE DEF z1
<1>8. Synthetic(syn) = syn /\ AllBefore(syn, {q})
  BY DEF syn, SentSynthetic, Synthetic, AllBefore
<1>9. Synth(s1, {f.index})
  BY <1>1, <1>4 DEF Synth
<1>10. Tools(z.out, z.emit, s1, c, es, places \cup {q})
  BY <1>2, <1>3, <1>4, ToolsSame
<1>11. CASE ~f.args
  <2>1. y = z1
    BY <1>5, <1>11
  <2>2. Content(z.out, s1, c, std, SentSynthetic(es, places \cup {q}))
    <3>1. SentSynthetic(es, places \cup {q}) = syn
      BY <1>3, <1>11
    <3> QED
      BY <1>4, <3>1
  <2>3. Stage(z.out, z.emit, s1, c, es, places \cup {q}, std)
    BY <1>2, <1>3, <1>9, <1>10, <2>2 DEF Stage
  <2> HIDE DEF y
  <2> QED
    BY <1>1, <1>7, <2>1, <2>3, NotGrown DEF y, f
<1>12. CASE f.args
  <2>1. y = Feed(z1, c, q, hold)
    BY <1>5, <1>12
  <2> HIDE DEF y
  <2>2. /\ y \in Z
        /\ y.out = z1.out \/ \E data \in Seq(TextPiece) : y.out = Append(z1.out, Line(c, "content", data))
        /\ y.emit = z1.emit
        /\ SameCalls(z1.s, y.s)
        /\ Content(y.out, y.s, c, std, syn \cup {q})
    BY <1>4, <1>7, <1>8, <2>1, Fed, ZenonT(60)
  <2>3. Content(y.out, y.s, c, std, SentSynthetic(es, places \cup {q}))
    <3>1. SentSynthetic(es, places \cup {q}) = syn \cup {q}
      BY <1>3, <1>12
    <3> QED
      BY <2>2, <3>1
  <2>4. Synth(y.s, SyntheticIndex(es, places \cup {q}))
    BY <1>3, <1>7, <1>9, <2>2 DEF Synth, SameCalls
  <2>5. CASE y.out = z1.out
    <3>1. Tools(y.out, y.emit, y.s, c, es, places \cup {q})
      BY <1>7, <1>10, <2>2, <2>5, ToolsSame DEF SameCalls
    <3>2. Stage(y.out, y.emit, y.s, c, es, places \cup {q}, std)
      BY <1>2, <1>7, <2>3, <2>4, <2>5, <3>1 DEF Stage
    <3> QED
      BY <1>1, <1>7, <2>2, <2>5, <3>2, NotGrown DEF y, f
  <2>6. ASSUME NEW data \in Seq(TextPiece), y.out = Append(z1.out, Line(c, "content", data))
        PROVE  Stage(y.out, y.emit, y.s, c, es, places \cup {q}, std) /\ Grown(z.out, y.out, c)
    <3> DEFINE x == Line(c, "content", data)
    <3>1. x \in Chunk /\ x.choice = c /\ x.kind = "content"
      BY LinesAreChunks DEF Line
    <3> HIDE DEF x
    <3>2. y.out = Append(z.out, x)
      BY <1>7, <2>6 DEF x
    <3>3. Tools(y.out, y.emit, y.s, c, es, places \cup {q})
      BY <1>1, <1>7, <1>10, <2>2, <3>1, <3>2, ToolsKept
    <3>4. Chunks(y.out, c, "finish") = {}
      BY <1>1, <1>2, <3>1, <3>2, FinishKept
    <3>5. Grown(z.out, y.out, c)
      BY <1>1, <3>1, <3>2, GrownByOne
    <3> QED
      BY <2>3, <2>4, <3>3, <3>4, <3>5 DEF Stage
  <2> QED
    BY <2>2, <2>5, <2>6 DEF y, f
<1> QED
  BY <1>1, <1>11, <1>12 DEF f

(* The numbers stay right when one more fragment of a real call is written. *)
NumbersFrag(es, s, s2, q, x) ==
    LET new == s.realToolsSeen[Frag(es, q).index] = NoIndex
        index == IF new THEN s.nextRealIndex ELSE s.realToolsSeen[Frag(es, q).index]
    IN  /\ s2.realToolsSeen = [s.realToolsSeen EXCEPT ![Frag(es, q).index] = index]
        /\ s2.nextRealIndex = IF new THEN s.nextRealIndex + 1 ELSE s.nextRealIndex
        /\ x.at = q /\ x.frag = [Frag(es, q) EXCEPT !.index = index]

(* RealFrag numbers one more piece: a new call gets the next number. *)
LEMMA NumberedMore ==
    ASSUME NEW es, NEW s \in ChoiceStreamState, NEW s2, NEW pieces, NEW places, NEW q, NEW x,
           \A p \in places \cup {q} : Frag(es, p) \in Frags,
           AllBefore(places, {q}),
           \A y \in pieces : y.at \in places,
           Numbered(es, s, pieces), NumbersFrag(es, s, s2, q, x)
    PROVE  Numbered(es, s2, pieces \cup {x})
<1> DEFINE new == s.realToolsSeen[Frag(es, q).index] = NoIndex
           index == IF new THEN s.nextRealIndex ELSE s.realToolsSeen[Frag(es, q).index]
<1>20. /\ s2.realToolsSeen = [s.realToolsSeen EXCEPT ![Frag(es, q).index] = index]
       /\ s2.nextRealIndex = IF new THEN s.nextRealIndex + 1 ELSE s.nextRealIndex
       /\ x.at = q /\ x.frag = [Frag(es, q) EXCEPT !.index = index]
  BY DEF NumbersFrag
<1> DEFINE i0 == Frag(es, q).index
           seen == s.realToolsSeen
           seen2 == s2.realToolsSeen
           next == s.nextRealIndex
<1>1. i0 \in ToolIndexes /\ Frag(es, q) \in Frags
  BY DEF Frags
<1>2. seen \in [ToolIndexes -> Nat \cup {NoIndex}] /\ next \in Nat /\ NoIndex \notin Nat
  BY StateTyped, IndexAssumption
<1>3. seen2 = [seen EXCEPT ![i0] = index]
  BY <1>20
<1>4. \A y \in pieces : Frag(es, y.at).index \in ToolIndexes
  BY DEF Frags
<1>5. \A y \in pieces :
          /\ seen[Frag(es, y.at).index] # NoIndex
          /\ y.frag = [Frag(es, y.at) EXCEPT !.index = seen[Frag(es, y.at).index]]
  BY DEF Numbered
<1>15. \A i \in ToolIndexes : seen[i] # NoIndex => seen[i] < next
  BY DEF Numbered
<1>16. \A i \in ToolIndexes : seen[i] # NoIndex => \E y \in pieces : Frag(es, y.at).index = i
  BY DEF Numbered
<1>17. \A i, j \in ToolIndexes : seen[i] # NoIndex /\ seen[j] = seen[i] => i = j
  BY DEF Numbered
<1>18. \A m \in 0..(next - 1) : \E i \in ToolIndexes : seen[i] = m
  BY DEF Numbered
<1>19. \A y \in pieces : y.frag.index # 0 =>
          \E w \in pieces : Before(w.at, y.at) /\ w.frag.index = y.frag.index - 1
  BY DEF Numbered
<1>6. index \in Nat /\ new = (seen[i0] = NoIndex)
  BY <1>1, <1>2 DEF new, index
<1>7. /\ \A i \in ToolIndexes : i # i0 => seen2[i] = seen[i]
      /\ seen2[i0] = index
      /\ ~new => index = seen[i0]
      /\ new => index = next
  BY <1>1, <1>2, <1>3
<1>8. s2.nextRealIndex = IF new THEN next + 1 ELSE next
  BY <1>20
<1>9. \A y \in pieces : y.frag.index = seen[Frag(es, y.at).index]
  <2> SUFFICES ASSUME NEW y \in pieces PROVE y.frag.index = seen[Frag(es, y.at).index]
    OBVIOUS
  <2> DEFINE f == Frag(es, y.at)
  <2>1. f \in Frags
    OBVIOUS
  <2>2. y.frag = [f EXCEPT !.index = seen[f.index]]
    BY <1>5
  <2> HIDE DEF f
  <2>3. y.frag.index = seen[f.index]
    BY <2>1, <2>2 DEF Frags
  <2> QED
    BY <2>3 DEF f
<1>10. x.frag.index = index /\ x.at = q
  <2> HIDE DEF index
  <2> QED
    BY <1>1, <1>20 DEF Frags
<1>21. x.frag = [Frag(es, q) EXCEPT !.index = index] /\ new \in BOOLEAN
  BY <1>20
<1> HIDE DEF i0, seen, seen2, next, index, new
<1>11. ASSUME NEW y \in pieces \cup {x}
       PROVE  /\ seen2[Frag(es, y.at).index] # NoIndex
              /\ y.frag = [Frag(es, y.at) EXCEPT !.index = seen2[Frag(es, y.at).index]]
  <2>1. CASE y = x
    BY <1>2, <1>6, <1>7, <1>10, <1>21, <2>1 DEF i0
  <2>2. CASE y \in pieces
    <3>1. seen2[Frag(es, y.at).index] = seen[Frag(es, y.at).index]
      <4> DEFINE i == Frag(es, y.at).index
      <4>1. i \in ToolIndexes /\ seen[i] # NoIndex
        BY <1>4, <1>5, <2>2
      <4> HIDE DEF i
      <4>2. seen2[i] = seen[i]
        BY <1>6, <1>7, <4>1
      <4> QED
        BY <4>2 DEF i
    <3> QED
      BY <1>5, <2>2, <3>1
  <2> QED
    BY <2>1, <2>2
<1>12. ASSUME NEW i \in ToolIndexes, seen2[i] # NoIndex
       PROVE  /\ seen2[i] < s2.nextRealIndex
              /\ \E y \in pieces \cup {x} : Frag(es, y.at).index = i
              /\ \A j \in ToolIndexes : seen2[j] = seen2[i] => i = j
  <2>1. CASE i = i0
    <3>1. seen2[i] < s2.nextRealIndex
      BY <1>1, <1>2, <1>15, <1>6, <1>7, <1>8, <2>1
    <3>2. Frag(es, x.at).index = i
      BY <1>10, <2>1 DEF i0
    <3>3. ASSUME NEW j \in ToolIndexes, seen2[j] = seen2[i], j # i PROVE FALSE
      <4>1. seen[j] = index
        BY <1>7, <2>1, <3>3
      <4>2. CASE new
        BY <1>2, <1>15, <1>6, <1>7, <4>1, <4>2, <3>3
      <4>3. CASE ~new
        BY <1>1, <1>17, <1>6, <1>7, <2>1, <4>1, <4>3, <3>3
      <4> QED
        BY <4>2, <4>3
    <3> QED
      BY <3>1, <3>2, <3>3
  <2>2. CASE i # i0
    <3>1. seen2[i] = seen[i] /\ seen[i] # NoIndex /\ seen[i] < next /\ seen[i] \in Nat
      BY <1>2, <1>15, <1>7, <1>12, <2>2
    <3>2. seen2[i] < s2.nextRealIndex
      BY <1>2, <1>8, <3>1
    <3>3. \E y \in pieces : Frag(es, y.at).index = i
      BY <1>16, <3>1
    <3>4. ASSUME NEW j \in ToolIndexes, seen2[j] = seen2[i], i # j PROVE FALSE
      <4>1. CASE j = i0 /\ new
        BY <1>2, <1>7, <3>1, <3>4, <4>1
      <4>2. CASE j # i0 \/ ~new
        <5>1. seen2[j] = seen[j]
          BY <1>7, <3>4, <4>2
        <5> QED
          BY <1>17, <3>1, <3>4, <5>1
      <4> QED
        BY <4>1, <4>2
    <3> QED
      BY <3>2, <3>3, <3>4
  <2> QED
    BY <2>1, <2>2
<1>13. ASSUME NEW m \in 0..(s2.nextRealIndex - 1)
       PROVE  \E i \in ToolIndexes : seen2[i] = m
  <2>1. CASE m \in 0..(next - 1)
    <3>1. PICK i \in ToolIndexes : seen[i] = m
      BY <1>18, <2>1
    <3>2. m # NoIndex
      BY <1>2, <2>1
    <3>3. seen2[i] = m
      BY <1>6, <1>7, <3>1, <3>2
    <3> QED
      BY <3>3
  <2>2. CASE m \notin 0..(next - 1)
    <3>1. new /\ m = next
      BY <1>2, <1>8, <2>2
    <3> QED
      BY <1>1, <1>7, <3>1 DEF i0
  <2> QED
    BY <2>1, <2>2
<1>14. ASSUME NEW y \in pieces \cup {x}, y.frag.index # 0
       PROVE  \E w \in pieces \cup {x} : Before(w.at, y.at) /\ w.frag.index = y.frag.index - 1
  <2>1. CASE y \in pieces
    BY <1>19, <1>14, <2>1
  <2>2. CASE y = x /\ new
    <3>1. index = next /\ next # 0
      BY <1>7, <1>10, <1>14, <2>2
    <3>7. next - 1 \in 0..(next - 1)
      BY <1>2, <3>1
    <3>2. PICK i \in ToolIndexes : seen[i] = next - 1
      BY <1>18, <3>7
    <3>3. seen[i] # NoIndex
      BY <1>2, <3>7, <3>2
    <3>4. PICK w \in pieces : Frag(es, w.at).index = i
      BY <1>16, <3>3
    <3>5. w.frag.index = index - 1
      BY <1>9, <3>1, <3>2, <3>4
    <3>6. Before(w.at, q)
      BY DEF AllBefore
    <3> QED
      BY <1>10, <2>2, <3>5, <3>6
  <2>3. CASE y = x /\ ~new
    <3>1. index = seen[i0] /\ seen[i0] # NoIndex
      BY <1>6, <1>7, <2>3
    <3>2. PICK v \in pieces : Frag(es, v.at).index = i0
      BY <1>1, <1>16, <3>1 DEF i0
    <3>3. v.frag.index = index /\ index # 0
      BY <1>9, <1>10, <1>14, <2>3, <3>1, <3>2
    <3>4. PICK w \in pieces : w.frag.index = index - 1
      BY <1>19, <3>3
    <3>5. Before(w.at, q)
      BY DEF AllBefore
    <3> QED
      BY <1>10, <2>3, <3>4, <3>5
  <2> QED
    BY <2>1, <2>2, <2>3
<1> QED
  BY <1>11, <1>12, <1>13, <1>14 DEF Numbered, seen2

(* The places of the pieces are what the client got. *)
LEMMA PiecesAt ==
    ASSUME NEW o, NEW c, NEW kind, NEW emit, NEW y \in PiecesOf(o, c, kind) \cup {emit[j] : j \in DOMAIN emit}
    PROVE  y.at \in Got(o, c, kind) \cup Places(emit)
BY DEF PiecesOf, Got, Places

(* RealFrag keeps the choice at work, with one fragment more sent. *)
LEMMA RealWorked ==
    ASSUME NEW z \in Z, NEW c \in ChoiceSet, NEW es, NEW places, NEW std, NEW q \in Place,
           \A p \in places \cup {q} : Frag(es, p) \in Frags,
           AllBefore(places, {q}),
           Stage(z.out, z.emit, z.s, c, es, places, std),
           ~IsSynthetic(z.s, Frag(es, q))
    PROVE  LET y == RealFrag(z, Frag(es, q), q)
           IN  /\ y \in Z /\ y.out = z.out
               /\ Stage(y.out, y.emit, y.s, c, es, places \cup {q}, std)
<1> DEFINE f == Frag(es, q)
           seen == z.s.realToolsSeen
           new == seen[f.index] = NoIndex
           index == IF new THEN z.s.nextRealIndex ELSE seen[f.index]
           x == [at |-> q, frag |-> [f EXCEPT !.index = index]]
           s2 == [z.s EXCEPT !.realToolsSeen = [seen EXCEPT ![f.index] = index],
                             !.nextRealIndex = IF new THEN z.s.nextRealIndex + 1 ELSE z.s.nextRealIndex]
           y == RealFrag(z, f, q)
           pieces == PiecesOf(z.out, c, "tools") \cup {z.emit[j] : j \in DOMAIN z.emit}
<1>1. /\ z.s \in ChoiceStreamState /\ z.out \in Seq(Chunk) /\ z.emit \in Seq(ToolPiece)
      /\ seen \in [ToolIndexes -> Nat \cup {NoIndex}] /\ z.s.nextRealIndex \in Nat
      /\ f \in Frags /\ f.index \in ToolIndexes
  BY StageTyped, StateTyped DEF Frags
<1>2. /\ Content(z.out, z.s, c, std, SentSynthetic(es, places))
      /\ Tools(z.out, z.emit, z.s, c, es, places)
      /\ Synth(z.s, SyntheticIndex(es, places)) /\ Chunks(z.out, c, "finish") = {}
  BY DEF Stage
<1>3. /\ SyntheticIndex(es, places \cup {q}) = SyntheticIndex(es, places)
      /\ SentSynthetic(es, places \cup {q}) = SentSynthetic(es, places)
      /\ SentReal(es, places \cup {q}) = SentReal(es, places) \cup {q}
  BY <1>2, RealSent
<1>4. index \in Nat /\ new \in BOOLEAN
  BY <1>1
<1>5. x \in ToolPiece /\ x.at = q /\ x.frag = [f EXCEPT !.index = index]
  <2>1. [f EXCEPT !.index = index] \in [index : Nat, name : {"synthetic", "real", "none"}, args : BOOLEAN]
    BY <1>1, <1>4 DEF Frags
  <2> HIDE DEF index
  <2> QED
    BY <2>1 DEF ToolPiece
<1>6. y = [z EXCEPT !.s = s2, !.emit = Append(z.emit, x)]
  BY <1>1 DEF RealFrag, Z, ChoiceStreamState
<1>7. [seen EXCEPT ![f.index] = index] \in [ToolIndexes -> Nat \cup {NoIndex}]
  BY <1>1, <1>4
<1>8. (IF new THEN z.s.nextRealIndex + 1 ELSE z.s.nextRealIndex) \in Nat
  BY <1>1
<1>9. /\ s2 \in ChoiceStreamState
      /\ s2.realToolsSeen = [seen EXCEPT ![f.index] = index]
      /\ s2.nextRealIndex = IF new THEN z.s.nextRealIndex + 1 ELSE z.s.nextRealIndex
      /\ s2.sideBuffer = z.s.sideBuffer /\ s2.held = z.s.held /\ s2.hasSynthetic = z.s.hasSynthetic
      /\ s2.sideBufferEmitted = z.s.sideBufferEmitted /\ s2.contentEmitted = z.s.contentEmitted
      /\ s2.syntheticToolIndex = z.s.syntheticToolIndex
  <2> HIDE DEF index, new, seen
  <2> QED
    BY <1>1, <1>7, <1>8 DEF ChoiceStreamState
<1>10. AllBefore(Got(z.out, c, "tools") \cup Places(z.emit), {q})
  <2>1. Got(z.out, c, "tools") \cup Places(z.emit) \subseteq places
    BY <1>2 DEF Tools, SentReal
  <2> QED
    BY <2>1 DEF AllBefore
<1>11. \A w \in pieces : w.at \in places
  <2>1. Got(z.out, c, "tools") \cup Places(z.emit) \subseteq places
    BY <1>2 DEF Tools, SentReal
  <2> QED
    BY <2>1, PiecesAt
<1>12. Numbered(es, s2, pieces \cup {x})
  <2>1. Numbered(es, z.s, pieces)
    BY <1>2 DEF Tools
  <2>2. NumbersFrag(es, z.s, s2, q, x)
    BY <1>5, <1>9 DEF NumbersFrag
  <2> HIDE DEF s2, x, pieces
  <2> QED
    BY <1>1, <1>11, <2>1, <2>2, NumberedMore
<1> HIDE DEF s2, x, index, new, seen, f
<1>13. y \in Z /\ y.s = s2 /\ y.out = z.out /\ y.emit = Append(z.emit, x)
  <2>1. Append(z.emit, x) \in Seq(ToolPiece)
    BY <1>1, <1>5
  <2> QED
    BY <1>6, <1>9, <2>1 DEF Z
<1> HIDE DEF y
<1>14. Places(y.emit) = Places(z.emit) \cup {q} /\ Increasing(y.emit)
  <2>1. AllBefore(Places(z.emit), {x.at}) /\ Increasing(z.emit)
    BY <1>2, <1>5, <1>10 DEF Tools, AllBefore
  <2> QED
    BY <1>1, <1>5, <1>13, <2>1, PlacesAppended
<1>15. {y.emit[j] : j \in DOMAIN y.emit} = {z.emit[j] : j \in DOMAIN z.emit} \cup {x}
  <2>1. /\ DOMAIN y.emit = 1..(Len(z.emit) + 1) /\ DOMAIN z.emit = 1..Len(z.emit)
        /\ Len(z.emit) \in Nat /\ y.emit[Len(z.emit) + 1] = x
        /\ \A j \in DOMAIN z.emit : y.emit[j] = z.emit[j]
    BY <1>1, <1>5, <1>13, Appended
  <2> QED
    BY <2>1
<1>16. Tools(y.out, y.emit, y.s, c, es, places \cup {q})
  <2>1. AllBefore(Got(z.out, c, "tools"), Places(y.emit))
    BY <1>2, <1>10, <1>14 DEF Tools, AllBefore
  <2>2. Got(z.out, c, "tools") \cup Places(y.emit) = SentReal(es, places \cup {q})
    BY <1>2, <1>3, <1>14 DEF Tools
  <2>3. PiecesOf(z.out, c, "tools") \cup {y.emit[j] : j \in DOMAIN y.emit} = pieces \cup {x}
    BY <1>15
  <2>4. Numbered(es, s2, PiecesOf(z.out, c, "tools") \cup {y.emit[j] : j \in DOMAIN y.emit})
    BY <1>12, <2>3
  <2> QED
    BY <1>2, <1>13, <1>14, <2>1, <2>2, <2>4 DEF Tools
<1>17. Content(y.out, y.s, c, std, SentSynthetic(es, places \cup {q}))
  BY <1>2, <1>3, <1>9, <1>13, ContentSame
<1>18. Synth(y.s, SyntheticIndex(es, places \cup {q}))
  BY <1>2, <1>3, <1>9, <1>13 DEF Synth
<1> QED
  BY <1>2, <1>13, <1>16, <1>17, <1>18 DEF Stage, y, f

-----------------------------------------------------------------------------
(* A set of numbers that is not empty has a least one. *)
LEMMA LeastExists ==
    ASSUME NEW T \in SUBSET Nat, T # {}
    PROVE  \E t \in T : \A y \in T : t <= y
<1>1. PICK t \in T : \A y \in T : ~(<<y, t>> \in OpToRel(<, Nat))
  BY NatLessThanWellFounded, WFMin
<1>2. ASSUME NEW y \in T PROVE t <= y
  <2>1. y \in Nat /\ t \in Nat
    OBVIOUS
  <2>2. <<y, t>> \in Nat \X Nat /\ <<y, t>>[1] = y /\ <<y, t>>[2] = t
    BY <2>1
  <2>3. ~(y < t)
    BY <1>1, <2>2 DEF OpToRel
  <2> QED
    BY <2>1, <2>3
<1> QED
  BY <1>2

(* The loop over the fragments of an entry is well defined. *)
LEMMA LoopDefined ==
    ASSUME NEW z, NEW c, NEW d, NEW n, NEW hold, Len(d.tools) \in Nat
    PROVE  LET worked == WorkedTools(z, c, d, n, hold)
           IN  /\ worked[0] = z
               /\ \A k \in 1..Len(d.tools) :
                    worked[k] = WorkFrag(worked[k - 1], c, d.tools[k], <<n, k>>, k \in hold)
<1> DEFINE m == Len(d.tools)
           After(w, k) == IF k = 0 THEN z ELSE WorkFrag(w[k - 1], c, d.tools[k], <<n, k>>, k \in hold)
           T == {j \in Nat : ~(\E w : w = [k \in 0..j |-> After(w, k)])}
<1>1. T = {}
  <2> SUFFICES ASSUME T # {} PROVE FALSE
    OBVIOUS
  <2>1. PICK t \in T : \A y \in T : t <= y
    <3>1. T \in SUBSET Nat
      OBVIOUS
    <3> HIDE DEF T
    <3> QED
      BY <3>1, LeastExists
  <2>2. CASE t = 0
    <3> DEFINE w == [k \in 0..0 |-> z]
    <3>1. w = [k \in 0..t |-> After(w, k)]
      BY <2>2
    <3>2. \E v : v = [k \in 0..t |-> After(v, k)]
      BY <3>1
    <3> QED
      BY <3>2
  <2>3. CASE t # 0
    <3>1. t \in Nat /\ t - 1 \in Nat /\ t - 1 \notin T
      BY <2>1, <2>3
    <3>2. PICK w : w = [k \in 0..(t - 1) |-> After(w, k)]
      BY <3>1
    <3> DEFINE v == [k \in 0..t |-> After(w, k)]
    <3>3. \A k \in 0..t : After(v, k) = After(w, k)
      <4> SUFFICES ASSUME NEW k \in 0..t PROVE After(v, k) = After(w, k)
        OBVIOUS
      <4>1. CASE k = 0
        BY <4>1
      <4>2. CASE k # 0
        <5>1. k - 1 \in 0..(t - 1) /\ k - 1 \in 0..t
          BY <3>1, <4>2
        <5>2. v[k - 1] = After(w, k - 1)
          BY <5>1
        <5>3. w[k - 1] = [i \in 0..(t - 1) |-> After(w, i)][k - 1]
          BY <3>2
        <5>4. w[k - 1] = After(w, k - 1)
          BY <5>1, <5>3
        <5>5. v[k - 1] = w[k - 1]
          BY <5>2, <5>4
        <5> HIDE DEF v
        <5> QED
          BY <5>5
      <4> QED
        BY <4>1, <4>2
    <3>4. v = [k \in 0..t |-> After(v, k)]
      BY <3>3
    <3>5. \E u : u = [k \in 0..t |-> After(u, k)]
      BY <3>4
    <3> QED
      BY <3>5
  <2> QED
    BY <2>2, <2>3
<1>2. \E w : w = [k \in 0..m |-> After(w, k)]
  BY <1>1
<1> DEFINE worked == WorkedTools(z, c, d, n, hold)
<1>3. worked = [k \in 0..m |-> After(worked, k)]
  <2>1. worked = CHOOSE w : w = [k \in 0..m |-> After(w, k)]
    BY DEF WorkedTools
  <2> HIDE DEF worked
  <2> QED
    BY <1>2, <2>1
<1> HIDE DEF worked
<1>4. \A k \in 0..m : worked[k] = After(worked, k)
  BY <1>3
<1>5. worked[0] = z
  <2>1. 0 \in 0..m
    OBVIOUS
  <2>2. worked[0] = After(worked, 0)
    BY <1>4, <2>1
  <2> QED
    BY <2>2
<1>6. ASSUME NEW k \in 1..m
      PROVE  worked[k] = WorkFrag(worked[k - 1], c, d.tools[k], <<n, k>>, k \in hold)
  <2>1. k \in 0..m /\ k # 0
    OBVIOUS
  <2>2. worked[k] = After(worked, k)
    BY <1>4, <2>1
  <2> QED
    BY <2>1, <2>2
<1> QED
  BY <1>5, <1>6 DEF worked

(* The fragments that are left to the chunk of real calls go out in it. *)
LEMMA ToolsWritten ==
    ASSUME NEW z \in Z, NEW c \in ChoiceSet, NEW es, NEW places, NEW std,
           Stage(z.out, z.emit, z.s, c, es, places, std)
    PROVE  LET y == IF z.emit = <<>> THEN z
                    ELSE [Write(z, c, "tools", z.emit) EXCEPT !.emit = <<>>]
           IN  /\ y \in Z /\ y.emit = <<>> /\ Grown(z.out, y.out, c)
               /\ Stage(y.out, <<>>, y.s, c, es, places, std)
<1>1. /\ z.s \in ChoiceStreamState /\ z.out \in Seq(Chunk) /\ z.emit \in Seq(ToolPiece)
  BY StageTyped
<1>2. CASE z.emit = <<>>
  BY <1>1, <1>2, NotGrown
<1>3. CASE z.emit # <<>>
  <2> DEFINE x == Line(c, "tools", z.emit)
             w == Write(z, c, "tools", z.emit)
             y == [w EXCEPT !.emit = <<>>]
  <2>1. x \in Chunk /\ x.choice = c /\ x.kind = "tools" /\ x.data = z.emit
    BY <1>1, LinesAreChunks DEF Line
  <2>2. w \in Z /\ w.s = z.s /\ w.out = Append(z.out, x)
    BY <2>1, Written
  <2> HIDE DEF x, w
  <2>3. y \in Z /\ y.emit = <<>> /\ y.out = Append(z.out, x) /\ y.s = z.s
    <3>1. <<>> \in Seq(ToolPiece)
      OBVIOUS
    <3> QED
      BY <2>2, <3>1 DEF Z
  <2> HIDE DEF y
  <2>4. /\ Content(z.out, z.s, c, std, SentSynthetic(es, places))
        /\ Tools(z.out, z.emit, z.s, c, es, places)
        /\ Synth(z.s, SyntheticIndex(es, places)) /\ Chunks(z.out, c, "finish") = {}
    BY DEF Stage
  <2>5. Content(y.out, y.s, c, std, SentSynthetic(es, places))
    BY <1>1, <2>1, <2>3, <2>4, ContentKept
  <2>6. Chunks(y.out, c, "finish") = {}
    BY <1>1, <2>1, <2>3, <2>4, FinishKept
  <2>7. /\ PiecesOf(y.out, c, "tools") = PiecesOf(z.out, c, "tools") \cup {z.emit[j] : j \in DOMAIN z.emit}
        /\ Got(y.out, c, "tools") = Got(z.out, c, "tools") \cup Places(z.emit)
    <3>1. /\ PiecesOf(Append(z.out, x), x.choice, x.kind) =
                 PiecesOf(z.out, x.choice, x.kind) \cup {x.data[j] : j \in DOMAIN x.data}
          /\ Got(Append(z.out, x), x.choice, x.kind) = Got(z.out, x.choice, x.kind) \cup Places(x.data)
      BY <1>1, <2>1, KindAppended
    <3> QED
      BY <2>1, <2>3, <3>1
  <2>8. InOrder(y.out, c, "tools")
    <3>1. \A p \in Got(z.out, c, "tools"), q \in Places(z.emit) : Before(p, q)
      BY <2>4 DEF Tools, AllBefore
    <3>2. InOrder(z.out, c, "tools") /\ Increasing(z.emit)
      BY <2>4 DEF Tools
    <3> QED
      BY <1>1, <2>1, <2>3, <3>1, <3>2, OrderAppended
  <2>9. Tools(y.out, <<>>, y.s, c, es, places)
    <3>1. {(<<>>)[j] : j \in DOMAIN <<>>} = {}
      OBVIOUS
    <3>2. Numbered(es, y.s, PiecesOf(y.out, c, "tools"))
      BY <2>3, <2>4, <2>7 DEF Tools
    <3>3. Numbered(es, y.s, PiecesOf(y.out, c, "tools") \cup {(<<>>)[j] : j \in DOMAIN <<>>})
      <4>1. PiecesOf(y.out, c, "tools") \cup {(<<>>)[j] : j \in DOMAIN <<>>} = PiecesOf(y.out, c, "tools")
        BY <3>1
      <4> QED
        BY <3>2, <4>1
    <3>4. Got(y.out, c, "tools") \cup Places(<<>>) = SentReal(es, places)
      BY <2>4, <2>7, NoPlaces DEF Tools
    <3>5. AllBefore(Got(y.out, c, "tools"), Places(<<>>)) /\ Increasing(<<>>)
      BY NoPlaces DEF AllBefore
    <3> QED
      BY <2>8, <3>3, <3>4, <3>5 DEF Tools
  <2>10. Stage(y.out, <<>>, y.s, c, es, places, std)
    BY <2>3, <2>4, <2>5, <2>6, <2>9 DEF Stage
  <2>11. Grown(z.out, y.out, c)
    BY <1>1, <2>1, <2>3, GrownByOne
  <2> QED
    BY <1>3, <2>3, <2>10, <2>11 DEF y, w
<1> QED
  BY <1>2, <1>3

(* What the protocol says of the fragments of the n-th entry. *)
Proper(es, d, n, places) ==
    \A k \in DOMAIN d.tools :
        LET f == d.tools[k]
            before == {d.tools[j] : j \in 1..(k - 1)}
        IN  /\ Frag(es, <<n, k>>) = f
            /\ f.name = "none" <=> f.index \in Indexes(es, places) \cup {g.index : g \in before}
            /\ f.name = "synthetic" =>
                SyntheticIndex(es, places) = {} /\ \A g \in before : g.name # "synthetic"

(* The same, of the next fragment when the first k have been treated. *)
LEMMA FragsBefore ==
    ASSUME NEW es, NEW d, NEW n, NEW places, NEW k \in Nat, d.tools \in Seq(Frags),
           k + 1 \in DOMAIN d.tools, Proper(es, d, n, places)
    PROVE  LET sent == places \cup {<<n, j>> : j \in 1..k}
               f == Frag(es, <<n, k + 1>>)
           IN  /\ f = d.tools[k + 1]
               /\ f.name = "none" <=> f.index \in Indexes(es, sent)
               /\ f.name = "synthetic" => SyntheticIndex(es, sent) = {}
<1> DEFINE sent == places \cup {<<n, j>> : j \in 1..k}
           f == d.tools[k + 1]
           before == {d.tools[j] : j \in 1..k}
<1>1. k + 1 - 1 = k /\ 1..k \subseteq DOMAIN d.tools
  OBVIOUS
<1>2. \A j \in 1..k : Frag(es, <<n, j>>) = d.tools[j]
  BY <1>1 DEF Proper
<1>3. /\ Frag(es, <<n, k + 1>>) = f
      /\ f.name = "none" <=> f.index \in Indexes(es, places) \cup {g.index : g \in before}
      /\ f.name = "synthetic" =>
            SyntheticIndex(es, places) = {} /\ \A g \in before : g.name # "synthetic"
  BY <1>1 DEF Proper
<1>4. Indexes(es, sent) = Indexes(es, places) \cup {g.index : g \in before}
  BY <1>2 DEF Indexes
<1>5. ASSUME f.name = "synthetic" PROVE SyntheticIndex(es, sent) = {}
  <2>1. \A p \in places : Frag(es, p).name # "synthetic"
    BY <1>3, <1>5 DEF SyntheticIndex, Indexes
  <2>2. \A j \in 1..k : Frag(es, <<n, j>>).name # "synthetic"
    BY <1>2, <1>3, <1>5
  <2>3. \A p \in sent : Frag(es, p).name # "synthetic"
    BY <2>1, <2>2
  <2> QED
    BY <2>3 DEF SyntheticIndex, Indexes
<1> QED
  BY <1>3, <1>4, <1>5

(* The fragments at these places are of entries before the n-th. *)
SentBefore(es, n, places) ==
    \A p \in places : p \in Place /\ p[1] < n /\ p[2] # 0 /\ Frag(es, p) \in Frags

(* After k fragments of the n-th entry.                                    *)
Reached(y, o, c, es, n, k, places, std) ==
    /\ y \in Z /\ Grown(o, y.out, c)
    /\ Stage(y.out, y.emit, y.s, c, es, places \cup {<<n, j>> : j \in 1..k}, std)

(* One more round of the loop. *)
LEMMA FragWorked ==
    ASSUME NEW y, NEW o \in Seq(Chunk), NEW c \in ChoiceSet, NEW es, NEW d, NEW n \in Nat,
           NEW hold, NEW std, NEW places, NEW k \in Nat,
           d.tools \in Seq(Frags), k + 1 \in DOMAIN d.tools, Proper(es, d, n, places),
           SentBefore(es, n, places), Reached(y, o, c, es, n, k, places, std)
    PROVE  Reached(WorkFrag(y, c, d.tools[k + 1], <<n, k + 1>>, k + 1 \in hold),
                   o, c, es, n, k + 1, places, std)
<1> DEFINE sent == places \cup {<<n, j>> : j \in 1..k}
           q == <<n, k + 1>>
           f == Frag(es, q)
           h == k + 1 \in hold
           w == WorkFrag(y, c, f, q, h)
<1>1. /\ f = d.tools[k + 1] /\ f \in Frags
      /\ f.name = "none" <=> f.index \in Indexes(es, sent)
      /\ f.name = "synthetic" => SyntheticIndex(es, sent) = {}
  <2>1. LET sent2 == places \cup {<<n, j>> : j \in 1..k}
            f2 == Frag(es, <<n, k + 1>>)
        IN  /\ f2 = d.tools[k + 1]
            /\ f2.name = "none" <=> f2.index \in Indexes(es, sent2)
            /\ f2.name = "synthetic" => SyntheticIndex(es, sent2) = {}
    BY FragsBefore
  <2>2. d.tools[k + 1] \in Frags
    OBVIOUS
  <2> QED
    BY <2>1, <2>2
<1>2. q \in Place /\ q[2] # 0
  BY DEF Place
<1>3. \A p \in sent : p \in Place /\ p[2] # 0 /\ Before(p, q) /\ Frag(es, p) \in Frags
  <2> SUFFICES ASSUME NEW p \in sent
               PROVE  p \in Place /\ p[2] # 0 /\ Before(p, q) /\ Frag(es, p) \in Frags
    OBVIOUS
  <2>1. CASE p \in places
    BY <2>1 DEF Before, SentBefore
  <2>2. CASE p \in {<<n, j>> : j \in 1..k}
    <3>1. PICK j \in 1..k : p = <<n, j>>
      BY <2>2
    <3>2. j \in DOMAIN d.tools /\ Frag(es, <<n, j>>) = d.tools[j]
      BY DEF Proper
    <3>3. p \in Place /\ p[2] # 0 /\ Before(p, q)
      BY <3>1 DEF Place, Before
    <3> QED
      BY <3>1, <3>2, <3>3
  <2> QED
    BY <2>1, <2>2
<1>4. places \cup {<<n, j>> : j \in 1..(k + 1)} = sent \cup {q}
  <2>1. 1..(k + 1) = (1..k) \cup {k + 1}
    OBVIOUS
  <2> QED
    BY <2>1
<1>5. h \in BOOLEAN /\ y.out \in Seq(Chunk) /\ y \in Z /\ Grown(o, y.out, c)
  BY StageTyped DEF Reached
<1>6. AllBefore(sent, {q}) /\ (\A p \in sent \cup {q} : Frag(es, p) \in Frags) /\ \A p \in sent : p[2] # 0
  BY <1>1, <1>3 DEF AllBefore
<1>7. Stage(y.out, y.emit, y.s, c, es, sent, std)
  BY DEF Reached
<1> HIDE DEF sent, q, h
<1>8. /\ w \in Z /\ Grown(y.out, w.out, c)
      /\ Stage(w.out, w.emit, w.s, c, es, sent \cup {q}, std)
  <2>1. CASE IsSynthetic(y.s, f)
    <3>1. w = SyntheticFrag(y, c, Frag(es, q), q, h)
      BY <2>1 DEF WorkFrag
    <3> HIDE DEF w
    <3> QED
      BY <1>1, <1>2, <1>5, <1>6, <1>7, <2>1, <3>1, SyntheticWorked
  <2>2. CASE ~IsSynthetic(y.s, f)
    <3>1. w = RealFrag(y, Frag(es, q), q)
      BY <2>2 DEF WorkFrag
    <3>3. LET v == RealFrag(y, Frag(es, q), q)
          IN  /\ v \in Z /\ v.out = y.out
              /\ Stage(v.out, v.emit, v.s, c, es, sent \cup {q}, std)
      BY <1>2, <1>5, <1>6, <1>7, <2>2, RealWorked
    <3> HIDE DEF w
    <3>2. w \in Z /\ w.out = y.out /\ Stage(w.out, w.emit, w.s, c, es, sent \cup {q}, std)
      BY <3>1, <3>3
    <3> QED
      BY <1>5, <3>2, NotGrown
  <2> QED
    BY <2>1, <2>2
<1> HIDE DEF w
<1>9. Grown(o, w.out, c)
  BY <1>5, <1>8, GrownTwice, StageTyped
<1>10. w = WorkFrag(y, c, d.tools[k + 1], <<n, k + 1>>, k + 1 \in hold)
  BY <1>1 DEF w, q, h
<1> QED
  BY <1>4, <1>8, <1>9, <1>10 DEF Reached

(* EmitTools keeps the choice at work, with all fragments of the entry   *)
(* sent: a least round after which it is not would follow on one that    *)
(* keeps it.                                                             *)
LEMMA ToolsWorked ==
    ASSUME NEW z \in Z, NEW c \in ChoiceSet, NEW es, NEW d, NEW n \in Nat, NEW hold, NEW std,
           NEW places,
           d.tools \in Seq(Frags), Proper(es, d, n, places),
           SentBefore(es, n, places), z.emit = <<>>, Stage(z.out, <<>>, z.s, c, es, places, std)
    PROVE  LET y == EmitTools(z, c, d, n, hold)
           IN  /\ y \in Z /\ y.emit = <<>> /\ Grown(z.out, y.out, c)
               /\ Stage(y.out, <<>>, y.s, c, es, places \cup {<<n, j>> : j \in DOMAIN d.tools}, std)
<1> DEFINE w == WorkedTools(z, c, d, n, hold)
           m == Len(d.tools)
           Good(k) == Reached(w[k], z.out, c, es, n, k, places, std)
           T == {k \in 0..m : ~Good(k)}
<1>1. m \in Nat /\ DOMAIN d.tools = 1..m
  OBVIOUS
<1>2. /\ w[0] = z
      /\ \A k \in 1..m : w[k] = WorkFrag(w[k - 1], c, d.tools[k], <<n, k>>, k \in hold)
  BY <1>1, LoopDefined
<1>3. z.out \in Seq(Chunk)
  BY StageTyped
<1> HIDE DEF w
<1>4. Good(0)
  <2>1. places \cup {<<n, j>> : j \in 1..0} = places
    OBVIOUS
  <2> QED
    BY <1>2, <1>3, <2>1, NotGrown DEF Reached
<1>5. ASSUME NEW k \in Nat, k + 1 \in 1..m, Good(k) PROVE Good(k + 1)
  <2>1. w[k + 1] = WorkFrag(w[k], c, d.tools[k + 1], <<n, k + 1>>, k + 1 \in hold)
    BY <1>2, <1>5
  <2>2. Reached(w[k], z.out, c, es, n, k, places, std) /\ k + 1 \in DOMAIN d.tools
    BY <1>1, <1>5
  <2>3. Reached(WorkFrag(w[k], c, d.tools[k + 1], <<n, k + 1>>, k + 1 \in hold),
                z.out, c, es, n, k + 1, places, std)
    BY <1>3, <2>2, FragWorked
  <2> QED
    BY <2>1, <2>3
<1>6. T = {}
  <2> SUFFICES ASSUME T # {} PROVE FALSE
    OBVIOUS
  <2> HIDE DEF Good
  <2>1. T \in SUBSET Nat
    OBVIOUS
  <2>2. PICK t \in T : \A k \in T : t <= k
    <3> HIDE DEF T
    <3> QED
      BY <2>1, LeastExists
  <2>3. t # 0 /\ t \in 0..m
    BY <1>4
  <2>4. t - 1 \in Nat /\ t - 1 \in 0..m /\ t - 1 \notin T /\ t - 1 + 1 = t
    BY <1>1, <2>2, <2>3
  <2>5. Good(t - 1)
    BY <2>4
  <2>6. t - 1 + 1 \in 1..m
    BY <2>3, <2>4
  <2>7. Good(t)
    BY <1>5, <2>4, <2>5, <2>6
  <2> QED
    BY <2>7
<1>7. Good(m)
  <2> HIDE DEF Good
  <2> QED
    BY <1>1, <1>6
<1> DEFINE v == w[m]
           y == IF v.emit = <<>> THEN v ELSE [Write(v, c, "tools", v.emit) EXCEPT !.emit = <<>>]
           all == places \cup {<<n, j>> : j \in DOMAIN d.tools}
<1>8. EmitTools(z, c, d, n, hold) = y
  BY DEF EmitTools, w
<1>9. /\ v \in Z /\ Grown(z.out, v.out, c) /\ Stage(v.out, v.emit, v.s, c, es, all, std)
  BY <1>1, <1>7 DEF Reached
<1> HIDE DEF v, all
<1>10. /\ y \in Z /\ y.emit = <<>> /\ Grown(v.out, y.out, c)
       /\ Stage(y.out, <<>>, y.s, c, es, all, std)
  BY <1>9, ToolsWritten
<1> HIDE DEF y
<1>11. Grown(z.out, y.out, c)
  BY <1>3, <1>9, <1>10, GrownTwice, StageTyped
<1> QED
  BY <1>8, <1>10, <1>11 DEF all

-----------------------------------------------------------------------------
(* The stages before and after the tool calls.                             *)
LEMMA StageKept ==
    ASSUME NEW o \in Seq(Chunk), NEW x \in Chunk, NEW s, NEW s2, NEW c, NEW es, NEW places, NEW std,
           x.kind \notin {"content", "tools", "finish"}, Stage(o, <<>>, s, c, es, places, std),
           SameCalls(s, s2),
           s2.sideBuffer = s.sideBuffer, s2.held = s.held,
           s2.sideBufferEmitted = s.sideBufferEmitted, s2.contentEmitted = s.contentEmitted
    PROVE  Stage(Append(o, x), <<>>, s2, c, es, places, std)
<1>1. /\ Content(o, s, c, std, SentSynthetic(es, places))
      /\ Tools(o, <<>>, s, c, es, places)
      /\ Synth(s, SyntheticIndex(es, places)) /\ Chunks(o, c, "finish") = {}
  BY DEF Stage
<1>2. x.kind # "content" /\ x.kind # "tools" /\ x.kind # "finish" /\ s2.hasSynthetic = s.hasSynthetic
  BY DEF SameCalls
<1>3. Content(Append(o, x), s2, c, std, SentSynthetic(es, places))
  BY <1>1, <1>2, ContentKept
<1>4. Tools(Append(o, x), <<>>, s2, c, es, places)
  BY <1>1, <1>2, ToolsKept
<1>5. Chunks(Append(o, x), c, "finish") = {}
  BY <1>1, <1>2, FinishKept
<1>6. Synth(s2, SyntheticIndex(es, places))
  BY <1>1 DEF Synth, SameCalls
<1> QED
  BY <1>3, <1>4, <1>5, <1>6 DEF Stage

(* EmitRole keeps the choice at work. *)
LEMMA RoleWorked ==
    ASSUME NEW z \in Z, NEW c \in ChoiceSet, NEW d, NEW es, NEW places, NEW std,
           z.emit = <<>>, Stage(z.out, <<>>, z.s, c, es, places, std)
    PROVE  LET y == EmitRole(z, c, d)
           IN  /\ y \in Z /\ y.emit = <<>> /\ Grown(z.out, y.out, c)
               /\ Stage(y.out, <<>>, y.s, c, es, places, std)
<1> DEFINE x == Line(c, "role", <<>>)
           w == Write(z, c, "role", <<>>)
           y == [w EXCEPT !.s.roleEmitted = TRUE]
<1>1. z.s \in ChoiceStreamState /\ z.out \in Seq(Chunk)
  BY StageTyped
<1>2. x \in Chunk /\ x.kind = "role" /\ x.choice = c
  BY LinesAreChunks DEF Line
<1>3. w \in Z /\ w.s = z.s /\ w.out = Append(z.out, x) /\ w.emit = z.emit
  BY <1>2, Written
<1> HIDE DEF w, x
<1>4. /\ y \in Z /\ y.out = Append(z.out, x) /\ y.emit = z.emit
      /\ SameCalls(z.s, y.s)
      /\ y.s.sideBuffer = z.s.sideBuffer /\ y.s.held = z.s.held
      /\ y.s.sideBufferEmitted = z.s.sideBufferEmitted /\ y.s.contentEmitted = z.s.contentEmitted
  BY <1>1, <1>3 DEF Z, ChoiceStreamState, SameCalls
<1> HIDE DEF y
<1>5. Stage(y.out, <<>>, y.s, c, es, places, std)
  BY <1>1, <1>2, <1>4, StageKept
<1>6. Grown(z.out, y.out, c)
  BY <1>1, <1>2, <1>4, GrownByOne
<1>7. EmitRole(z, c, d) = y \/ EmitRole(z, c, d) = z
  BY DEF EmitRole, y, w
<1>8. Grown(z.out, z.out, c)
  BY <1>1, NotGrown
<1> QED
  BY <1>4, <1>5, <1>6, <1>7, <1>8

(* EmitReasoning keeps the choice at work. *)
LEMMA ReasoningWorked ==
    ASSUME NEW z \in Z, NEW c \in ChoiceSet, NEW d, NEW n \in Nat, NEW es, NEW places, NEW std,
           z.emit = <<>>, Stage(z.out, <<>>, z.s, c, es, places, std)
    PROVE  LET y == EmitReasoning(z, c, d, n)
           IN  /\ y \in Z /\ y.emit = <<>> /\ Grown(z.out, y.out, c)
               /\ Stage(y.out, <<>>, y.s, c, es, places, std)
<1> DEFINE data == <<Text(<<n, 0>>)>>
           x == Line(c, "reasoning", data)
           y == Write(z, c, "reasoning", data)
<1>1. z.s \in ChoiceStreamState /\ z.out \in Seq(Chunk)
  BY StageTyped
<1>2. x \in Chunk /\ x.kind = "reasoning" /\ x.choice = c
  <2>1. Text(<<n, 0>>) \in TextPiece
    BY DEF Text, TextPiece, Place
  <2>2. data \in Seq(TextPiece)
    BY <2>1
  <2> HIDE DEF data
  <2> QED
    BY <2>2, LinesAreChunks DEF Line
<1>3. y \in Z /\ y.s = z.s /\ y.out = Append(z.out, x) /\ y.emit = z.emit
  BY <1>2, Written, SMTT(30)
<1> HIDE DEF y, x
<1>4. Stage(y.out, <<>>, y.s, c, es, places, std)
  BY <1>1, <1>2, <1>3, StageKept DEF SameCalls
<1>5. Grown(z.out, y.out, c)
  BY <1>1, <1>2, <1>3, GrownByOne
<1>6. EmitReasoning(z, c, d, n) = y \/ EmitReasoning(z, c, d, n) = z
  BY DEF EmitReasoning, y
<1>7. Grown(z.out, z.out, c)
  BY <1>1, NotGrown
<1> QED
  BY <1>3, <1>4, <1>5, <1>6, <1>7

-----------------------------------------------------------------------------
(* How much of the standard content there is.                              *)
LEMMA PlacesCounted ==
    ASSUME NEW seq \in Seq(TextPiece), Increasing(seq)
    PROVE  IsFiniteSet(Places(seq)) /\ Cardinality(Places(seq)) = Len(seq)
<1> DEFINE m == Len(seq)
           f == [j \in 1..m |-> seq[j].at]
<1>1. m \in Nat /\ DOMAIN seq = 1..m
  OBVIOUS
<1>2. \A j \in 1..m : seq[j].at \in Place
  <2>1. \A j \in 1..m : seq[j] \in TextPiece
    BY <1>1
  <2> QED
    BY <2>1 DEF TextPiece
<1>3. Places(seq) = {f[j] : j \in 1..m}
  BY <1>1 DEF Places
<1>4. ASSUME NEW i \in 1..m, NEW j \in 1..m, f[i] = f[j] PROVE i = j
  <2>1. CASE i < j
    BY <1>1, <1>2, <1>4, <2>1, BeforeIsAnOrder DEF Increasing
  <2>2. CASE j < i
    BY <1>1, <1>2, <1>4, <2>2, BeforeIsAnOrder DEF Increasing
  <2> QED
    BY <2>1, <2>2
<1>5. f \in [1..m -> Places(seq)]
  BY <1>3
<1> HIDE DEF m
<1>6. f \in Bijection(1..m, Places(seq))
  <2>1. f \in Injection(1..m, Places(seq))
    BY <1>4, <1>5 DEF Injection, IsInjective
  <2>2. f \in Surjection(1..m, Places(seq))
    BY <1>3, <1>5 DEF Surjection
  <2> QED
    BY <2>1, <2>2 DEF Bijection
<1>7. ExistsBijection(1..m, Places(seq))
  BY <1>6 DEF ExistsBijection
<1>8. Cardinality(Places(seq)) = m
  BY <1>1, <1>7, FS_CountingElements
<1>9. IsFiniteSet(Places(seq))
  BY <1>1, <1>7, FS_NatBijection
<1> QED
  BY <1>8, <1>9 DEF m

(* Standard content from no further than the n-th entry is finite. *)
LEMMA StandardFinite ==
    ASSUME NEW A, NEW n \in Nat, \A p \in A : p \in Place /\ p[1] <= n /\ p[2] = 0
    PROVE  IsFiniteSet(A)
<1> DEFINE f == [p \in A |-> p[1]]
<1>1. f \in [A -> 0..n]
  BY DEF Place
<1>2. \A p, q \in A : f[p] = f[q] => p = q
  BY DEF Place
<1>3. f \in Injection(A, 0..n)
  BY <1>1, <1>2 DEF Injection, IsInjective
<1>4. IsFiniteSet(0..n)
  BY FS_Interval
<1> QED
  BY <1>3, <1>4, FS_Injection

-----------------------------------------------------------------------------
(* Standard content.                                                       *)
StandardBefore(std, n) == \A p \in std : p \in Place /\ p[1] < n /\ p[2] = 0

(* After a synthetic call, the content of the n-th entry is dropped. *)
LEMMA ContentDropped ==
    ASSUME NEW o, NEW s, NEW c, NEW std, NEW syn, NEW n \in Nat,
           StandardBefore(std, n), s.hasSynthetic, Content(o, s, c, std, syn)
    PROVE  Content(o, s, c, std \cup {<<n, 0>>}, syn)
<1> DEFINE got == Got(o, c, "content")
<1>1. FirstOf(Standard(got), std)
  BY DEF Content
<1>2. \A p \in std : ~Before(<<n, 0>>, p)
  BY DEF StandardBefore, Before, Place
<1>3. FirstOf(Standard(got), std \cup {<<n, 0>>})
  BY <1>1, <1>2 DEF FirstOf
<1> QED
  BY <1>3 DEF Content

(* What the side buffer holds with the content of the n-th entry. *)
LEMMA TextBuffered ==
    ASSUME NEW o, NEW s \in ChoiceStreamState, NEW c, NEW std, NEW syn, NEW n \in Nat,
           StandardBefore(std, n), Content(o, s, c, std, syn)
    PROVE  LET text == Append(s.sideBuffer, Text(<<n, 0>>))
           IN  /\ text \in Seq(TextPiece) /\ Increasing(text)
               /\ Places(text) = Places(s.sideBuffer) \cup {<<n, 0>>}
               /\ Standard(Places(text)) = Places(text)
               /\ AllBefore(Standard(Got(o, c, "content")), Places(text))
<1> DEFINE q == <<n, 0>>
           text == Append(s.sideBuffer, Text(q))
           got == Got(o, c, "content")
<1>1. Text(q) \in TextPiece /\ Text(q).at = q
  BY DEF Text, TextPiece, Place
<1>2. s.sideBuffer \in Seq(TextPiece)
  BY StateTyped
<1>3. /\ Places(s.sideBuffer) \subseteq std /\ Increasing(s.sideBuffer)
      /\ Standard(got) \subseteq std /\ AllBefore(Standard(got), Places(s.sideBuffer))
  BY DEF Content, FirstOf
<1>4. \A p \in std : Before(p, q) /\ p[2] = 0
  BY DEF StandardBefore, Before, Place
<1>5. AllBefore(Places(s.sideBuffer), {q})
  BY <1>3, <1>4 DEF AllBefore
<1>6. text \in Seq(TextPiece)
  BY <1>1, <1>2
<1>7. Places(text) = Places(s.sideBuffer) \cup {q} /\ Increasing(text)
  BY <1>1, <1>2, <1>3, <1>5, PlacesAppended, SMTT(30)
<1>8. q[2] = 0
  OBVIOUS
<1> HIDE DEF text, q
<1>9. Standard(Places(text)) = Places(text)
  BY <1>3, <1>4, <1>7, <1>8 DEF Standard
<1>10. AllBefore(Standard(got), Places(text))
  BY <1>3, <1>4, <1>7 DEF AllBefore
<1> QED
  BY <1>6, <1>7, <1>9, <1>10 DEF text, q

(* The side buffer keeps it. *)
LEMMA ContentBuffered ==
    ASSUME NEW o, NEW s \in ChoiceStreamState, NEW c, NEW std, NEW syn, NEW n \in Nat,
           StandardBefore(std, n), Content(o, s, c, std, syn),
           ~s.hasSynthetic, ~s.sideBufferEmitted
    PROVE  LET s2 == [s EXCEPT !.sideBuffer = Append(@, Text(<<n, 0>>))]
           IN  /\ s2 \in ChoiceStreamState /\ SameCalls(s, s2)
               /\ Content(o, s2, c, std \cup {<<n, 0>>}, syn)
<1> DEFINE text == Append(s.sideBuffer, Text(<<n, 0>>))
           s2 == [s EXCEPT !.sideBuffer = text]
           got == Got(o, c, "content")
<1>1. /\ text \in Seq(TextPiece) /\ Increasing(text)
      /\ Places(text) = Places(s.sideBuffer) \cup {<<n, 0>>}
      /\ Standard(Places(text)) = Places(text)
      /\ AllBefore(Standard(got), Places(text))
  BY TextBuffered
<1>2. s2 \in ChoiceStreamState /\ SameCalls(s, s2)
  BY <1>1 DEF ChoiceStreamState, SameCalls
<1>3. /\ s2.sideBuffer = text /\ s2.held = s.held /\ s2.hasSynthetic = s.hasSynthetic
      /\ s2.sideBufferEmitted = s.sideBufferEmitted /\ s2.contentEmitted = s.contentEmitted
  BY DEF ChoiceStreamState
<1> HIDE DEF s2, text
<1>4. Standard(got) = {} /\ std = Standard(got) \cup Places(s.sideBuffer) /\ syn = {}
  BY DEF Content
<1>5. Content(o, s2, c, std \cup {<<n, 0>>}, syn)
  BY <1>1, <1>3, <1>4 DEF Content, FirstOf
<1> QED
  BY <1>2, <1>5 DEF s2, text

(* The side buffer is flushed: it is off, already flushed, or now full. *)
LEMMA ContentFlushed ==
    ASSUME NEW o \in Seq(Chunk), NEW s \in ChoiceStreamState, NEW c \in ChoiceSet, NEW std, NEW syn,
           NEW n \in Nat, sideBufferBytes \in Nat,
           StandardBefore(std, n), Content(o, s, c, std, syn), ~s.hasSynthetic,
           \/ sideBufferBytes = 0
           \/ s.sideBufferEmitted
           \/ Len(Append(s.sideBuffer, Text(<<n, 0>>))) >= sideBufferBytes
    PROVE  LET text == Append(s.sideBuffer, Text(<<n, 0>>))
               s2 == [s EXCEPT !.sideBuffer = <<>>, !.sideBufferEmitted = TRUE]
           IN  /\ text \in Seq(TextPiece)
               /\ s2 \in ChoiceStreamState /\ SameCalls(s, s2)
               /\ Content(Append(o, Line(c, "content", text)), s2, c, std \cup {<<n, 0>>}, syn)
<1> DEFINE q == <<n, 0>>
           text == Append(s.sideBuffer, Text(q))
           s2 == [s EXCEPT !.sideBuffer = <<>>, !.sideBufferEmitted = TRUE]
           o2 == Append(o, Line(c, "content", text))
           got == Got(o, c, "content")
           got2 == Got(o2, c, "content")
           std2 == std \cup {q}
<1>1. /\ text \in Seq(TextPiece) /\ Increasing(text)
      /\ Places(text) = Places(s.sideBuffer) \cup {q}
      /\ Standard(Places(text)) = Places(text)
      /\ AllBefore(Standard(got), Places(text))
  BY TextBuffered
<1>2. s2 \in ChoiceStreamState /\ SameCalls(s, s2)
  <2>1. <<>> \in Seq(TextPiece)
    OBVIOUS
  <2> QED
    BY <2>1 DEF ChoiceStreamState, SameCalls
<1>3. /\ s2.sideBuffer = <<>> /\ s2.held = s.held /\ s2.hasSynthetic = s.hasSynthetic
      /\ s2.sideBufferEmitted = TRUE /\ s2.contentEmitted = s.contentEmitted
  BY DEF ChoiceStreamState
<1> HIDE DEF s2, text
<1>4. /\ InOrder(o, c, "content") /\ std = Standard(got) \cup Places(s.sideBuffer) /\ syn = {}
      /\ Standard(got) \subseteq std
  BY DEF Content, FirstOf
<1>5. got2 = got \cup Places(text) /\ InOrder(o2, c, "content")
  BY <1>1, <1>4, TextWritten
<1>6. /\ \A p \in std2 : p \in Place /\ p[1] <= n /\ p[2] = 0
      /\ q \in std2
  BY DEF StandardBefore, Place
<1> HIDE DEF o2, got, got2, q
<1>7. Standard(got2) = std2 /\ Synthetic(got2) = Synthetic(got)
  <2>1. /\ Standard(got \cup Places(text)) = Standard(got) \cup Standard(Places(text))
        /\ Synthetic(got \cup Places(text)) = Synthetic(got) \cup Synthetic(Places(text))
    BY DEF Standard, Synthetic
  <2>2. Synthetic(Places(text)) = {}
    BY <1>1, SourcesApart
  <2> QED
    BY <1>1, <1>4, <1>5, <2>1, <2>2, ZenonT(60)
<1> HIDE DEF std2
<1>8. Cardinality(Standard(got2)) >= sideBufferBytes
  <2>1. IsFiniteSet(std2)
    BY <1>6, StandardFinite
  <2>2. Cardinality(std2) \in Nat
    BY <2>1, FS_CardinalityType
  <2>3. ASSUME NEW A \in SUBSET std2 PROVE Cardinality(A) \in Nat /\ Cardinality(A) <= Cardinality(std2)
    <3>1. IsFiniteSet(A) /\ Cardinality(A) <= Cardinality(std2)
      BY <2>1, FS_Subset
    <3> QED
      BY <3>1, FS_CardinalityType
  <2>4. CASE sideBufferBytes = 0
    BY <1>7, <2>2, <2>4
  <2>5. CASE s.sideBufferEmitted
    <3>1. Cardinality(Standard(got)) >= sideBufferBytes
      BY <2>5 DEF Content, got
    <3>2. Standard(got) \in SUBSET std2
      BY <1>4 DEF std2
    <3> QED
      BY <1>7, <2>2, <2>3, <3>1, <3>2
  <2>6. CASE Len(text) >= sideBufferBytes
    <3>1. Cardinality(Places(text)) = Len(text)
      BY <1>1, PlacesCounted
    <3>2. Places(text) \in SUBSET std2
      BY <1>1, <1>4 DEF std2
    <3> QED
      BY <1>7, <2>2, <2>3, <2>6, <3>1, <3>2
  <2> QED
    BY <2>4, <2>5, <2>6 DEF text, q
<1>9. Standard(got2) # {}
  BY <1>6, <1>7
<1>10. Content(o2, s2, c, std2, syn)
  <2>1. AllBefore(Standard(got2), Places(s2.sideBuffer)) /\ Increasing(s2.sideBuffer)
        /\ Places(s2.sideBuffer) = {}
    BY <1>3, NoPlaces DEF AllBefore
  <2>2. /\ Increasing(s.held) /\ AllBefore(Synthetic(got), Places(s.held))
        /\ syn = Synthetic(got) \cup Places(s.held) /\ (s.contentEmitted <=> Synthetic(got) # {})
    BY DEF Content, got
  <2>3. FirstOf(Standard(got2), std2)
    BY <1>7 DEF FirstOf
  <2> QED
    BY <1>3, <1>4, <1>5, <1>7, <1>8, <1>9, <2>1, <2>2, <2>3 DEF Content, got2
<1> QED
  BY <1>1, <1>2, <1>10 DEF s2, o2, text, std2, q

(* The standard content sent, with the n-th entry. *)
SentNow(std, d, n) == std \cup IF d.content THEN {<<n, 0>>} ELSE {}

(* What ContentWorked starts from. *)
ContentReady(z, c, d, n, es, places, std) ==
    /\ z \in Z /\ n \in Nat /\ d.content \in BOOLEAN /\ sideBufferBytes \in Nat
    /\ StandardBefore(std, n)
    /\ z.emit = <<>> /\ Stage(z.out, <<>>, z.s, c, es, places, std)

(* EmitContent keeps the choice at work, with the entry's content sent. *)
LEMMA ContentWorked ==
    ASSUME NEW z, NEW c \in ChoiceSet, NEW d, NEW n, NEW es, NEW places, NEW std,
           ContentReady(z, c, d, n, es, places, std)
    PROVE  LET y == EmitContent(z, c, d, n)
           IN  /\ y \in Z /\ y.emit = <<>> /\ Grown(z.out, y.out, c)
               /\ Stage(y.out, <<>>, y.s, c, es, places, SentNow(std, d, n))
<1> DEFINE y == EmitContent(z, c, d, n)
           syn == SentSynthetic(es, places)
           std2 == SentNow(std, d, n)
           text == Append(z.s.sideBuffer, Text(<<n, 0>>))
           full == \/ sideBufferBytes = 0
                   \/ z.s.sideBufferEmitted
                   \/ Len(text) >= sideBufferBytes
<1>0. /\ z \in Z /\ n \in Nat /\ d.content \in BOOLEAN /\ sideBufferBytes \in Nat
      /\ StandardBefore(std, n)
      /\ z.emit = <<>> /\ Stage(z.out, <<>>, z.s, c, es, places, std)
  BY DEF ContentReady
<1> USE <1>0
<1>1. /\ z.s \in ChoiceStreamState /\ z.out \in Seq(Chunk)
      /\ z.s.hasSynthetic \in BOOLEAN /\ z.s.sideBufferEmitted \in BOOLEAN
  BY StageTyped, StateTyped
<1>2. /\ Content(z.out, z.s, c, std, syn) /\ Tools(z.out, <<>>, z.s, c, es, places)
      /\ Synth(z.s, SyntheticIndex(es, places)) /\ Chunks(z.out, c, "finish") = {}
  BY DEF Stage
<1>3. d.content => std2 = std \cup {<<n, 0>>}
  BY DEF SentNow
<1>4. CASE ~d.content
  <2>1. y = z /\ std2 = std
    BY <1>4 DEF EmitContent, SentNow
  <2> QED
    BY <1>1, <2>1, NotGrown
<1>5. CASE d.content /\ z.s.hasSynthetic
  <2>1. y = [z EXCEPT !.conflict = TRUE]
    BY <1>5 DEF EmitContent
  <2>2. y \in Z /\ y.s = z.s /\ y.out = z.out /\ y.emit = z.emit
    BY <2>1 DEF Z
  <2> HIDE DEF y, syn
  <2>3. Content(z.out, z.s, c, std \cup {<<n, 0>>}, syn)
    BY <1>2, <1>5, ContentDropped
  <2>4. Stage(y.out, <<>>, y.s, c, es, places, std2)
    BY <1>2, <1>3, <1>5, <2>2, <2>3 DEF Stage, syn
  <2> QED
    BY <1>1, <2>2, <2>4, NotGrown DEF y
<1>6. CASE d.content /\ ~z.s.hasSynthetic /\ ~full
  <2> DEFINE s2 == [z.s EXCEPT !.sideBuffer = Append(@, Text(<<n, 0>>))]
  <2>1. y = [z EXCEPT !.s = s2]
    BY <1>6 DEF EmitContent, Z
  <2>2. s2 \in ChoiceStreamState /\ SameCalls(z.s, s2) /\ Content(z.out, s2, c, std \cup {<<n, 0>>}, syn)
    <3> HIDE DEF syn
    <3>1. LET s3 == [z.s EXCEPT !.sideBuffer = Append(@, Text(<<n, 0>>))]
          IN  /\ s3 \in ChoiceStreamState /\ SameCalls(z.s, s3)
              /\ Content(z.out, s3, c, std \cup {<<n, 0>>}, syn)
      BY <1>1, <1>2, <1>6, ContentBuffered
    <3> QED
      BY <3>1
  <2> HIDE DEF s2, y, syn, full
  <2>3. y \in Z /\ y.s = s2 /\ y.out = z.out /\ y.emit = z.emit
    BY <2>1, <2>2 DEF Z
  <2>4. Tools(z.out, <<>>, s2, c, es, places)
    BY <1>2, <2>2, ToolsSame DEF SameCalls
  <2>5. Stage(y.out, <<>>, y.s, c, es, places, std2)
    BY <1>2, <1>3, <1>6, <2>2, <2>3, <2>4 DEF Stage, Synth, SameCalls, syn
  <2> QED
    BY <1>1, <2>3, <2>5, NotGrown DEF y
<1>7. CASE d.content /\ ~z.s.hasSynthetic /\ full
  <2> DEFINE s2 == [z.s EXCEPT !.sideBuffer = <<>>, !.sideBufferEmitted = TRUE]
             x == Line(c, "content", text)
             w == Write(z, c, "content", text)
  <2>1. y = [w EXCEPT !.s = s2]
    <3>1. y = [w EXCEPT !.s.sideBuffer = <<>>, !.s.sideBufferEmitted = TRUE]
      BY <1>7 DEF EmitContent
    <3>2. w.s = z.s
      BY DEF Write, Z
    <3> HIDE DEF y, w
    <3> QED
      BY <3>1, <3>2
  <2>2. /\ text \in Seq(TextPiece) /\ s2 \in ChoiceStreamState /\ SameCalls(z.s, s2)
        /\ Content(Append(z.out, x), s2, c, std \cup {<<n, 0>>}, syn)
    <3> HIDE DEF syn
    <3>1. LET text3 == Append(z.s.sideBuffer, Text(<<n, 0>>))
              s3 == [z.s EXCEPT !.sideBuffer = <<>>, !.sideBufferEmitted = TRUE]
          IN  /\ text3 \in Seq(TextPiece)
              /\ s3 \in ChoiceStreamState /\ SameCalls(z.s, s3)
              /\ Content(Append(z.out, Line(c, "content", text3)), s3, c, std \cup {<<n, 0>>}, syn)
      BY <1>1, <1>2, <1>7, ContentFlushed
    <3> QED
      BY <3>1
  <2> HIDE DEF s2, y, syn, full, text
  <2>3. x \in Chunk /\ x.choice = c /\ x.kind = "content"
    BY <2>2, LinesAreChunks DEF Line
  <2>4. w \in Z /\ w.out = Append(z.out, x) /\ w.s = z.s /\ w.emit = z.emit
    BY <2>3, Written
  <2> HIDE DEF x, w
  <2>5. y \in Z /\ y.s = s2 /\ y.out = Append(z.out, x) /\ y.emit = z.emit
    BY <2>1, <2>2, <2>4 DEF Z
  <2>6. Tools(Append(z.out, x), <<>>, s2, c, es, places)
    BY <1>1, <1>2, <2>2, <2>3, ToolsKept
  <2>7. Chunks(Append(z.out, x), c, "finish") = {}
    BY <1>1, <1>2, <2>3, FinishKept
  <2>8. Stage(y.out, <<>>, y.s, c, es, places, std2)
    BY <1>2, <1>3, <1>7, <2>2, <2>5, <2>6, <2>7 DEF Stage, Synth, SameCalls, syn
  <2>9. Grown(z.out, y.out, c)
    BY <1>1, <2>3, <2>5, GrownByOne
  <2> QED
    BY <2>5, <2>8, <2>9 DEF y
<1> QED
  BY <1>1, <1>4, <1>5, <1>6, <1>7

-----------------------------------------------------------------------------
(* The end of a choice.                                                    *)
LEMMA RestDelivered ==
    ASSUME NEW z \in Z, NEW c \in ChoiceSet, NEW es, NEW places, NEW std, NEW broken,
           \A p \in places : p[2] # 0, z.s.hasSynthetic,
           Stage(z.out, <<>>, z.s, c, es, places, std)
    PROVE  LET y == DecoderRest(z, c, broken)
           IN  /\ y \in Z
               /\ y.out = z.out \/ \E data \in Seq(TextPiece) : y.out = Append(z.out, Line(c, "content", data))
               /\ Delivered(y.out, c, es, places, std)
<1> DEFINE y == DecoderRest(z, c, broken)
           syn == SentSynthetic(es, places)
           got == Got(z.out, c, "content")
           held == z.s.held
           s2 == [z.s EXCEPT !.held = IF z.s.contentEmitted THEN <<>> ELSE @]
           z2 == [z EXCEPT !.s = s2]
           x == Line(c, "content", held)
           o2 == Append(z.out, x)
<1>1. /\ z.s \in ChoiceStreamState /\ z.out \in Seq(Chunk)
      /\ held \in Seq(TextPiece) /\ z.s.contentEmitted \in BOOLEAN
  BY StageTyped, StateTyped
<1>2. /\ InOrder(z.out, c, "content") /\ Increasing(held)
      /\ AllBefore(Synthetic(got), Places(held))
      /\ FirstOf(Standard(got), std) /\ syn = Synthetic(got) \cup Places(held)
      /\ Standard(got) # {} => Cardinality(Standard(got)) >= sideBufferBytes
      /\ z.s.contentEmitted <=> Synthetic(got) # {}
  BY DEF Stage, Content
<1>3. SyntheticIndex(es, places) # {}
  BY DEF Stage, Synth
<1>4. CASE held = <<>> \/ (broken /\ ~z.s.contentEmitted)
  <2>1. y = z
    BY <1>4 DEF DecoderRest
  <2>2. Synthetic(got) \in {{}, syn}
    BY <1>2, <1>4, NoPlaces
  <2> QED
    BY <1>2, <1>3, <2>1, <2>2 DEF Delivered
<1>5. CASE ~(held = <<>> \/ (broken /\ ~z.s.contentEmitted))
  <2>1. s2 \in ChoiceStreamState
    <3>1. <<>> \in Seq(TextPiece)
      OBVIOUS
    <3> QED
      BY <1>1, <3>1 DEF ChoiceStreamState
  <2>2. y = Write(z2, c, "content", held)
    BY <1>1, <1>5 DEF DecoderRest, Z
  <2> HIDE DEF s2
  <2>3. z2 \in Z /\ z2.out = z.out
    BY <2>1 DEF Z
  <2>4. x \in Chunk
    BY <1>1, LinesAreChunks
  <2> HIDE DEF z2, y, held
  <2>5. y \in Z /\ y.out = o2
    BY <2>2, <2>3, <2>4, Written, SMTT(30)
  <2>6. Synthetic(Places(held)) = Places(held) /\ Standard(Places(held)) = {}
    <3>1. Synthetic(syn) = syn
      BY DEF Synthetic, SentSynthetic
    <3> HIDE DEF syn
    <3> QED
      BY <1>2, <3>1, SourcesApart
  <2>7. Got(o2, c, "content") = got \cup Places(held) /\ InOrder(o2, c, "content")
    BY <1>1, <1>2, <2>6, TextWritten DEF held
  <2> HIDE DEF o2, syn, got
  <2>8. /\ Standard(Got(o2, c, "content")) = Standard(got)
        /\ Synthetic(Got(o2, c, "content")) = syn
    <3>1. /\ Standard(got \cup Places(held)) = Standard(got) \cup Standard(Places(held))
          /\ Synthetic(got \cup Places(held)) = Synthetic(got) \cup Synthetic(Places(held))
      BY DEF Standard, Synthetic
    <3> QED
      BY <1>2, <2>6, <2>7, <3>1
  <2>9. Delivered(o2, c, es, places, std)
    BY <1>2, <1>3, <2>7, <2>8 DEF Delivered, syn
  <2>10. \E data \in Seq(TextPiece) : o2 = Append(z.out, Line(c, "content", data))
    BY <1>1 DEF o2, held
  <2> QED
    BY <2>5, <2>9, <2>10 DEF y
<1> QED
  BY <1>4, <1>5

(* FlushSideBuffer delivers what a choice without a synthetic call owes. *)
LEMMA BufferDelivered ==
    ASSUME NEW z \in Z, NEW c \in ChoiceSet, NEW es, NEW places, NEW std,
           Standard(std) = std, ~z.s.hasSynthetic,
           Stage(z.out, <<>>, z.s, c, es, places, std)
    PROVE  LET y == FlushSideBuffer(z, c)
           IN  /\ y \in Z
               /\ y.out = z.out \/ \E data \in Seq(TextPiece) : y.out = Append(z.out, Line(c, "content", data))
               /\ Delivered(y.out, c, es, places, std)
<1> DEFINE y == FlushSideBuffer(z, c)
           got == Got(z.out, c, "content")
           data == z.s.sideBuffer
           w == Write(z, c, "content", data)
           s2 == [z.s EXCEPT !.sideBuffer = <<>>, !.sideBufferEmitted = TRUE]
           o2 == Append(z.out, Line(c, "content", data))
<1>1. z.s \in ChoiceStreamState /\ z.out \in Seq(Chunk) /\ data \in Seq(TextPiece)
  BY StageTyped, StateTyped
<1>2. /\ InOrder(z.out, c, "content") /\ Increasing(data)
      /\ AllBefore(Standard(got), Places(data))
      /\ std = Standard(got) \cup Places(data) /\ Synthetic(got) = {}
      /\ SentSynthetic(es, places) = {}
  BY DEF Stage, Content
<1>3. CASE data = <<>>
  <2>1. y = z
    BY <1>3 DEF FlushSideBuffer
  <2>2. Standard(got) = std /\ got = std
    BY <1>2, <1>3, NoPlaces, SourcesApart
  <2> QED
    BY <1>2, <2>1, <2>2 DEF Delivered, FirstOf
<1>4. CASE data # <<>>
  <2>1. y = [w EXCEPT !.s = s2]
    <3>1. y = [w EXCEPT !.s.sideBuffer = <<>>, !.s.sideBufferEmitted = TRUE]
      BY <1>4 DEF FlushSideBuffer
    <3>2. w.s = z.s
      BY DEF Write, Z
    <3> HIDE DEF y, w
    <3> QED
      BY <3>1, <3>2
  <2>2. s2 \in ChoiceStreamState
    <3>1. <<>> \in Seq(TextPiece)
      OBVIOUS
    <3> QED
      BY <1>1, <3>1 DEF ChoiceStreamState
  <2>3. w \in Z /\ w.out = o2
    <3>1. Line(c, "content", data) \in Chunk
      BY <1>1, LinesAreChunks
    <3> HIDE DEF data
    <3> QED
      BY <3>1, Written
  <2> HIDE DEF w, s2, y
  <2>4. y \in Z /\ y.out = o2
    BY <2>1, <2>2, <2>3 DEF Z
  <2> HIDE DEF data
  <2>5. Standard(Places(data)) = Places(data) /\ Synthetic(Places(data)) = {}
    BY <1>2, SourcesApart
  <2>6. Got(o2, c, "content") = got \cup Places(data) /\ InOrder(o2, c, "content")
    BY <1>1, <1>2, <2>5, TextWritten DEF data
  <2>7. \E data2 \in Seq(TextPiece) : o2 = Append(z.out, Line(c, "content", data2))
    BY <1>1 DEF data
  <2> HIDE DEF o2, got
  <2>8. Got(o2, c, "content") = std /\ Synthetic(std) = {}
    BY <1>2, <2>5, <2>6, SourcesApart
  <2>9. Delivered(o2, c, es, places, std)
    BY <1>2, <2>6, <2>8 DEF Delivered, FirstOf
  <2> QED
    BY <2>4, <2>7, <2>9 DEF y
<1> QED
  BY <1>3, <1>4

(* A choice at work has delivered all fragments of its real calls under  *)
(* consistent numbers, and knows whether there were any.                 *)
LEMMA CallsSeen ==
    ASSUME NEW o, NEW s, NEW c, NEW es, NEW places,
           \A p \in places : Frag(es, p) \in Frags,
           Tools(o, <<>>, s, c, es, places)
    PROVE  /\ Kept(o, c, es, places)
           /\ NoRealTools(s) <=> Pieces(o, c, "tools") = {}
           /\ Pieces(o, c, "tools") = {} <=> SentReal(es, places) = {}
<1> DEFINE pieces == PiecesOf(o, c, "tools")
<1>1. Got(o, c, "tools") = SentReal(es, places) /\ Numbered(es, s, pieces)
  <2>1. pieces \cup {(<<>>)[j] : j \in DOMAIN <<>>} = pieces
    OBVIOUS
  <2>2. Numbered(es, s, pieces \cup {(<<>>)[j] : j \in DOMAIN <<>>})
    BY DEF Tools
  <2>3. Numbered(es, s, pieces)
    BY <2>1, <2>2
  <2> QED
    BY <2>3, NoPlaces DEF Tools
<1>2. ASSUME NEW x \in pieces
      PROVE  /\ x.at \in places /\ Frag(es, x.at) \in Frags /\ Frag(es, x.at).index \in ToolIndexes
             /\ s.realToolsSeen[Frag(es, x.at).index] # NoIndex
             /\ x.frag = [Frag(es, x.at) EXCEPT !.index = s.realToolsSeen[Frag(es, x.at).index]]
  <2>1. x.at \in Got(o, c, "tools")
    BY DEF PiecesOf, Got
  <2>2. x.at \in places
    BY <1>1, <2>1 DEF SentReal
  <2>3. Frag(es, x.at) \in Frags /\ Frag(es, x.at).index \in ToolIndexes
    BY <2>2 DEF Frags
  <2> QED
    BY <1>1, <2>2, <2>3 DEF Numbered
<1>3. ASSUME NEW x \in pieces
      PROVE  /\ x.frag.index = s.realToolsSeen[Frag(es, x.at).index]
             /\ x.frag = [Frag(es, x.at) EXCEPT !.index = x.frag.index]
  <2> DEFINE f == Frag(es, x.at)
             r == s.realToolsSeen[f.index]
  <2>1. f \in Frags /\ x.frag = [f EXCEPT !.index = r]
    BY <1>2
  <2> HIDE DEF r, f
  <2>2. [f EXCEPT !.index = r].index = r
    BY <2>1 DEF Frags
  <2> QED
    BY <2>1, <2>2 DEF r, f
<1>4. ASSUME NEW x \in pieces, NEW y \in pieces
      PROVE  x.frag.index = y.frag.index <=> Frag(es, x.at).index = Frag(es, y.at).index
  <2>1. \A i, j \in ToolIndexes :
            s.realToolsSeen[i] # NoIndex /\ s.realToolsSeen[j] = s.realToolsSeen[i] => i = j
    BY <1>1 DEF Numbered
  <2> DEFINE i == Frag(es, x.at).index
             j == Frag(es, y.at).index
  <2>2. i \in ToolIndexes /\ j \in ToolIndexes /\ s.realToolsSeen[i] # NoIndex
    BY <1>2
  <2>3. x.frag.index = s.realToolsSeen[i] /\ y.frag.index = s.realToolsSeen[j]
    BY <1>3
  <2> HIDE DEF i, j
  <2>4. s.realToolsSeen[i] = s.realToolsSeen[j] <=> i = j
    BY <2>1, <2>2
  <2>5. x.frag.index = y.frag.index <=> i = j
    BY <2>3, <2>4
  <2> QED
    BY <2>5 DEF i, j
<1>5. \A x \in pieces : x.frag.index # 0 =>
        \E y \in pieces : Before(y.at, x.at) /\ y.frag.index = x.frag.index - 1
  BY <1>1 DEF Numbered
<1>6. Renumbered(es, pieces)
  BY <1>3, <1>4, <1>5 DEF Renumbered
<1>7. Pieces(o, c, "tools") = {} <=> pieces = {}
  BY DEF PiecesOf
<1>8. NoRealTools(s) <=> pieces = {}
  <2>1. ASSUME NEW x \in pieces PROVE ~NoRealTools(s)
    BY <1>2 DEF NoRealTools
  <2>2. ASSUME NEW i \in ToolIndexes, s.realToolsSeen[i] # NoIndex PROVE pieces # {}
    BY <1>1, <2>2 DEF Numbered
  <2> QED
    BY <2>1, <2>2 DEF NoRealTools
<1>9. pieces = {} <=> SentReal(es, places) = {}
  BY <1>1 DEF PiecesOf, Got
<1> QED
  BY <1>1, <1>6, <1>7, <1>8, <1>9 DEF Kept, Tools

(* FinishReason says tool_calls when the upstream does and there are     *)
(* real calls.                                                           *)
LEMMA ReasonTruthful ==
    ASSUME NEW s \in ChoiceStreamState, NEW es, NEW places, NEW reason \in {"stop", "tool_calls"},
           NEW pieces,
           Synth(s, SyntheticIndex(es, places)),
           NoRealTools(s) <=> pieces = {},
           pieces = {} <=> SentReal(es, places) = {},
           reason = "tool_calls" => places # {}
    PROVE  /\ FinishReason(s, reason) \in {"stop", "tool_calls"}
           /\ FinishReason(s, reason) = "tool_calls" <=> reason = "tool_calls" /\ pieces # {}
<1>1. ASSUME ~s.hasSynthetic PROVE SentReal(es, places) = places
  BY <1>1 DEF Synth, SentReal
<1> QED
  BY <1>1 DEF FinishReason

(* The finish chunk closes the choice. *)
LEMMA ClosedByFinish ==
    ASSUME NEW o \in Seq(Chunk), NEW c \in ChoiceSet, NEW r \in {"stop", "tool_calls"}, NEW reason,
           Chunks(o, c, "finish") = {},
           r = "tool_calls" <=> reason = "tool_calls" /\ Pieces(o, c, "tools") # {}
    PROVE  Closed(Append(o, Line(c, "finish", <<[reason |-> r]>>)), c, reason)
<1> DEFINE x == Line(c, "finish", <<[reason |-> r]>>)
           o2 == Append(o, x)
<1>1. x \in Chunk /\ x.kind = "finish" /\ x.choice = c /\ x.data[1].reason = r
  BY LinesAreChunks DEF Line
<1> HIDE DEF x
<1>2. Chunks(o2, c, "finish") = {Len(o) + 1}
  BY <1>1, PiecesAppended
<1>3. Pieces(o2, c, "tools") = Pieces(o, c, "tools")
  BY <1>1, OtherAppended
<1>4. DOMAIN o2 = 1..(Len(o) + 1) /\ o2[Len(o) + 1] = x /\ Len(o) \in Nat
  BY <1>1, Appended
<1> HIDE DEF o2
<1>5. Closed(o2, c, reason)
  <2>1. \A j \in DOMAIN o2 : j <= Len(o) + 1
    BY <1>4
  <2>2. o2[Len(o) + 1].data[1].reason = r
    BY <1>1, <1>4
  <2>3. ASSUME NEW i \in Chunks(o2, c, "finish")
        PROVE  /\ \A j \in DOMAIN o2 : o2[j].choice = c => j <= i
               /\ o2[i].data[1].reason = "tool_calls" <=>
                    reason = "tool_calls" /\ Pieces(o2, c, "tools") # {}
    <3>1. i = Len(o) + 1
      BY <1>2
    <3> QED
      BY <1>3, <2>1, <2>2, <3>1
  <2>4. Chunks(o2, c, "finish") # {}
    BY <1>2
  <2> QED
    BY <2>3, <2>4 DEF Closed
<1> QED
  BY <1>5 DEF o2, x

(* The finish chunk leaves the content alone, and the real calls. *)
LEMMA DeliveredKept ==
    ASSUME NEW o \in Seq(Chunk), NEW x \in Chunk, NEW c, NEW es, NEW places, NEW std,
           x.kind # "content", Delivered(o, c, es, places, std)
    PROVE  Delivered(Append(o, x), c, es, places, std)
<1>1. /\ Got(Append(o, x), c, "content") = Got(o, c, "content")
      /\ InOrder(o, c, "content") => InOrder(Append(o, x), c, "content")
  BY OtherAppended
<1> QED
  BY <1>1 DEF Delivered

LEMMA KeptKept ==
    ASSUME NEW o \in Seq(Chunk), NEW x \in Chunk, NEW c, NEW es, NEW places,
           x.kind # "tools", Kept(o, c, es, places)
    PROVE  Kept(Append(o, x), c, es, places)
<1>1. /\ Got(Append(o, x), c, "tools") = Got(o, c, "tools")
      /\ PiecesOf(Append(o, x), c, "tools") = PiecesOf(o, c, "tools")
      /\ InOrder(o, c, "tools") => InOrder(Append(o, x), c, "tools")
  BY OtherAppended
<1> QED
  BY <1>1 DEF Kept

(* What FinishWorked starts from. *)
FinishReady(z, c, d, es, places, std) ==
    /\ z \in Z /\ d.finish \in {"stop", "tool_calls"} /\ Standard(std) = std
    /\ \A p \in places : p[2] # 0 /\ Frag(es, p) \in Frags
    /\ d.finish = "tool_calls" => places # {}
    /\ Stage(z.out, <<>>, z.s, c, es, places, std)

(* EmitFinish settles the choice. *)
LEMMA FinishWorked ==
    ASSUME NEW z, NEW c \in ChoiceSet, NEW d, NEW es, NEW places, NEW std, NEW broken,
           FinishReady(z, c, d, es, places, std)
    PROVE  LET y == EmitFinish(z, c, d, broken)
           IN  /\ y \in Z /\ Grown(z.out, y.out, c)
               /\ Delivered(y.out, c, es, places, std)
               /\ Kept(y.out, c, es, places)
               /\ Closed(y.out, c, d.finish)
<1> DEFINE y == EmitFinish(z, c, d, broken)
           z1 == IF z.s.hasSynthetic THEN DecoderRest(z, c, broken) ELSE FlushSideBuffer(z, c)
           r == FinishReason(z.s, d.finish)
           x == Line(c, "finish", <<[reason |-> r]>>)
<1>0. /\ z \in Z /\ d.finish \in {"stop", "tool_calls"} /\ Standard(std) = std
      /\ \A p \in places : p[2] # 0 /\ Frag(es, p) \in Frags
      /\ d.finish = "tool_calls" => places # {}
      /\ Stage(z.out, <<>>, z.s, c, es, places, std)
  BY DEF FinishReady
<1> USE <1>0
<1>1. z.s \in ChoiceStreamState /\ z.out \in Seq(Chunk)
  BY StageTyped
<1>2. /\ Tools(z.out, <<>>, z.s, c, es, places)
      /\ Synth(z.s, SyntheticIndex(es, places)) /\ Chunks(z.out, c, "finish") = {}
  BY DEF Stage
<1>3. /\ z1 \in Z
      /\ z1.out = z.out \/ \E data \in Seq(TextPiece) : z1.out = Append(z.out, Line(c, "content", data))
      /\ Delivered(z1.out, c, es, places, std)
  <2>1. CASE z.s.hasSynthetic
    <3>1. LET v == DecoderRest(z, c, broken)
          IN  /\ v \in Z
              /\ v.out = z.out \/ \E data \in Seq(TextPiece) : v.out = Append(z.out, Line(c, "content", data))
              /\ Delivered(v.out, c, es, places, std)
      BY <2>1, RestDelivered
    <3> QED
      BY <2>1, <3>1
  <2>2. CASE ~z.s.hasSynthetic
    <3>1. LET v == FlushSideBuffer(z, c)
          IN  /\ v \in Z
              /\ v.out = z.out \/ \E data \in Seq(TextPiece) : v.out = Append(z.out, Line(c, "content", data))
              /\ Delivered(v.out, c, es, places, std)
      BY <2>2, BufferDelivered
    <3> QED
      BY <2>2, <3>1
  <2> QED
    BY <2>1, <2>2
<1>4. y = Write(z1, c, "finish", <<[reason |-> r]>>)
  BY DEF EmitFinish
<1> HIDE DEF z1
<1>5. /\ Kept(z.out, c, es, places)
      /\ NoRealTools(z.s) <=> Pieces(z.out, c, "tools") = {}
      /\ Pieces(z.out, c, "tools") = {} <=> SentReal(es, places) = {}
  BY <1>2, CallsSeen
<1>6. r \in {"stop", "tool_calls"} /\ (r = "tool_calls" <=> d.finish = "tool_calls" /\ Pieces(z.out, c, "tools") # {})
  <2> DEFINE pieces == Pieces(z.out, c, "tools")
             reason == d.finish
  <2>1. /\ NoRealTools(z.s) <=> pieces = {}
        /\ pieces = {} <=> SentReal(es, places) = {}
        /\ reason \in {"stop", "tool_calls"} /\ (reason = "tool_calls" => places # {})
    BY <1>5
  <2> HIDE DEF pieces, reason
  <2>2. /\ FinishReason(z.s, reason) \in {"stop", "tool_calls"}
        /\ FinishReason(z.s, reason) = "tool_calls" <=> reason = "tool_calls" /\ pieces # {}
    BY <1>1, <1>2, <2>1, ReasonTruthful
  <2> QED
    BY <2>2 DEF pieces, reason
<1> HIDE DEF r
<1>7. x \in Chunk /\ x.kind = "finish" /\ x.choice = c
  BY <1>6, LinesAreChunks DEF Line
<1>8. y \in Z /\ y.out = Append(z1.out, x)
  <2> DEFINE data == <<[reason |-> r]>>
  <2>1. y = Write(z1, c, "finish", data) /\ x = Line(c, "finish", data)
    BY <1>4
  <2> HIDE DEF data, y, x
  <2>2. Line(c, "finish", data) \in Chunk
    BY <1>7, <2>1
  <2> QED
    BY <1>3, <2>1, <2>2, Written
<1>9. z1.out \in Seq(Chunk)
  BY <1>3, StageTyped
<1> HIDE DEF y, x
<1>10. /\ Kept(z1.out, c, es, places)
       /\ Chunks(z1.out, c, "finish") = {}
       /\ Pieces(z1.out, c, "tools") = Pieces(z.out, c, "tools")
       /\ Grown(z.out, z1.out, c)
  <2>1. CASE z1.out = z.out
    BY <1>1, <1>2, <1>5, <2>1, NotGrown
  <2>2. CASE z1.out # z.out
    <3>1. PICK data \in Seq(TextPiece) : z1.out = Append(z.out, Line(c, "content", data))
      BY <1>3, <2>2
    <3> DEFINE w == Line(c, "content", data)
    <3>2. w \in Chunk /\ w.kind = "content" /\ w.choice = c
      BY LinesAreChunks DEF Line
    <3>3. z1.out = Append(z.out, w)
      BY <3>1
    <3> HIDE DEF w
    <3>4. Kept(z1.out, c, es, places)
      BY <1>1, <1>5, <3>2, <3>3, KeptKept
    <3>5. Chunks(z1.out, c, "finish") = {}
      BY <1>1, <1>2, <3>2, <3>3, FinishKept
    <3>6. Pieces(z1.out, c, "tools") = Pieces(z.out, c, "tools")
      BY <1>1, <3>2, <3>3, OtherAppended
    <3>7. Grown(z.out, z1.out, c)
      BY <1>1, <3>2, <3>3, GrownByOne
    <3> QED
      BY <3>4, <3>5, <3>6, <3>7
  <2> QED
    BY <2>1, <2>2
<1>11. Delivered(y.out, c, es, places, std)
  BY <1>3, <1>7, <1>8, <1>9, DeliveredKept
<1>12. Kept(y.out, c, es, places)
  BY <1>7, <1>8, <1>9, <1>10, KeptKept
<1>13. Closed(y.out, c, d.finish)
  <2> DEFINE reason == d.finish
  <2>1. r = "tool_calls" <=> reason = "tool_calls" /\ Pieces(z1.out, c, "tools") # {}
    BY <1>6, <1>10
  <2> HIDE DEF reason
  <2>2. Closed(Append(z1.out, Line(c, "finish", <<[reason |-> r]>>)), c, reason)
    BY <1>6, <1>9, <1>10, <2>1, ClosedByFinish
  <2> QED
    BY <1>8, <2>2 DEF x, reason
<1>14. Grown(z.out, y.out, c)
  <2>1. Grown(z1.out, y.out, c) /\ y.out \in Seq(Chunk)
    BY <1>7, <1>8, <1>9, GrownByOne, StageTyped
  <2> QED
    BY <1>1, <1>9, <1>10, <2>1, GrownTwice
<1> QED
  BY <1>8, <1>11, <1>12, <1>13, <1>14 DEF y

-----------------------------------------------------------------------------
(* One more entry of choice c is read. *)
FedEntries == Seq([choice : ChoiceSet, delta : Deltas])

(* The fields of an entry. *)
LEMMA DeltaTyped ==
    ASSUME NEW d \in Deltas
    PROVE  /\ d.content \in BOOLEAN /\ d.tools \in Seq(Frags)
           /\ d.finish \in {"none", "stop", "tool_calls"}
<1>1. d \in [role : BOOLEAN, reasoning : BOOLEAN, tools : Seq(Frags),
             content : BOOLEAN, finish : {"none", "stop", "tool_calls"}]
  BY DeltasAssumption
<1> QED
  BY <1>1

(* The entries read. *)
LEMMA FedTyped ==
    ASSUME NEW es \in FedEntries, NEW n \in DOMAIN es
    PROVE  /\ DOMAIN es = 1..Len(es) /\ Len(es) \in Nat /\ n \in Nat
           /\ es[n].choice \in ChoiceSet /\ es[n].delta \in Deltas
<1> DEFINE E == [choice : ChoiceSet, delta : Deltas]
<1>1. es \in Seq(E)
  BY DEF FedEntries
<1> HIDE DEF E
<1>2. es[n] \in E /\ DOMAIN es = 1..Len(es) /\ Len(es) \in Nat /\ n \in Nat
  BY <1>1
<1> QED
  BY <1>2 DEF E

(* The places of a choice's fragments, and what is there. *)
LEMMA PlacesOfFrags ==
    ASSUME NEW es \in FedEntries, NEW c, NEW p \in FragsOf(es, c)
    PROVE  /\ p \in Place /\ p[1] \in Entries(es, c) /\ p[1] \in DOMAIN es
           /\ p[2] \in DOMAIN es[p[1]].delta.tools /\ p[2] # 0
           /\ Frag(es, p) \in Frags
<1>1. PICK n \in Entries(es, c) : p \in {n} \X DOMAIN es[n].delta.tools
  BY DEF FragsOf
<1>2. n \in DOMAIN es
  BY DEF Entries
<1>3. es[n].delta \in Deltas /\ n \in Nat
  BY <1>2, FedTyped
<1>4. es[n].delta.tools \in Seq(Frags)
  BY <1>3, DeltaTyped
<1>5. p[1] = n /\ p[2] \in DOMAIN es[n].delta.tools /\ p = <<p[1], p[2]>>
  BY <1>1
<1>6. p[2] \in Nat /\ p[2] # 0 /\ es[n].delta.tools[p[2]] \in Frags
  BY <1>4, <1>5
<1> QED
  BY <1>2, <1>3, <1>5, <1>6 DEF Place, Frag

(* The new entry is the last one, of choice c and no other. *)
LEMMA EntryRead ==
    ASSUME NEW es \in FedEntries, NEW c \in ChoiceSet, NEW d \in Deltas
    PROVE  LET es2 == Append(es, [choice |-> c, delta |-> d])
               n == Len(es) + 1
           IN  /\ es2 \in FedEntries /\ n \in Nat
               /\ es2[n] = [choice |-> c, delta |-> d]
               /\ \A m \in DOMAIN es : es2[m] = es[m] /\ m < n
               /\ Entries(es2, c) = Entries(es, c) \cup {n}
               /\ \A c2 \in ChoiceSet : c2 # c => Entries(es2, c2) = Entries(es, c2)
<1> DEFINE x == [choice |-> c, delta |-> d]
           es2 == Append(es, x)
           n == Len(es) + 1
<1>1. es \in Seq([choice : ChoiceSet, delta : Deltas]) /\ x \in [choice : ChoiceSet, delta : Deltas]
  BY DEF FedEntries
<1>2. x.choice = c
  OBVIOUS
<1> HIDE DEF x
<1>3. /\ es2 \in Seq([choice : ChoiceSet, delta : Deltas])
      /\ DOMAIN es2 = 1..n /\ DOMAIN es = 1..Len(es) /\ Len(es) \in Nat
      /\ \A m \in DOMAIN es : es2[m] = es[m]
      /\ es2[n] = x
  BY <1>1, Appended
<1> HIDE DEF es2
<1>4. DOMAIN es2 = DOMAIN es \cup {n} /\ n \notin DOMAIN es /\ n \in Nat
  BY <1>3
<1>5. \A m \in DOMAIN es : m < n
  BY <1>3
<1> HIDE DEF n
<1>6. Entries(es2, c) = Entries(es, c) \cup {n}
  BY <1>2, <1>3, <1>4 DEF Entries
<1>7. \A c2 \in ChoiceSet : c2 # c => Entries(es2, c2) = Entries(es, c2)
  BY <1>2, <1>3, <1>4 DEF Entries
<1> QED
  BY <1>3, <1>4, <1>5, <1>6, <1>7 DEF FedEntries, es2, x, n

(* What two lists of entries that agree on choice c say of it.             *)
Agree(es, es2, c) ==
    /\ Entries(es2, c) = Entries(es, c)
    /\ \A m \in Entries(es, c) : es2[m] = es[m]

(* They agree on what was sent to it. *)
LEMMA Agreed ==
    ASSUME NEW es, NEW es2, NEW c, Agree(es, es2, c)
    PROVE  /\ FragsOf(es2, c) = FragsOf(es, c)
           /\ SentStandard(es2, c) = SentStandard(es, c)
           /\ Finished(es2, c) <=> Finished(es, c)
BY DEF Agree, FragsOf, SentStandard, Finished

(* The fragments at these places are the same. *)
SameFrags(es, es2, places) == \A p \in places : Frag(es2, p) = Frag(es, p)

(* What was sent depends on the fragments alone. *)
LEMMA SameSent ==
    ASSUME NEW es, NEW es2, NEW places, SameFrags(es, es2, places)
    PROVE  /\ SyntheticIndex(es2, places) = SyntheticIndex(es, places)
           /\ Indexes(es2, places) = Indexes(es, places)
           /\ SentSynthetic(es2, places) = SentSynthetic(es, places)
           /\ SentReal(es2, places) = SentReal(es, places)
<1>1. Indexes(es2, places) = Indexes(es, places)
  BY DEF SameFrags, Indexes
<1>2. SyntheticIndex(es2, places) = SyntheticIndex(es, places)
  BY DEF SameFrags, SyntheticIndex, Indexes
<1>3. SentSynthetic(es2, places) = SentSynthetic(es, places)
  BY <1>2 DEF SameFrags, SentSynthetic
<1>4. SentReal(es2, places) = SentReal(es, places)
  BY <1>2 DEF SameFrags, SentReal
<1> QED
  BY <1>1, <1>2, <1>3, <1>4

(* So does the work on a choice. *)
LEMMA StageSame ==
    ASSUME NEW o, NEW s, NEW c, NEW es, NEW es2, NEW places, NEW std,
           SameFrags(es, es2, places), Stage(o, <<>>, s, c, es, places, std)
    PROVE  Stage(o, <<>>, s, c, es2, places, std)
<1> DEFINE pieces == PiecesOf(o, c, "tools") \cup {(<<>>)[j] : j \in DOMAIN <<>>}
<1>1. /\ SyntheticIndex(es2, places) = SyntheticIndex(es, places)
      /\ SentSynthetic(es2, places) = SentSynthetic(es, places)
      /\ SentReal(es2, places) = SentReal(es, places)
  BY SameSent
<1>2. \A x \in pieces : Frag(es2, x.at) = Frag(es, x.at)
  <2> SUFFICES ASSUME NEW x \in PiecesOf(o, c, "tools") PROVE Frag(es2, x.at) = Frag(es, x.at)
    OBVIOUS
  <2>1. x.at \in Got(o, c, "tools")
    BY DEF PiecesOf, Got
  <2>2. x.at \in places
    BY <2>1 DEF Stage, Tools, SentReal
  <2> QED
    BY <2>2 DEF SameFrags
<1>3. Numbered(es, s, pieces)
  BY DEF Stage, Tools
<1> HIDE DEF pieces
<1>4. Numbered(es2, s, pieces)
  BY <1>2, <1>3 DEF Numbered
<1>5. Tools(o, <<>>, s, c, es2, places)
  BY <1>1, <1>4 DEF Stage, Tools, pieces
<1> QED
  BY <1>1, <1>5 DEF Stage

(* And what a settled choice promises of its calls. *)
LEMMA KeptSame ==
    ASSUME NEW o, NEW c, NEW es, NEW es2, NEW places,
           SameFrags(es, es2, places), Kept(o, c, es, places)
    PROVE  Kept(o, c, es2, places)
<1>1. SentReal(es2, places) = SentReal(es, places)
  BY SameSent
<1>2. \A x \in PiecesOf(o, c, "tools") : Frag(es2, x.at) = Frag(es, x.at)
  <2> SUFFICES ASSUME NEW x \in PiecesOf(o, c, "tools") PROVE Frag(es2, x.at) = Frag(es, x.at)
    OBVIOUS
  <2>1. x.at \in Got(o, c, "tools")
    BY DEF PiecesOf, Got
  <2>2. x.at \in places
    BY <2>1 DEF Kept, SentReal
  <2> QED
    BY <2>2 DEF SameFrags
<1>3. Renumbered(es2, PiecesOf(o, c, "tools"))
  BY <1>2 DEF Kept, Renumbered
<1> QED
  BY <1>1, <1>3 DEF Kept

(* What the new entry adds to what was sent to its choice. *)
LEMMA SentRead ==
    ASSUME NEW es \in FedEntries, NEW c \in ChoiceSet, NEW d \in Deltas
    PROVE  LET es2 == Append(es, [choice |-> c, delta |-> d])
               n == Len(es) + 1
               places == FragsOf(es, c)
           IN  /\ FragsOf(es2, c) = places \cup {<<n, j>> : j \in DOMAIN d.tools}
               /\ SentStandard(es2, c) = SentNow(SentStandard(es, c), d, n)
               /\ SameFrags(es, es2, places)
               /\ \A k \in DOMAIN d.tools : Frag(es2, <<n, k>>) = d.tools[k]
               /\ SentBefore(es2, n, places)
               /\ StandardBefore(SentStandard(es, c), n)
               /\ \A c2 \in ChoiceSet : c2 # c => Agree(es, es2, c2)
<1> DEFINE es2 == Append(es, [choice |-> c, delta |-> d])
           n == Len(es) + 1
           places == FragsOf(es, c)
<1>1. /\ es2 \in FedEntries /\ n \in Nat
      /\ es2[n] = [choice |-> c, delta |-> d]
      /\ \A m \in DOMAIN es : es2[m] = es[m] /\ m < n
      /\ Entries(es2, c) = Entries(es, c) \cup {n}
      /\ \A c2 \in ChoiceSet : c2 # c => Entries(es2, c2) = Entries(es, c2)
  BY EntryRead
<1>2. es2[n].delta = d
  BY <1>1
<1>3. \A c2 : Entries(es, c2) \subseteq DOMAIN es
  BY DEF Entries
<1> HIDE DEF es2, n
<1>4. FragsOf(es2, c) = places \cup {<<n, j>> : j \in DOMAIN d.tools}
  <2>1. \A m \in Entries(es, c) : es2[m].delta.tools = es[m].delta.tools
    BY <1>1, <1>3
  <2>2. FragsOf(es2, c) = places \cup ({n} \X DOMAIN d.tools)
    BY <1>1, <1>2, <2>1 DEF FragsOf
  <2>3. {n} \X DOMAIN d.tools = {<<n, j>> : j \in DOMAIN d.tools}
    OBVIOUS
  <2> QED
    BY <2>2, <2>3
<1>5. SentStandard(es2, c) = SentNow(SentStandard(es, c), d, n)
  <2>1. {m \in Entries(es2, c) : es2[m].delta.content} =
            {m \in Entries(es, c) : es[m].delta.content} \cup IF d.content THEN {n} ELSE {}
    <3>1. \A m \in Entries(es, c) : es2[m].delta.content = es[m].delta.content
      BY <1>1, <1>3
    <3> QED
      BY <1>1, <1>2, <3>1
  <2> DEFINE A == {m \in Entries(es2, c) : es2[m].delta.content}
             B == {m \in Entries(es, c) : es[m].delta.content}
  <2>2. SentStandard(es2, c) = {<<m, 0>> : m \in A} /\ SentStandard(es, c) = {<<m, 0>> : m \in B}
    BY DEF SentStandard
  <2>3. A = B \cup IF d.content THEN {n} ELSE {}
    BY <2>1
  <2> HIDE DEF A, B
  <2>4. {<<m, 0>> : m \in A} = {<<m, 0>> : m \in B} \cup IF d.content THEN {<<n, 0>>} ELSE {}
    BY <2>3
  <2> QED
    BY <2>2, <2>4 DEF SentNow
<1>6. \A p \in places : p \in Place /\ p[1] \in DOMAIN es /\ p[2] # 0 /\ Frag(es, p) \in Frags
  BY PlacesOfFrags
<1>7. SameFrags(es, es2, places)
  <2>1. \A p \in places : es2[p[1]] = es[p[1]]
    BY <1>1, <1>6
  <2> QED
    BY <2>1 DEF SameFrags, Frag
<1>8. \A k \in DOMAIN d.tools : Frag(es2, <<n, k>>) = d.tools[k]
  BY <1>2 DEF Frag
<1>9. SentBefore(es2, n, places)
  BY <1>1, <1>6, <1>7 DEF SentBefore, SameFrags
<1>10. StandardBefore(SentStandard(es, c), n)
  <2> SUFFICES ASSUME NEW p \in SentStandard(es, c) PROVE p \in Place /\ p[1] < n /\ p[2] = 0
    BY DEF StandardBefore
  <2>1. PICK m \in Entries(es, c) : p = <<m, 0>>
    BY DEF SentStandard
  <2>2. m \in Nat /\ m < n
    BY <1>1, <1>3, FedTyped
  <2> QED
    BY <2>1, <2>2 DEF Place
<1>11. \A c2 \in ChoiceSet : c2 # c => Agree(es, es2, c2)
  BY <1>1, <1>3 DEF Agree
<1> QED
  BY <1>4, <1>5, <1>7, <1>8, <1>9, <1>10, <1>11 DEF es2, n

(* What the protocol guarantees of the new entry. *)
LEMMA EntryProper ==
    ASSUME fed \in FedEntries, NEW c \in ChoiceSet, NEW d \in Deltas, Protocol(c, d),
           NEW es2, NEW n, SameFrags(fed, es2, FragsOf(fed, c)),
           \A k \in DOMAIN d.tools : Frag(es2, <<n, k>>) = d.tools[k]
    PROVE  /\ Proper(es2, d, n, FragsOf(fed, c))
           /\ ~Finished(fed, c)
           /\ d.finish = "tool_calls" => FragsOf(fed, c) # {} \/ DOMAIN d.tools # {}
<1> DEFINE places == FragsOf(fed, c)
<1>1. /\ Indexes(es2, places) = Indexes(fed, places)
      /\ SyntheticIndex(es2, places) = SyntheticIndex(fed, places)
  BY SameSent
<1>2. /\ ~Finished(fed, c)
      /\ \A k \in DOMAIN d.tools :
          d.tools[k].name = "none" <=>
            d.tools[k].index \in Indexes(fed, places) \cup {f.index : f \in {d.tools[j] : j \in 1..(k - 1)}}
      /\ \A k \in DOMAIN d.tools :
          d.tools[k].name = "synthetic" =>
            SyntheticIndex(fed, places) = {} /\ \A f \in {d.tools[j] : j \in 1..(k - 1)} : f.name # "synthetic"
      /\ d.finish = "tool_calls" => Indexes(fed, places) # {} \/ d.tools # <<>>
  BY DEF Protocol
<1>3. d.tools # <<>> => DOMAIN d.tools # {}
  <2>1. d.tools \in Seq(Frags)
    BY DeltaTyped
  <2>2. ASSUME NEW t \in Seq(Frags), t # <<>> PROVE DOMAIN t # {}
    <3>1. Len(t) \in Nat /\ Len(t) # 0 /\ DOMAIN t = 1..Len(t)
      BY <2>2
    <3>2. 1 \in DOMAIN t
      BY <3>1
    <3> QED
      BY <3>2
  <2> QED
    BY <2>1, <2>2
<1>4. Indexes(fed, places) # {} => places # {}
  BY DEF Indexes
<1> HIDE DEF places
<1>5. Proper(es2, d, n, places)
  BY <1>1, <1>2 DEF Proper
<1> QED
  BY <1>2, <1>3, <1>4, <1>5 DEF places

(* Process: an entry with a finish_reason settles its choice, any other  *)
(* one keeps it at work.                                                 *)
LEMMA EntryWorked ==
    ASSUME TypeOK, NEW c \in ChoiceSet, NEW d \in Deltas, Protocol(c, d), NEW hold, NEW broken,
           Working(out, state[c], c, fed)
    PROVE  LET es2 == Append(fed, [choice |-> c, delta |-> d])
               y == Process(c, d, Len(fed) + 1, hold, broken)
           IN  /\ y \in Z /\ Grown(out, y.out, c)
               /\ ~Finished(es2, c) => Working(y.out, y.s, c, es2)
               /\ Finished(es2, c) => Settled(y.out, c, es2)
<1> DEFINE es2 == Append(fed, [choice |-> c, delta |-> d])
           n == Len(fed) + 1
           places == FragsOf(fed, c)
           places2 == places \cup {<<n, j>> : j \in DOMAIN d.tools}
           std == SentStandard(fed, c)
           std2 == SentNow(std, d, n)
           z0 == [s |-> state[c], out |-> out, conflict |-> conflict, emit |-> <<>>]
           z1 == EmitRole(z0, c, d)
           z2 == EmitReasoning(z1, c, d, n)
           z3 == EmitTools(z2, c, d, n, hold)
           z4 == EmitContent(z3, c, d, n)
           y == EmitFinish(z4, c, d, broken)
<1>1. fed \in FedEntries /\ sideBufferBytes \in Nat /\ out \in Seq(Chunk)
  BY SizeAssumption DEF TypeOK, FedEntries
<1>2. d.content \in BOOLEAN /\ d.tools \in Seq(Frags) /\ d.finish \in {"none", "stop", "tool_calls"}
  BY DeltaTyped
<1>3. /\ es2 \in FedEntries /\ n \in Nat
      /\ es2[n] = [choice |-> c, delta |-> d]
      /\ \A m \in DOMAIN fed : es2[m] = fed[m] /\ m < n
      /\ Entries(es2, c) = Entries(fed, c) \cup {n}
  BY <1>1, EntryRead
<1>4. /\ FragsOf(es2, c) = places2
      /\ SentStandard(es2, c) = std2
      /\ SameFrags(fed, es2, places)
      /\ \A k \in DOMAIN d.tools : Frag(es2, <<n, k>>) = d.tools[k]
      /\ SentBefore(es2, n, places)
      /\ StandardBefore(std, n)
  BY <1>1, SentRead
<1>5. y = Process(c, d, Len(fed) + 1, hold, broken)
  BY DEF Process
<1> HIDE DEF es2, n
<1>6. /\ Proper(es2, d, n, places)
      /\ ~Finished(fed, c)
      /\ d.finish = "tool_calls" => places # {} \/ DOMAIN d.tools # {}
  BY <1>1, <1>4, EntryProper
<1>7. z0 \in Z /\ z0.emit = <<>> /\ z0.out = out /\ z0.s = state[c]
  <2>1. state[c] \in ChoiceStreamState /\ conflict \in BOOLEAN
    BY DEF TypeOK
  <2>2. <<>> \in Seq(ToolPiece)
    OBVIOUS
  <2> QED
    BY <1>1, <2>1, <2>2 DEF Z
<1> HIDE DEF z0, places, std
<1>8. Stage(z0.out, <<>>, z0.s, c, es2, places, std)
  <2>1. Stage(out, <<>>, state[c], c, fed, places, std)
    BY DEF Working, places, std
  <2> QED
    BY <1>4, <1>7, <2>1, StageSame
<1>9. /\ z1 \in Z /\ z1.emit = <<>> /\ Grown(z0.out, z1.out, c)
      /\ Stage(z1.out, <<>>, z1.s, c, es2, places, std)
  BY <1>7, <1>8, RoleWorked
<1> HIDE DEF z1
<1>10. /\ z2 \in Z /\ z2.emit = <<>> /\ Grown(z1.out, z2.out, c)
       /\ Stage(z2.out, <<>>, z2.s, c, es2, places, std)
  BY <1>3, <1>9, ReasoningWorked
<1> HIDE DEF z2
<1>11. /\ z3 \in Z /\ z3.emit = <<>> /\ Grown(z2.out, z3.out, c)
       /\ Stage(z3.out, <<>>, z3.s, c, es2, places2, std)
  BY <1>2, <1>3, <1>4, <1>6, <1>10, ToolsWorked
<1> HIDE DEF z3, places2
<1>12. /\ z4 \in Z /\ z4.emit = <<>> /\ Grown(z3.out, z4.out, c)
       /\ Stage(z4.out, <<>>, z4.s, c, es2, places2, std2)
  <2>1. ContentReady(z3, c, d, n, es2, places2, std)
    BY <1>1, <1>2, <1>3, <1>4, <1>11 DEF ContentReady
  <2>2. LET v == EmitContent(z3, c, d, n)
        IN  /\ v \in Z /\ v.emit = <<>> /\ Grown(z3.out, v.out, c)
            /\ Stage(v.out, <<>>, v.s, c, es2, places2, SentNow(std, d, n))
    BY <2>1, ContentWorked
  <2> QED
    BY <2>2
<1> HIDE DEF z4, std2
<1>13. Grown(out, z4.out, c)
  <2>1. z1.out \in Seq(Chunk) /\ z2.out \in Seq(Chunk) /\ z3.out \in Seq(Chunk) /\ z4.out \in Seq(Chunk)
    BY <1>9, <1>10, <1>11, <1>12, StageTyped
  <2>2. Grown(out, z2.out, c)
    BY <1>1, <1>7, <1>9, <1>10, <2>1, GrownTwice
  <2>3. Grown(out, z3.out, c)
    BY <1>1, <1>11, <2>1, <2>2, GrownTwice
  <2> QED
    BY <1>1, <1>12, <2>1, <2>3, GrownTwice
<1>14. Finished(es2, c) <=> d.finish # "none"
  <2>1. \A m \in Entries(fed, c) : es2[m].delta.finish = "none"
    <3>1. \A m \in Entries(fed, c) : fed[m].delta.finish = "none" /\ m \in DOMAIN fed
      BY <1>6 DEF Finished, Entries
    <3> QED
      BY <1>3, <3>1
  <2>2. es2[n].delta = d
    BY <1>3
  <2> QED
    BY <1>3, <2>1, <2>2 DEF Finished
<1>15. CASE d.finish = "none"
  <2>1. y = z4
    BY <1>15 DEF EmitFinish
  <2>2. Working(y.out, y.s, c, es2)
    BY <1>4, <1>12, <2>1 DEF Working
  <2> QED
    BY <1>5, <1>12, <1>13, <1>14, <1>15, <2>1, <2>2 DEF es2
<1>16. CASE d.finish # "none"
  <2>1. d.finish \in {"stop", "tool_calls"}
    BY <1>2, <1>16
  <2>2. \A p \in places2 : p[2] # 0 /\ Frag(es2, p) \in Frags
    BY <1>3, <1>4, PlacesOfFrags
  <2>3. Standard(std2) = std2
    BY <1>4 DEF SentNow, Standard, StandardBefore, std2
  <2>4. d.finish = "tool_calls" => places2 # {}
    BY <1>6 DEF places2
  <2>5. /\ y \in Z /\ Grown(z4.out, y.out, c)
        /\ Delivered(y.out, c, es2, places2, std2)
        /\ Kept(y.out, c, es2, places2)
        /\ Closed(y.out, c, d.finish)
    <3>1. FinishReady(z4, c, d, es2, places2, std2)
      BY <1>12, <2>1, <2>2, <2>3, <2>4 DEF FinishReady
    <3>2. LET v == EmitFinish(z4, c, d, broken)
          IN  /\ v \in Z /\ Grown(z4.out, v.out, c)
              /\ Delivered(v.out, c, es2, places2, std2)
              /\ Kept(v.out, c, es2, places2)
              /\ Closed(v.out, c, d.finish)
      BY <3>1, FinishWorked
    <3> QED
      BY <3>2
  <2> HIDE DEF y
  <2>6. Settled(y.out, c, es2)
    <3>1. n \in Entries(es2, c) /\ es2[n].delta = d
      BY <1>3
    <3>2. \A m \in Entries(es2, c) : es2[m].delta.finish # "none" => m = n
      <4>1. \A m \in Entries(fed, c) : fed[m].delta.finish = "none" /\ m \in DOMAIN fed
        BY <1>6 DEF Finished, Entries
      <4> QED
        BY <1>3, <4>1
    <3> QED
      BY <1>4, <1>16, <2>5, <3>1, <3>2 DEF Settled
  <2>7. Grown(out, y.out, c)
    BY <1>1, <1>12, <1>13, <2>5, GrownTwice, StageTyped
  <2> QED
    BY <1>5, <1>14, <1>16, <2>5, <2>6, <2>7 DEF es2
<1> QED
  BY <1>15, <1>16

-----------------------------------------------------------------------------
(* The other choices. *)
LEMMA OthersUntouched ==
    ASSUME NEW o \in Seq(Chunk), NEW o2 \in Seq(Chunk), NEW c, NEW c2, c2 # c, Grown(o, o2, c)
    PROVE  /\ \A j \in DOMAIN o2 : o2[j].choice = c2 => j \in DOMAIN o
           /\ \A j \in DOMAIN o : j \in DOMAIN o2 /\ o2[j] = o[j]
           /\ \A kind :
                /\ Chunks(o2, c2, kind) = Chunks(o, c2, kind)
                /\ Pieces(o2, c2, kind) = Pieces(o, c2, kind)
                /\ PiecesOf(o2, c2, kind) = PiecesOf(o, c2, kind)
                /\ Got(o2, c2, kind) = Got(o, c2, kind)
                /\ InOrder(o, c2, kind) => InOrder(o2, c2, kind)
<1>1. /\ DOMAIN o = 1..Len(o) /\ DOMAIN o2 = 1..Len(o2) /\ Len(o) \in Nat /\ Len(o2) \in Nat
  OBVIOUS
<1>2. \A j \in DOMAIN o : j \in DOMAIN o2 /\ o2[j] = o[j]
  BY <1>1 DEF Grown
<1>3. \A j \in DOMAIN o2 : o2[j].choice = c2 => j \in DOMAIN o
  BY <1>1 DEF Grown
<1>4. ASSUME NEW kind
      PROVE  /\ Chunks(o2, c2, kind) = Chunks(o, c2, kind)
             /\ Pieces(o2, c2, kind) = Pieces(o, c2, kind)
             /\ PiecesOf(o2, c2, kind) = PiecesOf(o, c2, kind)
             /\ Got(o2, c2, kind) = Got(o, c2, kind)
             /\ InOrder(o, c2, kind) => InOrder(o2, c2, kind)
  <2>1. Chunks(o2, c2, kind) = Chunks(o, c2, kind)
    BY <1>2, <1>3 DEF Chunks
  <2>2. \A i \in Chunks(o, c2, kind) : o2[i] = o[i]
    BY <1>2 DEF Chunks
  <2>3. Pieces(o2, c2, kind) = Pieces(o, c2, kind)
    BY <2>1, <2>2 DEF Pieces
  <2>4. \A p \in Pieces(o, c2, kind) : Piece(o2, p) = Piece(o, p)
    BY <2>2, PiecesPlaced DEF Piece
  <2>5. PiecesOf(o2, c2, kind) = PiecesOf(o, c2, kind)
    BY <2>3, <2>4 DEF PiecesOf
  <2>6. Got(o2, c2, kind) = Got(o, c2, kind)
    BY <2>3, <2>4 DEF Got
  <2>7. InOrder(o, c2, kind) => InOrder(o2, c2, kind)
    BY <2>3, <2>4 DEF InOrder
  <2> QED
    BY <2>1, <2>3, <2>5, <2>6, <2>7
<1> QED
  BY <1>2, <1>3, <1>4

(* Another choice that is at work stays so. *)
LEMMA OthersWorking ==
    ASSUME NEW o \in Seq(Chunk), NEW o2 \in Seq(Chunk), NEW c, NEW c2, c2 # c, Grown(o, o2, c),
           NEW es \in FedEntries, NEW es2, Agree(es, es2, c2), NEW s, Working(o, s, c2, es)
    PROVE  Working(o2, s, c2, es2)
<1> DEFINE places == FragsOf(es, c2)
           std == SentStandard(es, c2)
<1>1. /\ FragsOf(es2, c2) = places /\ SentStandard(es2, c2) = std
  BY Agreed
<1>2. SameFrags(es, es2, places)
  BY PlacesOfFrags DEF Agree, SameFrags, Frag
<1> HIDE DEF places, std
<1>3. Stage(o, <<>>, s, c2, es2, places, std)
  <2>1. Stage(o, <<>>, s, c2, es, places, std)
    BY DEF Working, places, std
  <2> QED
    BY <1>2, <2>1, StageSame
<1>4. /\ Chunks(o2, c2, "finish") = Chunks(o, c2, "finish")
      /\ Got(o2, c2, "content") = Got(o, c2, "content")
      /\ InOrder(o, c2, "content") => InOrder(o2, c2, "content")
      /\ PiecesOf(o2, c2, "tools") = PiecesOf(o, c2, "tools")
      /\ Got(o2, c2, "tools") = Got(o, c2, "tools")
      /\ InOrder(o, c2, "tools") => InOrder(o2, c2, "tools")
  BY OthersUntouched
<1>5. Content(o2, s, c2, std, SentSynthetic(es2, places))
  BY <1>3, <1>4 DEF Stage, Content
<1>6. Tools(o2, <<>>, s, c2, es2, places)
  BY <1>3, <1>4 DEF Stage, Tools
<1>7. Stage(o2, <<>>, s, c2, es2, places, std)
  BY <1>3, <1>4, <1>5, <1>6 DEF Stage
<1> QED
  BY <1>1, <1>7 DEF Working

(* Another choice that is settled stays so. *)
LEMMA OthersSettled ==
    ASSUME NEW o \in Seq(Chunk), NEW o2 \in Seq(Chunk), NEW c, NEW c2, c2 # c, Grown(o, o2, c),
           NEW es \in FedEntries, NEW es2, Agree(es, es2, c2), Settled(o, c2, es)
    PROVE  Settled(o2, c2, es2)
<1> DEFINE places == FragsOf(es, c2)
           std == SentStandard(es, c2)
<1>1. /\ FragsOf(es2, c2) = places /\ SentStandard(es2, c2) = std
  BY Agreed
<1>2. SameFrags(es, es2, places)
  BY PlacesOfFrags DEF Agree, SameFrags, Frag
<1>3. /\ Delivered(o, c2, es, places, std) /\ Kept(o, c2, es, places)
  BY DEF Settled
<1> HIDE DEF places, std
<1>4. /\ Chunks(o2, c2, "finish") = Chunks(o, c2, "finish")
      /\ Got(o2, c2, "content") = Got(o, c2, "content")
      /\ InOrder(o, c2, "content") => InOrder(o2, c2, "content")
      /\ PiecesOf(o2, c2, "tools") = PiecesOf(o, c2, "tools")
      /\ Pieces(o2, c2, "tools") = Pieces(o, c2, "tools")
      /\ Got(o2, c2, "tools") = Got(o, c2, "tools")
      /\ InOrder(o, c2, "tools") => InOrder(o2, c2, "tools")
  BY OthersUntouched
<1>5. Delivered(o2, c2, es2, places, std)
  <2>1. /\ SyntheticIndex(es2, places) = SyntheticIndex(es, places)
        /\ SentSynthetic(es2, places) = SentSynthetic(es, places)
    BY <1>2, SameSent
  <2> QED
    BY <1>3, <1>4, <2>1 DEF Delivered
<1>6. Kept(o2, c2, es2, places)
  <2>1. Kept(o, c2, es2, places)
    BY <1>2, <1>3, KeptSame
  <2> QED
    BY <1>4, <2>1 DEF Kept
<1>7. ASSUME NEW reason, Closed(o, c2, reason) PROVE Closed(o2, c2, reason)
  <2>1. Chunks(o2, c2, "finish") # {}
    BY <1>4, <1>7 DEF Closed
  <2>2. ASSUME NEW i \in Chunks(o2, c2, "finish")
        PROVE  /\ \A j \in DOMAIN o2 : o2[j].choice = c2 => j <= i
               /\ o2[i].data[1].reason = "tool_calls" <=>
                    reason = "tool_calls" /\ Pieces(o2, c2, "tools") # {}
    <3>1. i \in Chunks(o, c2, "finish") /\ i \in DOMAIN o
      BY <1>4 DEF Chunks
    <3>2. o2[i] = o[i]
      BY <3>1, OthersUntouched
    <3>3. \A j \in DOMAIN o2 : o2[j].choice = c2 => j \in DOMAIN o /\ o[j].choice = c2
      <4>1. /\ \A j \in DOMAIN o2 : o2[j].choice = c2 => j \in DOMAIN o
            /\ \A j \in DOMAIN o : j \in DOMAIN o2 /\ o2[j] = o[j]
        BY OthersUntouched
      <4> QED
        BY <4>1
    <3>4. /\ \A j \in DOMAIN o : o[j].choice = c2 => j <= i
          /\ o[i].data[1].reason = "tool_calls" <=>
                reason = "tool_calls" /\ Pieces(o, c2, "tools") # {}
      BY <1>7, <3>1 DEF Closed
    <3> QED
      BY <1>4, <3>2, <3>3, <3>4
  <2> QED
    BY <2>1, <2>2 DEF Closed
<1>8. PICK n \in Entries(es, c2) :
        /\ es[n].delta.finish # "none"
        /\ \A m \in Entries(es, c2) : es[m].delta.finish # "none" => m = n
        /\ Closed(o, c2, es[n].delta.finish)
  BY DEF Settled
<1>9. /\ n \in Entries(es2, c2) /\ es2[n].delta.finish # "none"
      /\ \A m \in Entries(es2, c2) : es2[m].delta.finish # "none" => m = n
      /\ Closed(o2, c2, es2[n].delta.finish)
  BY <1>7, <1>8 DEF Agree
<1> QED
  BY <1>1, <1>5, <1>6, <1>9 DEF Settled

-----------------------------------------------------------------------------
(* Nothing was sent and nothing written. *)
LEMMA IInvInitially == Init => IInv
<1> SUFFICES ASSUME Init PROVE IInv
  OBVIOUS
<1>1. TypeOK
  <2>1. /\ fed \in Seq([choice : ChoiceSet, delta : Deltas]) /\ out \in Seq(Chunk)
        /\ <<>> \in Seq(TextPiece)
    BY DEF Init
  <2>2. NewState \in ChoiceStreamState
    BY <2>1 DEF NewState, ChoiceStreamState
  <2> QED
    BY <2>1, <2>2 DEF Init, TypeOK
<1>2. out = <<>> /\ fed = <<>> /\ DOMAIN out = {}
  BY DEF Init
<1>3. ASSUME NEW c \in ChoiceSet PROVE Working(out, state[c], c, fed) /\ ~Finished(fed, c)
  <2>1. Entries(fed, c) = {}
    BY <1>2 DEF Entries
  <2>2. FragsOf(fed, c) = {} /\ SentStandard(fed, c) = {} /\ ~Finished(fed, c)
    BY <2>1 DEF FragsOf, SentStandard, Finished
  <2>3. \A kind : Chunks(out, c, kind) = {}
    BY <1>2 DEF Chunks
  <2>4. \A kind : Pieces(out, c, kind) = {}
    BY <2>3 DEF Pieces
  <2>5. \A kind : Got(out, c, kind) = {} /\ PiecesOf(out, c, kind) = {} /\ InOrder(out, c, kind)
    BY <2>4 DEF Got, PiecesOf, InOrder
  <2>6. /\ SyntheticIndex(fed, {}) = {} /\ SentSynthetic(fed, {}) = {} /\ SentReal(fed, {}) = {}
    BY DEF SyntheticIndex, Indexes, SentSynthetic, SentReal
  <2> DEFINE s == state[c]
  <2>7. /\ s.hasSynthetic = FALSE /\ s.syntheticToolIndex = NoIndex /\ s.sideBuffer = <<>>
        /\ s.held = <<>> /\ s.sideBufferEmitted = FALSE /\ s.contentEmitted = FALSE
        /\ \A i \in ToolIndexes : s.realToolsSeen[i] = NoIndex
        /\ s.nextRealIndex = 0
    BY DEF Init, NewState
  <2> HIDE DEF s
  <2>8. Standard({}) = {} /\ Synthetic({}) = {}
    BY SourcesApart
  <2>9. Content(out, s, c, {}, {})
    BY <2>5, <2>7, <2>8, NoPlaces DEF Content, AllBefore, FirstOf
  <2>10. Numbered(fed, s, {})
    BY <2>7 DEF Numbered
  <2>11. Tools(out, <<>>, s, c, fed, {})
    <3>1. PiecesOf(out, c, "tools") \cup {(<<>>)[j] : j \in DOMAIN <<>>} = {}
      BY <2>5
    <3> QED
      BY <2>5, <2>6, <2>10, <3>1, NoPlaces DEF Tools, AllBefore
  <2>12. Stage(out, <<>>, s, c, fed, {}, {})
    BY <2>3, <2>6, <2>7, <2>9, <2>11 DEF Stage, Synth
  <2> QED
    BY <2>2, <2>12 DEF Working, s
<1> QED
  BY <1>1, <1>2, <1>3 DEF IInv

(* What is written for another choice, or [DONE], keeps every choice. *)
LEMMA ChoicesKept ==
    ASSUME IInv, NEW c, NEW o2 \in Seq(Chunk), Grown(out, o2, c), NEW es2, NEW c2 \in ChoiceSet,
           c2 # c, Agree(fed, es2, c2)
    PROVE  /\ ~Finished(es2, c2) => Working(o2, state[c2], c2, es2)
           /\ Finished(es2, c2) => Settled(o2, c2, es2)
<1>1. out \in Seq(Chunk) /\ fed \in FedEntries
  BY DEF IInv, TypeOK, FedEntries
<1>2. Finished(es2, c2) <=> Finished(fed, c2)
  BY Agreed
<1>3. CASE Finished(fed, c2)
  <2>1. Settled(out, c2, fed)
    BY <1>3 DEF IInv
  <2> QED
    BY <1>1, <1>2, <1>3, <2>1, OthersSettled
<1>4. CASE ~Finished(fed, c2)
  <2>1. Working(out, state[c2], c2, fed)
    BY <1>4 DEF IInv
  <2> QED
    BY <1>1, <1>2, <1>4, <2>1, OthersWorking
<1> QED
  BY <1>3, <1>4

(* One entry. *)
LEMMA EntryKeeps ==
    ASSUME IInv, NEW c \in ChoiceSet, NEW d \in Deltas, Entry(c, d)
    PROVE  IInv' /\ Grown(out, out', c)
<1> DEFINE es2 == Append(fed, [choice |-> c, delta |-> d])
<1>1. /\ phase = "reading" /\ Protocol(c, d) /\ fed' = es2
      /\ sideBufferBytes' = sideBufferBytes /\ phase' = phase
  BY DEF Entry
<1>2. PICK hold, broken :
        LET z == Process(c, d, Len(fed) + 1, hold, broken)
        IN  /\ state' = [state EXCEPT ![c] = z.s]
            /\ out' = z.out
            /\ conflict' = z.conflict
  BY DEF Entry
<1> DEFINE z == Process(c, d, Len(fed) + 1, hold, broken)
<1>3. TypeOK /\ fed \in FedEntries /\ out \in Seq(Chunk) /\ state \in [ChoiceSet -> ChoiceStreamState]
  BY DEF IInv, TypeOK, FedEntries
<1>4. Working(out, state[c], c, fed)
  <2>1. ~Finished(fed, c)
    BY <1>1 DEF Protocol
  <2> QED
    BY <2>1 DEF IInv
<1>5. /\ z \in Z /\ Grown(out, z.out, c)
      /\ ~Finished(es2, c) => Working(z.out, z.s, c, es2)
      /\ Finished(es2, c) => Settled(z.out, c, es2)
  BY <1>1, <1>3, <1>4, EntryWorked
<1>6. es2 \in FedEntries /\ \A c2 \in ChoiceSet : c2 # c => Agree(fed, es2, c2)
  BY <1>3, EntryRead, SentRead
<1>7. state' = [state EXCEPT ![c] = z.s] /\ out' = z.out /\ conflict' = z.conflict
  BY <1>2
<1> HIDE DEF z, es2
<1>8. z.s \in ChoiceStreamState /\ z.out \in Seq(Chunk) /\ z.conflict \in BOOLEAN
  BY <1>5, StageTyped
<1>9. TypeOK'
  <2>1. fed' \in Seq([choice : ChoiceSet, delta : Deltas])
    BY <1>1, <1>6 DEF FedEntries
  <2>2. state' \in [ChoiceSet -> ChoiceStreamState]
    BY <1>3, <1>7, <1>8
  <2> QED
    BY <1>1, <1>3, <1>7, <1>8, <2>1, <2>2 DEF TypeOK
<1>10. \A i \in DOMAIN out' : out'[i].choice # NoIndex
  <2>1. DOMAIN out = 1..Len(out) /\ DOMAIN out' = 1..Len(out') /\ Len(out) \in Nat /\ Len(out') \in Nat
    BY <1>3, <1>7, <1>8
  <2>2. \A i \in DOMAIN out : out[i].choice # NoIndex
    BY <1>1 DEF IInv
  <2>3. c # NoIndex
    BY IndexAssumption
  <2> QED
    BY <1>5, <1>7, <2>1, <2>2, <2>3 DEF Grown
<1>11. ASSUME NEW c2 \in ChoiceSet
       PROVE  /\ ~Finished(fed', c2) => Working(out', state'[c2], c2, fed')
              /\ Finished(fed', c2) => Settled(out', c2, fed')
  <2>1. CASE c2 = c
    <3>1. state'[c] = z.s
      BY <1>3, <1>7
    <3> QED
      BY <1>1, <1>5, <1>7, <2>1, <3>1
  <2>2. CASE c2 # c
    <3>1. state'[c2] = state[c2]
      BY <1>3, <1>7, <2>2
    <3>2. /\ ~Finished(es2, c2) => Working(z.out, state[c2], c2, es2)
          /\ Finished(es2, c2) => Settled(z.out, c2, es2)
      BY <1>5, <1>6, <1>8, <2>2, ChoicesKept
    <3> QED
      BY <1>1, <1>7, <3>1, <3>2
  <2> QED
    BY <2>1, <2>2
<1>12. \A c2 \in ChoiceSet :
          /\ ~Finished(fed, c2)' => Working(out, state[c2], c2, fed)'
          /\ Finished(fed, c2)' => Settled(out, c2, fed)'
  <2> SUFFICES ASSUME NEW c2 \in ChoiceSet
               PROVE  /\ ~Finished(fed, c2)' => Working(out, state[c2], c2, fed)'
                      /\ Finished(fed, c2)' => Settled(out, c2, fed)'
    OBVIOUS
  <2>1. ASSUME Working(out', state'[c2], c2, fed') PROVE Working(out, state[c2], c2, fed)'
    BY <1>1, <2>1 DEF Working, Stage, Content
  <2>2. ASSUME Settled(out', c2, fed') PROVE Settled(out, c2, fed)'
    BY <1>1, <2>2 DEF Settled, Delivered
  <2> QED
    BY <1>11, <2>1, <2>2
<1> QED
  BY <1>5, <1>7, <1>9, <1>10, <1>12 DEF IInv

(* [DONE] concerns no choice. *)
LEMMA EndKeeps ==
    ASSUME IInv, End
    PROVE  IInv' /\ \E x \in Chunk : out' = Append(out, x)
<1> DEFINE x == Line(NoIndex, "done", <<>>)
<1>1. /\ phase' = "done" /\ fed' = fed /\ state' = state /\ sideBufferBytes' = sideBufferBytes
      /\ conflict' = conflict /\ out' = Append(out, x)
  BY DEF End, Line
<1>2. x \in Chunk /\ x.choice = NoIndex
  BY LinesAreChunks DEF Line
<1> HIDE DEF x
<1>3. TypeOK /\ out \in Seq(Chunk)
  BY DEF IInv, TypeOK
<1>4. out' \in Seq(Chunk) /\ Grown(out, out', NoIndex)
  BY <1>1, <1>2, <1>3, GrownByOne
<1>5. TypeOK'
  BY <1>1, <1>3, <1>4 DEF TypeOK
<1>6. ASSUME NEW c2 \in ChoiceSet
      PROVE  /\ ~Finished(fed, c2)' => Working(out, state[c2], c2, fed)'
             /\ Finished(fed, c2)' => Settled(out, c2, fed)'
  <2>1. c2 # NoIndex
    BY IndexAssumption
  <2>2. Agree(fed, fed, c2)
    BY DEF Agree
  <2>3. /\ ~Finished(fed, c2) => Working(out', state[c2], c2, fed)
        /\ Finished(fed, c2) => Settled(out', c2, fed)
    <3> DEFINE o2 == out'
    <3>1. o2 \in Seq(Chunk) /\ Grown(out, o2, NoIndex)
      BY <1>4
    <3> HIDE DEF o2
    <3>2. /\ ~Finished(fed, c2) => Working(o2, state[c2], c2, fed)
          /\ Finished(fed, c2) => Settled(o2, c2, fed)
      BY <2>1, <2>2, <3>1, ChoicesKept
    <3> QED
      BY <3>2 DEF o2
  <2>4. Finished(fed, c2)' <=> Finished(fed, c2)
    BY <1>1 DEF Finished, Entries
  <2>5. ASSUME Working(out', state[c2], c2, fed) PROVE Working(out, state[c2], c2, fed)'
    BY <1>1, <2>5 DEF Working, Stage, Content
  <2>6. ASSUME Settled(out', c2, fed) PROVE Settled(out, c2, fed)'
    BY <1>1, <2>6 DEF Settled, Delivered
  <2> QED
    BY <2>3, <2>4, <2>5, <2>6
<1>7. phase' # "reading"
  BY <1>1
<1> QED
  BY <1>1, <1>2, <1>5, <1>6, <1>7 DEF IInv

(* A read error, and stuttering. *)
LEMMA NothingChanged ==
    ASSUME IInv, UNCHANGED <<sideBufferBytes, fed, state, out, conflict>>,
           phase' \in {"reading", "done", "failed"}, phase' = "reading" => phase = "reading"
    PROVE  IInv'
<1>1. TypeOK'
  BY DEF IInv, TypeOK
<1>2. ASSUME NEW c2 \in ChoiceSet
      PROVE  /\ ~Finished(fed, c2)' => Working(out, state[c2], c2, fed)'
             /\ Finished(fed, c2)' => Settled(out, c2, fed)'
  <2>1. /\ ~Finished(fed, c2) => Working(out, state[c2], c2, fed)
        /\ Finished(fed, c2) => Settled(out, c2, fed)
    BY DEF IInv
  <2>2. Finished(fed, c2)' <=> Finished(fed, c2)
    BY DEF Finished, Entries
  <2>3. ASSUME Working(out, state[c2], c2, fed) PROVE Working(out, state[c2], c2, fed)'
    BY <2>3 DEF Working, Stage, Content
  <2>4. ASSUME Settled(out, c2, fed) PROVE Settled(out, c2, fed)'
    BY <2>4 DEF Settled, Delivered
  <2> QED
    BY <2>1, <2>2, <2>3, <2>4
<1>3. phase' = "reading" => \A i \in DOMAIN out' : out'[i].choice # NoIndex
  BY DEF IInv
<1> QED
  BY <1>1, <1>2, <1>3 DEF IInv

(* Every step of the stream keeps the invariant. *)
LEMMA IInvKept == IInv /\ [Next]_vars => IInv'
<1> SUFFICES ASSUME IInv, [Next]_vars PROVE IInv'
  OBVIOUS
<1>1. CASE End
  BY <1>1, EndKeeps
<1>2. CASE ReadError
  BY <1>2, NothingChanged DEF ReadError
<1>3. ASSUME NEW c \in ChoiceSet, NEW d \in Deltas, Entry(c, d) PROVE IInv'
  BY <1>3, EntryKeeps
<1>4. CASE UNCHANGED vars
  <2>1. phase \in {"reading", "done", "failed"}
    BY DEF IInv, TypeOK
  <2> QED
    BY <1>4, <2>1, NothingChanged DEF vars
<1> QED
  BY <1>1, <1>2, <1>3, <1>4 DEF Next

(* The inductive invariant holds in every reachable state of every       *)
(* stream (StreamTransformer.Transform).                                 *)
THEOREM Invariant == Spec => []IInv
BY IInvInitially, IInvKept, PTL DEF Spec

-----------------------------------------------------------------------------
(* The states of the choices and the chunks written have their types:    *)
(* the numbers of real calls are natural numbers, every chunk is one the *)
(* client knows.                                                         *)
THEOREM TypeCorrect == Spec => []TypeOK
<1>1. IInv => TypeOK
  BY DEF IInv
<1> QED
  BY <1>1, Invariant, PTL

(* Standard content and the synthetic answer are both delivered in one   *)
(* choice only if as much standard content as fills                      *)
(* STREAM_SIDE_BUFFER_BYTES came before the call.                        *)
THEOREM BufferedNoConcatenationHolds == Spec => []BufferedNoConcatenation
<1>1. ASSUME IInv PROVE BufferedNoConcatenation
  <2> SUFFICES ASSUME NEW c \in ChoiceSet,
                      Standard(Got(out, c, "content")) # {}, Synthetic(Got(out, c, "content")) # {}
               PROVE  Cardinality(Standard(Got(out, c, "content"))) >= sideBufferBytes
    BY DEF BufferedNoConcatenation
  <2>1. CASE Finished(fed, c)
    BY <1>1, <2>1 DEF IInv, Settled, Delivered
  <2>2. CASE ~Finished(fed, c)
    BY <1>1, <2>2 DEF IInv, Working, Stage, Content
  <2> QED
    BY <2>1, <2>2
<1> QED
  BY <1>1, Invariant, PTL

(* The side buffer and the decoder lose, double and reorder nothing, at  *)
(* any point of any stream; a finished choice is complete.               *)
THEOREM ContentInOrderHolds == Spec => []ContentInOrder
<1>1. ASSUME IInv PROVE ContentInOrder
  <2> SUFFICES ASSUME NEW c \in ChoiceSet
               PROVE  /\ InOrder(out, c, "content")
                      /\ FirstOf(Standard(Got(out, c, "content")), SentStandard(fed, c))
                      /\ FirstOf(Synthetic(Got(out, c, "content")), SentSynthetic(fed, FragsOf(fed, c)))
                      /\ Finished(fed, c) =>
                            /\ SyntheticIndex(fed, FragsOf(fed, c)) = {}
                                    => Got(out, c, "content") = SentStandard(fed, c)
                            /\ Synthetic(Got(out, c, "content"))
                                    \in {{}, SentSynthetic(fed, FragsOf(fed, c))}
    BY DEF ContentInOrder
  <2> DEFINE got == Got(out, c, "content")
             syn == SentSynthetic(fed, FragsOf(fed, c))
  <2>1. CASE Finished(fed, c)
    <3>1. Delivered(out, c, fed, FragsOf(fed, c), SentStandard(fed, c))
      BY <1>1, <2>1 DEF IInv, Settled
    <3>2. FirstOf(Synthetic(got), syn)
      BY <3>1 DEF Delivered, FirstOf
    <3> QED
      BY <3>1, <3>2 DEF Delivered
  <2>2. CASE ~Finished(fed, c)
    <3>1. Content(out, state[c], c, SentStandard(fed, c), syn)
      BY <1>1, <2>2 DEF IInv, Working, Stage
    <3>2. syn \subseteq Place
      <4>1. fed \in FedEntries
        BY <1>1 DEF IInv, TypeOK, FedEntries
      <4> QED
        BY <4>1, PlacesOfFrags DEF SentSynthetic
    <3>3. /\ syn = Synthetic(got) \cup Places(state[c].held)
          /\ AllBefore(Synthetic(got), Places(state[c].held))
      BY <3>1 DEF Content
    <3> HIDE DEF syn, got
    <3>4. FirstOf(Synthetic(got), syn)
      BY <3>2, <3>3, BeforeIsAnOrder DEF FirstOf, AllBefore
    <3> QED
      BY <2>2, <3>1, <3>4 DEF Content, syn, got
  <2> QED
    BY <2>1, <2>2
<1> QED
  BY <1>1, Invariant, PTL

(* Every fragment of every real call is delivered in the order sent,     *)
(* none of the synthetic call, and the calls are numbered without a gap. *)
THEOREM RealToolsPreservedHolds == Spec => []RealToolsPreserved
<1>1. ASSUME IInv PROVE RealToolsPreserved
  <2>1. ASSUME NEW c \in ChoiceSet PROVE Kept(out, c, fed, FragsOf(fed, c))
    <3>1. CASE Finished(fed, c)
      BY <1>1, <3>1 DEF IInv, Settled
    <3>2. CASE ~Finished(fed, c)
      <4>1. fed \in FedEntries
        BY <1>1 DEF IInv, TypeOK, FedEntries
      <4>2. Tools(out, <<>>, state[c], c, fed, FragsOf(fed, c))
        BY <1>1, <3>2 DEF IInv, Working, Stage
      <4>3. \A p \in FragsOf(fed, c) : Frag(fed, p) \in Frags
        BY <4>1, PlacesOfFrags
      <4> QED
        BY <4>2, <4>3, CallsSeen
    <3> QED
      BY <3>1, <3>2
  <2> QED
    BY <2>1 DEF RealToolsPreserved, Kept, PiecesOf
<1> QED
  BY <1>1, Invariant, PTL

(* A finish chunk is the last of its choice, and says tool_calls exactly *)
(* when the upstream did and there is a real call to run.                *)
THEOREM FinishTruthfulHolds == Spec => []FinishTruthful
<1>1. ASSUME IInv PROVE FinishTruthful
  <2> SUFFICES ASSUME NEW c \in ChoiceSet
               PROVE  /\ Finished(fed, c) => Chunks(out, c, "finish") # {}
                      /\ \A i \in Chunks(out, c, "finish") :
                            /\ \A j \in DOMAIN out : out[j].choice = c => j <= i
                            /\ out[i].data[1].reason = "tool_calls" <=>
                                /\ \E n \in Entries(fed, c) : fed[n].delta.finish = "tool_calls"
                                /\ Pieces(out, c, "tools") # {}
    BY DEF FinishTruthful
  <2>1. CASE Finished(fed, c)
    <3>1. PICK n \in Entries(fed, c) :
            /\ fed[n].delta.finish # "none"
            /\ \A m \in Entries(fed, c) : fed[m].delta.finish # "none" => m = n
            /\ Closed(out, c, fed[n].delta.finish)
      BY <1>1, <2>1 DEF IInv, Settled
    <3>2. (\E m \in Entries(fed, c) : fed[m].delta.finish = "tool_calls")
            <=> fed[n].delta.finish = "tool_calls"
      BY <3>1
    <3> QED
      BY <3>1, <3>2 DEF Closed
  <2>2. CASE ~Finished(fed, c)
    BY <1>1, <2>2 DEF IInv, Working, Stage
  <2> QED
    BY <2>1, <2>2
<1> QED
  BY <1>1, Invariant, PTL
=============================================================================
