-------------------------- MODULE StreamTransform --------------------------
(***************************************************************************)
(* The streaming translation of an upstream answer:                        *)
(* internal/synthetic/stream.go, StreamTransformer.Transform.              *)
(*                                                                         *)
(* The upstream sends chunks; each entry of a chunk's choices is one       *)
(* action here, as the loop treats entries one after another.  A text is a *)
(* sequence of pieces, and a piece knows the place it came from: <<n, 0>>  *)
(* is the content of the n-th entry of fed, <<n, k>> its k-th fragment of  *)
(* a tool call, so that loss, repetition and reordering show.  The side    *)
(* buffer's size is counted in pieces.  Ids, models and usage are left     *)
(* out; blank, comment and unparseable lines change nothing.               *)
(***************************************************************************)
EXTENDS Integers, Sequences, FiniteSets, SequencesExt

CONSTANTS
    ChoiceSet,        \* indexes of the choices
    ToolIndexes,      \* indexes of the tool calls
    NoIndex,          \* -1: no synthetic tool call seen
    Deltas,           \* the choice entries the upstream may send
    SideBufferSizes,  \* values of STREAM_SIDE_BUFFER_BYTES to explore
    MaxEntries        \* bound: entries of a stream

ASSUME IndexAssumption == NoIndex \notin ChoiceSet \cup ToolIndexes \cup Nat
ASSUME SizeAssumption == SideBufferSizes \subseteq Nat /\ MaxEntries \in Nat

Frags == [index : ToolIndexes, name : {"synthetic", "real", "none"}, args : BOOLEAN]

ASSUME DeltasAssumption ==
    Deltas \subseteq [role : BOOLEAN, reasoning : BOOLEAN, tools : Seq(Frags),
                      content : BOOLEAN, finish : {"none", "stop", "tool_calls"}]

VARIABLES
    sideBufferBytes, \* the transformer's field
    fed,       \* the entries read so far
    state,     \* states: the ChoiceStreamState of each choice
    out,       \* the chunks written to the client
    conflict,  \* stats.ContentConflict
    phase      \* "reading", "done" ([DONE] written), "failed" (returned an error)

Place == Nat \X Nat

TextPiece == [at : Place]

(* A fragment as it is written to the client: under its new index.         *)
ToolPiece ==
    [at : Place, frag : [index : Nat, name : {"synthetic", "real", "none"}, args : BOOLEAN]]

Chunk == [choice : ChoiceSet \cup {NoIndex},
          kind : {"role", "reasoning", "tools", "content", "finish", "done"},
          data : Seq(TextPiece \cup ToolPiece \cup [reason : {"stop", "tool_calls"}])]

ChoiceStreamState ==
    [hasSynthetic : BOOLEAN,
     syntheticToolIndex : ToolIndexes \cup {NoIndex},
     sideBuffer : Seq(TextPiece),
     sideBufferEmitted : BOOLEAN,
     realToolsSeen : [ToolIndexes -> Nat \cup {NoIndex}],
     nextRealIndex : Nat,
     roleEmitted : BOOLEAN,
     held : Seq(TextPiece),
     contentEmitted : BOOLEAN]

TypeOK ==
    /\ sideBufferBytes \in SideBufferSizes
    /\ fed \in Seq([choice : ChoiceSet, delta : Deltas])
    /\ state \in [ChoiceSet -> ChoiceStreamState]
    /\ out \in Seq(Chunk)
    /\ conflict \in BOOLEAN
    /\ phase \in {"reading", "done", "failed"}

vars == <<sideBufferBytes, fed, state, out, conflict, phase>>

NewState == [hasSynthetic |-> FALSE,
             syntheticToolIndex |-> NoIndex,
             sideBuffer |-> <<>>,
             sideBufferEmitted |-> FALSE,
             realToolsSeen |-> [i \in ToolIndexes |-> NoIndex],
             nextRealIndex |-> 0,
             roleEmitted |-> FALSE,
             held |-> <<>>,             \* decoder: fed, nothing delivered of it yet
             contentEmitted |-> FALSE]  \* decoder.ContentEmitted

Init ==
    /\ sideBufferBytes \in SideBufferSizes
    /\ fed = <<>>
    /\ state = [c \in ChoiceSet |-> NewState]
    /\ out = <<>>
    /\ conflict = FALSE
    /\ phase = "reading"

-----------------------------------------------------------------------------
(* What the upstream sends, by the streaming protocol of chat completions: *)
(* the first fragment of a tool call carries its name, the later ones do   *)
(* not; one finish_reason ends a choice; tool_calls means there were some. *)
(* The model calls the transport tool at most once, as it is told to.      *)

(* Of the entries es, those of a choice, and their tool calls' fragments.  *)
Entries(es, c) == {n \in DOMAIN es : es[n].choice = c}

FragsOf(es, c) == UNION {{n} \X DOMAIN es[n].delta.tools : n \in Entries(es, c)}

Frag(es, p) == es[p[1]].delta.tools[p[2]]

Indexes(es, places) == {Frag(es, p).index : p \in places}

SyntheticIndex(es, places) == Indexes(es, {p \in places : Frag(es, p).name = "synthetic"})

Finished(es, c) == \E n \in Entries(es, c) : es[n].delta.finish # "none"

Protocol(c, d) ==
    LET known == Indexes(fed, FragsOf(fed, c))
        synthetic == SyntheticIndex(fed, FragsOf(fed, c))
        before(k) == {d.tools[j] : j \in 1..(k - 1)}
    IN  /\ ~Finished(fed, c)
        /\ \A k \in DOMAIN d.tools :
            d.tools[k].name = "none" <=>
                d.tools[k].index \in known \cup {f.index : f \in before(k)}
        /\ \A k \in DOMAIN d.tools :
            d.tools[k].name = "synthetic" =>
                synthetic = {} /\ \A f \in before(k) : f.name # "synthetic"
        /\ d.finish = "tool_calls" => known # {} \/ d.tools # <<>>

-----------------------------------------------------------------------------
(* One entry is worked off by stages; each maps a record of the choice's   *)
(* state s, the chunks written and the conflict flag to the next.          *)

Write(z, c, kind, data) ==
    [z EXCEPT !.out = Append(@, [choice |-> c, kind |-> kind, data |-> data])]

Text(p) == [at |-> p]

EmitRole(z, c, d) ==
    IF d.role /\ ~z.s.roleEmitted
    THEN [Write(z, c, "role", <<>>) EXCEPT !.s.roleEmitted = TRUE]
    ELSE z

EmitReasoning(z, c, d, n) == IF d.reasoning THEN Write(z, c, "reasoning", <<Text(<<n, 0>>)>>) ELSE z

(* decoder.Feed: it delivers what it holds with the new fragment, or holds *)
(* that too, as within the key of the object or an escape sequence.        *)
Feed(z, c, p, hold) ==
    LET held == Append(z.s.held, Text(p))
    IN  IF hold THEN [z EXCEPT !.s.held = held]
        ELSE [Write(z, c, "content", held) EXCEPT !.s.held = <<>>, !.s.contentEmitted = TRUE]

(* A fragment of the synthetic call: what is in the side buffer is dropped. *)
IsSynthetic(s, f) == s.syntheticToolIndex = f.index \/ f.name = "synthetic"

SyntheticFrag(z, c, f, p, hold) ==
    LET z1 == [z EXCEPT !.s.hasSynthetic = TRUE,
                        !.s.syntheticToolIndex = f.index,
                        !.s.sideBuffer = IF z.s.sideBufferEmitted THEN @ ELSE <<>>,
                        !.conflict = @ \/ z.s.sideBuffer # <<>> \/ z.s.sideBufferEmitted]
    IN  IF f.args THEN Feed(z1, c, p, hold) ELSE z1

(* Mutant: the upstream's index is kept. *)
RealFragSame(z, f, p) ==
    [z EXCEPT !.s.realToolsSeen[f.index] = f.index, !.emit = Append(@, [at |-> p, frag |-> f])]

(* A fragment of a real call: it gets the next free index on its first one. *)
RealFrag(z, f, p) ==
    LET new == z.s.realToolsSeen[f.index] = NoIndex
        index == IF new THEN z.s.nextRealIndex ELSE z.s.realToolsSeen[f.index]
    IN  [z EXCEPT !.s.realToolsSeen[f.index] = index,
                  !.s.nextRealIndex = IF new THEN @ + 1 ELSE @,
                  !.emit = Append(@, [at |-> p, frag |-> [f EXCEPT !.index = index]])]

WorkFrag(z, c, f, p, hold) ==
    IF IsSynthetic(z.s, f) THEN SyntheticFrag(z, c, f, p, hold) ELSE RealFrag(z, f, p)

(* The loop over an entry's fragments: after k of them.                    *)
WorkedTools(z, c, d, n, hold) ==
    LET worked[k \in 0..Len(d.tools)] ==
            IF k = 0 THEN z ELSE WorkFrag(worked[k - 1], c, d.tools[k], <<n, k>>, k \in hold)
    IN  worked

(* The real fragments of an entry go out in one chunk, after the loop.     *)
EmitTools(z, c, d, n, hold) ==
    LET z1 == WorkedTools(z, c, d, n, hold)[Len(d.tools)]
    IN  IF z1.emit = <<>> THEN z1 ELSE [Write(z1, c, "tools", z1.emit) EXCEPT !.emit = <<>>]

(* Mutant: the buffer is flushed one fragment early. *)
EmitContentEarly(z, c, d, n) ==
    LET text == Append(z.s.sideBuffer, Text(<<n, 0>>))
    IN  CASE ~d.content -> z
          [] d.content /\ z.s.hasSynthetic -> [z EXCEPT !.conflict = TRUE]
          [] d.content /\ ~z.s.hasSynthetic ->
                [Write(z, c, "content", text) EXCEPT !.s.sideBuffer = <<>>,
                                                     !.s.sideBufferEmitted = TRUE]

(* Mutant: the buffer is not reset when it is flushed. *)
EmitContentAgain(z, c, d, n) ==
    LET text == Append(z.s.sideBuffer, Text(<<n, 0>>))
    IN  CASE ~d.content -> z
          [] d.content /\ z.s.hasSynthetic -> [z EXCEPT !.conflict = TRUE]
          [] d.content /\ ~z.s.hasSynthetic ->
                IF z.s.sideBufferEmitted \/ Len(text) >= sideBufferBytes
                THEN [Write(z, c, "content", text) EXCEPT !.s.sideBuffer = text,
                                                          !.s.sideBufferEmitted = TRUE]
                ELSE [z EXCEPT !.s.sideBuffer = text]

EmitContent(z, c, d, n) ==
    LET text == Append(z.s.sideBuffer, Text(<<n, 0>>))
        flush == [Write(z, c, "content", text) EXCEPT !.s.sideBuffer = <<>>,
                                                      !.s.sideBufferEmitted = TRUE]
    IN  CASE ~d.content -> z
          [] d.content /\ z.s.hasSynthetic -> [z EXCEPT !.conflict = TRUE]
          [] d.content /\ ~z.s.hasSynthetic ->
                IF \/ sideBufferBytes = 0
                   \/ z.s.sideBufferEmitted
                   \/ Len(text) >= sideBufferBytes
                THEN flush
                ELSE [z EXCEPT !.s.sideBuffer = text]

(* decoder.Finish: the rest; when nothing was delivered before, the result *)
(* of repairing all that was fed, or nothing if it cannot be repaired.     *)
DecoderRest(z, c, broken) ==
    IF z.s.held = <<>> \/ (broken /\ ~z.s.contentEmitted) THEN z
    ELSE Write([z EXCEPT !.s.held = IF z.s.contentEmitted THEN <<>> ELSE @],
               c, "content", z.s.held)

FlushSideBuffer(z, c) ==
    IF z.s.sideBuffer = <<>> THEN z
    ELSE [Write(z, c, "content", z.s.sideBuffer) EXCEPT !.s.sideBuffer = <<>>,
                                                        !.s.sideBufferEmitted = TRUE]

NoRealTools(s) == \A i \in ToolIndexes : s.realToolsSeen[i] = NoIndex

(* Mutant: the upstream's reason is passed on. *)
FinishReasonSame(s, reason) == reason

FinishReason(s, reason) ==
    IF s.hasSynthetic /\ reason = "tool_calls" /\ NoRealTools(s) THEN "stop" ELSE reason

EmitFinish(z, c, d, broken) ==
    IF d.finish = "none" THEN z
    ELSE LET z1 == IF z.s.hasSynthetic THEN DecoderRest(z, c, broken) ELSE FlushSideBuffer(z, c)
         IN  Write(z1, c, "finish", <<[reason |-> FinishReason(z.s, d.finish)]>>)

Process(c, d, n, hold, broken) ==
    LET z0 == [s |-> state[c], out |-> out, conflict |-> conflict, emit |-> <<>>]
        z1 == EmitReasoning(EmitRole(z0, c, d), c, d, n)
        z2 == EmitTools(z1, c, d, n, hold)
    IN  EmitFinish(EmitContent(z2, c, d, n), c, d, broken)

Entry(c, d) ==
    /\ phase = "reading" /\ Len(fed) < MaxEntries
    /\ Protocol(c, d)
    /\ fed' = Append(fed, [choice |-> c, delta |-> d])
    /\ \E hold \in SUBSET (DOMAIN d.tools), broken \in BOOLEAN :
        LET z == Process(c, d, Len(fed) + 1, hold, broken)
        IN  /\ state' = [state EXCEPT ![c] = z.s]
            /\ out' = z.out
            /\ conflict' = z.conflict
    /\ UNCHANGED <<sideBufferBytes, phase>>

(* [DONE], or the upstream simply closes the connection: [DONE] is written. *)
End ==
    /\ phase = "reading"
    /\ out' = Append(out, [choice |-> NoIndex, kind |-> "done", data |-> <<>>])
    /\ phase' = "done"
    /\ UNCHANGED <<sideBufferBytes, fed, state, conflict>>

(* A read error, or a line longer than the scanner's buffer.               *)
ReadError ==
    /\ phase = "reading"
    /\ phase' = "failed"
    /\ UNCHANGED <<sideBufferBytes, fed, state, out, conflict>>

Next == End \/ ReadError \/ \E c \in ChoiceSet, d \in Deltas : Entry(c, d)

Spec == Init /\ [][Next]_vars

-----------------------------------------------------------------------------
(* What the upstream sent and what the client got, per choice.             *)

SentStandard(es, c) == {<<n, 0>> : n \in {m \in Entries(es, c) : es[m].delta.content}}

SentSynthetic(es, places) ==
    {p \in places : Frag(es, p).args /\ Frag(es, p).index \in SyntheticIndex(es, places)}

SentReal(es, places) == {p \in places : Frag(es, p).index \notin SyntheticIndex(es, places)}

(* Of the chunks o, where those of a kind and their pieces are.            *)
Chunks(o, c, kind) == {i \in DOMAIN o : o[i].choice = c /\ o[i].kind = kind}

Pieces(o, c, kind) == UNION {{i} \X DOMAIN o[i].data : i \in Chunks(o, c, kind)}

Piece(o, p) == o[p[1]].data[p[2]]

Got(o, c, kind) == {Piece(o, p).at : p \in Pieces(o, c, kind)}

Before(p, q) == p[1] < q[1] \/ (p[1] = q[1] /\ p[2] < q[2])

Standard(places) == {p \in places : p[2] = 0}

Synthetic(places) == {p \in places : p[2] # 0}

(* "No Standard Content Concatenation" (README): the client never gets     *)
(* both standard content and the synthetic answer in one choice.           *)
NoConcatenation ==
    \A c \in ChoiceSet :
        Standard(Got(out, c, "content")) = {} \/ Synthetic(Got(out, c, "content")) = {}

(* What the side buffer buys: both are delivered only if as much standard  *)
(* content came before the call as fills the buffer.                       *)
BufferedNoConcatenation ==
    \A c \in ChoiceSet :
        Standard(Got(out, c, "content")) # {} /\ Synthetic(Got(out, c, "content")) # {}
            => Cardinality(Standard(Got(out, c, "content"))) >= sideBufferBytes

(* The pieces of a kind that are of one source come in the order in which  *)
(* they were sent, none twice.                                             *)
SameSource(p, q) == p[2] = 0 <=> q[2] = 0

InOrder(o, c, kind) ==
    \A p, q \in Pieces(o, c, kind) :
        Before(p, q) /\ SameSource(Piece(o, p).at, Piece(o, q).at)
            => Before(Piece(o, p).at, Piece(o, q).at)

(* The first ones of what was sent: nothing before one of them is missing. *)
FirstOf(got, sent) == got \subseteq sent /\ \A p \in got, q \in sent : Before(q, p) => q \in got

(* Nothing of the answer is lost, doubled or reordered by the side buffer  *)
(* and the decoder, at any point of the stream.  A finished choice without *)
(* a synthetic call is complete; with one its answer is, unless nothing of *)
(* it could be decoded or repaired.                                        *)
ContentInOrder ==
    \A c \in ChoiceSet :
        LET got == Got(out, c, "content")
            frags == FragsOf(fed, c)
        IN  /\ InOrder(out, c, "content")
            /\ FirstOf(Standard(got), SentStandard(fed, c))
            /\ FirstOf(Synthetic(got), SentSynthetic(fed, frags))
            /\ Finished(fed, c) =>
                /\ SyntheticIndex(fed, frags) = {} => got = SentStandard(fed, c)
                /\ Synthetic(got) \in {{}, SentSynthetic(fed, frags)}

(* The client sees every fragment of every real call and none of the       *)
(* synthetic one, in the order sent, and the calls numbered from 0 without *)
(* a gap, in the order in which they first appeared, each under one number *)
(* throughout.                                                             *)
Renumbered(es, pieces) ==
    /\ \A x \in pieces : x.frag = [Frag(es, x.at) EXCEPT !.index = x.frag.index]
    /\ \A x, y \in pieces :
        x.frag.index = y.frag.index <=> Frag(es, x.at).index = Frag(es, y.at).index
    /\ \A x \in pieces : x.frag.index # 0 =>
        \E y \in pieces : Before(y.at, x.at) /\ y.frag.index = x.frag.index - 1

RealToolsPreserved ==
    \A c \in ChoiceSet :
        /\ InOrder(out, c, "tools")
        /\ Got(out, c, "tools") = SentReal(fed, FragsOf(fed, c))
        /\ Renumbered(fed, {Piece(out, p) : p \in Pieces(out, c, "tools")})

(* The finish chunk of a choice is its last chunk, and tells the client to *)
(* run tools exactly when the upstream said so and there is a real call to *)
(* run: a synthetic call alone ends with stop.                             *)
FinishTruthful ==
    \A c \in ChoiceSet :
        /\ Finished(fed, c) => Chunks(out, c, "finish") # {}
        /\ \A i \in Chunks(out, c, "finish") :
            /\ \A j \in DOMAIN out : out[j].choice = c => j <= i
            /\ out[i].data[1].reason = "tool_calls" <=>
                /\ \E n \in Entries(fed, c) : fed[n].delta.finish = "tool_calls"
                /\ Pieces(out, c, "tools") # {}
=============================================================================
