---------------------------- MODULE MCTransport -----------------------------
(***************************************************************************)
(* Instances of Transport for TLC.  Requests, structures of answers and    *)
(* texts are varied one at a time: every request gets one short answer, a  *)
(* typical request every structure with a few texts, and every text in a   *)
(* single call, whole and in chunks.                                       *)
(***************************************************************************)
EXTENDS Transport

Typical == [mode |-> "prefer", position |-> "tail", role |-> "system"]

Configs ==
    [mode : {"prefer"}, position : {"tail", "head", "system_tail"}, role : {"system", "developer"}]
        \cup [mode : {"off"}, position : {"tail"}, role : {"system"}]

Talk(roles) == [i \in DOMAIN roles |-> Message(roles[i], i)]

Talks == {Talk(roles) : roles \in UNION {[1..n -> Roles] : n \in 0..3}}

Request(model, messages, tools, toolChoice, stream) ==
    [model |-> model, messages |-> messages, tools |-> tools, toolChoice |-> toolChoice,
     stream |-> stream]

Plain(tools, stream) == Request("text", Talk(<<"user">>), tools, "absent", stream)

Case(config, request, writings, maxCalls, maxChoices) ==
    [config |-> config, request |-> request, writings |-> writings, maxCalls |-> maxCalls,
     maxChoices |-> maxChoices]

NoGap == [p \in Places |-> FALSE]

Short == Text("content", NoGap, <<"a">>, "plain")

Cut(text, n) == [text |-> text, cut |-> n]

ManyRequests ==
    {Case(c, Request("text", t, <<>>, "absent", FALSE), {Cut(Short, 7)}, 1, 1) :
        c \in Configs, t \in Talks}
    \cup {Case(Typical, Request(m, Talk(<<"user", "assistant">>), ts, tc, FALSE),
               {Cut(Short, 7)}, 1, 1) :
            m \in {"text", "nonText", "blank"}, ts \in {<<>>, <<"t">>, <<"agw1", "t">>},
            tc \in {"absent", "none", "auto", "required", "forced"}}

(* A refused, a repaired and a whole text, in two calls or two choices;    *)
(* and two calls in each of two choices, with one of the texts.            *)
AnswerCase(m, cuts, calls, choices) ==
    Case([Typical EXCEPT !.mode = m], Plain(<<"agw1", "t">>, FALSE),
         {Cut(Short, n) : n \in cuts}, calls, choices)

ManyAnswers ==
    {AnswerCase(m, {3, 7, Len(Short.raw)}, x[1], x[2]) :
        m \in {"prefer", "required"}, x \in {<<1, 2>>, <<2, 1>>}}
    \cup {AnswerCase("prefer", {n}, 2, 2) : n \in {3, 7}}

-----------------------------------------------------------------------------
Items == DOMAIN Source

UpTo(n, items) == UNION {[1..k -> items] : k \in 0..n}

Written(keys, bodies) ==
    {Text(k, NoGap, b, d) : k \in keys, b \in {b \in bodies : ~Ambiguous(b)}, d \in DOMAIN Before}

Texts == Written({"content"}, UpTo(2, Items)) \cup Written({"text", "other"}, UpTo(1, Items))

LongestText == 20

ManyTexts ==
    {Case(Typical, Plain(<<"agw1">>, FALSE), {Cut(x[1], x[2])}, 1, 1) :
        x \in {x \in Texts \X (1..LongestText) : x[2] <= Len(x[1].raw)}}

AStream == {Case(Typical, Plain(<<"agw1">>, TRUE), {}, 0, 1)}

AllCases == ManyRequests \cup ManyAnswers \cup ManyTexts \cup AStream

-----------------------------------------------------------------------------
(* Any two items, and three of those that are more than one symbol or may  *)
(* be taken for another.                                                   *)
ShortBodies ==
    UpTo(2, Items \ {"rawQuote", "fence"})
        \cup [1..3 -> {"a", "brace", "rune", "quote", "backslash", "unicode", "pair"}]

(* No white space, or wherever there can be some but before the brace.     *)
GapsBut(places) == [p \in Places |-> p \notin places]

Compact == {NoGap, GapsBut({"beforeBrace"}), GapsBut({"afterKey", "beforeBrace"})}
=============================================================================
