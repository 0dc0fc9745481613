------------------------------ MODULE Exchange ------------------------------
(***************************************************************************)
(* One exchange: a client's request is transformed (Injector), the         *)
(* upstream answers it, and the answer is turned back (Normalizer), as     *)
(* HandleChatCompletions does for a request that is not streamed           *)
(* (internal/recovery/orchestrator.go).  Retries are in Orchestrator.      *)
(***************************************************************************)
EXTENDS Injector, Normalizer, TransportText

(* A case is a request under a configuration, what the upstream may write  *)
(* as arguments of a transport call ([text, cut]: the first `cut` symbols  *)
(* of a text of TransportText), and bounds on its answer: the calls of a   *)
(* choice and the choices.  No tool of the client is named "odd": that is  *)
(* how Normalizer marks an entry that is no call of a function.            *)
CONSTANT Cases   \* a set of [config, request, writings, maxCalls, maxChoices]

ASSUME CasesAssumption ==
    \A c \in Cases :
        /\ c.config.position \in {"tail", "head", "system_tail"}
        /\ c.config.role \in {"system", "developer"}
        /\ c.request.messages \in Seq([role : Roles, from : Int])
        /\ \A i \in DOMAIN c.request.messages : c.request.messages[i].from = i
        /\ "odd" \notin Range(c.request.tools)
        /\ c.maxCalls \in Nat /\ c.maxChoices \in Nat
        /\ \A w \in c.writings : IsWriting(w)

VARIABLES
    case,     \* the case
    sent,     \* the request sent upstream: a set of one, or empty
    answer,   \* the upstream's choices, <<>> before
    reply     \* what NormalizeNonStreaming returned: a set of one, or empty

exchange == <<case, sent, answer, reply>>

ExInit == case \in Cases /\ sent = {} /\ answer = <<>> /\ reply = {}

-----------------------------------------------------------------------------
Inject ==
    /\ sent = {} /\ reply = {}
    /\ \E s \in InjectContext(case.config, case.request) : sent' = {s}
    /\ UNCHANGED <<case, answer, reply>>

(* An error is returned when a hundred draws all hit a name in use.        *)
InjectFails ==
    /\ sent = {} /\ reply = {}
    /\ Wraps(case.config, case.request) /\ MayRunOutOfNames(case.request.tools)
    /\ reply' = {[failed |-> TRUE, realToolCalls |-> 0, choices |-> <<>>]}
    /\ UNCHANGED <<case, sent, answer>>

(* A well-formed answer: calls of the tools it was given, or entries that  *)
(* are none; the finish reason says if there are any, or that the answer   *)
(* was cut off.                                                            *)
TransportCalls(s) ==
    IF s.tool = NoTool THEN {}
    ELSE {[name |-> s.tool, args |-> SubSeq(w.text.raw, 1, w.cut), by |-> {w}] :
              w \in case.writings}

OtherCalls(s) ==
    {[name |-> t, args |-> <<>>, by |-> {}] : t \in (Range(s.tools) \ {s.tool}) \cup {"odd"}}

Contents == {[from |-> "none", text |-> <<>>], [from |-> "standard", text |-> <<"a">>]}

ChoicesFor(s) ==
    {[content |-> c, calls |-> <<>>, finish |-> f, message |-> TRUE] :
          c \in Contents, f \in {"stop", "length"}}
    \cup {[content |-> c, calls |-> cs, finish |-> f, message |-> TRUE] :
              c \in Contents, f \in {"tool_calls", "length"},
              cs \in UNION {[1..n -> TransportCalls(s) \cup OtherCalls(s)] :
                                n \in 1..case.maxCalls}}
    \cup {[content |-> [from |-> "none", text |-> <<>>], calls |-> <<>>, finish |-> "stop",
           message |-> FALSE]}

Answer ==
    /\ answer = <<>> /\ reply = {} /\ ~case.request.stream
    /\ \E s \in sent : \E n \in 1..case.maxChoices :
          answer' \in [1..n -> ChoicesFor(s)]
    /\ UNCHANGED <<case, sent, reply>>

Normalize ==
    /\ answer # <<>> /\ reply = {}
    /\ \E s \in sent : reply' = {NormalizeNonStreaming(case.config.mode, s.tool, answer)}
    /\ UNCHANGED <<case, sent, answer>>

ExNext == Inject \/ InjectFails \/ Answer \/ Normalize

ExSpec == ExInit /\ [][ExNext]_exchange

-----------------------------------------------------------------------------
(* What goes upstream ends with a user's turn when the messages of the     *)
(* system are taken away, whatever the client sent and wherever the        *)
(* control message is put ("requests must never end with assistant/model   *)
(* turn or be left without a user turn", injector.go:113).  A request that *)
(* is passed through may have no messages at all.                          *)
UserTurnLast ==
    \A s \in sent :
        (s.tool = NoTool /\ s.messages = <<>>) \/ LastTurnIn(s.messages, UserTurns)

(* All the client's messages go upstream, once and in their order, with    *)
(* nothing but the gateway's own between them, and so do the client's      *)
(* tools (injector.go:149-157, 256).                                      *)
ClientKept ==
    \A s \in sent :
        LET messages == case.request.messages
        IN  /\ \A i \in DOMAIN messages : \E j \in DOMAIN s.messages : s.messages[j] = messages[i]
            /\ \A j, k \in DOMAIN s.messages :
                  j < k /\ s.messages[j].from > 0 /\ s.messages[k].from > 0
                      => s.messages[j].from < s.messages[k].from
            /\ s.tools \in {case.request.tools, Append(case.request.tools, s.tool)}

(* The calls of the client's own tools come back to it, in order; the      *)
(* transport call never does, even if the client's tools have names like   *)
(* those the gateway makes up.                                             *)
ClientCallsReturned ==
    \A s \in sent, r \in reply : ~r.failed =>
        \A i \in DOMAIN answer :
            LET mine(calls) == Those(calls, Range(case.request.tools))
            IN  /\ mine(r.choices[i].calls) = mine(answer[i].calls)
                /\ s.tool # NoTool => CallsOf(r.choices[i], s.tool) = <<>>

-----------------------------------------------------------------------------
(* The texts that stand in it in one piece.                                *)
Slices(text) == {SubSeq(text, j + 1, k) : j, k \in 0..Len(text)}

(* What the model put into its transport calls is what the client gets,    *)
(* alone and in their order: also if it was cut off, is fenced, or is not  *)
(* quite JSON.                                                             *)
TextDelivered ==
    \A s \in sent, r \in reply : ~r.failed =>
        \A i \in DOMAIN answer :
            LET made == CallsOf(answer[i], s.tool)
                text == r.choices[i].content.text
            IN  made # <<>> => \E parts \in [DOMAIN made -> Slices(text)] :
                    /\ FlattenSeq(parts) = text
                    /\ \A k \in DOMAIN made : \A w \in made[k].by : Carries(parts[k], w)

(* An answer is refused only if there is no character to be had from one   *)
(* of its transport calls, or a call is required and there is none.        *)
RefusedForCause ==
    \A s \in sent, r \in reply : r.failed =>
        \E i \in DOMAIN answer :
            \/ \E c \in Range(CallsOf(answer[i], s.tool)) : \A w \in c.by :
                  Owed(w) = <<>> \/ w.text.key = "other"
            \/ /\ case.config.mode = "required"
               /\ \A c \in Range(answer[i].calls) : c.name = "odd"

(* "tool_calls" is said exactly of a choice with calls that the client is  *)
(* to run, unless the upstream said that it was cut off.                   *)
FinishHonest ==
    \A s \in sent, r \in reply : ~r.failed =>
        \A i \in DOMAIN answer :
            /\ r.choices[i].finish = "tool_calls" => r.choices[i].calls # <<>>
            /\ r.choices[i].calls # <<>> => r.choices[i].finish \in {"tool_calls", "length"}

=============================================================================
