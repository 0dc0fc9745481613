---------------------------- MODULE Orchestrator ----------------------------
(***************************************************************************)
(* The chat handler: internal/recovery/orchestrator.go.  A request waits   *)
(* for a slot of the limiter (AdmissionControl, which Limiter implements), *)
(* is read and checked, is sent upstream, possibly more than once, and     *)
(* gets one response.  The upstream answers as it likes; the client may go *)
(* away at any time.                                                       *)
(*                                                                         *)
(* An upstream answer is what the handler tells apart of its choices; a    *)
(* response is its status and the answer it was made of.                   *)
(***************************************************************************)
EXTENDS Integers, Sequences, FiniteSets, SequencesExt

CONSTANTS
    Requests, Keys, KeyOf, GlobalCap, KeyCap,  \* as in AdmissionControl
    WrapperMode,     \* "prefer", "required" or "off"
    RecoveryPolicy,  \* "repair", "repair_then_retry" or "fail"
    EmptyRetries,    \* UPSTREAM_EMPTY_RETRIES
    Streaming,       \* the values of "stream" clients send
    Bodies,          \* the lists of choices the upstream may answer with
    MaxArrivals      \* bound: calls of the handler

ASSUME SettingsAssumption ==
    /\ WrapperMode \in {"prefer", "required", "off"}
    /\ RecoveryPolicy \in {"repair", "repair_then_retry", "fail"}
    /\ EmptyRetries \in Nat /\ MaxArrivals \in Nat
    /\ Streaming \subseteq BOOLEAN

(* Finitely many calls at once, and limits as the limiter's constructor    *)
(* makes them of the settings.                                             *)
ASSUME LimitsAssumption == IsFiniteSet(Requests) /\ GlobalCap \in Nat /\ KeyCap \in Nat

(* A choice with a message; the others count for nothing and are left out. *)
Choice == [text : BOOLEAN,  \* content that is not blank
           real : BOOLEAN,  \* calls of the client's tools
           transport : {"none", "whole", "repairable", "broken"}]  \* calls of the injected one

ASSUME BodiesAssumption == Bodies \subseteq Seq(Choice)

(* client.Do fails; the answer is too large or breaks off; it is no 200.   *)
Failures == [result : {"connection", "unreadable", "status"}, choices : {<<>>}]

(* A 200 without a body, not JSON, or an object with or without choices.   *)
Answers == [result : {"blank", "garbage"}, choices : {<<>>}]
              \cup [result : {"object"}, choices : Bodies]

NoAnswer == [result |-> "none", choices |-> <<>>]

(* The body of an error of the gateway's own. *)
Error == [result |-> "error", choices |-> <<>>]

VARIABLES
    status,    \* of AdmissionControl
    pc,        \* where each request is in the handler
    kind,      \* [stream, wrapped]: wrapped if the transport tool was injected
    ctxDone,   \* the client is gone
    attempt,   \* the loop's variable
    lastResp,  \* lastRespBody, Status and Header, declared outside the loop
    answers,   \* history: what the upstream answered to each call so far
    response,  \* history: what was written to the client
    metrics    \* counters of internal/metrics

vars == <<status, pc, kind, ctxDone, attempt, lastResp, answers, response, metrics>>

Limiter == INSTANCE AdmissionControl

NoKind == [stream |-> FALSE, wrapped |-> FALSE]

Init ==
    /\ Limiter!Init
    /\ pc = [r \in Requests |-> "idle"]
    /\ kind = [r \in Requests |-> NoKind]
    /\ ctxDone = [r \in Requests |-> FALSE]
    /\ attempt = [r \in Requests |-> 0]
    /\ lastResp = [r \in Requests |-> NoAnswer]
    /\ answers = [r \in Requests |-> <<>>]
    /\ response = [r \in Requests |-> <<>>]
    /\ metrics = [total |-> 0, active |-> 0, rejections |-> 0, retries |-> 0,
                  hits |-> 0, repairs |-> 0]

Go(r, to) == pc' = [pc EXCEPT ![r] = to]

(* A response is written and the handler returns. *)
Respond(r, code, body) ==
    /\ response' = [response EXCEPT ![r] = Append(@, [code |-> code, body |-> body])]
    /\ Go(r, "leaving")

(* The handler returns without writing anything. *)
Silent(r) == Go(r, "leaving") /\ UNCHANGED response

-----------------------------------------------------------------------------
(* HandleChatCompletions *)

Arrive(r) ==
    /\ pc[r] = "idle" /\ metrics.total < MaxArrivals
    /\ \E s \in Streaming, w \in BOOLEAN :
        /\ WrapperMode = "off" => ~w
        /\ kind' = [kind EXCEPT ![r] = [stream |-> s, wrapped |-> w]]
    /\ metrics' = [metrics EXCEPT !.total = @ + 1, !.active = @ + 1]
    /\ Limiter!Ask(r)
    /\ Go(r, "acquire")
    /\ UNCHANGED <<ctxDone, attempt, lastResp, answers, response>>

Admitted(r) ==
    /\ pc[r] = "acquire"
    /\ Limiter!Admit(r)
    /\ Go(r, "read")
    /\ UNCHANGED <<kind, ctxDone, attempt, lastResp, answers, response, metrics>>

(* Acquire failed: 429 or 503, or nothing if the client is gone.           *)
Rejected(r) ==
    /\ pc[r] = "acquire"
    /\ Limiter!Refuse(r)
    /\ metrics' = [metrics EXCEPT !.rejections = @ + 1]
    /\ \/ KeyOf[r] \in Keys /\ Respond(r, 429, Error)
       \/ Respond(r, 503, Error)
       \/ ctxDone[r] /\ Silent(r)
    /\ UNCHANGED <<kind, ctxDone, attempt, lastResp, answers>>

(* The body is read, parsed, checked and transformed; 500 also stands for *)
(* a streaming request that cannot be built.                              *)
Read(r) ==
    /\ pc[r] = "read"
    /\ \/ \E code \in {413, 400, 403, 500} : Respond(r, code, Error)
       \/ Go(r, IF kind[r].stream THEN "call" ELSE "attempt") /\ UNCHANGED response
    /\ UNCHANGED <<status, kind, ctxDone, attempt, lastResp, answers, metrics>>

-----------------------------------------------------------------------------
(* handleNonStreaming *)

MaxAttempts == 1 + EmptyRetries

(* The head of the loop, up to client.Do. *)
Attempt(r) ==
    /\ pc[r] = "attempt"
    /\ \/ /\ ctxDone[r]
          /\ Silent(r)
          /\ UNCHANGED <<attempt, metrics>>
       \/ /\ ~ctxDone[r]
          /\ attempt' = [attempt EXCEPT ![r] = @ + 1]
          /\ metrics' = [metrics EXCEPT !.retries = IF attempt[r] > 0 THEN @ + 1 ELSE @]
          /\ \/ Go(r, "call") /\ UNCHANGED response
             \/ Respond(r, 500, Error)
    /\ UNCHANGED <<status, kind, ctxDone, lastResp, answers>>

Receive(r, a) == answers' = [answers EXCEPT ![r] = Append(@, a)]

Save(r, a) == lastResp' = [lastResp EXCEPT ![r] = a]

(* Mutant: a failed connection is never answered. *)
CallFailsSilently(r) ==
    /\ pc[r] = "call"
    /\ \E f \in Failures :
        /\ Receive(r, f)
        /\ IF f.result = "connection" THEN Silent(r) ELSE Respond(r, 502, Error)
    /\ UNCHANGED <<status, kind, ctxDone, attempt, lastResp, metrics>>

(* The call or the reading of its answer fails; a non-200 is passed on.    *)
(* The code stands for whatever the upstream's is.                         *)
CallFails(r) ==
    /\ pc[r] = "call"
    /\ \E f \in Failures :
        /\ Receive(r, f)
        /\ CASE f.result = "connection" ->
                    IF ctxDone[r] THEN Silent(r) ELSE Respond(r, 502, Error)
             [] f.result = "status" -> Respond(r, 429, f)
             [] OTHER -> Respond(r, 502, Error)
        /\ IF f.result = "status" /\ ~kind[r].stream THEN Save(r, f) ELSE UNCHANGED lastResp
    /\ UNCHANGED <<status, kind, ctxDone, attempt, metrics>>

IsResponseEmpty(a) ==
    \/ a.result = "blank"
    \/ /\ a.result = "object"
       /\ \A i \in DOMAIN a.choices :
            a.choices[i] = [text |-> FALSE, real |-> FALSE, transport |-> "none"]

(* Mutant: one attempt too many. *)
CallAnswersMore(r) ==
    /\ pc[r] = "call" /\ ~kind[r].stream
    /\ \E a \in Answers :
        /\ Receive(r, a) /\ Save(r, a)
        /\ Go(r, IF IsResponseEmpty(a) /\ attempt[r] <= MaxAttempts THEN "sleep" ELSE "normalize")
    /\ UNCHANGED <<status, kind, ctxDone, attempt, response, metrics>>

(* Mutant: one attempt too few. *)
CallAnswersFewer(r) ==
    /\ pc[r] = "call" /\ ~kind[r].stream
    /\ \E a \in Answers :
        /\ Receive(r, a) /\ Save(r, a)
        /\ Go(r, IF IsResponseEmpty(a) /\ attempt[r] < EmptyRetries THEN "sleep" ELSE "normalize")
    /\ UNCHANGED <<status, kind, ctxDone, attempt, response, metrics>>

(* Mutant: the first answer is kept. *)
CallAnswersFirst(r) ==
    /\ pc[r] = "call" /\ ~kind[r].stream
    /\ \E a \in Answers :
        /\ Receive(r, a) /\ Save(r, IF attempt[r] > 1 THEN lastResp[r] ELSE a)
        /\ Go(r, IF IsResponseEmpty(a) /\ attempt[r] < MaxAttempts THEN "sleep" ELSE "normalize")
    /\ UNCHANGED <<status, kind, ctxDone, attempt, response, metrics>>

CallAnswers(r) ==
    /\ pc[r] = "call" /\ ~kind[r].stream
    /\ \E a \in Answers :
        /\ Receive(r, a) /\ Save(r, a)
        /\ Go(r, IF IsResponseEmpty(a) /\ attempt[r] < MaxAttempts THEN "sleep" ELSE "normalize")
    /\ UNCHANGED <<status, kind, ctxDone, attempt, response, metrics>>

(* time.Sleep(100 * time.Millisecond) *)
Sleep(r) ==
    /\ pc[r] = "sleep"
    /\ Go(r, "attempt")
    /\ UNCHANGED <<status, kind, ctxDone, attempt, lastResp, answers, response, metrics>>

(* NormalizeNonStreaming fails at the first choice it cannot use...        *)
Unusable(c) ==
    \/ c.transport = "broken"
    \/ WrapperMode = "required" /\ c.transport = "none" /\ ~c.real

NormalizeFails(r, a) ==
    /\ kind[r].wrapped
    /\ \/ a.result \in {"blank", "garbage"}
       \/ \E i \in DOMAIN a.choices : Unusable(a.choices[i])

(* ... and has counted the real calls up to there only.                    *)
Visited(a) == {i \in DOMAIN a.choices : \A j \in 1..(i - 1) : ~Unusable(a.choices[j])}

(* Mutant: real tool calls do not matter. *)
RetryableWithTools(r, a) == NormalizeFails(r, a) /\ a.result = "object"

(* stats != nil && stats.RealToolCallCount == 0 *)
Retryable(r, a) ==
    /\ NormalizeFails(r, a) /\ a.result = "object"
    /\ \A i \in Visited(a) : ~a.choices[i].real

HasTransport(a, how) == \E i \in DOMAIN a.choices : a.choices[i].transport \in how

Normalize(r) ==
    /\ pc[r] = "normalize"
    /\ LET a == lastResp[r]
       IN  \/ /\ ~NormalizeFails(r, a)
              /\ Respond(r, 200, a)
              /\ metrics' = [metrics EXCEPT
                    !.hits = IF kind[r].wrapped /\ HasTransport(a, {"whole", "repairable"})
                             THEN @ + 1 ELSE @,
                    !.repairs = IF kind[r].wrapped /\ HasTransport(a, {"repairable"})
                                THEN @ + 1 ELSE @]
           \/ /\ NormalizeFails(r, a)
              /\ IF RecoveryPolicy = "repair_then_retry" /\ Retryable(r, a) /\ ~ctxDone[r]
                 THEN Go(r, "format retry") /\ UNCHANGED response
                 ELSE Respond(r, 502, Error)
              /\ UNCHANGED metrics
    /\ UNCHANGED <<status, kind, ctxDone, attempt, lastResp, answers>>

(* attemptSingleFormatRetry: any failure of it, also before it is sent, is *)
(* answered by 502.                                                        *)
FormatRetry(r) ==
    /\ pc[r] = "format retry"
    /\ \/ \E a \in Answers :
            /\ Receive(r, a)
            /\ IF NormalizeFails(r, a)
               THEN Respond(r, 502, Error) /\ UNCHANGED metrics
               ELSE /\ Respond(r, 200, a)
                    /\ metrics' = [metrics EXCEPT !.retries = @ + 1]
       \/ /\ UNCHANGED answers \/ \E f \in Failures : Receive(r, f)
          /\ Respond(r, 502, Error)
          /\ UNCHANGED metrics
    /\ UNCHANGED <<status, kind, ctxDone, attempt, lastResp>>

-----------------------------------------------------------------------------
(* handleStreaming: the status is sent before the answer is known.         *)

(* Mutant: the slot is given back when the stream starts. *)
StreamStartsReleased(r) ==
    /\ pc[r] = "call" /\ kind[r].stream
    /\ \E a \in Answers :
        /\ Receive(r, a)
        /\ response' = [response EXCEPT ![r] = Append(@, [code |-> 200, body |-> a])]
    /\ Go(r, "stream")
    /\ Limiter!Leave(r)
    /\ UNCHANGED <<kind, ctxDone, attempt, lastResp, metrics>>

StreamStarts(r) ==
    /\ pc[r] = "call" /\ kind[r].stream
    /\ \E a \in Answers :
        /\ Receive(r, a)
        /\ response' = [response EXCEPT ![r] = Append(@, [code |-> 200, body |-> a])]
    /\ Go(r, "stream")
    /\ UNCHANGED <<status, kind, ctxDone, attempt, lastResp, metrics>>

(* The answer is copied or transformed to its end or to a read error.      *)
StreamEnds(r) ==
    /\ pc[r] = "stream"
    /\ Go(r, "leaving")
    /\ metrics' = [metrics EXCEPT
            !.hits = IF kind[r].wrapped
                          /\ HasTransport(Last(answers[r]), {"whole", "repairable", "broken"})
                     THEN @ + 1 ELSE @]
    /\ UNCHANGED <<status, kind, ctxDone, attempt, lastResp, answers, response>>

(* The variables of a call are gone with it. *)
Forget(r) ==
    /\ kind' = [kind EXCEPT ![r] = NoKind]
    /\ ctxDone' = [ctxDone EXCEPT ![r] = FALSE]
    /\ attempt' = [attempt EXCEPT ![r] = 0]
    /\ lastResp' = [lastResp EXCEPT ![r] = NoAnswer]
    /\ answers' = [answers EXCEPT ![r] = <<>>]
    /\ response' = [response EXCEPT ![r] = <<>>]

(* Mutant: the gauge is only lowered for requests that were admitted. *)
LeaveUncounted(r) ==
    /\ pc[r] = "leaving"
    /\ Go(r, "idle")
    /\ metrics' = [metrics EXCEPT !.active = IF status[r] = "serving" THEN @ - 1 ELSE @]
    /\ IF status[r] = "serving" THEN Limiter!Leave(r) ELSE UNCHANGED status
    /\ Forget(r)

(* Mutant: release() is not called. *)
LeaveServing(r) ==
    /\ pc[r] = "leaving"
    /\ Go(r, "idle")
    /\ metrics' = [metrics EXCEPT !.active = @ - 1]
    /\ Forget(r)
    /\ UNCHANGED status

(* The deferred calls: release(), ActiveRequests.Add(-1). *)
Leave(r) ==
    /\ pc[r] = "leaving"
    /\ Go(r, "idle")
    /\ metrics' = [metrics EXCEPT !.active = @ - 1]
    /\ IF status[r] = "serving" THEN Limiter!Leave(r) ELSE UNCHANGED status
    /\ Forget(r)

Cancel(r) ==
    /\ pc[r] # "idle" /\ ~ctxDone[r]
    /\ ctxDone' = [ctxDone EXCEPT ![r] = TRUE]
    /\ UNCHANGED <<status, pc, kind, attempt, lastResp, answers, response, metrics>>

(* What the gateway does of itself.  A slot is granted or refused, and the *)
(* HTTP client's timeout ends every upstream call and every stream, for    *)
(* clients that read what they are sent.                                   *)
Handle(r) ==
    \/ Admitted(r) \/ Rejected(r) \/ Read(r) \/ Attempt(r) \/ CallFails(r)
    \/ CallAnswers(r) \/ Sleep(r) \/ Normalize(r) \/ FormatRetry(r)
    \/ StreamStarts(r) \/ StreamEnds(r) \/ Leave(r)

Next == \E r \in Requests : Arrive(r) \/ Handle(r) \/ Cancel(r)

Spec == Init /\ [][Next]_vars

FairSpec == Spec /\ \A r \in Requests : WF_vars(Handle(r))

-----------------------------------------------------------------------------
InHandler(r) == pc[r] # "idle"

TypeOK ==
    /\ status \in [Requests -> {"idle", "asking", "serving"}]
    /\ pc \in [Requests -> {"idle", "acquire", "read", "attempt", "call", "sleep",
                            "normalize", "format retry", "stream", "leaving"}]
    /\ kind \in [Requests -> [stream : Streaming \cup {FALSE}, wrapped : BOOLEAN]]
    /\ ctxDone \in [Requests -> BOOLEAN]
    /\ attempt \in [Requests -> 0..MaxAttempts]
    /\ lastResp \in [Requests -> Answers \cup Failures \cup {NoAnswer}]
    /\ answers \in [Requests -> Seq(Answers \cup Failures)]
    /\ response \in [Requests -> Seq([code : Nat, body : Answers \cup Failures \cup {Error}])]
    /\ metrics \in [{"total", "active", "rejections", "retries", "hits", "repairs"} -> Nat]

(* A request is answered exactly once, whichever step fails; it goes       *)
(* without an answer only if its client is gone.                           *)
AnsweredOnce ==
    \A r \in Requests :
        /\ Len(response[r]) <= 1
        /\ pc[r] = "leaving" /\ response[r] = <<>> => ctxDone[r]

(* The gauge gateway_active_requests is the number of requests in the      *)
(* handler, and returns to 0 with them.                                    *)
GaugeExact == metrics.active = Cardinality({r \in Requests : InHandler(r)})

(* The upstream never has more calls of the gateway under way than the     *)
(* limits allow: retries are made within the request's one slot.           *)
InFlight == {r \in Requests : pc[r] \in {"call", "sleep", "format retry", "stream"}}

UpstreamWithinLimits ==
    /\ Cardinality(InFlight) <= GlobalCap
    /\ \A k \in Keys : Cardinality({r \in InFlight : KeyOf[r] = k}) <= KeyCap

RealCallsBehindFailure(choices) ==
    \A j \in DOMAIN choices :
        choices[j].real => \E f \in 1..(j - 1) : Unusable(choices[f])

(* The request is sent again only after an answer that was empty, at most  *)
(* EmptyRetries times, and once more after one that could not be used;     *)
(* never in a stream, after an error, or after real tool calls (the client *)
(* is to make them) that were counted: those of a choice behind the one    *)
(* that could not be used are not, and are lost.                           *)
ResentSafely ==
    \A r \in Requests :
        LET a == answers[r]
        IN  /\ Len(a) <= MaxAttempts + 1
            /\ \A i \in 1..(Len(a) - 1) :
                \/ IsResponseEmpty(a[i])
                \/ /\ i = Len(a) - 1 /\ NormalizeFails(r, a[i]) /\ a[i].result = "object"
                   /\ RealCallsBehindFailure(a[i].choices)
            /\ Len(a) > 1 => ~kind[r].stream

(* The retry of RECOVERY_POLICY=repair_then_retry is "safe" and real tool  *)
(* calls are not swallowed (README): no answer is given up for another one *)
(* that has any.                                                           *)
RealCallsKept ==
    \A r \in Requests :
        \A i \in 1..(Len(answers[r]) - 1) :
            \A j \in DOMAIN answers[r][i].choices : ~answers[r][i].choices[j].real

(* What the client gets is made of the latest upstream answer, never of    *)
(* one that was given up: its body if there is one of the upstream's, and  *)
(* also a 502 although the upstream has answered.                          *)
LatestAnswerServed ==
    \A r \in Requests :
        \A i \in DOMAIN response[r] :
            /\ response[r][i].body # Error => response[r][i].body = Last(answers[r])
            /\ response[r][i].code = 502 /\ Last(answers[r]) \in Answers
               => NormalizeFails(r, Last(answers[r]))

(* Of handleNonStreaming's loop: an empty answer reaches the client only   *)
(* after the last attempt.  (The format retry, which follows an answer     *)
(* that was not empty, is made once whatever it brings.)                   *)
EmptyAnswersRetried ==
    \A r \in Requests :
        LET a == answers[r]
        IN  \A i \in DOMAIN response[r] :
                /\ ~kind[r].stream
                /\ response[r][i].code = 200 /\ IsResponseEmpty(response[r][i].body)
                => \/ Len(a) >= MaxAttempts
                   \/ Len(a) > 1 /\ ~IsResponseEmpty(a[Len(a) - 1])

(* Every request that enters the handler leaves it, and gives its slot     *)
(* back.                                                                   *)
HandlerReturns ==
    \A r \in Requests : []<>(~InHandler(r) /\ status[r] = "idle")
=============================================================================
