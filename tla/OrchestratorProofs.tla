------------------------- MODULE OrchestratorProofs -------------------------
(***************************************************************************)
(* Theorems about Orchestrator: for any number of requests, keys, limits,  *)
(* retries and arrivals, every mode and policy, what may be sent again,    *)
(* what the client gets, and that the limits hold upstream.                *)
(***************************************************************************)
EXTENDS Orchestrator, FiniteSetTheorems, TLAPS

(* Where a request holds its slot. *)
Inside == {"read", "attempt", "call", "sleep", "normalize", "format retry", "stream"}

Held(r) ==
    /\ pc[r] = "idle" => status[r] = "idle"
    /\ pc[r] = "acquire" => status[r] = "asking"
    /\ pc[r] \in Inside => status[r] = "serving"
    /\ pc[r] = "leaving" => status[r] # "asking"

SlotHeld == \A r \in Requests : Held(r)

(* The course of one request: first what the properties say of it... *)
Answered(r) ==
    /\ Len(response[r]) <= 1
    /\ pc[r] = "leaving" /\ response[r] = <<>> => ctxDone[r]

GivenUp(r, a) ==
    NormalizeFails(r, a) /\ a.result = "object" /\ RealCallsBehindFailure(a.choices)

Resent(r) ==
    /\ Len(answers[r]) <= MaxAttempts + 1
    /\ \A i \in 1..(Len(answers[r]) - 1) :
        \/ IsResponseEmpty(answers[r][i])
        \/ i = Len(answers[r]) - 1 /\ GivenUp(r, answers[r][i])
    /\ Len(answers[r]) > 1 => ~kind[r].stream

Latest(r) ==
    \A i \in DOMAIN response[r] :
        /\ response[r][i].body # Error => response[r][i].body = Last(answers[r])
        /\ response[r][i].code = 502 /\ Last(answers[r]) \in Answers
           => NormalizeFails(r, Last(answers[r]))

Retried(r) ==
    \A i \in DOMAIN response[r] :
        /\ ~kind[r].stream
        /\ response[r][i].code = 200 /\ IsResponseEmpty(response[r][i].body)
        => \/ Len(answers[r]) >= MaxAttempts
           \/ /\ Len(answers[r]) > 1
              /\ ~IsResponseEmpty(answers[r][Len(answers[r]) - 1])

(* ... and what it rests on.  Nothing has been written before the handler  *)
(* is about to return, but by a stream, which has begun to pass on the     *)
(* only answer there is.                                                   *)
ResponseSoFar(r) ==
    /\ pc[r] \notin {"stream", "leaving"} => response[r] = <<>>
    /\ pc[r] = "stream" => Len(response[r]) = 1

AllEmpty(s, n) == \A i \in 1..n : IsResponseEmpty(s[i])

(* The answers by the place in the handler.  A request that is not         *)
(* streamed has had one per attempt, all but the last of them empty.       *)
Streamed(r) ==
    /\ pc[r] \notin {"attempt", "sleep", "normalize", "format retry"}
    /\ pc[r] \in {"idle", "acquire", "read", "call"} => answers[r] = <<>>
    /\ pc[r] \in {"idle", "acquire", "read"} => attempt[r] = 0
    /\ pc[r] = "stream" => Len(answers[r]) = 1

Attempted(r) ==
    /\ pc[r] # "stream"
    /\ pc[r] \in {"idle", "acquire", "read"} => answers[r] = <<>> /\ attempt[r] = 0
    /\ pc[r] \in {"attempt", "sleep"} =>
        /\ Len(answers[r]) = attempt[r] /\ attempt[r] < MaxAttempts
        /\ AllEmpty(answers[r], Len(answers[r]))
    /\ pc[r] = "call" =>
        /\ Len(answers[r]) = attempt[r] - 1
        /\ AllEmpty(answers[r], Len(answers[r]))
    /\ pc[r] \in {"normalize", "format retry"} =>
        /\ Len(answers[r]) = attempt[r] /\ attempt[r] > 0
        /\ AllEmpty(answers[r], Len(answers[r]) - 1)
        /\ Last(answers[r]) \in Answers
        /\ IsResponseEmpty(Last(answers[r])) => attempt[r] = MaxAttempts
    /\ pc[r] = "normalize" => lastResp[r] = Last(answers[r])
    /\ pc[r] = "format retry" => GivenUp(r, Last(answers[r]))

AnswersSoFar(r) == IF kind[r].stream THEN Streamed(r) ELSE Attempted(r)

Course(r) ==
    /\ ResponseSoFar(r) /\ AnswersSoFar(r)
    /\ Answered(r) /\ Resent(r) /\ Latest(r) /\ Retried(r)

IInv ==
    /\ TypeOK
    /\ SlotHeld /\ Limiter!WithinLimits /\ GaugeExact
    /\ \A r \in Requests : Course(r)

-----------------------------------------------------------------------------
(* Sequences of answers. *)

LEMMA Appended ==
    ASSUME NEW S, NEW s \in Seq(S), NEW a \in S
    PROVE  /\ Append(s, a) \in Seq(S) /\ Len(Append(s, a)) = Len(s) + 1
           /\ Append(s, a)[Len(s) + 1] = a /\ Last(Append(s, a)) = a
           /\ \A i \in 1..Len(s) : Append(s, a)[i] = s[i]
BY DEF Last

(* Cardinality, as AdmissionControl sees it. *)
LEMMA SameCardinality ==
    ASSUME NEW S
    PROVE  Limiter!Cardinality(S) = Cardinality(S)
BY DEF Limiter!Cardinality, Cardinality

LEMMA InitIInv == Init => IInv
<1> SUFFICES ASSUME Init PROVE IInv
    OBVIOUS
<1> USE SettingsAssumption, LimitsAssumption DEF Init, Limiter!Init, NoKind
<1>1. TypeOK
    BY DEF TypeOK, MaxAttempts
<1>2. SlotHeld
    BY DEF SlotHeld, Held, Inside
<1>3. Limiter!WithinLimits
  <2>1. Limiter!Serving = {}
    BY DEF Limiter!Serving
  <2>2. Limiter!Cardinality({}) = 0
    BY FS_EmptySet, SameCardinality
  <2>3. Limiter!Cardinality(Limiter!Serving) <= GlobalCap
    BY <2>1, <2>2, LimitsAssumption
  <2>4. ASSUME NEW k \in Keys
        PROVE  Limiter!Cardinality(Limiter!ServingKey(k)) <= KeyCap
    <3>1. Limiter!ServingKey(k) = {}
      BY DEF Limiter!Serving, Limiter!ServingKey
    <3> QED
      BY <3>1, <2>2, LimitsAssumption
  <2> QED
    BY <2>3, <2>4 DEF Limiter!WithinLimits
<1>4. GaugeExact
  <2>1. {r \in Requests : InHandler(r)} = {}
    BY DEF InHandler
  <2> QED
    BY <2>1, FS_EmptySet DEF GaugeExact
<1>5. ASSUME NEW r \in Requests PROVE Course(r)
  <2>1. pc[r] = "idle" /\ answers[r] = <<>> /\ response[r] = <<>> /\ attempt[r] = 0
        /\ ~kind[r].stream
    OBVIOUS
  <2> QED
    BY <2>1 DEF Course, ResponseSoFar, AnswersSoFar, Attempted, Answered, Resent, Latest,
       Retried, MaxAttempts
<1> QED
    BY <1>1, <1>2, <1>3, <1>4, <1>5 DEF IInv

-----------------------------------------------------------------------------
(* The limits and the gauge. *)

LEMMA RequestSets ==
    ASSUME NEW S \in SUBSET Requests
    PROVE  /\ IsFiniteSet(S) /\ Cardinality(S) \in Nat
           /\ \A T \in SUBSET S : Cardinality(T) \in Nat /\ Cardinality(T) <= Cardinality(S)
<1>1. IsFiniteSet(S)
    BY LimitsAssumption, FS_Subset
<1> QED
    BY <1>1, FS_Subset, FS_CardinalityType

(* Whoever does not admit anybody cannot break the limits. *)
LEMMA FewerServing ==
    ASSUME Limiter!WithinLimits, \A x \in Requests : status'[x] = "serving" => status[x] = "serving"
    PROVE  Limiter!WithinLimits'
<1>1. /\ Cardinality(Limiter!Serving) <= GlobalCap
      /\ \A k \in Keys : Cardinality(Limiter!ServingKey(k)) <= KeyCap
    BY SameCardinality DEF Limiter!WithinLimits
<1>2. Cardinality(Limiter!Serving') <= GlobalCap
  <2>1. Limiter!Serving \in SUBSET Requests /\ Limiter!Serving' \in SUBSET Limiter!Serving
    BY DEF Limiter!Serving
  <2> QED
    BY <1>1, <2>1, RequestSets, LimitsAssumption
<1>3. ASSUME NEW k \in Keys
      PROVE  Cardinality(Limiter!ServingKey(k)') <= KeyCap
  <2>1. /\ Limiter!ServingKey(k) \in SUBSET Requests
        /\ Limiter!ServingKey(k)' \in SUBSET Limiter!ServingKey(k)
    BY DEF Limiter!Serving, Limiter!ServingKey
  <2> QED
    BY <1>1, <2>1, RequestSets, LimitsAssumption
<1> QED
    BY <1>2, <1>3, SameCardinality DEF Limiter!WithinLimits

LEMMA GaugeKept ==
    ASSUME GaugeExact, metrics'.active = metrics.active,
           \A x \in Requests : pc'[x] = "idle" <=> pc[x] = "idle"
    PROVE  GaugeExact'
BY DEF GaugeExact, InHandler

(* A step within the handler, with the slot that the request holds. *)
Within(r) ==
    /\ pc[r] \in Inside
    /\ \E to \in (Inside \cup {"leaving"}) \ {"read"} : pc' = [pc EXCEPT ![r] = to]
    /\ UNCHANGED <<status, kind, ctxDone>>
    /\ metrics'.active = metrics.active

LEMMA WithinKeeps ==
    ASSUME IInv, NEW r \in Requests, Within(r)
    PROVE  SlotHeld' /\ Limiter!WithinLimits' /\ GaugeExact'
<1> USE DEF IInv, TypeOK
<1>1. SlotHeld'
    BY DEF SlotHeld, Held, Within, Inside
<1>2. Limiter!WithinLimits'
    BY FewerServing DEF Within
<1>3. GaugeExact'
    BY GaugeKept DEF Within, Inside
<1> QED
    BY <1>1, <1>2, <1>3

(* The requests that a step is not about. *)
Apart(r) ==
    \A x \in Requests \ {r} :
        /\ pc'[x] = pc[x] /\ kind'[x] = kind[x] /\ ctxDone'[x] = ctxDone[x]
        /\ attempt'[x] = attempt[x] /\ lastResp'[x] = lastResp[x]
        /\ answers'[x] = answers[x] /\ response'[x] = response[x]

LEMMA ApartKeeps ==
    ASSUME IInv, NEW r \in Requests, Apart(r), Course(r)'
    PROVE  \A x \in Requests : Course(x)'
<1>1. ASSUME NEW x \in Requests \ {r} PROVE Course(x)'
  <2>1. Course(x)
    BY DEF IInv
  <2>2. /\ pc'[x] = pc[x] /\ kind'[x] = kind[x] /\ ctxDone'[x] = ctxDone[x]
        /\ attempt'[x] = attempt[x] /\ lastResp'[x] = lastResp[x]
        /\ answers'[x] = answers[x] /\ response'[x] = response[x]
    BY DEF Apart
  <2>3. \A a : /\ NormalizeFails(x, a)' <=> NormalizeFails(x, a)
               /\ GivenUp(x, a)' <=> GivenUp(x, a)
    BY <2>2 DEF NormalizeFails, GivenUp
  <2>4. ResponseSoFar(x)' /\ Answered(x)' /\ Latest(x)' /\ Retried(x)'
    BY <2>1, <2>2, <2>3 DEF Course, ResponseSoFar, Answered, Latest, Retried
  <2>5. Resent(x)'
    BY <2>1, <2>2, <2>3 DEF Course, Resent
  <2>6. AnswersSoFar(x)'
    BY <2>1, <2>2, <2>3 DEF Course, AnswersSoFar, Streamed, Attempted
  <2> QED
    BY <2>4, <2>5, <2>6 DEF Course
<1> QED
    BY <1>1

-----------------------------------------------------------------------------
(* What a step does to the state of its request. *)

Places == {"idle", "acquire", "read", "attempt", "call", "sleep", "normalize", "format retry",
           "stream", "leaving"}

Saved == Answers \cup Failures \cup {NoAnswer}

Written == [code : Nat, body : Answers \cup Failures \cup {Error}]

Kinds == [stream : Streaming \cup {FALSE}, wrapped : BOOLEAN]

Counters == {"total", "active", "rejections", "retries", "hits", "repairs"}

LEMMA Typed ==
    ASSUME TypeOK
    PROVE  /\ status \in [Requests -> {"idle", "asking", "serving"}]
           /\ pc \in [Requests -> Places]
           /\ kind \in [Requests -> Kinds]
           /\ ctxDone \in [Requests -> BOOLEAN]
           /\ attempt \in [Requests -> 0..MaxAttempts]
           /\ lastResp \in [Requests -> Saved]
           /\ answers \in [Requests -> Seq(Answers \cup Failures)]
           /\ response \in [Requests -> Seq(Written)]
           /\ metrics \in [Counters -> Nat]
BY DEF TypeOK, Places, Kinds, Saved, Written, Counters

(* A state of the right types, by its parts. *)
LEMMA Retyped ==
    ASSUME TypeOK,
           status' = status \/ status' \in [Requests -> {"idle", "asking", "serving"}],
           pc' \in [Requests -> Places],
           kind' = kind \/ kind' \in [Requests -> Kinds],
           ctxDone' = ctxDone \/ ctxDone' \in [Requests -> BOOLEAN],
           attempt' = attempt \/ attempt' \in [Requests -> 0..MaxAttempts],
           lastResp' = lastResp \/ lastResp' \in [Requests -> Saved],
           answers' = answers \/ answers' \in [Requests -> Seq(Answers \cup Failures)],
           response' = response \/ response' \in [Requests -> Seq(Written)],
           metrics' = metrics \/ metrics' \in [Counters -> Nat]
    PROVE  TypeOK'
BY DEF TypeOK, Places, Kinds, Saved, Written, Counters

LEMMA Updated ==
    ASSUME NEW S, NEW T, NEW f \in [S -> T], NEW x \in S, NEW y \in T
    PROVE  /\ [f EXCEPT ![x] = y] \in [S -> T] /\ [f EXCEPT ![x] = y][x] = y
           /\ \A z \in S \ {x} : [f EXCEPT ![x] = y][z] = f[z]
OBVIOUS

LEMMA Goes ==
    ASSUME TypeOK, NEW r \in Requests, NEW to \in Places, Go(r, to)
    PROVE  /\ pc' \in [Requests -> Places] /\ pc'[r] = to
           /\ \A x \in Requests \ {r} : pc'[x] = pc[x]
BY Typed, Updated DEF Go

LEMMA Responds ==
    ASSUME TypeOK, NEW r \in Requests, NEW code \in Nat,
           NEW body \in Answers \cup Failures \cup {Error},
           response[r] = <<>>, Respond(r, code, body)
    PROVE  /\ response' \in [Requests -> Seq(Written)]
           /\ response'[r] = <<[code |-> code, body |-> body]>>
           /\ \A x \in Requests \ {r} : response'[x] = response[x]
           /\ pc' \in [Requests -> Places] /\ pc'[r] = "leaving"
           /\ \A x \in Requests \ {r} : pc'[x] = pc[x]
<1> DEFINE m == [code |-> code, body |-> body]
<1>1. m \in Written
    BY DEF Written
<1>2. response \in [Requests -> Seq(Written)]
    BY Typed
<1>3. response' = [response EXCEPT ![r] = Append(response[r], m)] /\ Go(r, "leaving")
    BY DEF Respond
<1>4. Append(response[r], m) = <<m>> /\ <<m>> \in Seq(Written)
    BY <1>1
<1>5. /\ response' \in [Requests -> Seq(Written)] /\ response'[r] = <<m>>
      /\ \A x \in Requests \ {r} : response'[x] = response[x]
    BY <1>2, <1>3, <1>4, Updated
<1>6. "leaving" \in Places
    BY DEF Places
<1> QED
    BY <1>3, <1>5, <1>6, Goes

LEMMA Saves ==
    ASSUME TypeOK, NEW r \in Requests, NEW a \in Answers \cup Failures, Save(r, a)
    PROVE  /\ lastResp' \in [Requests -> Saved] /\ lastResp'[r] = a
           /\ \A x \in Requests \ {r} : lastResp'[x] = lastResp[x]
<1>1. lastResp \in [Requests -> Saved] /\ a \in Saved
    BY Typed DEF Saved
<1>2. lastResp' = [lastResp EXCEPT ![r] = a]
    BY DEF Save
<1> QED
    BY <1>1, <1>2, Updated

LEMMA Receives ==
    ASSUME TypeOK, NEW r \in Requests, NEW a \in Answers \cup Failures, Receive(r, a)
    PROVE  /\ answers' \in [Requests -> Seq(Answers \cup Failures)]
           /\ answers'[r] = Append(answers[r], a)
           /\ Len(answers'[r]) = Len(answers[r]) + 1 /\ Last(answers'[r]) = a
           /\ \A i \in 1..Len(answers[r]) : answers'[r][i] = answers[r][i]
           /\ \A x \in Requests \ {r} : answers'[x] = answers[x]
<1>1. answers \in [Requests -> Seq(Answers \cup Failures)]
    BY Typed
<1>2. answers[r] \in Seq(Answers \cup Failures)
    BY <1>1
<1>3. answers' = [answers EXCEPT ![r] = Append(answers[r], a)]
    BY DEF Receive
<1>4. Append(answers[r], a) \in Seq(Answers \cup Failures)
    BY <1>2, Appended
<1>5. /\ answers' \in [Requests -> Seq(Answers \cup Failures)]
      /\ answers'[r] = Append(answers[r], a)
      /\ \A x \in Requests \ {r} : answers'[x] = answers[x]
    BY <1>1, <1>3, <1>4, Updated
<1>6. /\ Len(Append(answers[r], a)) = Len(answers[r]) + 1 /\ Last(Append(answers[r], a)) = a
      /\ \A i \in 1..Len(answers[r]) : Append(answers[r], a)[i] = answers[r][i]
    BY <1>2, Appended
<1> QED
    BY <1>5, <1>6

-----------------------------------------------------------------------------
(* The course of the request that a step is about. *)

(* It has been answered just now... *)
LEMMA Served ==
    ASSUME NEW r \in Requests, NEW code, NEW body,
           pc'[r] = "leaving", response'[r] = <<[code |-> code, body |-> body]>>,
           body # Error => body = Last(answers'[r]),
           code = 502 /\ Last(answers'[r]) \in Answers => NormalizeFails(r, Last(answers[r]))',
           code = 200 /\ ~kind'[r].stream /\ IsResponseEmpty(body) =>
                \/ Len(answers'[r]) >= MaxAttempts
                \/ Len(answers'[r]) > 1 /\ ~IsResponseEmpty(answers'[r][Len(answers'[r]) - 1])
    PROVE  ResponseSoFar(r)' /\ AnswersSoFar(r)' /\ Answered(r)' /\ Latest(r)' /\ Retried(r)'
<1>1. Len(response'[r]) = 1 /\ DOMAIN response'[r] = {1} /\ response'[r] # <<>>
      /\ response'[r][1].code = code /\ response'[r][1].body = body
    OBVIOUS
<1>2. ResponseSoFar(r)' /\ AnswersSoFar(r)' /\ Answered(r)'
    BY <1>1 DEF ResponseSoFar, AnswersSoFar, Streamed, Attempted, Answered
<1>3. Latest(r)' /\ Retried(r)'
    BY <1>1 DEF Latest, Retried
<1> QED
    BY <1>2, <1>3

LEMMA ErrorServed ==
    ASSUME NEW r \in Requests, NEW code, code \notin {200, 502},
           pc'[r] = "leaving", response'[r] = <<[code |-> code, body |-> Error]>>
    PROVE  ResponseSoFar(r)' /\ AnswersSoFar(r)' /\ Answered(r)' /\ Latest(r)' /\ Retried(r)'
BY Served

(* ... or nothing has been written to it yet. *)
LEMMA Unwritten ==
    ASSUME NEW r \in Requests, response'[r] = <<>>, pc'[r] # "stream",
           pc'[r] = "leaving" => ctxDone'[r]
    PROVE  ResponseSoFar(r)' /\ Answered(r)' /\ Latest(r)' /\ Retried(r)'
BY DEF ResponseSoFar, Answered, Latest, Retried

LEMMA GoneSilent ==
    ASSUME NEW r \in Requests, response'[r] = <<>>, pc'[r] = "leaving", ctxDone'[r]
    PROVE  ResponseSoFar(r)' /\ AnswersSoFar(r)' /\ Answered(r)' /\ Latest(r)' /\ Retried(r)'
BY Unwritten DEF AnswersSoFar, Streamed, Attempted

(* No call has been made since, or one more, for a reason. *)
LEMMA NotResent ==
    ASSUME NEW r \in Requests, Resent(r), answers'[r] = answers[r], kind'[r] = kind[r]
    PROVE  Resent(r)'
BY DEF Resent, GivenUp, NormalizeFails

Reason(r, a) == IsResponseEmpty(a) \/ GivenUp(r, a)

LEMMA OnceMore ==
    ASSUME TypeOK, NEW r \in Requests, NEW a \in Answers \cup Failures,
           Receive(r, a), kind'[r] = kind[r], Len(answers[r]) <= MaxAttempts,
           Len(answers[r]) = 0 \/ (~kind[r].stream /\ Reason(r, answers[r][Len(answers[r])])),
           AllEmpty(answers[r], Len(answers[r]) - 1)
    PROVE  Resent(r)'
<1>1. /\ Len(answers[r]) \in Nat /\ Len(answers'[r]) = Len(answers[r]) + 1
      /\ \A i \in 1..Len(answers[r]) : answers'[r][i] = answers[r][i]
  <2>1. answers[r] \in Seq(Answers \cup Failures)
    BY Typed
  <2> QED
    BY <2>1, Receives
<1>2. (Len(answers[r]) <= MaxAttempts + 1)'
    BY <1>1, SettingsAssumption DEF MaxAttempts
<1>3. (Len(answers[r]) > 1 => ~kind[r].stream)'
    BY <1>1
<1>4. ASSUME NEW i \in 1..(Len(answers'[r]) - 1)
      PROVE  \/ IsResponseEmpty(answers'[r][i])
             \/ i = Len(answers'[r]) - 1 /\ GivenUp(r, answers[r][i])'
  <2>1. i \in 1..Len(answers[r]) /\ answers'[r][i] = answers[r][i]
    BY <1>1
  <2>2. CASE i = Len(answers[r])
    <3>1. Reason(r, answers[r][i])
      BY <1>1, <2>1, <2>2
    <3>2. CASE IsResponseEmpty(answers[r][i])
      BY <2>1, <3>2
    <3>3. CASE GivenUp(r, answers[r][i])
      <4>1. GivenUp(r, answers[r][i])'
        BY <2>1, <3>3 DEF GivenUp, NormalizeFails
      <4>2. i = Len(answers'[r]) - 1
        BY <1>1, <2>2
      <4> QED
        BY <2>1, <3>3, <4>1, <4>2
    <3> QED
      BY <3>1, <3>2, <3>3 DEF Reason
  <2>3. CASE i # Len(answers[r])
    <3>1. i \in 1..(Len(answers[r]) - 1)
      BY <1>1, <2>1, <2>3
    <3> QED
      BY <2>1, <3>1 DEF AllEmpty
  <2> QED
    BY <2>2, <2>3
<1> QED
    BY <1>2, <1>3, <1>4 DEF Resent

-----------------------------------------------------------------------------
(* What is known of a request in the handler. *)
LEMMA Courses ==
    ASSUME IInv, NEW r \in Requests
    PROVE  /\ TypeOK /\ ResponseSoFar(r) /\ Resent(r) /\ AnswersSoFar(r)
           /\ kind[r].stream \in BOOLEAN
           /\ kind[r].stream => Streamed(r)
           /\ ~kind[r].stream => Attempted(r)
           /\ attempt[r] \in Nat /\ MaxAttempts \in Nat \ {0}
           /\ answers[r] \in Seq(Answers \cup Failures) /\ Len(answers[r]) \in Nat
<1>1. TypeOK /\ Course(r)
    BY DEF IInv
<1>2. kind[r].stream \in BOOLEAN
  <2>1. kind[r] \in Kinds
    BY <1>1, Typed
  <2> QED
    BY <2>1, SettingsAssumption DEF Kinds
<1>3. MaxAttempts \in Nat \ {0}
    BY SettingsAssumption DEF MaxAttempts
<1>4. attempt[r] \in Nat
    BY <1>1, <1>3, Typed
<1>5. answers[r] \in Seq(Answers \cup Failures)
    BY <1>1, Typed
<1> QED
    BY <1>1, <1>2, <1>3, <1>4, <1>5 DEF Course, AnswersSoFar

(* A step of the handler with the slot it holds, but for where it goes and *)
(* what it writes.                                                         *)
Framed(r) ==
    /\ UNCHANGED <<status, kind, ctxDone>>
    /\ attempt' \in [Requests -> 0..MaxAttempts]
    /\ lastResp' \in [Requests -> Saved]
    /\ answers' \in [Requests -> Seq(Answers \cup Failures)]
    /\ metrics' \in [Counters -> Nat] /\ metrics'.active = metrics.active
    /\ \A x \in Requests \ {r} :
        /\ attempt'[x] = attempt[x] /\ lastResp'[x] = lastResp[x] /\ answers'[x] = answers[x]

Kept(r) == TypeOK' /\ Within(r) /\ Apart(r) /\ Course(r)'

LEMMA Counts ==
    ASSUME TypeOK, NEW c \in Counters \ {"active"}, NEW n \in Nat,
           metrics' = [metrics EXCEPT ![c] = n]
    PROVE  metrics' \in [Counters -> Nat] /\ metrics'.active = metrics.active
<1>1. metrics \in [Counters -> Nat]
    BY Typed
<1> QED
    BY <1>1 DEF Counters

(* It may go on, ... *)
LEMMA GoesOn ==
    ASSUME TypeOK, NEW r \in Requests, NEW to \in (Inside \cup {"leaving"}) \ {"read"},
           pc[r] \in Inside, Framed(r), Go(r, to), UNCHANGED response
    PROVE  TypeOK' /\ Within(r) /\ Apart(r) /\ pc'[r] = to
<1>1. to \in Places
    BY DEF Inside, Places
<1>2. /\ pc' \in [Requests -> Places] /\ pc'[r] = to
      /\ \A x \in Requests \ {r} : pc'[x] = pc[x]
    BY <1>1, Goes
<1>3. TypeOK'
    BY <1>2, Retyped DEF Framed
<1>4. Within(r)
    BY DEF Within, Framed, Go
<1>5. Apart(r)
    BY <1>2 DEF Apart, Framed
<1> QED
    BY <1>2, <1>3, <1>4, <1>5

(* ... give up a client that is gone, ... *)
LEMMA GivesUp ==
    ASSUME TypeOK, NEW r \in Requests, pc[r] \in Inside, Framed(r), Silent(r),
           ctxDone[r], response[r] = <<>>, Resent(r)'
    PROVE  Kept(r)
<1>1. Go(r, "leaving") /\ response' = response
    BY DEF Silent
<1>2. "leaving" \in (Inside \cup {"leaving"}) \ {"read"}
    OBVIOUS
<1>3. TypeOK' /\ Within(r) /\ Apart(r) /\ pc'[r] = "leaving"
    BY <1>1, <1>2, GoesOn
<1>4. response'[r] = <<>> /\ ctxDone'[r]
    BY <1>1 DEF Framed
<1> QED
    BY <1>3, <1>4, GoneSilent DEF Kept, Course

(* ... or write its response. *)
LEMMA Ends ==
    ASSUME TypeOK, NEW r \in Requests, NEW code \in Nat,
           NEW body \in Answers \cup Failures \cup {Error},
           pc[r] \in Inside, Framed(r), Respond(r, code, body), response[r] = <<>>, Resent(r)',
           body # Error => body = Last(answers'[r]),
           code = 502 /\ Last(answers'[r]) \in Answers => NormalizeFails(r, Last(answers[r]))',
           code = 200 /\ ~kind'[r].stream /\ IsResponseEmpty(body) =>
                \/ Len(answers'[r]) >= MaxAttempts
                \/ Len(answers'[r]) > 1 /\ ~IsResponseEmpty(answers'[r][Len(answers'[r]) - 1])
    PROVE  Kept(r)
<1>1. /\ response' \in [Requests -> Seq(Written)] /\ pc' \in [Requests -> Places]
      /\ response'[r] = <<[code |-> code, body |-> body]>> /\ pc'[r] = "leaving"
      /\ \A x \in Requests \ {r} : response'[x] = response[x] /\ pc'[x] = pc[x]
    BY Responds
<1>2. TypeOK'
    BY <1>1, Retyped DEF Framed
<1>3. Within(r)
    BY DEF Within, Framed, Respond, Go
<1>4. Apart(r)
    BY <1>1 DEF Apart, Framed
<1>5. ResponseSoFar(r)' /\ AnswersSoFar(r)' /\ Answered(r)' /\ Latest(r)' /\ Retried(r)'
    BY <1>1, Served
<1> QED
    BY <1>2, <1>3, <1>4, <1>5 DEF Kept, Course

LEMMA EndsInError ==
    ASSUME TypeOK, NEW r \in Requests, NEW code \in Nat \ {200},
           pc[r] \in Inside, Framed(r), Respond(r, code, Error), response[r] = <<>>, Resent(r)',
           code = 502 /\ Last(answers'[r]) \in Answers => NormalizeFails(r, Last(answers[r]))'
    PROVE  Kept(r)
BY Ends

LEMMA EndsOtherwise ==
    ASSUME TypeOK, NEW r \in Requests, NEW code \in Nat \ {200, 502},
           NEW body \in Answers \cup Failures \cup {Error},
           pc[r] \in Inside, Framed(r), Respond(r, code, body), response[r] = <<>>, Resent(r)',
           body = Last(answers'[r])
    PROVE  Kept(r)
BY Ends

LEMMA EndsWell ==
    ASSUME TypeOK, NEW r \in Requests, NEW body \in Answers,
           pc[r] \in Inside, Framed(r), Respond(r, 200, body), response[r] = <<>>, Resent(r)',
           body = Last(answers'[r]),
           IsResponseEmpty(body) =>
                \/ Len(answers'[r]) >= MaxAttempts
                \/ Len(answers'[r]) > 1 /\ ~IsResponseEmpty(answers'[r][Len(answers'[r]) - 1])
    PROVE  Kept(r)
<1>1. 200 \in Nat /\ 200 # 502 /\ body \in Answers \cup Failures \cup {Error}
    OBVIOUS
<1> QED
    BY <1>1, Ends

-----------------------------------------------------------------------------
(* One lemma for each step of the handler that holds a slot. *)

LEMMA ReadKeeps ==
    ASSUME IInv, NEW r \in Requests, Read(r)
    PROVE  Kept(r)
<1>1. /\ TypeOK /\ pc[r] \in Inside /\ response[r] = <<>> /\ answers[r] = <<>>
      /\ ~kind[r].stream => attempt[r] = 0
    BY Courses DEF Read, ResponseSoFar, Streamed, Attempted, Inside
<1>2. UNCHANGED <<status, kind, ctxDone, attempt, lastResp, answers, metrics>>
    BY DEF Read
<1>3. Framed(r)
    BY <1>1, <1>2, Typed DEF Framed
<1>4. Resent(r)'
    BY <1>2, Courses, NotResent
<1>5. CASE \E code \in {413, 400, 403, 500} : Respond(r, code, Error)
    BY <1>1, <1>3, <1>4, <1>5, EndsInError
<1>6. CASE Go(r, IF kind[r].stream THEN "call" ELSE "attempt") /\ UNCHANGED response
  <2> DEFINE to == IF kind[r].stream THEN "call" ELSE "attempt"
  <2>1. to \in Inside \ {"read"} /\ to # "stream" /\ to # "leaving"
    BY DEF Inside
  <2>2. TypeOK' /\ Within(r) /\ Apart(r) /\ pc'[r] = to
    BY <1>1, <1>3, <1>6, <2>1, GoesOn
  <2>3. AnswersSoFar(r)'
    <3>1. CASE kind[r].stream
      BY <1>1, <1>2, <2>2, <3>1 DEF AnswersSoFar, Streamed
    <3>2. CASE ~kind[r].stream
      <4>1. pc'[r] = "attempt" /\ ~kind'[r].stream
        BY <1>2, <2>2, <3>2
      <4>2. Len(answers'[r]) = 0 /\ attempt'[r] = 0 /\ 0 < MaxAttempts
        BY <1>1, <1>2, <3>2, Courses
      <4>3. AllEmpty(answers[r], Len(answers[r]))'
        BY <4>2 DEF AllEmpty
      <4> QED
        BY <4>1, <4>2, <4>3 DEF AnswersSoFar, Attempted
    <3> QED
      BY <3>1, <3>2
  <2> QED
    BY <1>1, <1>4, <1>6, <2>1, <2>2, <2>3, Unwritten DEF Kept, Course
<1> QED
    BY <1>5, <1>6 DEF Read

LEMMA AttemptKeeps ==
    ASSUME IInv, NEW r \in Requests, Attempt(r)
    PROVE  Kept(r)
<1>1. /\ TypeOK /\ pc[r] \in Inside /\ response[r] = <<>> /\ ~kind[r].stream
      /\ Len(answers[r]) = attempt[r] /\ attempt[r] < MaxAttempts
      /\ AllEmpty(answers[r], Len(answers[r]))
    BY Courses DEF Attempt, ResponseSoFar, Streamed, Attempted, Inside
<1>2. UNCHANGED <<status, kind, ctxDone, lastResp, answers>>
    BY DEF Attempt
<1>3. Resent(r)'
    BY <1>2, Courses, NotResent
<1>4. CASE ctxDone[r] /\ Silent(r) /\ UNCHANGED <<attempt, metrics>>
  <2>1. Framed(r)
    BY <1>1, <1>2, <1>4, Typed DEF Framed
  <2> QED
    BY <1>1, <1>3, <1>4, <2>1, GivesUp
<1>5. CASE /\ ~ctxDone[r]
           /\ attempt' = [attempt EXCEPT ![r] = @ + 1]
           /\ metrics' = [metrics EXCEPT !.retries = IF attempt[r] > 0 THEN @ + 1 ELSE @]
           /\ \/ Go(r, "call") /\ UNCHANGED response
              \/ Respond(r, 500, Error)
  <2>1. /\ attempt' \in [Requests -> 0..MaxAttempts] /\ attempt'[r] = attempt[r] + 1
        /\ \A x \in Requests \ {r} : attempt'[x] = attempt[x]
    <3>1. attempt[r] + 1 \in 0..MaxAttempts
      BY <1>1, Courses
    <3> QED
      BY <1>1, <1>5, <3>1, Typed, Updated
  <2>2. metrics' \in [Counters -> Nat] /\ metrics'.active = metrics.active
    <3> DEFINE n == IF attempt[r] > 0 THEN metrics.retries + 1 ELSE metrics.retries
    <3>1. metrics \in [Counters -> Nat] /\ "retries" \in Counters \ {"active"}
      BY <1>1, Typed DEF Counters
    <3>2. n \in Nat
      BY <3>1
    <3>3. metrics' = [metrics EXCEPT !["retries"] = n]
      BY <1>5
    <3> QED
      BY <1>1, <3>1, <3>2, <3>3, Counts
  <2>3. Framed(r)
    BY <1>1, <1>2, <2>1, <2>2, Typed DEF Framed
  <2>4. CASE Go(r, "call") /\ UNCHANGED response
    <3>1. TypeOK' /\ Within(r) /\ Apart(r) /\ pc'[r] = "call"
      BY <1>1, <2>3, <2>4, GoesOn DEF Inside
    <3>2. Len(answers'[r]) = attempt'[r] - 1 /\ ~kind'[r].stream
      BY <1>1, <1>2, <2>1, Courses
    <3>3. AllEmpty(answers[r], Len(answers[r]))'
      BY <1>1, <1>2 DEF AllEmpty
    <3>4. AnswersSoFar(r)'
      BY <3>1, <3>2, <3>3 DEF AnswersSoFar, Attempted
    <3> QED
      BY <1>1, <1>3, <2>4, <3>1, <3>4, Unwritten DEF Kept, Course
  <2>5. CASE Respond(r, 500, Error)
    BY <1>1, <1>3, <2>3, <2>5, EndsInError
  <2> QED
    BY <1>5, <2>4, <2>5
<1> QED
    BY <1>4, <1>5 DEF Attempt

LEMMA FailureIsNoAnswer ==
    ASSUME NEW f \in Failures
    PROVE  f \notin Answers
BY DEF Failures, Answers

(* Every answer to the calls of the loop but the latest was empty. *)
LEMMA CallReceives ==
    ASSUME IInv, NEW r \in Requests, pc[r] = "call", NEW a \in Answers \cup Failures,
           Receive(r, a), UNCHANGED <<status, kind, ctxDone, attempt, metrics>>,
           Save(r, a) \/ UNCHANGED lastResp
    PROVE  /\ Framed(r) /\ Resent(r)'
           /\ Len(answers'[r]) = Len(answers[r]) + 1 /\ Last(answers'[r]) = a
           /\ AllEmpty(answers[r], Len(answers[r]) - 1)'
<1>1. TypeOK /\ MaxAttempts \in Nat /\ Len(answers[r]) \in Nat /\ attempt[r] \in Nat
    BY Courses
<1>2. attempt[r] <= MaxAttempts
    BY <1>1, Typed
<1>3. /\ kind[r].stream => answers[r] = <<>>
      /\ ~kind[r].stream => Len(answers[r]) = attempt[r] - 1
      /\ AllEmpty(answers[r], Len(answers[r]))
  <2>1. CASE kind[r].stream
    <3>1. answers[r] = <<>>
      BY <2>1, Courses DEF Streamed
    <3> QED
      BY <2>1, <3>1 DEF AllEmpty
  <2>2. CASE ~kind[r].stream
    BY <2>2, Courses DEF Attempted
  <2> QED
    BY <2>1, <2>2
<1>4. /\ answers' \in [Requests -> Seq(Answers \cup Failures)]
      /\ Len(answers'[r]) = Len(answers[r]) + 1 /\ Last(answers'[r]) = a
      /\ \A i \in 1..Len(answers[r]) : answers'[r][i] = answers[r][i]
      /\ \A x \in Requests \ {r} : answers'[x] = answers[x]
    BY <1>1, Receives
<1>5. Framed(r)
  <2>1. /\ lastResp' \in [Requests -> Saved]
        /\ \A x \in Requests \ {r} : lastResp'[x] = lastResp[x]
    BY <1>1, Saves, Typed
  <2> QED
    BY <1>1, <1>4, <2>1, Typed DEF Framed
<1>6. AllEmpty(answers[r], Len(answers[r]) - 1)'
  <2>1. Len(answers'[r]) - 1 = Len(answers[r])
    BY <1>1, <1>4
  <2> QED
    BY <1>3, <1>4, <2>1 DEF AllEmpty
<1>7. Resent(r)'
  <2>1. Len(answers[r]) <= MaxAttempts
    BY <1>1, <1>2, <1>3
  <2>2. AllEmpty(answers[r], Len(answers[r]) - 1)
    BY <1>1, <1>3 DEF AllEmpty
  <2>3. Len(answers[r]) = 0 \/ (~kind[r].stream /\ Reason(r, answers[r][Len(answers[r])]))
    <3>1. CASE Len(answers[r]) # 0
      <4>1. IsResponseEmpty(answers[r][Len(answers[r])])
        BY <1>1, <1>3, <3>1 DEF AllEmpty
      <4>2. Reason(r, answers[r][Len(answers[r])])
        BY <4>1 DEF Reason
      <4>3. ~kind[r].stream
        BY <1>3, <3>1
      <4> QED
        BY <4>2, <4>3
    <3> QED
      BY <3>1
  <2>4. kind'[r] = kind[r]
    OBVIOUS
  <2> QED
    BY <1>1, <2>1, <2>2, <2>3, <2>4, OnceMore
<1> QED
    BY <1>4, <1>5, <1>6, <1>7

LEMMA CallFailsKeeps ==
    ASSUME IInv, NEW r \in Requests, CallFails(r)
    PROVE  Kept(r)
<1>1. TypeOK /\ pc[r] = "call" /\ pc[r] \in Inside /\ response[r] = <<>>
    BY Courses DEF CallFails, ResponseSoFar, Inside
<1>2. PICK f \in Failures :
            /\ Receive(r, f)
            /\ CASE f.result = "connection" ->
                        IF ctxDone[r] THEN Silent(r) ELSE Respond(r, 502, Error)
                 [] f.result = "status" -> Respond(r, 429, f)
                 [] OTHER -> Respond(r, 502, Error)
            /\ IF f.result = "status" /\ ~kind[r].stream THEN Save(r, f) ELSE UNCHANGED lastResp
    BY DEF CallFails
<1>3. Framed(r) /\ Resent(r)' /\ Last(answers'[r]) = f
    BY <1>1, <1>2, CallReceives DEF CallFails
<1>4. \/ ctxDone[r] /\ Silent(r)
      \/ Respond(r, 502, Error)
      \/ Respond(r, 429, f)
    BY <1>2
<1>5. Last(answers'[r]) \notin Answers
    BY <1>3, FailureIsNoAnswer
<1>6. CASE ctxDone[r] /\ Silent(r)
    BY <1>1, <1>3, <1>6, GivesUp
<1>7. CASE Respond(r, 502, Error)
    BY <1>1, <1>3, <1>5, <1>7, EndsInError
<1>8. CASE Respond(r, 429, f)
  <2>1. 429 \in Nat \ {200, 502} /\ f \in Answers \cup Failures \cup {Error}
    OBVIOUS
  <2> QED
    BY <1>1, <1>3, <1>8, <2>1, EndsOtherwise
<1> QED
    BY <1>4, <1>6, <1>7, <1>8

LEMMA CallAnswersKeeps ==
    ASSUME IInv, NEW r \in Requests, CallAnswers(r)
    PROVE  Kept(r)
<1>1. /\ TypeOK /\ pc[r] = "call" /\ pc[r] \in Inside /\ response[r] = <<>>
      /\ ~kind[r].stream /\ Len(answers[r]) = attempt[r] - 1 /\ attempt[r] \in 1..MaxAttempts
  <2>1. TypeOK /\ pc[r] = "call" /\ ~kind[r].stream /\ response[r] = <<>>
    BY Courses DEF CallAnswers, ResponseSoFar
  <2>2. Len(answers[r]) = attempt[r] - 1 /\ Len(answers[r]) \in Nat
    BY <2>1, Courses DEF Attempted
  <2>3. attempt[r] \in 0..MaxAttempts
    BY <2>1, Typed
  <2> QED
    BY <2>1, <2>2, <2>3, Courses DEF Inside
<1>2. PICK a \in Answers :
            /\ Receive(r, a) /\ Save(r, a)
            /\ Go(r, IF IsResponseEmpty(a) /\ attempt[r] < MaxAttempts THEN "sleep" ELSE "normalize")
    BY DEF CallAnswers
<1>3. UNCHANGED <<status, kind, ctxDone, attempt, response, metrics>>
    BY DEF CallAnswers
<1>4. /\ Framed(r) /\ Resent(r)'
      /\ Len(answers'[r]) = attempt'[r] /\ Last(answers'[r]) = a
      /\ AllEmpty(answers[r], Len(answers[r]) - 1)'
  <2>1. /\ Framed(r) /\ Resent(r)'
        /\ Len(answers'[r]) = Len(answers[r]) + 1 /\ Last(answers'[r]) = a
        /\ AllEmpty(answers[r], Len(answers[r]) - 1)'
    BY <1>1, <1>2, <1>3, CallReceives
  <2> QED
    BY <1>1, <1>3, <2>1
<1> DEFINE again == IsResponseEmpty(a) /\ attempt[r] < MaxAttempts
           to == IF again THEN "sleep" ELSE "normalize"
<1>5. to \in Inside \ {"read"} /\ to # "stream" /\ to # "leaving"
    BY DEF Inside
<1>6. TypeOK' /\ Within(r) /\ Apart(r) /\ pc'[r] = to
    BY <1>1, <1>2, <1>3, <1>4, <1>5, GoesOn
<1>7. AnswersSoFar(r)'
  <2>1. CASE again
    <3>1. pc'[r] = "sleep" /\ ~kind'[r].stream /\ attempt'[r] < MaxAttempts
      BY <1>1, <1>3, <1>6, <2>1
    <3>2. answers'[r] \in Seq(Answers \cup Failures) /\ Len(answers'[r]) \in Nat
      BY <1>4 DEF Framed
    <3>3. answers'[r][Len(answers'[r])] = a
      BY <1>4 DEF Last
    <3>4. AllEmpty(answers[r], Len(answers[r]))'
      BY <1>4, <2>1, <3>2, <3>3 DEF AllEmpty
    <3> QED
      BY <1>4, <3>1, <3>4 DEF AnswersSoFar, Attempted
  <2>2. CASE ~again
    <3>1. pc'[r] = "normalize" /\ ~kind'[r].stream
      BY <1>1, <1>3, <1>6, <2>2
    <3>2. lastResp'[r] = Last(answers'[r])
      BY <1>1, <1>2, <1>4, Saves
    <3>3. /\ attempt'[r] > 0 /\ Last(answers'[r]) \in Answers
          /\ IsResponseEmpty(Last(answers'[r])) => attempt'[r] = MaxAttempts
      BY <1>1, <1>3, <1>4, <2>2, Courses
    <3> QED
      BY <1>4, <3>1, <3>2, <3>3 DEF AnswersSoFar, Attempted
  <2> QED
    BY <2>1, <2>2
<1> QED
    BY <1>1, <1>3, <1>4, <1>5, <1>6, <1>7, Unwritten DEF Kept, Course

LEMMA SleepKeeps ==
    ASSUME IInv, NEW r \in Requests, Sleep(r)
    PROVE  Kept(r)
<1>1. /\ TypeOK /\ pc[r] \in Inside /\ response[r] = <<>> /\ ~kind[r].stream
      /\ Len(answers[r]) = attempt[r] /\ attempt[r] < MaxAttempts
      /\ AllEmpty(answers[r], Len(answers[r]))
    BY Courses DEF Sleep, ResponseSoFar, Streamed, Attempted, Inside
<1>2. UNCHANGED <<status, kind, ctxDone, attempt, lastResp, answers, response, metrics>>
    BY DEF Sleep
<1>3. Framed(r)
    BY <1>1, <1>2, Typed DEF Framed
<1>4. TypeOK' /\ Within(r) /\ Apart(r) /\ pc'[r] = "attempt"
    BY <1>1, <1>2, <1>3, GoesOn DEF Sleep, Inside
<1>5. AllEmpty(answers[r], Len(answers[r]))'
    BY <1>1, <1>2 DEF AllEmpty
<1>6. AnswersSoFar(r)'
    BY <1>1, <1>2, <1>4, <1>5 DEF AnswersSoFar, Attempted
<1>7. Resent(r)'
    BY <1>2, Courses, NotResent
<1> QED
    BY <1>1, <1>2, <1>4, <1>6, <1>7, Unwritten DEF Kept, Course

(* What the loop has left when the answer is normalised. *)
AfterLoop(r) == pc[r] \in {"normalize", "format retry"}

LEMMA LoopLeft ==
    ASSUME IInv, NEW r \in Requests, AfterLoop(r)
    PROVE  /\ TypeOK /\ pc[r] \in Inside /\ response[r] = <<>> /\ ~kind[r].stream
           /\ Len(answers[r]) = attempt[r] /\ attempt[r] \in 1..MaxAttempts
           /\ AllEmpty(answers[r], Len(answers[r]) - 1)
           /\ Last(answers[r]) \in Answers
           /\ IsResponseEmpty(Last(answers[r])) => attempt[r] = MaxAttempts
           /\ pc[r] = "normalize" => lastResp[r] = Last(answers[r])
           /\ pc[r] = "format retry" => GivenUp(r, Last(answers[r]))
<1>1. TypeOK /\ pc[r] \in Inside /\ response[r] = <<>> /\ ~kind[r].stream
    BY Courses DEF ResponseSoFar, Streamed, Inside, AfterLoop
<1>2. Attempted(r)
    BY <1>1, Courses
<1>3. attempt[r] \in Nat /\ MaxAttempts \in Nat
    BY Courses
<1>4. attempt[r] > 0
    BY <1>2 DEF Attempted, AfterLoop
<1>5. attempt[r] \in 1..MaxAttempts
  <2>1. attempt[r] <= MaxAttempts
    BY <1>1, <1>3, Typed
  <2> QED
    BY <1>3, <1>4, <2>1
<1> QED
    BY <1>1, <1>2, <1>5 DEF Attempted, AfterLoop

(* Real calls that were not counted are those of choices behind a failing  *)
(* one.                                                                    *)
LEMMA RetryableGivenUp ==
    ASSUME NEW r, NEW a, Retryable(r, a)
    PROVE  GivenUp(r, a)
<1>1. ASSUME NEW j \in DOMAIN a.choices, a.choices[j].real
      PROVE  \E f \in 1..(j - 1) : Unusable(a.choices[f])
    BY <1>1 DEF Retryable, Visited
<1> QED
    BY <1>1 DEF Retryable, GivenUp, RealCallsBehindFailure

LEMMA NormalizeKeeps ==
    ASSUME IInv, NEW r \in Requests, Normalize(r)
    PROVE  Kept(r)
<1> DEFINE a == Last(answers[r])
<1>0. pc[r] = "normalize"
    BY DEF Normalize
<1>1. /\ TypeOK /\ pc[r] \in Inside /\ response[r] = <<>> /\ ~kind[r].stream
      /\ Len(answers[r]) = attempt[r] /\ attempt[r] \in 1..MaxAttempts
      /\ AllEmpty(answers[r], Len(answers[r]) - 1)
      /\ a \in Answers
      /\ IsResponseEmpty(a) => attempt[r] = MaxAttempts
      /\ lastResp[r] = a
    BY <1>0, LoopLeft DEF AfterLoop
<1>2. UNCHANGED <<status, kind, ctxDone, attempt, lastResp, answers>>
    BY DEF Normalize
<1>3. Resent(r)'
    BY <1>2, Courses, NotResent
<1>4. CASE /\ Respond(r, 200, a)
           /\ metrics' = [metrics EXCEPT
                    !.hits = IF kind[r].wrapped /\ HasTransport(a, {"whole", "repairable"})
                             THEN @ + 1 ELSE @,
                    !.repairs = IF kind[r].wrapped /\ HasTransport(a, {"repairable"})
                                THEN @ + 1 ELSE @]
  <2>1. metrics' \in [Counters -> Nat] /\ metrics'.active = metrics.active
    <3> DEFINE h == IF kind[r].wrapped /\ HasTransport(a, {"whole", "repairable"})
                    THEN metrics.hits + 1 ELSE metrics.hits
               p == IF kind[r].wrapped /\ HasTransport(a, {"repairable"})
                    THEN metrics.repairs + 1 ELSE metrics.repairs
    <3>1. metrics \in [Counters -> Nat]
      BY <1>1, Typed
    <3>2. h \in Nat /\ p \in Nat
      BY <3>1 DEF Counters
    <3>3. metrics' = [metrics EXCEPT !["hits"] = h, !["repairs"] = p]
      BY <1>4
    <3> HIDE DEF h, p
    <3> QED
      BY <3>1, <3>2, <3>3 DEF Counters
  <2>2. Framed(r)
    BY <1>1, <1>2, <2>1, Typed DEF Framed
  <2>3. a = Last(answers'[r]) /\ Len(answers'[r]) = attempt[r] /\ MaxAttempts \in Nat
    BY <1>1, <1>2, Courses
  <2>4. IsResponseEmpty(a) => Len(answers'[r]) >= MaxAttempts
    BY <1>1, <2>3
  <2> HIDE DEF a
  <2> QED
    BY <1>1, <1>3, <1>4, <2>2, <2>3, <2>4, EndsWell
<1>5. CASE /\ NormalizeFails(r, a) /\ UNCHANGED metrics
           /\ IF RecoveryPolicy = "repair_then_retry" /\ Retryable(r, a) /\ ~ctxDone[r]
              THEN Go(r, "format retry") /\ UNCHANGED response
              ELSE Respond(r, 502, Error)
  <2>1. Framed(r)
    BY <1>1, <1>2, <1>5, Typed DEF Framed
  <2>2. CASE Respond(r, 502, Error)
    <3>1. NormalizeFails(r, Last(answers[r]))'
      BY <1>2, <1>5 DEF NormalizeFails
    <3> QED
      BY <1>1, <1>3, <2>1, <2>2, <3>1, EndsInError
  <2>3. CASE Retryable(r, a) /\ Go(r, "format retry") /\ UNCHANGED response
    <3>1. TypeOK' /\ Within(r) /\ Apart(r) /\ pc'[r] = "format retry"
      BY <1>1, <2>1, <2>3, GoesOn DEF Inside
    <3>2. GivenUp(r, a)
      BY <2>3, RetryableGivenUp
    <3>3. GivenUp(r, Last(answers[r]))'
      BY <1>2, <3>2 DEF GivenUp, NormalizeFails
    <3>4. AllEmpty(answers[r], Len(answers[r]) - 1)'
      BY <1>1, <1>2 DEF AllEmpty
    <3>5. Last(answers'[r]) = a /\ answers'[r] = answers[r] /\ attempt'[r] = attempt[r]
      BY <1>2
    <3>6. attempt'[r] > 0 /\ Len(answers'[r]) = attempt'[r]
      BY <1>1, <3>5, Courses
    <3> HIDE DEF a
    <3>7. IsResponseEmpty(a) => attempt'[r] = MaxAttempts
      BY <1>1, <3>5
    <3>8. Attempted(r)'
      BY <1>1, <3>1, <3>2, <3>3, <3>4, <3>5, <3>6, <3>7 DEF Attempted
    <3>9. AnswersSoFar(r)'
      BY <1>1, <1>2, <3>8 DEF AnswersSoFar
    <3> QED
      BY <1>1, <1>3, <2>3, <3>1, <3>9, Unwritten DEF Kept, Course
  <2> QED
    BY <1>5, <2>2, <2>3
<1> QED
    BY <1>1, <1>4, <1>5 DEF Normalize

LEMMA FormatRetryKeeps ==
    ASSUME IInv, NEW r \in Requests, FormatRetry(r)
    PROVE  Kept(r)
<1>1. /\ TypeOK /\ pc[r] \in Inside /\ response[r] = <<>> /\ ~kind[r].stream
      /\ Len(answers[r]) = attempt[r] /\ attempt[r] \in 1..MaxAttempts
      /\ AllEmpty(answers[r], Len(answers[r]) - 1)
      /\ IsResponseEmpty(Last(answers[r])) => attempt[r] = MaxAttempts
      /\ GivenUp(r, Last(answers[r])) /\ Reason(r, Last(answers[r]))
    BY LoopLeft DEF FormatRetry, AfterLoop, Reason
<1>2. UNCHANGED <<status, kind, ctxDone, attempt, lastResp>>
    BY DEF FormatRetry
<1>3. ASSUME NEW a \in Answers \cup Failures, Receive(r, a)
      PROVE  /\ answers' \in [Requests -> Seq(Answers \cup Failures)]
             /\ \A x \in Requests \ {r} : answers'[x] = answers[x]
             /\ Resent(r)' /\ a = Last(answers'[r])
             /\ \/ ~IsResponseEmpty(Last(answers[r]))
                \/ Len(answers'[r]) >= MaxAttempts
             /\ Len(answers'[r]) > 1 /\ answers'[r][Len(answers'[r]) - 1] = Last(answers[r])
  <2>1. /\ answers' \in [Requests -> Seq(Answers \cup Failures)]
        /\ Len(answers'[r]) = Len(answers[r]) + 1 /\ Last(answers'[r]) = a
        /\ \A i \in 1..Len(answers[r]) : answers'[r][i] = answers[r][i]
        /\ \A x \in Requests \ {r} : answers'[x] = answers[x]
    BY <1>1, <1>3, Receives
  <2>2. Len(answers[r]) \in Nat \ {0} /\ Len(answers[r]) <= MaxAttempts /\ MaxAttempts \in Nat
    BY <1>1, Courses
  <2>3. Last(answers[r]) = answers[r][Len(answers[r])]
    BY DEF Last
  <2>4. Resent(r)'
    <3>1. Len(answers[r]) = 0 \/ (~kind[r].stream /\ Reason(r, answers[r][Len(answers[r])]))
      BY <1>1, <2>3
    <3>2. kind'[r] = kind[r]
      BY <1>2
    <3> QED
      BY <1>1, <1>3, <2>2, <3>1, <3>2, OnceMore
  <2>5. ~IsResponseEmpty(Last(answers[r])) \/ Len(answers'[r]) >= MaxAttempts
    BY <1>1, <2>1, <2>2
  <2> QED
    BY <2>1, <2>2, <2>3, <2>4, <2>5
<1>4. CASE \E a \in Answers :
            /\ Receive(r, a)
            /\ IF NormalizeFails(r, a)
               THEN Respond(r, 502, Error) /\ UNCHANGED metrics
               ELSE /\ Respond(r, 200, a)
                    /\ metrics' = [metrics EXCEPT !.retries = @ + 1]
  <2>1. PICK a \in Answers :
            /\ Receive(r, a)
            /\ IF NormalizeFails(r, a)
               THEN Respond(r, 502, Error) /\ UNCHANGED metrics
               ELSE /\ Respond(r, 200, a)
                    /\ metrics' = [metrics EXCEPT !.retries = @ + 1]
    BY <1>4
  <2>2. /\ answers' \in [Requests -> Seq(Answers \cup Failures)]
        /\ \A x \in Requests \ {r} : answers'[x] = answers[x]
        /\ Resent(r)' /\ a = Last(answers'[r])
        /\ \/ ~IsResponseEmpty(Last(answers[r]))
           \/ Len(answers'[r]) >= MaxAttempts
        /\ Len(answers'[r]) > 1 /\ answers'[r][Len(answers'[r]) - 1] = Last(answers[r])
    BY <1>3, <2>1
  <2>3. CASE NormalizeFails(r, a) /\ Respond(r, 502, Error) /\ UNCHANGED metrics
    <3>1. Framed(r)
      BY <1>1, <1>2, <2>2, <2>3, Typed DEF Framed
    <3>2. NormalizeFails(r, Last(answers[r]))'
      BY <1>2, <2>2, <2>3 DEF NormalizeFails
    <3> QED
      BY <1>1, <2>2, <2>3, <3>1, <3>2, EndsInError
  <2>4. CASE Respond(r, 200, a) /\ metrics' = [metrics EXCEPT !.retries = @ + 1]
    <3>1. metrics' \in [Counters -> Nat] /\ metrics'.active = metrics.active
      <4>1. metrics \in [Counters -> Nat] /\ "retries" \in Counters \ {"active"}
        BY <1>1, Typed DEF Counters
      <4>2. metrics.retries + 1 \in Nat
        BY <4>1
      <4>3. metrics' = [metrics EXCEPT !["retries"] = metrics.retries + 1]
        BY <2>4
      <4> QED
        BY <1>1, <4>1, <4>2, <4>3, Counts
    <3>2. Framed(r)
      BY <1>1, <1>2, <2>2, <3>1, Typed DEF Framed
    <3>3. \/ Len(answers'[r]) >= MaxAttempts
          \/ Len(answers'[r]) > 1 /\ ~IsResponseEmpty(answers'[r][Len(answers'[r]) - 1])
      BY <2>2
    <3> QED
      BY <1>1, <2>2, <2>4, <3>2, <3>3, EndsWell
  <2> QED
    BY <2>1, <2>3, <2>4
<1>5. CASE /\ UNCHANGED answers \/ \E f \in Failures : Receive(r, f)
           /\ Respond(r, 502, Error)
           /\ UNCHANGED metrics
  <2>1. /\ answers' \in [Requests -> Seq(Answers \cup Failures)]
        /\ \A x \in Requests \ {r} : answers'[x] = answers[x]
        /\ Resent(r)'
        /\ Last(answers'[r]) \in Answers => NormalizeFails(r, Last(answers[r]))'
    <3>1. CASE UNCHANGED answers
      <4>1. NormalizeFails(r, Last(answers[r]))'
        BY <1>1, <1>2, <3>1 DEF GivenUp, NormalizeFails
      <4> QED
        BY <1>1, <1>2, <3>1, <4>1, Typed, Courses, NotResent
    <3>2. CASE \E f \in Failures : Receive(r, f)
      <4>1. PICK f \in Failures : Receive(r, f)
        BY <3>2
      <4>2. Last(answers'[r]) \notin Answers
        BY <1>3, <4>1, FailureIsNoAnswer
      <4> QED
        BY <1>3, <4>1, <4>2
    <3> QED
      BY <1>5, <3>1, <3>2
  <2>2. Framed(r)
    BY <1>1, <1>2, <1>5, <2>1, Typed DEF Framed
  <2> QED
    BY <1>1, <1>5, <2>1, <2>2, EndsInError
<1> QED
    BY <1>4, <1>5 DEF FormatRetry

LEMMA StreamStartsKeeps ==
    ASSUME IInv, NEW r \in Requests, StreamStarts(r)
    PROVE  Kept(r)
<1>1. /\ TypeOK /\ pc[r] = "call" /\ pc[r] \in Inside /\ response[r] = <<>>
      /\ kind[r].stream /\ answers[r] = <<>>
    BY Courses DEF StreamStarts, ResponseSoFar, Streamed, Inside
<1>2. UNCHANGED <<status, kind, ctxDone, attempt, lastResp, metrics>> /\ Go(r, "stream")
    BY DEF StreamStarts
<1>3. PICK a \in Answers :
            /\ Receive(r, a)
            /\ response' = [response EXCEPT ![r] = Append(@, [code |-> 200, body |-> a])]
    BY DEF StreamStarts
<1>4. /\ Framed(r) /\ Resent(r)'
      /\ Len(answers'[r]) = 1 /\ Last(answers'[r]) = a
  <2>1. /\ Framed(r) /\ Resent(r)'
        /\ Len(answers'[r]) = Len(answers[r]) + 1 /\ Last(answers'[r]) = a
    BY <1>1, <1>2, <1>3, CallReceives
  <2> QED
    BY <1>1, <2>1
<1> DEFINE m == [code |-> 200, body |-> a]
<1>5. /\ response' \in [Requests -> Seq(Written)] /\ response'[r] = <<m>>
      /\ \A x \in Requests \ {r} : response'[x] = response[x]
  <2>1. m \in Written
    BY DEF Written
  <2>2. Append(response[r], m) = <<m>> /\ <<m>> \in Seq(Written)
    BY <1>1, <2>1
  <2>3. response \in [Requests -> Seq(Written)] /\ response' = [response EXCEPT ![r] = <<m>>]
    BY <1>1, <1>3, <2>2, Typed
  <2> QED
    BY <2>2, <2>3, Updated
<1>6. /\ pc' \in [Requests -> Places] /\ pc'[r] = "stream"
      /\ \A x \in Requests \ {r} : pc'[x] = pc[x]
    BY <1>1, <1>2, Goes DEF Places
<1>7. TypeOK'
    BY <1>1, <1>4, <1>5, <1>6, Retyped DEF Framed
<1>8. Within(r)
    BY <1>1, <1>2, <1>4 DEF Within, Framed, Go, Inside
<1>9. Apart(r)
    BY <1>4, <1>5, <1>6 DEF Apart, Framed
<1>10. kind'[r].stream
    BY <1>1, <1>2
<1>11. ResponseSoFar(r)' /\ AnswersSoFar(r)' /\ Answered(r)'
    BY <1>4, <1>5, <1>6, <1>10 DEF ResponseSoFar, AnswersSoFar, Streamed, Answered
<1>12. Latest(r)' /\ Retried(r)'
  <2>1. DOMAIN response'[r] = {1} /\ response'[r][1].body = a /\ response'[r][1].code = 200
    BY <1>5
  <2> QED
    BY <1>4, <1>10, <2>1 DEF Latest, Retried
<1> QED
    BY <1>4, <1>7, <1>8, <1>9, <1>11, <1>12 DEF Kept, Course

LEMMA StreamEndsKeeps ==
    ASSUME IInv, NEW r \in Requests, StreamEnds(r)
    PROVE  Kept(r)
<1>1. /\ TypeOK /\ Course(r) /\ pc[r] = "stream" /\ pc[r] \in Inside
      /\ Len(response[r]) = 1
    BY Courses DEF StreamEnds, IInv, Course, ResponseSoFar, Inside
<1>2. UNCHANGED <<status, kind, ctxDone, attempt, lastResp, answers, response>> /\ Go(r, "leaving")
    BY DEF StreamEnds
<1>3. metrics' \in [Counters -> Nat] /\ metrics'.active = metrics.active
  <2> DEFINE h == IF kind[r].wrapped /\ HasTransport(Last(answers[r]),
                                                         {"whole", "repairable", "broken"})
                  THEN metrics.hits + 1 ELSE metrics.hits
  <2>1. metrics \in [Counters -> Nat] /\ "hits" \in Counters \ {"active"}
    BY <1>1, Typed DEF Counters
  <2>2. h \in Nat
    BY <2>1
  <2>3. metrics' = [metrics EXCEPT !["hits"] = h]
    BY DEF StreamEnds
  <2> QED
    BY <1>1, <2>1, <2>2, <2>3, Counts
<1>4. Framed(r)
    BY <1>1, <1>2, <1>3, Typed DEF Framed
<1>5. TypeOK' /\ Within(r) /\ Apart(r) /\ pc'[r] = "leaving"
    BY <1>1, <1>2, <1>4, GoesOn
<1>6. Resent(r)'
    BY <1>2, Courses, NotResent
<1>7. Latest(r)' /\ Retried(r)'
    BY <1>1, <1>2 DEF Course, Latest, Retried, NormalizeFails
<1>8. ResponseSoFar(r)' /\ AnswersSoFar(r)' /\ Answered(r)'
  <2>1. Len(response'[r]) = 1 /\ response'[r] # <<>>
    BY <1>1, <1>2
  <2> QED
    BY <1>5, <2>1 DEF ResponseSoFar, AnswersSoFar, Streamed, Attempted, Answered
<1> QED
    BY <1>5, <1>6, <1>7, <1>8 DEF Kept, Course

-----------------------------------------------------------------------------
(* The steps that take or give back a slot, or enter or leave the handler. *)

LEMMA Inductive ==
    ASSUME IInv, NEW r \in Requests, TypeOK', Held(r)', Apart(r), Course(r)',
           \A x \in Requests \ {r} : status'[x] = status[x],
           Limiter!WithinLimits', GaugeExact'
    PROVE  IInv'
<1>1. SlotHeld'
  <2>1. ASSUME NEW x \in Requests \ {r} PROVE Held(x)'
    BY <2>1 DEF IInv, SlotHeld, Held, Apart
  <2> QED
    BY <2>1 DEF SlotHeld
<1>2. \A x \in Requests : Course(x)'
    BY ApartKeeps
<1> QED
    BY <1>1, <1>2 DEF IInv

LEMMA KeptInductive ==
    ASSUME IInv, NEW r \in Requests, Kept(r)
    PROVE  IInv'
<1>1. SlotHeld' /\ Limiter!WithinLimits' /\ GaugeExact'
    BY WithinKeeps DEF Kept
<1>2. \A x \in Requests : Course(x)'
    BY ApartKeeps DEF Kept
<1> QED
    BY <1>1, <1>2 DEF IInv, Kept

LEMMA StatusMoves ==
    ASSUME TypeOK, NEW r \in Requests, NEW from, NEW to \in {"idle", "asking", "serving"},
           Limiter!Move(r, from, to)
    PROVE  /\ status' \in [Requests -> {"idle", "asking", "serving"}] /\ status'[r] = to
           /\ \A x \in Requests \ {r} : status'[x] = status[x]
<1>1. status \in [Requests -> {"idle", "asking", "serving"}]
    BY Typed
<1>2. status' = [status EXCEPT ![r] = to]
    BY DEF Limiter!Move
<1> QED
    BY <1>1, <1>2, Updated

LEMMA NewlyInHandler ==
    ASSUME IInv, NEW r \in Requests, pc[r] = "idle", pc'[r] # "idle",
           \A x \in Requests \ {r} : pc'[x] = pc[x], metrics'.active = metrics.active + 1
    PROVE  GaugeExact'
<1> DEFINE H == {x \in Requests : InHandler(x)}
<1>1. H' = H \cup {r} /\ r \notin H
    BY DEF InHandler
<1>2. IsFiniteSet(H) /\ Cardinality(H) \in Nat
    BY RequestSets
<1>3. Cardinality(H \cup {r}) = Cardinality(H) + 1
    BY <1>1, <1>2, FS_AddElement
<1> QED
    BY <1>1, <1>3 DEF IInv, GaugeExact

LEMMA NoLongerInHandler ==
    ASSUME IInv, NEW r \in Requests, pc[r] # "idle", pc'[r] = "idle",
           \A x \in Requests \ {r} : pc'[x] = pc[x], metrics'.active = metrics.active - 1
    PROVE  GaugeExact' /\ metrics.active \in Nat \ {0}
<1> DEFINE H == {x \in Requests : InHandler(x)}
<1>1. H' = H \ {r} /\ r \in H
    BY DEF InHandler
<1>2. IsFiniteSet(H) /\ Cardinality(H) \in Nat /\ Cardinality(H \ {r}) \in Nat
    BY RequestSets
<1>3. Cardinality(H \ {r}) = Cardinality(H) - 1
    BY <1>1, <1>2, FS_RemoveElement
<1>4. metrics.active = Cardinality(H)
    BY DEF IInv, GaugeExact
<1>5. metrics'.active = Cardinality(H')
    BY <1>1, <1>3, <1>4
<1> QED
    BY <1>2, <1>3, <1>4, <1>5 DEF GaugeExact

(* A request that has not been read: it has no answers and no response. *)
LEMMA Unread ==
    ASSUME NEW r \in Requests, pc'[r] \in {"idle", "acquire", "read"},
           answers'[r] = <<>>, response'[r] = <<>>, attempt'[r] = 0
    PROVE  Course(r)'
<1>1. ResponseSoFar(r)' /\ AnswersSoFar(r)'
    BY DEF ResponseSoFar, AnswersSoFar, Streamed, Attempted
<1>2. Answered(r)' /\ Latest(r)' /\ Retried(r)'
    BY DEF Answered, Latest, Retried
<1>3. Resent(r)'
    BY SettingsAssumption DEF Resent, MaxAttempts
<1> QED
    BY <1>1, <1>2, <1>3 DEF Course

LEMMA Fresh ==
    ASSUME IInv, NEW r \in Requests, pc[r] \in {"idle", "acquire", "read"}
    PROVE  answers[r] = <<>> /\ response[r] = <<>> /\ attempt[r] = 0
<1>1. response[r] = <<>>
    BY Courses DEF ResponseSoFar
<1>2. CASE kind[r].stream
    BY <1>1, <1>2, Courses DEF Streamed
<1>3. CASE ~kind[r].stream
    BY <1>1, <1>3, Courses DEF Attempted
<1> QED
    BY <1>2, <1>3

LEMMA ArriveKeeps ==
    ASSUME IInv, NEW r \in Requests, Arrive(r)
    PROVE  IInv'
<1>1. TypeOK /\ pc[r] = "idle"
    BY DEF IInv, Arrive
<1>2. answers[r] = <<>> /\ response[r] = <<>> /\ attempt[r] = 0
    BY <1>1, Fresh
<1>3. UNCHANGED <<ctxDone, attempt, lastResp, answers, response>>
    BY DEF Arrive
<1>4. /\ kind' \in [Requests -> Kinds]
      /\ \A x \in Requests \ {r} : kind'[x] = kind[x]
  <2>1. PICK s \in Streaming, w \in BOOLEAN :
              kind' = [kind EXCEPT ![r] = [stream |-> s, wrapped |-> w]]
    BY DEF Arrive
  <2>2. [stream |-> s, wrapped |-> w] \in Kinds
    BY DEF Kinds
  <2> QED
    BY <1>1, <2>1, <2>2, Typed, Updated
<1>5. metrics' \in [Counters -> Nat] /\ metrics'.active = metrics.active + 1
  <2>1. metrics \in [Counters -> Nat]
    BY <1>1, Typed
  <2>2. metrics' = [metrics EXCEPT !["total"] = metrics.total + 1, !["active"] = metrics.active + 1]
    BY DEF Arrive
  <2> QED
    BY <2>1, <2>2 DEF Counters
<1>6. /\ status' \in [Requests -> {"idle", "asking", "serving"}] /\ status'[r] = "asking"
      /\ \A x \in Requests \ {r} : status'[x] = status[x]
    BY <1>1, StatusMoves DEF Arrive, Limiter!Ask
<1>7. /\ pc' \in [Requests -> Places] /\ pc'[r] = "acquire"
      /\ \A x \in Requests \ {r} : pc'[x] = pc[x]
    BY <1>1, Goes DEF Arrive, Places
<1>8. TypeOK'
    BY <1>1, <1>3, <1>4, <1>5, <1>6, <1>7, Retyped
<1>9. Held(r)'
    BY <1>6, <1>7 DEF Held, Inside
<1>10. Apart(r)
    BY <1>3, <1>4, <1>7 DEF Apart
<1>11. Course(r)'
    BY <1>2, <1>3, <1>7, Unread
<1>12. Limiter!WithinLimits'
  <2>1. \A x \in Requests : status'[x] = "serving" => status[x] = "serving"
    BY <1>6
  <2> QED
    BY <2>1, FewerServing DEF IInv
<1>13. GaugeExact'
    BY <1>1, <1>5, <1>7, NewlyInHandler
<1> QED
    BY <1>6, <1>8, <1>9, <1>10, <1>11, <1>12, <1>13, Inductive

LEMMA GaugeSame ==
    ASSUME IInv, NEW r \in Requests, pc[r] # "idle", pc'[r] # "idle",
           \A x \in Requests \ {r} : pc'[x] = pc[x], metrics'.active = metrics.active
    PROVE  GaugeExact'
BY GaugeKept DEF IInv

(* One more in service, where there is room. *)
LEMMA AdmitWithin ==
    ASSUME TypeOK, Limiter!WithinLimits, NEW r \in Requests, Limiter!Admit(r)
    PROVE  Limiter!WithinLimits'
<1>1. /\ status'[r] = "serving" /\ status[r] = "asking"
      /\ \A x \in Requests \ {r} : status'[x] = status[x]
    BY StatusMoves DEF Limiter!Admit, Limiter!Move
<1>2. ASSUME NEW S \in SUBSET Requests, NEW n \in Nat, Cardinality(S) < n
      PROVE  Cardinality(S \cup {r}) <= n
  <2>1. IsFiniteSet(S) /\ Cardinality(S) \in Nat
    BY RequestSets
  <2>2. CASE r \in S
    <3>1. S \cup {r} = S
      BY <2>2
    <3> QED
      BY <1>2, <2>1, <3>1
  <2>3. CASE r \notin S
    <3>1. Cardinality(S \cup {r}) = Cardinality(S) + 1
      BY <2>1, <2>3, FS_AddElement
    <3> QED
      BY <1>2, <2>1, <3>1
  <2> QED
    BY <2>2, <2>3
<1>3. Cardinality(Limiter!Serving') <= GlobalCap
  <2>1. Limiter!Serving' = Limiter!Serving \cup {r} /\ Limiter!Serving \in SUBSET Requests
    BY <1>1 DEF Limiter!Serving
  <2>2. Cardinality(Limiter!Serving) < GlobalCap
    BY SameCardinality DEF Limiter!Admit
  <2> QED
    BY <1>2, <2>1, <2>2, LimitsAssumption
<1>4. ASSUME NEW k \in Keys
      PROVE  Cardinality(Limiter!ServingKey(k)') <= KeyCap
  <2>1. Limiter!ServingKey(k) \in SUBSET Requests
    BY DEF Limiter!ServingKey, Limiter!Serving
  <2>2. CASE KeyOf[r] = k
    <3>1. Limiter!ServingKey(k)' = Limiter!ServingKey(k) \cup {r}
      BY <1>1, <2>2 DEF Limiter!ServingKey, Limiter!Serving
    <3>2. Cardinality(Limiter!ServingKey(k)) < KeyCap
      BY <2>2, SameCardinality DEF Limiter!Admit
    <3> QED
      BY <1>2, <2>1, <3>1, <3>2, LimitsAssumption
  <2>3. CASE KeyOf[r] # k
    <3>1. Limiter!ServingKey(k)' = Limiter!ServingKey(k)
      BY <1>1, <2>3 DEF Limiter!ServingKey, Limiter!Serving
    <3>2. Cardinality(Limiter!ServingKey(k)) <= KeyCap
      BY SameCardinality DEF Limiter!WithinLimits
    <3> QED
      BY <3>1, <3>2
  <2> QED
    BY <2>2, <2>3
<1> QED
    BY <1>3, <1>4, SameCardinality DEF Limiter!WithinLimits

LEMMA AdmittedKeeps ==
    ASSUME IInv, NEW r \in Requests, Admitted(r)
    PROVE  IInv'
<1>1. TypeOK /\ pc[r] = "acquire"
    BY DEF IInv, Admitted
<1>2. answers[r] = <<>> /\ response[r] = <<>> /\ attempt[r] = 0
    BY <1>1, Fresh
<1>3. UNCHANGED <<kind, ctxDone, attempt, lastResp, answers, response, metrics>>
    BY DEF Admitted
<1>4. /\ status' \in [Requests -> {"idle", "asking", "serving"}] /\ status'[r] = "serving"
      /\ \A x \in Requests \ {r} : status'[x] = status[x]
    BY <1>1, StatusMoves DEF Admitted, Limiter!Admit
<1>5. /\ pc' \in [Requests -> Places] /\ pc'[r] = "read"
      /\ \A x \in Requests \ {r} : pc'[x] = pc[x]
    BY <1>1, Goes DEF Admitted, Places
<1>6. TypeOK'
    BY <1>1, <1>3, <1>4, <1>5, Retyped
<1>7. Held(r)'
    BY <1>4, <1>5 DEF Held, Inside
<1>8. Apart(r)
    BY <1>3, <1>5 DEF Apart
<1>9. Course(r)'
    BY <1>2, <1>3, <1>5, Unread
<1>10. Limiter!WithinLimits'
    BY <1>1, AdmitWithin DEF Admitted, IInv
<1>11. GaugeExact'
    BY <1>1, <1>3, <1>5, GaugeSame
<1> QED
    BY <1>4, <1>6, <1>7, <1>8, <1>9, <1>10, <1>11, Inductive

LEMMA RejectedKeeps ==
    ASSUME IInv, NEW r \in Requests, Rejected(r)
    PROVE  IInv'
<1>1. TypeOK /\ pc[r] = "acquire"
    BY DEF IInv, Rejected
<1>2. response[r] = <<>>
    BY <1>1, Fresh
<1>3. UNCHANGED <<kind, ctxDone, attempt, lastResp, answers>>
    BY DEF Rejected
<1>4. /\ status' \in [Requests -> {"idle", "asking", "serving"}] /\ status'[r] = "idle"
      /\ \A x \in Requests \ {r} : status'[x] = status[x]
    BY <1>1, StatusMoves DEF Rejected, Limiter!Refuse
<1>5. metrics' \in [Counters -> Nat] /\ metrics'.active = metrics.active
  <2>1. metrics \in [Counters -> Nat] /\ "rejections" \in Counters \ {"active"}
    BY <1>1, Typed DEF Counters
  <2>2. metrics.rejections + 1 \in Nat
    BY <2>1
  <2>3. metrics' = [metrics EXCEPT !["rejections"] = metrics.rejections + 1]
    BY DEF Rejected
  <2> QED
    BY <1>1, <2>1, <2>2, <2>3, Counts
<1>6. /\ pc' \in [Requests -> Places] /\ pc'[r] = "leaving"
      /\ \A x \in Requests \ {r} : pc'[x] = pc[x] /\ response'[x] = response[x]
      /\ response' = response \/ response' \in [Requests -> Seq(Written)]
      /\ ResponseSoFar(r)' /\ AnswersSoFar(r)' /\ Answered(r)' /\ Latest(r)' /\ Retried(r)'
  <2>1. CASE \E code \in {429, 503} : Respond(r, code, Error)
    <3>1. PICK code \in Nat \ {200, 502} : Respond(r, code, Error)
      BY <2>1
    <3>2. /\ response' \in [Requests -> Seq(Written)] /\ pc' \in [Requests -> Places]
          /\ response'[r] = <<[code |-> code, body |-> Error]>> /\ pc'[r] = "leaving"
          /\ \A x \in Requests \ {r} : response'[x] = response[x] /\ pc'[x] = pc[x]
      BY <1>1, <1>2, <3>1, Responds
    <3> QED
      BY <3>2, ErrorServed
  <2>2. CASE ctxDone[r] /\ Silent(r)
    <3>1. Go(r, "leaving") /\ response' = response /\ ctxDone'[r]
      BY <1>3, <2>2 DEF Silent
    <3>2. /\ pc' \in [Requests -> Places] /\ pc'[r] = "leaving"
          /\ \A x \in Requests \ {r} : pc'[x] = pc[x]
      BY <1>1, <3>1, Goes DEF Places
    <3> QED
      BY <1>2, <3>1, <3>2, GoneSilent
  <2> QED
    BY <2>1, <2>2 DEF Rejected
<1>7. TypeOK'
    BY <1>1, <1>3, <1>4, <1>5, <1>6, Retyped
<1>8. Held(r)'
    BY <1>4, <1>6 DEF Held, Inside
<1>9. Apart(r)
    BY <1>3, <1>6 DEF Apart
<1>10. Course(r)'
    BY <1>3, <1>6, Courses, NotResent DEF Course
<1>11. Limiter!WithinLimits'
  <2>1. \A x \in Requests : status'[x] = "serving" => status[x] = "serving"
    BY <1>4
  <2> QED
    BY <2>1, FewerServing DEF IInv
<1>12. GaugeExact'
    BY <1>1, <1>5, <1>6, GaugeSame
<1> QED
    BY <1>4, <1>7, <1>8, <1>9, <1>10, <1>11, <1>12, Inductive

LEMMA LeaveKeeps ==
    ASSUME IInv, NEW r \in Requests, Leave(r)
    PROVE  IInv'
<1>1. TypeOK /\ pc[r] = "leaving"
    BY DEF IInv, Leave
<1>2. /\ kind' = [kind EXCEPT ![r] = NoKind] /\ ctxDone' = [ctxDone EXCEPT ![r] = FALSE]
      /\ attempt' = [attempt EXCEPT ![r] = 0] /\ lastResp' = [lastResp EXCEPT ![r] = NoAnswer]
      /\ answers' = [answers EXCEPT ![r] = <<>>]
      /\ response' = [response EXCEPT ![r] = <<>>]
    BY DEF Leave, Forget
<1>3. /\ kind' \in [Requests -> Kinds]
      /\ \A x \in Requests \ {r} : kind'[x] = kind[x]
  <2>1. NoKind \in Kinds
    BY DEF NoKind, Kinds
  <2> QED
    BY <1>1, <1>2, <2>1, Typed, Updated
<1>4. /\ ctxDone' \in [Requests -> BOOLEAN]
      /\ \A x \in Requests \ {r} : ctxDone'[x] = ctxDone[x]
    BY <1>1, <1>2, Typed, Updated
<1>5. /\ attempt' \in [Requests -> 0..MaxAttempts] /\ attempt'[r] = 0
      /\ \A x \in Requests \ {r} : attempt'[x] = attempt[x]
  <2>1. 0 \in 0..MaxAttempts
    BY SettingsAssumption DEF MaxAttempts
  <2> QED
    BY <1>1, <1>2, <2>1, Typed, Updated
<1>6. /\ answers' \in [Requests -> Seq(Answers \cup Failures)] /\ answers'[r] = <<>>
      /\ \A x \in Requests \ {r} : answers'[x] = answers[x]
  <2>1. <<>> \in Seq(Answers \cup Failures)
    OBVIOUS
  <2> QED
    BY <1>1, <1>2, <2>1, Typed, Updated
<1>7. /\ response' \in [Requests -> Seq(Written)] /\ response'[r] = <<>>
      /\ \A x \in Requests \ {r} : response'[x] = response[x]
  <2>1. <<>> \in Seq(Written)
    OBVIOUS
  <2> QED
    BY <1>1, <1>2, <2>1, Typed, Updated
<1>8. /\ pc' \in [Requests -> Places] /\ pc'[r] = "idle"
      /\ \A x \in Requests \ {r} : pc'[x] = pc[x]
    BY <1>1, Goes DEF Leave, Places
<1>9. metrics \in [Counters -> Nat]
    BY <1>1, Typed
<1>10. metrics' = [metrics EXCEPT !["active"] = metrics.active - 1]
    BY DEF Leave
<1>11. metrics'.active = metrics.active - 1
    BY <1>9, <1>10 DEF Counters
<1>12. GaugeExact' /\ metrics.active \in Nat \ {0}
    BY <1>1, <1>8, <1>11, NoLongerInHandler
<1>13. metrics' \in [Counters -> Nat]
  <2>1. metrics.active - 1 \in Nat /\ "active" \in Counters
    BY <1>12 DEF Counters
  <2> QED
    BY <1>9, <1>10, <2>1, Updated
<1>14. /\ status' \in [Requests -> {"idle", "asking", "serving"}] /\ status'[r] = "idle"
       /\ \A x \in Requests \ {r} : status'[x] = status[x]
  <2>1. CASE status[r] = "serving"
    BY <1>1, <2>1, StatusMoves DEF Leave, Limiter!Leave
  <2>2. CASE status[r] # "serving"
    <3>1. status[r] # "asking"
      BY <1>1 DEF IInv, SlotHeld, Held
    <3>2. status \in [Requests -> {"idle", "asking", "serving"}] /\ status' = status
      BY <1>1, <2>2, Typed DEF Leave
    <3> QED
      BY <2>2, <3>1, <3>2
  <2> QED
    BY <2>1, <2>2
<1>15. /\ lastResp' \in [Requests -> Saved]
       /\ \A x \in Requests \ {r} : lastResp'[x] = lastResp[x]
  <2>1. NoAnswer \in Saved
    BY DEF Saved
  <2> QED
    BY <1>1, <1>2, <2>1, Typed, Updated
<1>16. TypeOK'
    BY <1>1, <1>3, <1>4, <1>5, <1>6, <1>7, <1>8, <1>13, <1>14, <1>15, Retyped
<1>17. Held(r)'
    BY <1>8, <1>14 DEF Held, Inside
<1>18. Apart(r)
    BY <1>3, <1>4, <1>5, <1>6, <1>7, <1>8, <1>15 DEF Apart
<1>19. Course(r)'
    BY <1>5, <1>6, <1>7, <1>8, Unread
<1>20. Limiter!WithinLimits'
  <2>1. \A x \in Requests : status'[x] = "serving" => status[x] = "serving"
    BY <1>14
  <2> QED
    BY <2>1, FewerServing DEF IInv
<1> QED
    BY <1>12, <1>14, <1>16, <1>17, <1>18, <1>19, <1>20, Inductive

LEMMA CancelKeeps ==
    ASSUME IInv, NEW r \in Requests, Cancel(r)
    PROVE  IInv'
<1>1. TypeOK /\ Course(r)
    BY DEF IInv
<1>2. UNCHANGED <<status, pc, kind, attempt, lastResp, answers, response, metrics>>
    BY DEF Cancel
<1>3. /\ ctxDone' \in [Requests -> BOOLEAN] /\ ctxDone'[r]
      /\ \A x \in Requests \ {r} : ctxDone'[x] = ctxDone[x]
    BY <1>1, Typed, Updated DEF Cancel
<1>4. TypeOK'
    BY <1>1, <1>2, <1>3, Typed, Retyped
<1>5. Held(r)'
    BY <1>2 DEF IInv, SlotHeld, Held
<1>6. Apart(r)
    BY <1>2, <1>3 DEF Apart
<1>7. Course(r)'
  <2>1. ResponseSoFar(r)' /\ Latest(r)' /\ Retried(r)'
    BY <1>1, <1>2 DEF Course, ResponseSoFar, Latest, Retried, NormalizeFails
  <2>2. Answered(r)'
    BY <1>1, <1>2, <1>3 DEF Course, Answered
  <2>3. Resent(r)'
    BY <1>2, Courses, NotResent
  <2>4. AnswersSoFar(r)'
    BY <1>1, <1>2 DEF Course, AnswersSoFar, Streamed, Attempted, GivenUp, NormalizeFails
  <2> QED
    BY <2>1, <2>2, <2>3, <2>4 DEF Course
<1>8. Limiter!WithinLimits'
    BY <1>2, FewerServing DEF IInv
<1>9. GaugeExact'
    BY <1>2, GaugeKept DEF IInv
<1> QED
    BY <1>2, <1>4, <1>5, <1>6, <1>7, <1>8, <1>9, Inductive

-----------------------------------------------------------------------------
LEMMA HandleKeeps ==
    ASSUME IInv, NEW r \in Requests, Handle(r)
    PROVE  IInv'
<1>1. CASE Admitted(r)
    BY <1>1, AdmittedKeeps
<1>2. CASE Rejected(r)
    BY <1>2, RejectedKeeps
<1>3. CASE Leave(r)
    BY <1>3, LeaveKeeps
<1>4. CASE \/ Read(r) \/ Attempt(r) \/ CallFails(r) \/ CallAnswers(r) \/ Sleep(r)
           \/ Normalize(r) \/ FormatRetry(r) \/ StreamStarts(r) \/ StreamEnds(r)
  <2>1. Kept(r)
    BY <1>4, ReadKeeps, AttemptKeeps, CallFailsKeeps, CallAnswersKeeps, SleepKeeps,
       NormalizeKeeps, FormatRetryKeeps, StreamStartsKeeps, StreamEndsKeeps
  <2> QED
    BY <2>1, KeptInductive
<1> QED
    BY <1>1, <1>2, <1>3, <1>4 DEF Handle

LEMMA NextIInv == IInv /\ [Next]_vars => IInv'
<1> SUFFICES ASSUME IInv, [Next]_vars PROVE IInv'
    OBVIOUS
<1>1. CASE Next
  <2>1. PICK r \in Requests : Arrive(r) \/ Handle(r) \/ Cancel(r)
    BY <1>1 DEF Next
  <2> QED
    BY <2>1, ArriveKeeps, HandleKeeps, CancelKeeps
<1>2. CASE UNCHANGED vars
  <2> USE <1>2 DEF vars
  <2>1. TypeOK' /\ SlotHeld' /\ GaugeExact'
    BY DEF IInv, TypeOK, SlotHeld, Held, GaugeExact, InHandler
  <2>2. Limiter!WithinLimits'
    BY FewerServing DEF IInv
  <2>3. ASSUME NEW r \in Requests PROVE Course(r)'
    <3>1. Course(r)
      BY DEF IInv
    <3> QED
      <4>1. \A a : /\ NormalizeFails(r, a)' <=> NormalizeFails(r, a)
                   /\ GivenUp(r, a)' <=> GivenUp(r, a)
        BY DEF NormalizeFails, GivenUp
      <4>2. ResponseSoFar(r)' /\ Answered(r)' /\ Latest(r)' /\ Retried(r)'
        BY <3>1, <4>1 DEF Course, ResponseSoFar, Answered, Latest, Retried
      <4>3. Resent(r)' /\ AnswersSoFar(r)'
        BY <3>1, <4>1 DEF Course, Resent, AnswersSoFar, Streamed, Attempted
      <4> QED
        BY <4>2, <4>3 DEF Course
  <2> QED
    BY <2>1, <2>2, <2>3 DEF IInv
<1> QED
    BY <1>1, <1>2

LEMMA Invariant == Spec => []IInv
BY InitIInv, NextIInv, PTL DEF Spec

(* The types. *)
THEOREM TypeCorrect == Spec => []TypeOK
<1>1. IInv => TypeOK
    BY DEF IInv
<1> QED
    BY <1>1, Invariant, PTL

(* Whatever fails, a request gets one response, or none if its client is   *)
(* gone.                                                                   *)
THEOREM OneAnswer == Spec => []AnsweredOnce
<1>1. IInv => AnsweredOnce
    BY DEF IInv, Course, Answered, AnsweredOnce
<1> QED
    BY <1>1, Invariant, PTL

(* gateway_active_requests is the number of requests in the handler. *)
THEOREM GaugeTrue == Spec => []GaugeExact
<1>1. IInv => GaugeExact
    BY DEF IInv
<1> QED
    BY <1>1, Invariant, PTL

(* Every call of the upstream is made by a request that holds a slot: the  *)
(* limits of the limiter are limits of the load on the upstream, retries   *)
(* included.                                                               *)
THEOREM LoadLimited == Spec => []UpstreamWithinLimits
<1>1. IInv => UpstreamWithinLimits
  <2> SUFFICES ASSUME IInv PROVE UpstreamWithinLimits
    OBVIOUS
  <2>1. /\ Cardinality(Limiter!Serving) <= GlobalCap
        /\ \A k \in Keys : Cardinality(Limiter!ServingKey(k)) <= KeyCap
    BY SameCardinality DEF IInv, Limiter!WithinLimits
  <2>2. InFlight \in SUBSET Limiter!Serving /\ Limiter!Serving \in SUBSET Requests
    BY DEF IInv, SlotHeld, Held, Inside, InFlight, Limiter!Serving
  <2>3. Cardinality(InFlight) <= GlobalCap
    BY <2>1, <2>2, RequestSets, LimitsAssumption
  <2>4. ASSUME NEW k \in Keys
        PROVE  Cardinality({r \in InFlight : KeyOf[r] = k}) <= KeyCap
    <3> DEFINE F == {r \in InFlight : KeyOf[r] = k}
    <3>1. F \in SUBSET Limiter!ServingKey(k) /\ Limiter!ServingKey(k) \in SUBSET Requests
      BY <2>2 DEF Limiter!ServingKey
    <3> HIDE DEF F
    <3>2. Cardinality(F) <= KeyCap
      BY <2>1, <3>1, RequestSets, LimitsAssumption
    <3> QED
      BY <3>2 DEF F
  <2> QED
    BY <2>3, <2>4 DEF UpstreamWithinLimits
<1> QED
    BY <1>1, Invariant, PTL

(* A request is sent again a bounded number of times, only after an empty  *)
(* answer or one that could not be used, and never after real tool calls   *)
(* that NormalizeNonStreaming had counted when it failed.                  *)
THEOREM SafelyResent == Spec => []ResentSafely
<1>1. IInv => ResentSafely
    BY DEF IInv, Course, Resent, GivenUp, ResentSafely
<1> QED
    BY <1>1, Invariant, PTL

(* What is kept outside the loop is of the latest call when the loop is    *)
(* left: the client neither gets an answer that was given up nor an error  *)
(* because of one.                                                         *)
THEOREM LatestServed == Spec => []LatestAnswerServed
<1>1. IInv => LatestAnswerServed
    BY DEF IInv, Course, Latest, LatestAnswerServed
<1> QED
    BY <1>1, Invariant, PTL

(* It gets an empty answer only after the last attempt. *)
THEOREM EmptyRetried == Spec => []EmptyAnswersRetried
<1>1. IInv => EmptyAnswersRetried
    BY DEF IInv, Course, Retried, EmptyAnswersRetried
<1> QED
    BY <1>1, Invariant, PTL
=============================================================================
