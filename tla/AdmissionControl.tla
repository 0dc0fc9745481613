-------------------------- MODULE AdmissionControl --------------------------
(***************************************************************************)
(* What the concurrency limiter (internal/limiter/concurrency.go) promises *)
(* the request handler, with no word on how: a request asks to be          *)
(* admitted; it is either admitted, and then never more than the global    *)
(* limit are in service at once nor more than the per-key limit with the   *)
(* same API key, or refused.  Limiter.tla implements this module.          *)
(***************************************************************************)
EXTENDS Integers, FiniteSets

CONSTANTS
    Requests,   \* concurrent calls of the chat handler
    Keys,       \* downstream API key IDs
    KeyOf,      \* the key each request was authenticated with
    GlobalCap,  \* limit on the requests in service
    KeyCap      \* limit on the requests in service with one key

VARIABLE status  \* per request: "idle", "asking" or "serving"

Serving == {r \in Requests : status[r] = "serving"}

ServingKey(k) == {r \in Serving : KeyOf[r] = k}

Init == status = [r \in Requests |-> "idle"]

Move(r, from, to) == /\ status[r] = from
                     /\ status' = [status EXCEPT ![r] = to]

Ask(r) == Move(r, "idle", "asking")

Admit(r) ==
    /\ Cardinality(Serving) < GlobalCap
    /\ KeyOf[r] \in Keys => Cardinality(ServingKey(KeyOf[r])) < KeyCap
    /\ Move(r, "asking", "serving")

Refuse(r) == Move(r, "asking", "idle")

Leave(r) == Move(r, "serving", "idle")

Next == \E r \in Requests : Ask(r) \/ Admit(r) \/ Refuse(r) \/ Leave(r)

Spec == Init /\ [][Next]_status

-----------------------------------------------------------------------------
(* Never more requests in service than the configured limits: the point of *)
(* MAX_CONCURRENT_REQUESTS and MAX_CONCURRENT_REQUESTS_PER_KEY.            *)
WithinLimits ==
    /\ Cardinality(Serving) <= GlobalCap
    /\ \A k \in Keys : Cardinality(ServingKey(k)) <= KeyCap
=============================================================================
