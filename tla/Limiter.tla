------------------------------ MODULE Limiter -------------------------------
(***************************************************************************)
(* ConcurrencyLimiter of internal/limiter/concurrency.go: a request first  *)
(* takes a slot of its API key's semaphore, then a slot of the global one, *)
(* and the release closure gives them back in the opposite order.          *)
(*                                                                         *)
(* Both semaphores are buffered Go channels: a send takes a slot, a        *)
(* receive frees one.  They are treated alike: a channel c is either a     *)
(* key or Global, sem[c] is the number of values it buffers and queue[c]   *)
(* its queue of goroutines parked in a send, which Go serves in order: a   *)
(* receive from a full channel passes its slot straight to the first of    *)
(* them.  One action is one channel operation, so every interleaving of    *)
(* the goroutines is here, including those between the non-blocking        *)
(* attempt and the timed select.  Time is left out: a timer may fire       *)
(* whenever its owner is in the timed select.                              *)
(***************************************************************************)
EXTENDS Integers, Sequences, FiniteSets

CONSTANTS
    Requests,      \* concurrent callers of Acquire; each calls it again and again
    Keys,          \* API key IDs
    NoKey,         \* keyID == "": no per-key limit applies
    KeyOf,         \* the keyID each caller passes
    Global,        \* the name of the global channel
    MaxGlobal,     \* the constructor's arguments, zero and below included
    MaxPerKey,
    QueueTimeouts

ASSUME RequestsAssumption == IsFiniteSet(Requests)
ASSUME KeysAssumption == NoKey \notin Keys /\ Global \notin Keys \cup {NoKey}
ASSUME KeyOfAssumption == KeyOf \in [Requests -> Keys \cup {NoKey}]
ASSUME SettingsAssumption ==
    MaxGlobal \in Int /\ MaxPerKey \in Int /\ QueueTimeouts \subseteq Int

VARIABLES
    queueTimeout, \* set by the constructor, as are the sizes of the channels
    keyLimiters,  \* the keys that have a keyLimiter: the map is filled on demand
    sem,          \* slots taken, per channel
    queue,        \* goroutines parked in a send, per channel, oldest first
    pc,           \* where each request is
    at,           \* the channel the request's next operation is on
    ctxDone,      \* the request's context is cancelled (the client went away)
    err           \* what Acquire returned or is about to return

vars == <<queueTimeout, keyLimiters, sem, queue, pc, at, ctxDone, err>>

Channels == Keys \cup {Global}

(* NewConcurrencyLimiter replaces non-positive limits by defaults. *)
GlobalCap == IF MaxGlobal <= 0 THEN 1024 ELSE MaxGlobal
KeyCap == IF MaxPerKey <= 0 THEN 64 ELSE MaxPerKey
(* Mutant: the keys' channels are made with the global size. *)
CapSame(c) == GlobalCap

Cap(c) == IF c = Global THEN GlobalCap ELSE KeyCap

Steps == {"idle",     \* not in the handler
          "try",      \* before the non-blocking send
          "select",   \* found the channel full, before the timed select
          "parked",   \* asleep in the timed select
          "active",   \* Acquire returned a release function
          "release"}  \* before a receive: in release(), or giving the key back

Errors == {"nil", "ErrKeyLimitExceeded", "ErrGlobalLimitExceeded", "ctx.Err"}

HasKey(r) == KeyOf[r] # NoKey
InAcquire(r) == pc[r] \in {"try", "select", "parked"}

Init ==
    /\ queueTimeout \in QueueTimeouts
    /\ keyLimiters = {}
    /\ sem = [c \in Channels |-> 0]
    /\ queue = [c \in Channels |-> <<>>]
    /\ pc = [r \in Requests |-> "idle"]
    /\ at = [r \in Requests |-> Global]
    /\ ctxDone = [r \in Requests |-> FALSE]
    /\ err = [r \in Requests |-> "nil"]

(* The queue without the request e, which is in it. *)
Without(q, e) ==
    LET i == CHOOSE j \in 1..Len(q) : q[j] = e
    IN  [j \in 1..Len(q) - 1 |-> IF j < i THEN q[j] ELSE q[j + 1]]

(* Mutant: the entry is made anew on each call. *)
GetKeyLimiterAnew(k) ==
    /\ keyLimiters' = keyLimiters \cup {k}
    /\ sem' = [sem EXCEPT ![k] = 0]

(* The map entry of a key is created, with an empty channel, once.         *)
GetKeyLimiter(k) ==
    /\ keyLimiters' = keyLimiters \cup {k}
    /\ sem' = IF k \in keyLimiters THEN sem ELSE [sem EXCEPT ![k] = 0]

(* Acquire is entered.  getKeyLimiter runs under its mutex.                *)
Call(r) ==
    /\ pc[r] = "idle"
    /\ pc' = [pc EXCEPT ![r] = "try"]
    /\ at' = [at EXCEPT ![r] = IF HasKey(r) THEN KeyOf[r] ELSE Global]
    /\ ctxDone' = [ctxDone EXCEPT ![r] = FALSE]
    /\ err' = [err EXCEPT ![r] = "nil"]
    /\ IF HasKey(r) THEN GetKeyLimiter(KeyOf[r]) ELSE UNCHANGED <<keyLimiters, sem>>
    /\ UNCHANGED <<queueTimeout, queue>>

(* The step after a slot of channel c was obtained: from the key to the    *)
(* global channel, from the global channel to the end of Acquire.          *)
AfterGrant(c) == IF c = Global THEN "active" ELSE "try"

(* r sends into its channel, which has room. *)
Grant(r) ==
    LET c == at[r]
    IN  /\ sem[c] < Cap(c)
        /\ sem' = [sem EXCEPT ![c] = @ + 1]
        /\ pc' = [pc EXCEPT ![r] = AfterGrant(c)]
        /\ at' = [at EXCEPT ![r] = Global]
        /\ UNCHANGED <<queue, err>>

LimitError(c) == IF c = Global THEN "ErrGlobalLimitExceeded" ELSE "ErrKeyLimitExceeded"

(* Mutant: the key's slot is not given back. *)
FailLeaks(r, e) ==
    /\ err' = [err EXCEPT ![r] = e]
    /\ pc' = [pc EXCEPT ![r] = "idle"]
    /\ UNCHANGED at

(* Acquire gives up with error e: at the global channel the key's slot is  *)
(* given back first.                                                       *)
Fail(r, e) ==
    /\ err' = [err EXCEPT ![r] = e]
    /\ IF at[r] = Global /\ HasKey(r)
       THEN /\ pc' = [pc EXCEPT ![r] = "release"]
            /\ at' = [at EXCEPT ![r] = KeyOf[r]]
       ELSE /\ pc' = [pc EXCEPT ![r] = "idle"]
            /\ UNCHANGED at

Full(c) == sem[c] = Cap(c)

(* select { case sem <- struct{}{}: default: ... } *)
Try(r) ==
    /\ pc[r] = "try"
    /\ \/ Grant(r)
       \/ /\ Full(at[r]) /\ queueTimeout <= 0
          /\ Fail(r, LimitError(at[r]))
          /\ UNCHANGED <<sem, queue>>
       \/ /\ Full(at[r]) /\ queueTimeout > 0
          /\ pc' = [pc EXCEPT ![r] = "select"]
          /\ UNCHANGED <<sem, queue, at, err>>
    /\ UNCHANGED <<queueTimeout, keyLimiters, ctxDone>>

(* The timed select is entered: of the cases that are ready one is taken   *)
(* at random (the timer may have fired if the goroutine was held up); it   *)
(* parks only when none is.                                                *)
Select(r) ==
    /\ pc[r] = "select"
    /\ \/ Grant(r)
       \/ /\ \/ Fail(r, LimitError(at[r]))
             \/ ctxDone[r] /\ Fail(r, "ctx.Err")
          /\ UNCHANGED <<sem, queue>>
       \/ /\ Full(at[r]) /\ ~ctxDone[r]
          /\ pc' = [pc EXCEPT ![r] = "parked"]
          /\ queue' = [queue EXCEPT ![at[r]] = Append(@, r)]
          /\ UNCHANGED <<sem, at, err>>
    /\ UNCHANGED <<queueTimeout, keyLimiters, ctxDone>>

(* A parked goroutine is woken by its timer ... *)
TimerFires(r) ==
    /\ pc[r] = "parked"
    /\ queue' = [queue EXCEPT ![at[r]] = Without(@, r)]
    /\ Fail(r, LimitError(at[r]))
    /\ UNCHANGED <<queueTimeout, keyLimiters, sem, ctxDone>>

(* ... or by its context; elsewhere in the limiter, and while the request  *)
(* is served, the cancelled context is only noticed later or not at all.   *)
Cancel(r) ==
    /\ pc[r] # "idle" /\ ~ctxDone[r]
    /\ ctxDone' = [ctxDone EXCEPT ![r] = TRUE]
    /\ IF pc[r] = "parked"
       THEN /\ queue' = [queue EXCEPT ![at[r]] = Without(@, r)]
            /\ Fail(r, "ctx.Err")
       ELSE UNCHANGED <<queue, pc, at, err>>
    /\ UNCHANGED <<queueTimeout, keyLimiters, sem>>

(* The handler is done and calls release(). *)
Finish(r) ==
    /\ pc[r] = "active"
    /\ pc' = [pc EXCEPT ![r] = "release"]
    /\ at' = [at EXCEPT ![r] = Global]
    /\ UNCHANGED <<queueTimeout, keyLimiters, sem, queue, ctxDone, err>>

(* After the receive from c: from the global channel to the key's, if any. *)
AfterRelease(r, c) == IF c = Global /\ HasKey(r) THEN "release" ELSE "idle"

(* <-sem, which never blocks as the receiver holds a slot: it frees the    *)
(* slot, or passes it to the goroutine that has been parked the longest.   *)
Release(r) ==
    LET c == at[r]
        next == [pc EXCEPT ![r] = AfterRelease(r, c)]
        nextAt == [at EXCEPT ![r] = IF HasKey(r) THEN KeyOf[r] ELSE Global]
    IN  /\ pc[r] = "release"
        /\ IF queue[c] = <<>>
           THEN /\ sem' = [sem EXCEPT ![c] = @ - 1]
                /\ pc' = next
                /\ at' = nextAt
                /\ UNCHANGED queue
           ELSE /\ queue' = [queue EXCEPT ![c] = Tail(@)]
                /\ pc' = [next EXCEPT ![Head(queue[c])] = AfterGrant(c)]
                /\ at' = [nextAt EXCEPT ![Head(queue[c])] = Global]
                /\ UNCHANGED sem
        /\ UNCHANGED <<queueTimeout, keyLimiters, ctxDone, err>>

(* What the program does of itself, as opposed to clients and the clock.   *)
Run(r) == Try(r) \/ Select(r) \/ Finish(r) \/ Release(r)

Next == \E r \in Requests : Call(r) \/ Run(r) \/ TimerFires(r) \/ Cancel(r)

Spec == Init /\ [][Next]_vars

(* Goroutines keep running and an admitted handler ends: the HTTP client   *)
(* that calls the upstream has a timeout, and clients are assumed to read  *)
(* what they are sent.  No queue timer is relied upon.                     *)
FairSpec == Spec /\ \A r \in Requests : WF_vars(Run(r))

-----------------------------------------------------------------------------
(* The type of everything the operations change. *)
StateOK ==
    /\ keyLimiters \in SUBSET Keys
    /\ sem \in [Channels -> Nat]
    /\ queue \in [Channels -> Seq(Requests)]
    /\ pc \in [Requests -> Steps]
    /\ at \in [Requests -> Channels]
    /\ ctxDone \in [Requests -> BOOLEAN]
    /\ err \in [Requests -> Errors]

TypeOK == StateOK /\ queueTimeout \in QueueTimeouts

(* The requests that own a slot of channel c at this point of the code.    *)
Owns(r, c) ==
    IF c = Global
    THEN pc[r] = "active" \/ (pc[r] = "release" /\ at[r] = Global)
    ELSE /\ KeyOf[r] = c
         /\ \/ pc[r] \in {"active", "release"}
            \/ InAcquire(r) /\ at[r] = Global

Owners(c) == {r \in Requests : Owns(r, c)}

(* Every slot taken belongs to exactly one request on its way in or out:   *)
(* no path of Acquire or release leaks a slot or frees one twice, whichever *)
(* timeouts and cancellations occur, and no channel holds more than its    *)
(* capacity.                                                               *)
SlotsAccounted ==
    \A c \in Channels : /\ sem[c] = Cardinality(Owners(c))
                        /\ sem[c] <= Cap(c)

(* A key's channel is used only once it is in the map. *)
KeyLimiterExists ==
    \A r \in Requests : pc[r] # "idle" /\ HasKey(r) => KeyOf[r] \in keyLimiters

(* A channel's queue holds the requests parked on it, each once. *)
QueueIsParked ==
    \A c \in Channels :
        /\ \A i, j \in 1..Len(queue[c]) : queue[c][i] = queue[c][j] => i = j
        /\ \A r \in Requests : (\E i \in 1..Len(queue[c]) : queue[c][i] = r)
                               <=> (pc[r] = "parked" /\ at[r] = c)

(* A request in the handler works on the global channel or on its own key's. *)
AtOwnChannel ==
    \A r \in Requests :
        /\ pc[r] # "idle" => at[r] \in {Global, KeyOf[r]}
        /\ pc[r] = "active" => at[r] = Global

(* No request waits for a channel that has a free slot: a release that     *)
(* races with a request about to park is never lost.                       *)
NoLostWakeup == \A c \in Channels : queue[c] # <<>> => Full(c)

(* The inductive invariant: what the theorems of LimiterProofs rest on. *)
IInv ==
    /\ StateOK
    /\ SlotsAccounted
    /\ KeyLimiterExists
    /\ AtOwnChannel
    /\ QueueIsParked
    /\ NoLostWakeup

(* Slots are granted in the order of arrival in the queue: a newcomer      *)
(* never overtakes a parked request, nor one parked request another.       *)
FirstComeFirstServed ==
    [][\A r \in Requests, c \in Channels :
        (InAcquire(r) /\ at[r] = c /\ Owns(r, c)')
        => IF pc[r] = "parked" THEN r = Head(queue[c]) ELSE queue[c] = <<>>]_vars

(* The requests of one key that hold or wait for a global slot are never   *)
(* more than its own limit: a single key cannot fill the global channel or *)
(* its queue.  This is why the key's slot is taken first and given back    *)
(* last.                                                                   *)
AtGlobal(k) ==
    {r \in Requests : KeyOf[r] = k /\ at[r] = Global /\ pc[r] # "idle"}

KeyShareBounded == \A k \in Keys : Cardinality(AtGlobal(k)) <= KeyCap

(* Every call of Acquire returns, even if no queue timer ever fires:       *)
(* holding a key's slot while queueing for the global one cannot deadlock, *)
(* and a parked request is not starved by newcomers.                       *)
AcquireReturns == \A r \in Requests : []<>~InAcquire(r)

-----------------------------------------------------------------------------
(* The limiter keeps the promises of AdmissionControl. *)
Status(r) == CASE InAcquire(r)     -> "asking"
               [] pc[r] = "active" -> "serving"
               [] OTHER            -> "idle"

Admission == INSTANCE AdmissionControl
                 WITH status <- [r \in Requests |-> Status(r)]

ImplementsAdmission == Admission!Spec

(* The requests in service keep to both limits. *)
WithinLimits == Admission!WithinLimits
=============================================================================
