--------------------------- MODULE UpstreamClient ---------------------------
(***************************************************************************)
(* The requests that the gateway sends to the upstream while its settings  *)
(* change: NewUpstreamRequest and GetModels with its cache                 *)
(* (internal/proxy/client.go), HandleModels and HandleGenericPassthrough   *)
(* (internal/proxy/handler.go), and the life of the process                *)
(* (internal/server/server.go: signal, graceful shutdown, exit).           *)
(*                                                                         *)
(* Composed with UpstreamConfig: `cfg` is what requests read.  Time is a   *)
(* Tick; an ordinary step takes no time, so a Tick waits for those.  The   *)
(* limiter and the recovery of a chat request are in Orchestrator; here it *)
(* is one upstream call whose answer is passed on.                         *)
(***************************************************************************)
EXTENDS UpstreamConfig

CONSTANTS
    Requests,    \* downstream requests that may be under way at once
    Operations,  \* subset of {"models", "chat", "passthrough"}
    TTL,         \* ModelsCacheTTL; 0 turns the cache off
    Timeout,     \* UpstreamTimeout
    Grace,       \* ShutdownTimeout
    NoList,      \* the models cache is empty
    Garbled,     \* a URL read while it is being written
    Serving,     \* no termination signal was received
    Loads        \* bounds of a behaviour: [updaters, updates, starts, requests]

ASSUME OperationsAssumption == Operations \subseteq {"models", "chat", "passthrough"}
ASSUME TimesAssumption == TTL \in Nat /\ Timeout \in Nat \ {0} /\ Grace \in Nat
ASSUME SpecialAssumption ==
    NoList \notin Settings /\ Garbled \notin Settings /\ Serving \notin Nat
ASSUME LoadsAssumption ==
    Loads \subseteq [updaters : SUBSET Updates, updates : 0..MaxBegun,
                      starts : 0..MaxStarts, requests : SUBSET Requests]

VARIABLES
    load,    \* the bounds chosen
    at,      \* where each request is
    op,      \* its operation
    url,     \* the settings its URL is from
    auth,    \* the settings its key and mode are from
    waited,  \* ticks since it was sent
    cache,   \* modelsCache: the settings whose upstream sent the list
    age,     \* ticks since it was stored; TTL: it has expired
    drain,   \* Serving, or ticks since the signal
    seen,    \* history: the settings in force since the request arrived
    since    \* history: ticks since each of the settings was last in force

client == <<at, op, url, auth, waited>>
models == <<cache, age>>
history == <<seen, since>>
process == <<load, client, models, drain>>
gwVars == <<vars, process, history>>

MaxSince == TTL + Timeout

GwInit ==
    /\ Init
    /\ load \in Loads
    /\ at = [q \in Requests |-> "idle"]
    /\ op \in [Requests -> {"chat"}]
    /\ url = [q \in Requests |-> Env] /\ auth = [q \in Requests |-> Env]
    /\ waited = [q \in Requests |-> 0]
    /\ cache = NoList /\ age = TTL
    /\ drain = Serving
    /\ seen = [q \in Requests |-> {}]
    /\ since = [s \in Settings |-> IF s = cfg THEN 0 ELSE MaxSince]

-----------------------------------------------------------------------------
(* History of `cfg` for the properties, kept by every step.                *)
Observe ==
    /\ seen' = [q \in Requests |-> IF at'[q] = "idle" THEN {}
                                   ELSE IF at[q] = "idle" THEN {cfg'}
                                   ELSE seen[q] \cup {cfg'}]
    /\ since' = [s \in Settings |-> IF s = cfg' THEN 0 ELSE since[s]]

Move(q, l) == up /\ at[q] # l /\ at' = [at EXCEPT ![q] = l]

(* What a request was about is forgotten when it ends. *)
Forget(q) ==
    /\ op' = [op EXCEPT ![q] = "chat"]
    /\ url' = [url EXCEPT ![q] = Env] /\ auth' = [auth EXCEPT ![q] = Env]
    /\ waited' = [waited EXCEPT ![q] = 0]

End(q) == Move(q, "idle") /\ Forget(q)

-----------------------------------------------------------------------------
(* A request, authenticated and routed.  The listener is closed on the     *)
(* signal.                                                                 *)
Arrive(q) ==
    /\ at[q] = "idle" /\ q \in load.requests /\ drain = Serving
    /\ \E o \in Operations :
          /\ op' = [op EXCEPT ![q] = o]
          /\ Move(q, IF o = "models" THEN "lookup" ELSE "url")
    /\ UNCHANGED <<url, auth, waited, models>>

(* Mutant: each hit prolongs the life of the entry. *)
LookupSliding(q) ==
    /\ at[q] = "lookup"
    /\ IF cache # NoList /\ age < TTL THEN End(q) /\ age' = 0 /\ UNCHANGED cache
       ELSE Move(q, "url") /\ UNCHANGED <<op, url, auth, waited, models>>

(* GetModels under the read lock: a list that has not expired is served.   *)
Lookup(q) ==
    /\ at[q] = "lookup"
    /\ IF cache # NoList /\ age < TTL THEN End(q)
       ELSE Move(q, "url") /\ UNCHANGED <<op, url, auth, waited>>
    /\ UNCHANGED models

(* UpstreamChatURL and UpstreamModelsURL read under upstreamMu.  The       *)
(* pass-through reads the field without it: while an update assigns the    *)
(* field it may see the old, the new or a mixture of both.                 *)
ReadURL(q) ==
    /\ at[q] = "url"
    /\ \/ url' = [url EXCEPT ![q] = cfg]
       \/ /\ op[q] = "passthrough"
          /\ \E u \in Updates : /\ pc[u] = "copy"
                               /\ \E s \in {got[u], Garbled} : url' = [url EXCEPT ![q] = s]
    /\ Move(q, "key")
    /\ UNCHANGED <<op, auth, waited, models>>

(* Mutant: the key of the settings at start-up, kept by the client. *)
ReadKeyOnce(q) ==
    /\ at[q] = "key"
    /\ auth' = [auth EXCEPT ![q] = Env]
    /\ Move(q, "sent")
    /\ UNCHANGED <<op, url, waited, models>>

(* NewUpstreamRequest: the request is created with the URL, which may not  *)
(* even parse if it is garbled; then the key and the mode are read; Do     *)
(* sends it.                                                               *)
ReadKey(q) ==
    /\ at[q] = "key"
    /\ \/ /\ auth' = [auth EXCEPT ![q] = cfg]
          /\ Move(q, "sent")
          /\ UNCHANGED <<op, url, waited>>
       \/ url[q] = Garbled /\ End(q)
    /\ UNCHANGED models

(* The upstream's answer: a list of models is read to its end and stored,  *)
(* anything else is passed on to the client.                               *)
Answer(q) ==
    /\ at[q] = "sent"
    /\ Move(q, IF op[q] = "models" THEN "store" ELSE "reply")
    /\ UNCHANGED <<op, url, auth, waited, models>>

(* An error, another status, an answer above MaxResponseBytes, the client  *)
(* gone, or the timeout of the HTTP client.                                *)
UpstreamFails(q) ==
    /\ at[q] = "sent"
    /\ End(q)
    /\ UNCHANGED models

(* Under the write lock, whatever the cache holds by now. *)
StoreList(q) ==
    /\ at[q] = "store"
    /\ IF TTL > 0 THEN cache' = url[q] /\ age' = 0 ELSE UNCHANGED models
    /\ End(q)

(* The answer has been written to the client.  Nothing ends a write to a   *)
(* client that does not read.                                              *)
Reply(q) ==
    /\ at[q] = "reply"
    /\ End(q)
    /\ UNCHANGED models

(* What the gateway's own goroutine does next. *)
Work(q) == Lookup(q) \/ ReadURL(q) \/ ReadKey(q) \/ StoreList(q)

TimeoutFires(q) == waited[q] = Timeout /\ UpstreamFails(q)

RequestStep ==
    /\ \E q \in Requests : Arrive(q) \/ Work(q) \/ Answer(q) \/ UpstreamFails(q) \/ Reply(q)
    /\ UNCHANGED <<vars, load, drain>>
    /\ Observe

-----------------------------------------------------------------------------
(* The steps of UpstreamConfig that leave the process running.             *)
ConfigStep ==
    /\ \/ \E u \in Updates : /\ Begin(u)
                            /\ drain = Serving
                            /\ u \in load.updaters /\ begun < load.updates
       \/ \E u \in Updates : Run(u)
    /\ UNCHANGED process
    /\ Observe

(* A process begins with an empty cache and no requests.                   *)
NewProcess ==
    /\ at' = [q \in Requests |-> "idle"]
    /\ op' = [q \in Requests |-> "chat"]
    /\ url' = [q \in Requests |-> Env] /\ auth' = [q \in Requests |-> Env]
    /\ waited' = [q \in Requests |-> 0]
    /\ cache' = NoList /\ age' = TTL
    /\ drain' = Serving
    /\ UNCHANGED load

StartUp == Start /\ starts < load.starts /\ NewProcess /\ Observe

Die == Crash /\ NewProcess /\ Observe

(* RunWithSignals: the first SIGINT or SIGTERM; others are not read.       *)
Signal ==
    /\ up /\ drain = Serving
    /\ drain' = 0
    /\ UNCHANGED <<vars, load, client, models, history>>

AllDone == (\A q \in Requests : at[q] = "idle") /\ (\A u \in Updates : pc[u] = "idle")

(* Mutant: Shutdown is given a context without a deadline. *)
ExitOnlyWhenDone == drain # Serving /\ AllDone /\ Crash /\ NewProcess /\ Observe

(* Shutdown returns when every connection is idle, or at its deadline; the *)
(* process exits, and what was under way is cut off.                       *)
Exit ==
    /\ drain # Serving
    /\ AllDone \/ drain = Grace
    /\ Crash /\ NewProcess /\ Observe

Immediate(q) == at[q] \in {"lookup", "url", "key", "store"}

(* Time goes by while requests wait for the upstream or for their client.  *)
Tick ==
    /\ up
    /\ \A q \in Requests : ~Immediate(q) /\ (at[q] = "sent" => waited[q] < Timeout)
    /\ drain # Serving => drain < Grace
    /\ waited' = [q \in Requests |-> IF at[q] = "sent" THEN waited[q] + 1 ELSE waited[q]]
    /\ age' = IF age < TTL THEN age + 1 ELSE TTL
    /\ drain' = IF drain = Serving THEN Serving ELSE drain + 1
    /\ since' = [s \in Settings |-> IF s = cfg THEN 0
                                    ELSE IF since[s] < MaxSince THEN since[s] + 1 ELSE MaxSince]
    /\ UNCHANGED <<vars, load, at, op, url, auth, cache, seen>>

GwNext == RequestStep \/ ConfigStep \/ StartUp \/ Die \/ Signal \/ Exit \/ Tick

GwSpec == GwInit /\ [][GwNext]_gwVars

(* Goroutines run and timers fire, updates get the mutexes and their I/O    *)
(* ends, time passes while nothing else happens, and the process exits when *)
(* Shutdown returns.  The upstream need not answer and clients need not     *)
(* read: no fairness of Answer and Reply.                                   *)
GwFairSpec ==
    /\ GwSpec
    /\ WF_gwVars(RequestStep /\ \E q \in Requests : Work(q) \/ TimeoutFires(q))
    /\ \A u \in Updates : SF_gwVars(ConfigStep /\ Run(u))
    /\ WF_gwVars(Tick)
    /\ WF_gwVars(Exit)

-----------------------------------------------------------------------------
GwTypeOK ==
    /\ load \in Loads
    /\ at \in [Requests -> {"idle", "lookup", "url", "key", "sent", "store", "reply"}]
    /\ op \in [Requests -> Operations \cup {"chat"}]
    /\ url \in [Requests -> Settings \cup {Garbled}] /\ auth \in [Requests -> Settings]
    /\ waited \in [Requests -> 0..Timeout]
    /\ cache \in Settings \cup {NoList} /\ age \in 0..TTL
    /\ drain \in {Serving} \cup 0..Grace
    /\ seen \in [Requests -> SUBSET Settings] /\ since \in [Settings -> 0..MaxSince]
    /\ ~up => drain = Serving /\ at = [q \in Requests |-> "idle"]

(* URL, key and mode are read in two steps with an update possibly between *)
(* them (client.go:69), but never from settings that were replaced before  *)
(* the request arrived; so a request that no update overlaps takes the key *)
(* to the upstream it belongs to.  The pass-through's URL is excluded: it  *)
(* may be garbled, or that of an update that has not taken effect.         *)
FreshSettings ==
    \A q \in Requests : at[q] \in {"sent", "store", "reply"} =>
        /\ auth[q] \in seen[q]
        /\ op[q] # "passthrough" => url[q] \in seen[q]

(* The cache is not dropped by an update, and a late answer of the old     *)
(* upstream may overwrite a newer one (client.go:91-128).  Still, a list   *)
(* that would be served is never of an upstream that was replaced longer   *)
(* ago than one upstream call and one life of the entry take.              *)
StaleModelsBounded == cache # NoList /\ age < TTL => since[cache] < TTL + Timeout

(* What a request has read is as recent as the time it has been waiting,   *)
(* and the cache as the call that filled it and its age.                   *)
HistoryCurrent == since[cfg] = 0 /\ \A q \in Requests : at[q] # "idle" => cfg \in seen[q]

URLSeen ==
    \A q \in Requests : at[q] = "key" /\ op[q] # "passthrough" => url[q] \in seen[q]

CallRecent ==
    \A q \in Requests :
        /\ at[q] = "store" => op[q] = "models"
        /\ op[q] = "models" =>
              /\ at[q] \in {"key", "sent", "store"} => url[q] \in Settings
              /\ at[q] = "key" => since[url[q]] = 0
              /\ at[q] = "sent" => since[url[q]] <= waited[q]
              /\ at[q] = "store" => since[url[q]] <= Timeout

CacheRecent == cache # NoList => since[cache] <= Timeout + age

(* The inductive invariant of UpstreamClientProofs.                        *)
GwIInv ==
    /\ GwTypeOK
    /\ HistoryCurrent
    /\ URLSeen
    /\ FreshSettings
    /\ CallRecent
    /\ CacheRecent

(* After a termination signal the process exits, although a stream to a    *)
(* client that does not read never ends by itself (server.go:32).          *)
ShutdownEnds == []<>(drain = Serving)

=============================================================================
