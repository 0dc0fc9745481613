----------------------- MODULE UpstreamClientProofs ------------------------
(***************************************************************************)
(* Theorems about UpstreamConfig and UpstreamClient, for any sets of       *)
(* requests, updates and settings and any durations, crashes and I/O       *)
(* errors included: the settings on disk are always whole, and the store   *)
(* says what is on disk whenever nobody writes; requests use settings in   *)
(* force since they arrived, the models cache is stale for a bounded time  *)
(* at most, and what is proved of the settings alone holds of the whole    *)
(* gateway.                                                                *)
(***************************************************************************)
EXTENDS UpstreamClient, TLAPS

USE DEF disk

(* The invariant holds of a fresh start. *)
LEMMA InitIInv == Init => IInv
<1> SUFFICES ASSUME Init PROVE IInv
    OBVIOUS
<1> USE ValuesAssumption, NoOneAssumption, BoundsAssumption DEF Init
<1>1. TypeOK
  <2>1. up \in BOOLEAN
    OBVIOUS
  <2>2. begun \in 0..MaxBegun /\ starts \in 0..MaxStarts
    OBVIOUS
  <2>3. /\ pc \in [Updates -> {"idle", "lock", "create", "write", "rename", "set", "get", "copy"}]
        /\ arg \in [Updates -> Settings] /\ got \in [Updates -> Settings]
    OBVIOUS
  <2>4. /\ file \in Settings \cup {NoFile, Partial} /\ tmp \in Settings \cup {NoFile, Partial}
        /\ store \in Settings /\ cfg \in Settings /\ mu \in Updates \cup {NoOne}
    OBVIOUS
  <2> QED
    BY <2>1, <2>2, <2>3, <2>4 DEF TypeOK
<1>2. MutexHeld
    BY DEF MutexHeld, Holding
<1>3. WrittenSoFar /\ StoppedIsIdle /\ RestartFindsSettings /\ StoreBehindFile
    BY DEF WrittenSoFar, StoppedIsIdle, RestartFindsSettings, StoreBehindFile
<1> QED
    BY <1>1, <1>2, <1>3 DEF IInv

(* Every step keeps the types. *)
LEMMA NextType == IInv /\ [Next]_vars => TypeOK'
<1> SUFFICES ASSUME TypeOK, WrittenSoFar, RestartFindsSettings, [Next]_vars PROVE TypeOK'
    BY DEF IInv
<1> USE ValuesAssumption, NoOneAssumption, BoundsAssumption DEF TypeOK
<1>1. CASE Start
    BY <1>1 DEF Start, RestartFindsSettings
<1>2. CASE Crash
    BY <1>2 DEF Crash
<1>3. ASSUME NEW u \in Updates, Begin(u) PROVE TypeOK'
    BY <1>3 DEF Begin, At, Go
<1>4. ASSUME NEW u \in Updates, Run(u) PROVE TypeOK'
  <2>1. CASE Lock(u)
    BY <2>1 DEF Lock, At, Go
  <2>2. CASE Create(u)
    BY <2>2 DEF Create, At, Go, IOError
  <2>3. CASE Write(u)
    BY <2>3 DEF Write, At, Go, IOError
  <2>4. CASE Rename(u)
    BY <2>4 DEF Rename, At, Go, IOError
  <2>5. CASE SetStore(u)
    BY <2>5 DEF SetStore, At, Go
  <2>6. CASE Get(u)
    BY <2>6 DEF Get, At, Go
  <2>7. CASE Copy(u)
    BY <2>7 DEF Copy, At, Go
  <2> QED
    BY <1>4, <2>1, <2>2, <2>3, <2>4, <2>5, <2>6, <2>7 DEF Run
<1>5. CASE UNCHANGED vars
    BY <1>5 DEF vars
<1> QED
    BY <1>1, <1>2, <1>3, <1>4, <1>5 DEF Next

(* Every step keeps the mutex to its holder. *)
LEMMA NextMutex == IInv /\ [Next]_vars => MutexHeld' /\ StoppedIsIdle'
<1> SUFFICES ASSUME TypeOK, MutexHeld, StoppedIsIdle, [Next]_vars
             PROVE  MutexHeld' /\ StoppedIsIdle'
    BY DEF IInv
<1> USE NoOneAssumption DEF MutexHeld, StoppedIsIdle, Holding, TypeOK
<1>1. CASE Start
    BY <1>1 DEF Start
<1>2. CASE Crash
    BY <1>2 DEF Crash
<1>3. ASSUME NEW u \in Updates, Begin(u) PROVE MutexHeld' /\ StoppedIsIdle'
    BY <1>3 DEF Begin, At, Go
<1>4. ASSUME NEW u \in Updates, Run(u) PROVE MutexHeld' /\ StoppedIsIdle'
  <2>1. CASE Lock(u)
    BY <2>1 DEF Lock, At, Go
  <2>2. CASE Create(u)
    BY <2>2 DEF Create, At, Go, IOError
  <2>3. CASE Write(u)
    BY <2>3 DEF Write, At, Go, IOError
  <2>4. CASE Rename(u)
    BY <2>4 DEF Rename, At, Go, IOError
  <2>5. CASE SetStore(u)
    BY <2>5 DEF SetStore, At, Go
  <2>6. CASE Get(u)
    BY <2>6 DEF Get, At, Go
  <2>7. CASE Copy(u)
    BY <2>7 DEF Copy, At, Go
  <2> QED
    BY <1>4, <2>1, <2>2, <2>3, <2>4, <2>5, <2>6, <2>7 DEF Run
<1>5. CASE UNCHANGED vars
    BY <1>5 DEF vars
<1> QED
    BY <1>1, <1>2, <1>3, <1>4, <1>5 DEF Next

(* Every step keeps what is known of the files. *)
LEMMA NextDisk ==
    IInv /\ [Next]_vars => WrittenSoFar' /\ RestartFindsSettings' /\ StoreBehindFile'
<1> DEFINE Goal == WrittenSoFar /\ RestartFindsSettings /\ StoreBehindFile
<1> SUFFICES ASSUME IInv, [Next]_vars PROVE Goal'
    OBVIOUS
<1> USE ValuesAssumption, NoOneAssumption
    DEF IInv, MutexHeld, Holding, WrittenSoFar, RestartFindsSettings, StoreBehindFile, TypeOK
<1>1. CASE Start
    BY <1>1 DEF Start, StoppedIsIdle
<1>2. CASE Crash
    BY <1>2 DEF Crash
<1>3. ASSUME NEW u \in Updates, Begin(u) PROVE Goal'
    BY <1>3 DEF Begin, At, Go
<1>4. ASSUME NEW u \in Updates, Run(u) PROVE Goal'
  <2>1. CASE Lock(u)
    BY <2>1 DEF Lock, At, Go
  <2>2. CASE Create(u)
    BY <2>2 DEF Create, At, Go, IOError
  <2>3. CASE Write(u)
    BY <2>3 DEF Write, At, Go, IOError
  <2>4. CASE Rename(u)
    BY <2>4 DEF Rename, At, Go, IOError
  <2>5. CASE SetStore(u)
    BY <2>5 DEF SetStore, At, Go
  <2>6. CASE Get(u)
    BY <2>6 DEF Get, At, Go
  <2>7. CASE Copy(u)
    BY <2>7 DEF Copy, At, Go
  <2> QED
    BY <1>4, <2>1, <2>2, <2>3, <2>4, <2>5, <2>6, <2>7 DEF Run
<1>5. CASE UNCHANGED vars
    BY <1>5 DEF vars
<1> QED
    BY <1>1, <1>2, <1>3, <1>4, <1>5 DEF Next

(* The inductive invariant holds throughout. *)
THEOREM Invariant == Spec => []IInv
<1>1. IInv /\ [Next]_vars => IInv'
    BY NextType, NextMutex, NextDisk DEF IInv
<1> QED
    BY InitIInv, <1>1, PTL DEF Spec

(* The type invariant. *)
THEOREM TypeCorrect == Spec => []TypeOK
<1>1. IInv => TypeOK
    BY DEF IInv
<1> QED
    BY Invariant, <1>1, PTL

(* Whatever the process dies in the middle of, the next start finds whole  *)
(* settings: WriteFile only ever touches the temporary file.               *)
THEOREM CrashSafe == Spec => []RestartFindsSettings
<1>1. IInv => RestartFindsSettings
    BY DEF IInv
<1> QED
    BY Invariant, <1>1, PTL

(* While nobody writes, the store says what a restart would load: an       *)
(* update that failed half-way left no trace, one that succeeded is there. *)
THEOREM Durable == Spec => []StoreIsOnDisk
<1>1. IInv => StoreIsOnDisk
    BY NoOneAssumption DEF IInv, StoreIsOnDisk, StoreBehindFile, MutexHeld, Holding
<1> QED
    BY Invariant, <1>1, PTL

-----------------------------------------------------------------------------

USE DEF client, models, history, process

(* Every step of the gateway is one of UpstreamConfig, or leaves its       *)
(* variables alone: the process runs, and exits as it may also crash.      *)
THEOREM ImplementsConfig == GwSpec => Spec
<1>1. GwInit => Init
    BY DEF GwInit
<1>2. ASSUME [GwNext]_gwVars PROVE [Next]_vars
  <2>1. CASE RequestStep
    BY <2>1 DEF RequestStep
  <2>2. CASE ConfigStep
    BY <2>2 DEF ConfigStep, Next
  <2>3. CASE StartUp \/ Die \/ Exit
    BY <2>3 DEF StartUp, Die, Exit, Next
  <2>4. CASE Signal \/ Tick
    BY <2>4 DEF Signal, Tick
  <2>5. CASE UNCHANGED gwVars
    BY <2>5 DEF gwVars
  <2> QED
    BY <1>2, <2>1, <2>2, <2>3, <2>4, <2>5 DEF GwNext
<1> QED
    BY <1>1, <1>2, PTL DEF GwSpec, Spec

-----------------------------------------------------------------------------
Places == {"idle", "lookup", "url", "key", "sent", "store", "reply"}

(* The invariant holds of a fresh gateway. *)
LEMMA InitGwIInv == GwInit => GwIInv
<1> SUFFICES ASSUME GwInit PROVE GwIInv
    OBVIOUS
<1> USE ValuesAssumption, TimesAssumption, SpecialAssumption DEF GwInit, MaxSince
<1>1. cfg = Env /\ cfg \in Settings /\ ~up
    BY DEF Init
<1>2. since \in [Settings -> 0..MaxSince] /\ since[cfg] = 0
    BY <1>1
<1>3. GwTypeOK
    BY <1>1, <1>2 DEF GwTypeOK
<1>4. HistoryCurrent /\ URLSeen /\ FreshSettings /\ CallRecent /\ CacheRecent
    BY <1>1, <1>2 DEF HistoryCurrent, URLSeen, FreshSettings, CallRecent, CacheRecent
<1> QED
    BY <1>3, <1>4 DEF GwIInv

(* The process starts, dies or exits: no request is left, no list cached.  *)
LEMMA NewProcessStep ==
    ASSUME TypeOK', GwIInv, NewProcess, Observe
    PROVE  GwIInv'
<1> USE ValuesAssumption, TimesAssumption, SpecialAssumption DEF NewProcess, MaxSince
<1>1. cfg' \in Settings /\ cfg' = cfg'
    BY DEF TypeOK
<1>2. since' \in [Settings -> 0..MaxSince] /\ since'[cfg'] = 0
    BY <1>1 DEF Observe, GwIInv, GwTypeOK
<1>3. seen' = [q \in Requests |-> {}]
    BY DEF Observe
<1>4. GwTypeOK'
    BY <1>2, <1>3 DEF GwTypeOK, GwIInv
<1>5. HistoryCurrent' /\ URLSeen' /\ FreshSettings' /\ CallRecent' /\ CacheRecent'
    BY <1>1, <1>2, <1>3 DEF HistoryCurrent, URLSeen, FreshSettings, CallRecent, CacheRecent
<1> QED
    BY <1>4, <1>5 DEF GwIInv

(* A step of the settings: only `cfg` may change, and the histories with it. *)
LEMMA SettingsStep ==
    ASSUME TypeOK', GwIInv, UNCHANGED process, Observe, up' = up
    PROVE  GwIInv'
<1> USE ValuesAssumption, TimesAssumption, SpecialAssumption DEF MaxSince
<1>1. cfg' \in Settings
    BY DEF TypeOK
<1>2. /\ since' \in [Settings -> 0..MaxSince] /\ since'[cfg'] = 0
      /\ \A s \in Settings : since'[s] <= since[s]
    BY <1>1 DEF Observe, GwIInv, GwTypeOK
<1>3. /\ seen' \in [Requests -> SUBSET Settings]
      /\ \A q \in Requests : at[q] # "idle" => cfg' \in seen'[q] /\ seen[q] \subseteq seen'[q]
    BY <1>1 DEF Observe, GwIInv, GwTypeOK
<1>4. GwTypeOK'
    BY <1>2, <1>3 DEF GwTypeOK, GwIInv
<1>5. HistoryCurrent' /\ URLSeen' /\ FreshSettings'
    BY <1>1, <1>2, <1>3 DEF GwIInv, HistoryCurrent, URLSeen, FreshSettings
<1>6. CallRecent' /\ CacheRecent'
    BY <1>1, <1>2 DEF GwIInv, GwTypeOK, CallRecent, CacheRecent
<1> QED
    BY <1>4, <1>5, <1>6 DEF GwIInv

(* Time passes: whoever waits is one tick older, as are the settings that  *)
(* are no longer in force, and no request is between two readings.         *)
LEMMA TickStep ==
    ASSUME TypeOK, GwIInv, Tick
    PROVE  GwIInv'
<1> USE ValuesAssumption, TimesAssumption, SpecialAssumption DEF MaxSince
<1>1. cfg' = cfg /\ cfg \in Settings
    BY DEF Tick, vars, TypeOK
<1>2. /\ since' \in [Settings -> 0..MaxSince] /\ since'[cfg'] = 0
      /\ \A s \in Settings : since'[s] <= since[s] + 1
    BY <1>1 DEF Tick, GwIInv, GwTypeOK
<1>3. /\ waited' \in [Requests -> 0..Timeout]
      /\ \A q \in Requests : at[q] = "sent" => waited'[q] = waited[q] + 1
    BY DEF Tick, GwIInv, GwTypeOK
<1>4. age' \in 0..TTL /\ (age' = age + 1 \/ age' = TTL)
    BY DEF Tick, GwIInv, GwTypeOK
<1>5. drain' \in {Serving} \cup 0..Grace
    BY DEF Tick, GwIInv, GwTypeOK
<1>6. GwTypeOK'
    BY <1>2, <1>3, <1>4, <1>5 DEF Tick, vars, GwTypeOK, GwIInv
<1>7. HistoryCurrent' /\ URLSeen' /\ FreshSettings'
    BY <1>1, <1>2 DEF Tick, GwIInv, HistoryCurrent, URLSeen, FreshSettings
<1>8. CallRecent'
    BY <1>1, <1>2, <1>3 DEF Tick, Immediate, GwIInv, GwTypeOK, CallRecent
<1>9. CacheRecent'
    BY <1>2, <1>4 DEF Tick, GwIInv, GwTypeOK, CacheRecent
<1> QED
    BY <1>6, <1>7, <1>8, <1>9 DEF GwIInv

(* A step of a request: the settings stay, the histories gain nothing but  *)
(* the settings in force at an arrival.                                    *)
LEMMA Observed ==
    ASSUME TypeOK, GwIInv, RequestStep, at' \in [Requests -> Places]
    PROVE  /\ UNCHANGED <<vars, load, drain, since>>
           /\ seen' \in [Requests -> SUBSET Settings]
           /\ \A q \in Requests : at'[q] # "idle" => cfg \in seen'[q]
           /\ \A q \in Requests : at[q] # "idle" /\ at'[q] # "idle" => seen'[q] = seen[q]
<1>1. UNCHANGED <<vars, load, drain>> /\ cfg' = cfg /\ cfg \in Settings
    BY DEF RequestStep, vars, TypeOK
<1>2. since' = since
    BY <1>1 DEF RequestStep, Observe, GwIInv, GwTypeOK, HistoryCurrent
<1>3. \A q \in Requests : at[q] # "idle" => cfg \in seen[q] /\ seen[q] \cup {cfg} = seen[q]
    BY DEF GwIInv, HistoryCurrent
<1>4. seen' = [q \in Requests |-> IF at'[q] = "idle" THEN {}
                                  ELSE IF at[q] = "idle" THEN {cfg}
                                  ELSE seen[q] \cup {cfg}]
    BY <1>1 DEF RequestStep, Observe
<1>5. seen \in [Requests -> SUBSET Settings]
    BY DEF GwIInv, GwTypeOK
<1> QED
    BY <1>1, <1>2, <1>3, <1>4, <1>5

(* What a step of request q establishes, apart from the histories.         *)
Stepped(q) ==
    /\ at' \in [Requests -> Places]
    /\ op' \in [Requests -> Operations \cup {"chat"}]
    /\ url' \in [Requests -> Settings \cup {Garbled}] /\ auth' \in [Requests -> Settings]
    /\ waited' \in [Requests -> 0..Timeout]
    /\ cache' \in Settings \cup {NoList} /\ age' \in 0..TTL
    /\ up
    /\ \A p \in Requests \ {q} : /\ at'[p] = at[p] /\ op'[p] = op[p] /\ url'[p] = url[p]
                                /\ auth'[p] = auth[p] /\ waited'[p] = waited[p]

(* A step of a request is a step of that request alone. *)
LEMMA SteppedOnly ==
    ASSUME TypeOK, GwIInv, NEW q \in Requests, RequestStep,
           Arrive(q) \/ Work(q) \/ Answer(q) \/ UpstreamFails(q) \/ Reply(q)
    PROVE  Stepped(q)
<1> USE ValuesAssumption, TimesAssumption, SpecialAssumption
<1>0. GwTypeOK /\ cfg \in Settings /\ got \in [Updates -> Settings]
    BY DEF GwIInv, TypeOK
<1> USE DEF Stepped, GwTypeOK, Move, End, Forget, Places
<1>1. CASE Arrive(q)
    BY <1>0, <1>1, OperationsAssumption DEF Arrive
<1>2. CASE Lookup(q)
    BY <1>0, <1>2 DEF Lookup
<1>3. CASE ReadURL(q)
  <2>1. \E s \in Settings \cup {Garbled} : url' = [url EXCEPT ![q] = s]
    BY <1>0, <1>3 DEF ReadURL
  <2> QED
    BY <1>0, <1>3, <2>1 DEF ReadURL
<1>4. CASE ReadKey(q)
    BY <1>0, <1>4 DEF ReadKey
<1>5. CASE StoreList(q)
  <2>1. url[q] \in Settings
    BY <1>5 DEF StoreList, GwIInv, CallRecent
  <2> QED
    BY <1>0, <1>5, <2>1 DEF StoreList
<1>6. CASE Answer(q)
    BY <1>0, <1>6 DEF Answer
<1>7. CASE UpstreamFails(q)
    BY <1>0, <1>7 DEF UpstreamFails
<1>8. CASE Reply(q)
    BY <1>0, <1>8 DEF Reply
<1> QED
    BY <1>1, <1>2, <1>3, <1>4, <1>5, <1>6, <1>7, <1>8 DEF Work

(* Every step of a request keeps the types. *)
LEMMA RequestType ==
    ASSUME TypeOK, GwIInv, NEW q \in Requests, RequestStep, Stepped(q)
    PROVE  GwTypeOK' /\ HistoryCurrent'
<1>1. /\ UNCHANGED <<vars, load, drain, since>>
      /\ seen' \in [Requests -> SUBSET Settings]
      /\ \A p \in Requests : at'[p] # "idle" => cfg \in seen'[p]
    BY Observed DEF Stepped
<1>2. GwTypeOK'
    BY <1>1 DEF Stepped, GwIInv, GwTypeOK, vars, Places
<1>3. HistoryCurrent'
    BY <1>1 DEF GwIInv, HistoryCurrent, vars
<1> QED
    BY <1>2, <1>3

(* What a request has read stays what it was, for all but q.               *)
LEMMA OthersKeep ==
    ASSUME TypeOK, GwIInv, NEW q \in Requests, RequestStep, Stepped(q),
           at'[q] = "key" /\ op'[q] # "passthrough" => url'[q] \in seen'[q],
           at'[q] \in {"sent", "store", "reply"} =>
              auth'[q] \in seen'[q] /\ (op'[q] # "passthrough" => url'[q] \in seen'[q]),
           at'[q] = "store" => op'[q] = "models",
           op'[q] = "models" =>
              /\ at'[q] \in {"key", "sent", "store"} => url'[q] \in Settings
              /\ at'[q] = "key" => since[url'[q]] = 0
              /\ at'[q] = "sent" => since[url'[q]] <= waited'[q]
              /\ at'[q] = "store" => since[url'[q]] <= Timeout
    PROVE  URLSeen' /\ FreshSettings' /\ CallRecent'
<1>1. /\ since' = since
      /\ \A p \in Requests : at[p] # "idle" /\ at'[p] # "idle" => seen'[p] = seen[p]
    BY Observed DEF Stepped
<1>2. URLSeen /\ FreshSettings /\ CallRecent
    BY DEF GwIInv
<1>3. URLSeen'
    BY <1>1, <1>2 DEF Stepped, URLSeen
<1>4. FreshSettings'
    BY <1>1, <1>2 DEF Stepped, FreshSettings
<1>5. CallRecent'
    BY <1>1, <1>2 DEF Stepped, CallRecent
<1> QED
    BY <1>3, <1>4, <1>5

(* Every step of a request keeps the invariant. *)
LEMMA RequestInvariant ==
    ASSUME TypeOK, GwIInv, NEW q \in Requests, RequestStep,
           Arrive(q) \/ Work(q) \/ Answer(q) \/ UpstreamFails(q) \/ Reply(q)
    PROVE  GwIInv'
<1> USE TimesAssumption, SpecialAssumption
<1>1. Stepped(q)
    BY SteppedOnly
<1>2. GwTypeOK' /\ HistoryCurrent'
    BY <1>1, RequestType
<1>3. /\ UNCHANGED <<vars, load, drain, since>>
      /\ \A p \in Requests : at'[p] # "idle" => cfg \in seen'[p]
      /\ at[q] # "idle" /\ at'[q] # "idle" => seen'[q] = seen[q]
    BY <1>1, Observed DEF Stepped
<1>4. /\ GwTypeOK /\ since[cfg] = 0 /\ cfg \in Settings /\ since \in [Settings -> 0..MaxSince]
      /\ URLSeen /\ FreshSettings /\ CallRecent /\ CacheRecent
    BY DEF GwIInv, HistoryCurrent, TypeOK, GwTypeOK
<1> DEFINE Mine ==
      /\ at'[q] = "key" /\ op'[q] # "passthrough" => url'[q] \in seen'[q]
      /\ at'[q] \in {"sent", "store", "reply"} =>
            auth'[q] \in seen'[q] /\ (op'[q] # "passthrough" => url'[q] \in seen'[q])
      /\ at'[q] = "store" => op'[q] = "models"
      /\ op'[q] = "models" =>
            /\ at'[q] \in {"key", "sent", "store"} => url'[q] \in Settings
            /\ at'[q] = "key" => since[url'[q]] = 0
            /\ at'[q] = "sent" => since[url'[q]] <= waited'[q]
            /\ at'[q] = "store" => since[url'[q]] <= Timeout
      Cached == cache' # NoList => since[cache'] <= Timeout + age'
<1> USE DEF GwTypeOK, Move, End, Forget, URLSeen, FreshSettings, CallRecent, CacheRecent
<1>5. Mine /\ Cached
  <2>1. CASE Arrive(q)
    <3>1. Mine
      BY <1>4, <2>1, <1>1 DEF Arrive, Stepped
    <3>2. Cached
      BY <1>4, <2>1 DEF Arrive
    <3> QED
      BY <3>1, <3>2
  <2>2. CASE Lookup(q)
    <3>1. Mine
      BY <1>4, <2>2 DEF Lookup
    <3>2. Cached
      BY <1>4, <2>2 DEF Lookup
    <3> QED
      BY <3>1, <3>2
  <2>3. CASE ReadURL(q)
    <3>1. op' = op /\ at'[q] = "key"
      BY <1>4, <2>3 DEF ReadURL
    <3>2. op[q] # "passthrough" => url'[q] = cfg
      BY <1>4, <2>3 DEF ReadURL
    <3>3. Mine
      BY <1>3, <1>4, <3>1, <3>2
    <3>4. Cached
      BY <1>4, <2>3 DEF ReadURL
    <3> QED
      BY <3>3, <3>4
  <2>4. CASE ReadKey(q)
    <3>1. Mine
      BY <1>3, <1>4, <2>4 DEF ReadKey
    <3>2. Cached
      BY <1>4, <2>4 DEF ReadKey
    <3> QED
      BY <3>1, <3>2
  <2>5. CASE StoreList(q)
    <3>1. Mine
      BY <1>4, <2>5 DEF StoreList
    <3>2. at[q] = "store" /\ url[q] \in Settings /\ since[url[q]] <= Timeout
      BY <1>4, <2>5 DEF StoreList
    <3>3. Cached
      BY <1>4, <2>5, <3>2 DEF StoreList, MaxSince
    <3> QED
      BY <3>1, <3>3
  <2>6. CASE Answer(q)
    <3>1. Mine
      BY <1>3, <1>4, <2>6 DEF Answer
    <3>2. Cached
      BY <1>4, <2>6 DEF Answer
    <3> QED
      BY <3>1, <3>2
  <2>7. CASE UpstreamFails(q) \/ Reply(q)
    <3>1. Mine
      BY <1>4, <2>7 DEF UpstreamFails, Reply
    <3>2. Cached
      BY <1>4, <2>7 DEF UpstreamFails, Reply
    <3> QED
      BY <3>1, <3>2
  <2> QED
    <3> HIDE DEF Mine, Cached
    <3> QED
      BY <2>1, <2>2, <2>3, <2>4, <2>5, <2>6, <2>7 DEF Work
<1>6. URLSeen' /\ FreshSettings' /\ CallRecent'
  <2> HIDE DEF URLSeen, FreshSettings, CallRecent
  <2> QED
    BY <1>1, <1>5, OthersKeep
<1>7. CacheRecent'
    BY <1>3, <1>5
<1> QED
    BY <1>2, <1>6, <1>7 DEF GwIInv

(* Every step of the gateway keeps the invariant. *)
LEMMA GwStep ==
    ASSUME TypeOK, TypeOK', GwIInv, [GwNext]_gwVars
    PROVE  GwIInv'
<1>1. CASE RequestStep
  <2>1. PICK q \in Requests :
            Arrive(q) \/ Work(q) \/ Answer(q) \/ UpstreamFails(q) \/ Reply(q)
    BY <1>1 DEF RequestStep
  <2> QED
    BY <1>1, <2>1, RequestInvariant
<1>2. CASE ConfigStep
  <2>1. UNCHANGED process /\ Observe
    BY <1>2 DEF ConfigStep
  <2>2. ASSUME NEW u \in Updates, Begin(u) \/ Run(u) PROVE up' = up
    BY <2>2 DEF Begin, Run, Lock, Create, Write, Rename, SetStore, Get, Copy
  <2>3. up' = up
    BY <1>2, <2>2 DEF ConfigStep
  <2> QED
    BY <2>1, <2>3, SettingsStep
<1>3. CASE StartUp \/ Die \/ Exit
  <2>1. NewProcess /\ Observe
    BY <1>3 DEF StartUp, Die, Exit
  <2> QED
    BY <2>1, NewProcessStep
<1>4. CASE Signal
  <2>1. drain' \in {Serving} \cup 0..Grace
    BY <1>4, TimesAssumption DEF Signal
  <2>2. GwTypeOK'
    BY <1>4, <2>1 DEF Signal, GwIInv, GwTypeOK, vars
  <2>3. HistoryCurrent' /\ URLSeen' /\ FreshSettings' /\ CallRecent' /\ CacheRecent'
    BY <1>4 DEF Signal, GwIInv, HistoryCurrent, URLSeen, FreshSettings, CallRecent,
                CacheRecent, vars
  <2> QED
    BY <2>2, <2>3 DEF GwIInv
<1>5. CASE Tick
    BY <1>5, TickStep
<1>6. CASE UNCHANGED gwVars
  <2>1. GwTypeOK'
    BY <1>6 DEF gwVars, vars, GwIInv, GwTypeOK
  <2>2. HistoryCurrent' /\ URLSeen' /\ FreshSettings' /\ CallRecent' /\ CacheRecent'
    BY <1>6 DEF gwVars, vars, GwIInv, HistoryCurrent, URLSeen, FreshSettings, CallRecent,
                CacheRecent
  <2> QED
    BY <2>1, <2>2 DEF GwIInv
<1> QED
    BY <1>1, <1>2, <1>3, <1>4, <1>5, <1>6 DEF GwNext

(* What was proved of the settings alone holds of the gateway: whenever    *)
(* the process dies or exits, the next start finds settings that are whole *)
(* (RuntimeStore.Update, runtime.go).                                      *)
THEOREM GatewayCrashSafe == GwSpec => []RestartFindsSettings
    BY ImplementsConfig, CrashSafe, PTL

(* The inductive invariant of the composition: what every request has read *)
(* is as recent as its wait, and the cache as its age (client.go:58-131).  *)
THEOREM GwInvariant == GwSpec => []GwIInv
<1>1. GwSpec => []TypeOK
    BY ImplementsConfig, TypeCorrect, PTL
<1>2. TypeOK /\ TypeOK' /\ GwIInv /\ [GwNext]_gwVars => GwIInv'
    BY GwStep
<1> QED
    BY InitGwIInv, <1>1, <1>2, PTL DEF GwSpec

(* Requests, cache, shutdown and histories have their types. *)
THEOREM GwTypeCorrect == GwSpec => []GwTypeOK
<1>1. GwIInv => GwTypeOK
    BY DEF GwIInv
<1> QED
    BY GwInvariant, <1>1, PTL

(* No request goes out with a URL or a key that was replaced before the    *)
(* request arrived, however updates interleave with it (client.go:69).     *)
THEOREM SettingsFresh == GwSpec => []FreshSettings
<1>1. GwIInv => FreshSettings
    BY DEF GwIInv
<1> QED
    BY GwInvariant, <1>1, PTL

(* The models list served is never of an upstream that was replaced longer *)
(* ago than TTL + Timeout, in whatever order answers come (client.go:91).  *)
THEOREM ModelsStaleBounded == GwSpec => []StaleModelsBounded
<1>1. GwIInv => StaleModelsBounded
    BY TimesAssumption, SpecialAssumption
    DEF GwIInv, CacheRecent, StaleModelsBounded, GwTypeOK, MaxSince
<1> QED
    BY GwInvariant, <1>1, PTL

============================================================================
