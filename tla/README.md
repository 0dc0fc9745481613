# Formal models of Antigravity-gateway

Antigravity-gateway is an HTTP gateway in Go between clients of the chat
completions API and an upstream that offers the same API. It gives out API keys
of its own, limits concurrency, injects a synthetic "transport" tool into chat
requests, so that the model puts its answer in the arguments of a call of that
tool, and turns such a call back into ordinary content on the way back, for
whole answers and for streams. Empty and undecodable answers may be retried.

This directory holds TLA+ models of its core, the TLC runs that check them, and
TLAPS proofs. Paths are relative to `src/`.

- [Inventory of the system](#inventory)
- [The modules](#modules)
- [The runs](#runs), with [bounds](#bounds) and [fairness](#fairness)
- [Disagreements found](#findings)
- [The proofs](#proofs)
- [What is not modelled](#left-out)
- [Plan](#plan)

To check: `tlc -config MCLimiter.cfg MCLimiter` (and so on, one `.cfg` per run),
and `tlapm M.tla` for `LimiterProofs`, `OrchestratorProofs`, `KeyManagerProofs`,
`UpstreamClientProofs`, `StreamTransformProofs`, and `TextProofs`, `RepairProofs` and
`TransportProofs` (which take some ten minutes each).

## Inventory <a id="inventory"></a>

| Component (code) | State | Operations | Correct if |
|---|---|---|---|
| **Concurrency limiter** (`internal/limiter/concurrency.go`) | a global buffered channel, one channel per key in a mutex-protected map, goroutines parked in sends | `Acquire` (try, then a timed select, first on the key's channel, then on the global one), `release` | no slot leaks or is freed twice, limits hold, no lost wake-up, first come first served, every call returns |
| **Downstream key manager** (`internal/keymgmt`, `internal/cli`) | SQLite tables `downstream_keys` and `key_migrations`; per process a snapshot behind an atomic pointer, `writeMu`, static keys | `NewManager`, `ImportStaticKeys`, `CreateKey`, `DeleteKey`, `RevokeKey`, `reloadSnapshot`, `Authenticate` | a revoked or deleted key is refused and never returns, an issued key works, an interrupted import can be completed |
| **Streaming transformer** (`internal/synthetic/stream.go`) | per choice: side buffer, synthetic tool index, renumbering of real tools, a decoder | one step per choice entry; end, `[DONE]`, read error | content neither lost, doubled nor reordered, real tool calls intact, truthful finish reason |
| **Incremental decoder** (`internal/synthetic/stream_decoder.go`) | state machine, bytes held back, pending quote, high surrogate | `Feed`, `Finish` | each character is delivered once, as soon as its text is complete, however the text is cut |
| **Chat handler** (`internal/recovery/orchestrator.go`, `internal/metrics`) | per request: position, attempt, last answer; global counters | the two paths of `HandleChatCompletions`, empty retry, format retry | one response per request, retries only when safe, the latest answer is served, the slot and the gauge come back |
| **Runtime upstream settings** (`internal/config/runtime.go`, `config.go:300-326`) | the settings file and its `.tmp`, the store's copy under a mutex, `Config`'s copy under another | `NewRuntimeStore`, `UpdateUpstream` | file whole after any crash, store = file, requests use what was stored last |
| **Injector, model filter** (`synthetic/injector.go`, `model_filter.go`) | none | `InjectContext`, `ClassifyModel` | what goes upstream ends with a user's turn, no message or tool of the client's is lost, the transport tool has a new name |
| **Normaliser, argument repair** (`synthetic/normalizer.go`, `repair.go`) | none | `NormalizeNonStreaming`, `RepairSyntheticArguments` | real calls come back in order, the transport call never does, its text arrives as the model meant it although it is cut off, fenced or not quite JSON |
| **Upstream client** (`proxy/client.go`) | HTTP client, models cache behind a read-write lock | `NewUpstreamRequest`, `Do`, `GetModels` | a request uses settings that were in force since it arrived; a list of models of a replaced upstream goes in bounded time |
| **Proxy handler** (`proxy/handler.go`) | none of its own | authentication, `HandleModels`, pass-through | like the client |
| **Size-limited reader** (`limits/reader.go`) | bytes left | `Read` | error exactly above the limit |
| **Server, start-up** (`server/server.go`, `cmd/gateway/main.go`) | `http.Server` | start in order, signal, graceful shutdown | keys imported before requests are served; the process exits |
| **Configuration loading** (`config.go`, `dotenv.go`) | none afterwards | `Load` | defaults and precedence |
| **Logger, admin page, live test** | files, none | output | — |

How they interact: a request is authenticated on the key snapshot, enters
`HandleChatCompletions`, waits in the limiter, is transformed by the injector,
is sent by the upstream client (which reads URL and key from `Config`), and its
answer goes through the normaliser or, fed with each chunk, through the stream
transformer and its decoders. Admin calls run in goroutines beside all this and
change the key database and the settings file. The command line is a second
process on the same database and settings file.

Hard to test in it: the interleavings of goroutines around the channels and
between the separately locked steps of the admin calls; crashes between SQL
statements and file operations; the ways a stream can be cut and ordered; the
failure of each step of a request. `PROJECT.json` lists these hazards line by
line with the properties that cover each, and says why when none does.

## The modules <a id="modules"></a>

| Module | Models | Proof module | TLC instances |
|---|---|---|---|
| `AdmissionControl` | what the limiter promises: requests ask, are admitted within both limits or refused, and leave | | |
| `Limiter` | the limiter itself | `LimiterProofs` | `MCLimiter` |
| `Orchestrator` | the chat handler; uses `AdmissionControl` as its limiter | `OrchestratorProofs` | `MCOrchestrator` |
| `KeyManager` | key manager, server and command line | `KeyManagerProofs` | `MCKeyManager` |
| `StreamTransform` | stream transformer | `StreamTransformProofs` | `MCStreamTransform` |
| `TransportText` | what a model may write as arguments of a transport call, what it means, and what must come back of it: the reference for the next five | `TextProofs`, `RepairProofs` | |
| `StreamDecoder` | incremental decoder | `TransportProofs` | `MCStreamDecoder`, `MCTransport` |
| `ArgumentsRepair` | the repair of arguments | `TextProofs`, `RepairProofs` | `MCTransport` |
| `Normalizer` | turning a whole answer back; uses `ArgumentsRepair` | | `MCTransport` |
| `Injector` | the transformation of a request | | `MCTransport` |
| `Exchange` | composes `Injector`, an upstream and `Normalizer` | `TransportProofs` | `MCTransport` |
| `Transport` | composes `Exchange` with `StreamDecoder` | `TransportProofs` | `MCTransport` |
| `UpstreamConfig` | settings store and `Config`'s copy | `UpstreamClientProofs` | `MCUpstreamConfig` |
| `UpstreamClient` | composes `UpstreamConfig` with the requests that use the settings, the models cache and the life of the process | `UpstreamClientProofs` | `MCUpstreamClient` |

`Orchestrator` composes with the limiter through `AdmissionControl`: the handler
is checked against the promise (a slot may be granted whenever both limits have
room, or refused), and `Limiter` is checked, and proved, to implement the
promise. So nothing of the handler depends on how the limiter queues.
`StreamTransform` sees the decoder only as something that delivers what it
holds, with the new fragment, or holds that too; `StreamDecoder` is the decoder
in detail. `Orchestrator` knows of `NormalizeNonStreaming` only whether it fails
and how many real calls it counts; `Exchange` has the function in detail, on both
sides of the upstream: the name the injector drew is the one the normaliser looks
for, and the calls of an answer are drawn from the tools that were sent.

**`Limiter`.** Both semaphores are buffered channels and one set of actions
serves them: `at[r]` says on which channel the next operation of a request is.
`sem[c]` is `len(c)`, `queue[c]` the goroutines parked in a send. `Call` is the
entry of `Acquire` with `getKeyLimiter`; `Try` the non-blocking `select`;
`Select` the entry of the timed one, which may take any ready case; a parked
goroutine is woken by `TimerFires`, `Cancel` or a `Release`, which hands the
slot over to the head of the queue as the Go runtime does. `Fail` is every error
return: at the global channel the key's slot goes back first. A timer may fire
whenever its owner is in the timed select: time itself is left out, so the
checks hold for all durations. `queueTimeout` is chosen at the start (0: no
queue).

**`KeyManager`.** One action per SQL statement or lock operation, as the code
uses no transaction. `ImportNext`, `ImportExists`, `ImportInsert` and
`ImportMark` are the four statements of the import loop, each of which can fail and
end the start. `Write`, `Query` and
`Store` are the steps of an admin call under `writeMu`: the statement, the
reading of the table, and the swap of the snapshot. `Crash` loses everything but
the two tables. `faulty`, chosen at the start, says whether statements may fail.
`refuse`, `issued` and `retired` are history variables for the properties:
what each process has *answered*. A key stands for its raw value and hash.

**`StreamTransform`.** A text is a sequence of pieces, and a piece carries the
place it came from: `<<n, 0>>` is the content of the n-th entry, `<<n, k>>` its
k-th fragment of a tool call, so that loss, repetition and reordering
show. One action, `Entry`, is one pass of the loop body of `Transform` over a
choice entry; its stages (`EmitRole`, `EmitReasoning`, `EmitTools`,
`EmitContent`, `EmitFinish`) are operators in the order of the code, and
`WorkedTools` is the loop over the fragments within an entry. `Protocol`
is what the upstream may send: the first fragment of a call has its name and the
later ones, of the same entry or another, do not; one finish reason ends a choice.

**`TransportText`, `StreamDecoder`, `ArgumentsRepair`.** A text is a sequence of
symbols, one per class of bytes that the code tells apart; `Source` is the JSON
text of an item (a plain, escaped or multi-byte character, a surrogate pair, a raw
newline or quote), `Meaning` the characters it stands for, and `ItemsIn` says how
many items came complete in a text that was cut off. A text is written in one of
four dresses: plain, fenced as a code block, with a comma too many, or with words
around it. A *writing* is a text and the place it was cut at; `Carries` says what
must come back of one: all that it has in full, but for white space and a bare quote
where it was cut off, and beyond it at most what came of an item cut in two. `Round`
is one round of the loop of `Feed`, `StringFrom` one of the loop within the string (with `InString`, which
settles a quote held back), and `Worked` repeats them over a chunk, cut anywhere. `RepairSyntheticArguments` is the four stages of the code in its order:
valid JSON, the same without a fence and a trailing comma, with the missing end
supplied, and the scan for the string; the JSON parser is modelled by what it
accepts (`Unmarshal`). Its three loops over the bytes of a text, `Unquoting`,
`Structuring` and `Scanning`, are functions that give the state after each symbol.

**`Injector`.** A message is its role and its number in the client's list, so that
loss, repetition and reordering show; `Insert` places the control message,
`NeedsUserTurn` decides on "Please continue.", by the role of the last turn
(`ModelTurns`) or because there is none. `UniqueToolNames` is the set of
names the random draw can end with.

**`Normalizer`, `Exchange`, `Transport`.** `NormalizeChoice` is the body of the loop
over choices, `Normalize` adds what stops the loop. In `Exchange` a case (a request
and a configuration) is chosen at the start, then `Inject`, `Answer` (any choices
within the bounds of the case) and `Normalize` follow each other. A transport call
remembers by which writings (text and cut) its arguments came about, for the
properties. `Transport` adds requests that are streamed: their answer goes chunk by
chunk through `StreamDecoder`.

**`Orchestrator`.** `pc` is the place in the handler; every early return is a
`Respond` (status and the answer it was made of, or `Error`) or `Silent`. An upstream
answer is blank, not JSON, or an object with a list of choices (`Bodies`), of each of
which the handler tells apart whether it has text, real calls, and a transport call
that is whole, repairable or broken. `lastResp` is what the loop keeps of the last
attempt in variables outside it; `answers`, the history, is for the properties only.
`NormalizeFails` says when `NormalizeNonStreaming` returns an error, which it does at
the first choice that is `Unusable`; `Visited` are the choices up to there, whose real
calls it has counted.

**`UpstreamConfig`.** `Create`, `Write` and `Rename` are the file operations of
`RuntimeStore.Update`, each of which can fail or be the last before a crash;
`SetStore`, `Get` and `Copy` are the three separately locked steps after which
requests see the new settings.

**`UpstreamClient`** extends it: `ConfigStep` is any step of an update. `ReadURL` and
`ReadKey` are the two readings of `Config` in `NewUpstreamRequest`; the pass-through
reads the URL without the lock (`handler.go:146`), so while an update is in `Copy` it
may see the old, the new or a mixture of both (`Garbled`). `Lookup` and `StoreList`
are the two critical sections of `GetModels`, with the upstream call between them.
Time is `Tick`, which waits for goroutines that can run; it ages the cache entry,
the calls under way and the shutdown. `Signal`, `Exit` and `Die` end the process;
`NewProcess` is what the next one starts with. `seen` and `since` are history: the
settings in force since a request arrived, and how long ago each was in force.

Definitions marked `(* Mutant: ... *)` are not part of a model. Each is a
plausible bug of the definition that follows it (a missing reset, a dropped
guard), and `PROJECT.json` says which property TLC finds violated when it takes
that definition's place: a check that the properties can fail.

## The runs <a id="runs"></a>

| Run | Shows |
|---|---|
| `limiter` | `SlotsAccounted`: every slot taken has exactly one owner on its way in or out, whichever timers fire and clients go away. `NoLostWakeup`: no request is parked at a channel with room. `KeyShareBounded`: a key's requests that hold or wait for a global slot never exceed its own limit. `FirstComeFirstServed`: slots are granted in queue order, and no newcomer overtakes. `ImplementsAdmission`: the refinement. |
| `limiter_live` | `AcquireReturns`: every `Acquire` returns, even if no timer ever fires: holding a key's slot while queueing for the global one cannot deadlock. |
| `keys` | `RefusesRetired`: once a process has answered that a key is revoked or deleted, neither it nor a later one accepts it. `HonoursIssued`: a key handed out works until a call to retire it reaches the database. `NoResurrection`: no restart imports a deleted key again. `ImportCompletes`: an import never fails on what an interrupted one left. `SnapshotCurrent`, without faults: between writes the snapshot is the table. `CallsReturn`: the mutex is released on every path. |
| `stream` | `ContentInOrder`, `RealToolsPreserved`: what the client has is at every point a prefix of what was sent, and complete when the choice is finished. `BufferedNoConcatenation`: what a side buffer buys. `FinishTruthful`: "tool_calls" exactly when there is a real call to run, and nothing after it. |
| `transport` | `UserTurnLast`: what goes upstream ends with a turn of the user or a tool. `ClientKept`: with all of the client's messages and tools, in order. `ClientCallsReturned`: calls of the client's tools come back, the transport call does not. `TextDelivered`: the text is what the model meant, alone and in order, however it was written and wherever it was cut off. `RefusedForCause`: an answer is refused only if nothing can be had from it. `FinishHonest`: "tool_calls" only with calls, calls only with "tool_calls" or "length". `DeliveredPromptly`: of a stream, after each chunk exactly the characters whose text was read to its end are out. `DeliveredInFull`: and by the end all of them. |
| `handler` | `AnsweredOnce`, `GaugeExact`, `UpstreamWithinLimits` (retries run within the request's slot), `ResentSafely` (a request is sent again only after an empty answer, or once after an unusable one, never in a stream, after an error or after real tool calls that were counted), `LatestAnswerServed` (what the loop keeps is the last attempt's answer, and what the client gets, a 502 too, is made of the latest), `EmptyAnswersRetried`, `HandlerReturns` (and gives its slot back). |
| `config` | `RestartFindsSettings`: whole settings after any crash. `StoreIsOnDisk`. `FreshSettings`: URL and key of a request are from settings in force since it arrived. `StaleModelsBounded`: a list of models of a replaced upstream is served no longer than the cache's life and one timeout. `UpdateReturns`. `ShutdownEnds`: after a signal the process exits although clients may not read and the upstream may not answer. |
| `keys_shared`, `stream_concat`, `decoder_spaced`, `handler_real_calls`, `config_race` | one property each that a document or test of the repository states and the code does not have; see below. |

`CHECK_DEADLOCK FALSE` is set where the modelled system really stops: a stream
ends, a string has been decoded, the bounded number of starts, requests or
updates is used up. The limiter is checked for deadlock.

### Bounds <a id="bounds"></a>

- `limiter`: five requests, three of them with key `k1` (so that two queue
  behind one), one with `k2`, one without a key; global limit 2, per-key limit
  1, queue timeout 0 and 1. Two holders of different keys fill the global
  channel while others wait in front of both; both orders of every hand-over
  occur. The limiter needs no other bound: requests call again and again. The
  three requests of `k1` are interchangeable, hence the symmetry; the properties
  of this run do not name requests. The proofs drop all bounds.
- `limiter_live`: four requests, both limits 1, no symmetry (it is unsound for
  liveness). Limits of 1 are the case where a wait of one channel inside the
  other could deadlock.
- `keys`: one server, two admin calls at a time, one created key, two static
  keys that are configured one at a time (`API_KEY` always has the id
  `default`), three starts. Three starts are needed for: an import
  interrupted between row and mark, completed by the second start, the key
  deleted, and a third start that must not import it again. `MaxStarts` is the
  only bound on the length of a run; admin calls repeat. The second static key
  with the same id reaches the failing start-up and the failing reload.
- `stream`: two choices, two tool indexes, four entries from thirteen kinds of
  delta, among them two fragments of a call in one entry, side buffer of 0 (the default) and of 2 fragments. Four entries are
  enough for content, a named call, its continuation and a finish, in every
  order, and for interleaving two choices. The proofs drop all these bounds.
- `transport`: requests, structures of answers, texts and streams are varied one at
  a time (`MCTransport`), as the code treats them one after the other: every list of
  up to three messages of eight kinds (placing the control message and finding the
  last turn depend on neighbours and on what is at the ends) with every position and
  role of the control message, and every model class, tool choice and up to two
  tools, one of which may have the name the injector draws first; up to two choices
  or two calls in any mixture of real, transport and unreadable calls, with a text
  that is whole, repairable or hopeless; every text of up to two of 13 items under
  the schema's key and of one under others, in four dresses, cut anywhere; streams of
  every two of 11 items and three of the 7 difficult ones, with white space nowhere,
  everywhere or after the colon only, in every cut into chunks. The decoder holds
  back at most one item and one quote, so the neighbours of an item are what matters.
  White space before the closing brace is the finding `decoder_spaced` and is
  excluded in the passing run, as are raw quotes before white space or a brace in
  texts: those *are* ambiguous. The proofs drop the bounds on texts, cuts, calls and
  messages.
- `handler`: two requests of one key with per-key limit 1 and global limit 2,
  each call streaming or not and with or without the transport tool;
  `WRAPPER_MODE` "required" and `RECOVERY_POLICY` "repair_then_retry", in which
  every branch is reachable ("prefer" differs in that a plain answer does not
  fail); two empty retries, so up to four upstream calls for one request (the default
  is three: one more round of a loop of which the first, a middle and the last round
  occur here, and `OrchestratorProofs` drops the bound); answers of no choice, of one
  of every kind, and of two in either order of those that decide about a retry
  (`FewBodies`); `MaxArrivals` 2. Handlers touch each other only through the limiter
  and the counters, so a second request that has to wait for the first is what
  matters here; the limiter's own run has five.
- `config`: two settings, and either two updates at a time, three in all, with two
  starts and no requests (`RacingUpdates`), or one updater and one request with two
  updates, or two requests with one. Two updates are the least that can race; a
  request meets the three steps of an update one at a time. Cache life 2, timeout 1
  and grace 1 are the least for which an entry can age, a late answer can arrive
  after an update and a shutdown can run out; the bound proved is in terms of them.
  The proofs drop all these bounds.

### Fairness <a id="fairness"></a>

- `Limiter`: weak fairness of each request's own steps (`Run`): a goroutine that
  can run does, and an admitted handler ends, as the upstream HTTP client has a
  timeout (`proxy/client.go:49`) and clients are assumed to read what they are
  sent (the server has no write timeout, so this is an assumption about the
  environment, not something the code enforces). **No** fairness of timers or cancellations: `Acquire` returns without
  their help. That a parked goroutine is woken needs no fairness of its own, as
  it is part of the `Release` of another.
- `KeyManager`: strong fairness of each admin call's steps. Strong because of
  `writeMu`: `sync.Mutex` has a starvation mode that hands the lock to a waiter
  after a millisecond. None for starts, crashes or the import.
- `UpstreamClient`: strong fairness of each update's steps, for the same reason; weak
  fairness of what the gateway's own goroutines do for requests and of the client's
  timeout, of time, and of the exit when `Shutdown` returns. **No** fairness of the
  upstream's answers, of clients that read, of signals and crashes: `ShutdownEnds`
  rests on the deadline given to `Shutdown` (`server.go:78`) alone.
- `Orchestrator`: weak fairness of the handler's steps. They include that a slot
  is granted or refused (what `AcquireReturns` shows of the limiter) and that an
  upstream call and a stream end (the HTTP client's timeout, and clients that
  read, as above).
- `StreamTransform` and `Transport` state no liveness.

Liveness properties are written `[]<>idle`: it is equivalent to "every call
leads to idle", and far cheaper to check.

## Disagreements found <a id="findings"></a>

Each has a run that must end in a violation, and an entry with the quoted line
in `PROJECT.json`.

1. `keys_shared`: the command line says a key is deleted while the running
   server goes on accepting it, as nothing reloads the server's snapshot.
   `DIFF_FILE:8` and `VERIFICATION.txt:7` say both share the key manager.
2. `stream_concat`: with the default side buffer of 0, standard content that
   precedes a synthetic call is delivered and then the call's content as well.
   `README.md:497-498` says there is no concatenation.
3. `decoder_spaced`: when a chunk ends in white space after the closing quote,
   the quote and the brace are delivered as content. `stream_test.go:141-142`
   expects the same result for every cut.
4. `handler_real_calls`: `NormalizeNonStreaming` stops at the first choice it cannot
   use, and so does its count of real tool calls, by which the handler decides on the
   format retry (`orchestrator.go:186`). An answer whose first choice has a broken
   transport call and whose second has real tool calls is given up, and if the retry
   fails too the client gets 502. `README.md:218` calls the retry safe, and
   `README.md:83` says that real tool calls are not swallowed. `ResentSafely` states
   what does hold, and is proved: nothing is sent again after real tool calls that
   come before the unusable choice, or in an answer without one.
5. `config_race`: of two concurrent updates the older may win in `Config` while
   the newer is in the store and on disk.

Seen while modelling, without a run of their own:

- An empty answer to a *streaming* request is never retried, although `README.md:90`
  promises it without restriction (hence `EmptyAnswersRetried` speaks of the
  non-streaming path only); `synthetic_retry_total` does not count a format retry
  that failed.
- Fenced arguments are repaired in whole answers (`README.md:502`) but not in
  streams: with "```json" before the object the decoder takes everything for raw
  text and delivers the object itself (`stream_decoder.go:60-67`).
- A language model's request that is passed through is not "100% raw": a trailing
  turn of the model gets "Please continue." appended (`injector.go:210`). A
  `tool_choice` of "none" becomes "auto" when the transport tool is added.
- The scanning stage of the repair does not join surrogate pairs and makes two
  U+FFFD of them (`repair.go:234`); a bare quote before a brace or comma is taken for
  the closing one (`repair.go:254`); a fenced text without its closing fence loses
  what follows the last fence within it (`repair.go:90`). `Owed` and `Meanings` in
  `Exchange` name these limits, and the properties hold up to them.
- The empty string that lacks its brace is streamed as a quote
  (`stream_decoder.go:287`).
- "length" becomes "tool_calls" in an answer with a real call beside a transport
  call.
- `RECOVERY_POLICY=fail` still repairs and serves (`README.md:609`: "error out"): the
  policy is only ever compared with "repair_then_retry" (`orchestrator.go:186`), so
  it does what "repair" does.
- The URL and the key of an upstream request are read one after the other
  (`client.go:69`): an update between the two sends the new key to the old upstream,
  once. `FreshSettings` bounds the age of each, not their agreement.
- After `API_KEY` is replaced the gateway refuses to start: the row imported of the old
  key has the same id (`keymgmt.go:347`).
- `runtime-config.json`, once written, overrides the environment, to which
  `README.md:589-596` gives the highest priority.
- The protection against the return of deleted keys needs that one process at a time
  imports, and with unchanged static keys. A key whose import is interrupted between
  its row and its mark, and that is then deleted by a process configured without it,
  is imported again by the next start that has it; and of two processes that import
  at once, one may insert what the other has imported, and deleted, meanwhile. The
  theorems of `KeyManagerProofs` state both assumptions.

## The proofs <a id="proofs"></a>

The proof modules follow the same plan: an inductive invariant, checked
by TLC first; a lemma `Init => IInv`; one lemma per action, or per conjunct and
action, for `IInv /\ [Next]_vars => IInv'`; and the theorems as its consequences.

**`LimiterProofs`**, for any finite set of requests, any set of keys and any
integer limits (`RequestsAssumption`, `KeysAssumption`, `KeyOfAssumption`,
`SettingsAssumption`). The limits may be zero or negative: `GlobalCap` and
`KeyCap` are the defaults the constructor puts in their place, and `CapPositive`
proves them positive.

- `Invariant`: `IInv` is `StateOK` (types), `SlotsAccounted`, `NoLostWakeup` and
  what these need to be inductive: `QueueIsParked` (the queue of a channel holds
  exactly the requests parked on it, each once), without which a hand-over could
  wake someone who is not waiting; `AtOwnChannel` (a request works on its own
  key's channel or the global one), without which a release could free a slot
  of another key; and `KeyLimiterExists`, without which `Call` could reset a
  channel in use. The counting argument: each action changes the owners of one
  channel by one request and `sem` by one, or replaces one owner by another
  (`SwapOwner`), with the cardinality facts of `FiniteSetTheorems`.
- `TypeCorrect`, `SlotsNeverLeak`, `WakeupsNeverLost`: the parts of `IInv`.
- `KeyShareRespected`: whoever works on the global channel owns a slot of its
  key, and those are at most `KeyCap`.
- `LimitsRespected`: served requests own slots, hence `WithinLimits` of
  `AdmissionControl`.
- `Implementation`: `Spec => ImplementsAdmission`. The refinement mapping is
  `Status`: inside `Acquire` is "asking", between its return and `release` is
  "serving". A grant of a global slot, also one by a hand-over, is `Admit`,
  enabled because a slot that is free or being given back is not counted among
  the served (`RoomForOne`); all other steps are `Ask`, `Refuse`, `Leave` or a
  stutter.
- `ArrivalOrder`: the action property `FirstComeFirstServed`. By `NoLostWakeup`
  a channel with room has nobody in its queue, so a newcomer overtakes nobody.

**`OrchestratorProofs`**, for any finite set of requests, any keys and limits, any
number of retries and arrivals, every mode and policy (`SettingsAssumption`,
`LimitsAssumption`). The limiter is what `AdmissionControl` promises of it, which
`LimiterProofs!Implementation` proves of the code, so together the two are about the
handler on the real limiter.

- `Invariant`: `SlotHeld` says where in the handler a request holds its slot, and
  `Course(r)` what one request has been through. Its parts are the properties
  themselves (`Answered`, `Resent`, `Latest`, `Retried`) and what they rest on:
  `ResponseSoFar` (nothing is written before the handler is about to return, but by
  a stream) and `AnswersSoFar`: in the loop a request has had one answer per attempt,
  all but the last of them empty, so a call is only ever repeated after an empty
  answer, what `lastResp` holds behind the loop is the last of them, and it is empty
  only if no attempt is left; a stream has had none before its one. That the format
  retry follows no counted real calls is a lemma about the list of choices
  (`RetryableGivenUp`: with no real call up to the first unusable choice, every real
  call has an unusable choice before it). Steps of one request leave the courses of the
  others alone (`ApartKeeps`), and a step between `Admitted` and `Leave` the slots,
  the limits and the gauge (`WithinKeeps`); what remains is one lemma per step, most
  of them ending in `Ends`, `GivesUp` or `GoesOn`.
- `TypeCorrect`, `OneAnswer`, `GaugeTrue`, `SafelyResent`, `LatestServed`,
  `EmptyRetried`: the parts of `IInv`.
- `LoadLimited`: a request in flight holds a slot, hence `UpstreamWithinLimits`.

**`UpstreamClientProofs`**, first about `UpstreamConfig`, for any sets of updates and
settings and any bounds (`ValuesAssumption`, `NoOneAssumption`, `BoundsAssumption`).

- `Invariant`: `MutexHeld` (the mutex is held exactly between `Lock` and
  `SetStore`), `WrittenSoFar` (what the holder has written at each point, so
  that a rename never installs a partial file) and `StoreBehindFile` (the store
  lags only between rename and assignment) make `RestartFindsSettings`
  inductive.
- `TypeCorrect`, `CrashSafe` (`RestartFindsSettings`), `Durable`
  (`StoreIsOnDisk`) follow.

Then about `UpstreamClient`, for any sets of requests, updates and settings, any
timeouts and any bounds (`OperationsAssumption`, `TimesAssumption`,
`SpecialAssumption`, `LoadsAssumption` and those of `UpstreamConfig`).

- `ImplementsConfig`: `GwSpec => Spec`. Every step of the gateway is a step of the
  settings or leaves their variables alone, so what is proved of `UpstreamConfig`
  holds here as well (`GatewayCrashSafe`).
- `GwInvariant`: `GwIInv`, of which `FreshSettings` and `CacheRecent` are the goals
  and the rest is what makes them inductive. `HistoryCurrent`: the histories are up
  to date, so what a request reads now it has seen. `CallRecent`: the settings a call
  for models was made with were replaced no longer ago than the call has waited,
  because a `Tick` ages both and cannot happen between the readings. `CacheRecent`:
  hence a cached list's settings no longer ago than the timeout and its age.
- `GwTypeCorrect`, `SettingsFresh`, `ModelsStaleBounded` (`StaleModelsBounded`)
  follow.

**`TextProofs` and `RepairProofs`**, for every text that can be written with the items,
of any length, under any key, with any gaps, in any dress, and every place it can be
cut at (`IsWriting`; a raw quote that looks like the end of the string is left out, as
no reader could tell it from one). `TextProofs` has the layout, the trimming,
`Unmarshal` and `attemptStructuralRepair`; `RepairProofs` the scan, the forms and how
the stages go together.

- `Repaired`: `RepairSyntheticArguments` either gives a text that `Carries` the
  writing, or nothing, and that only of a text that owes nothing or whose key is
  "other". It is not an invariant but a theorem about the pure function, for all its
  inputs; `TextDelivered`, `RefusedForCause` and `DeliveredInFull` rest on it.
- What was written is laid out first (`WrittenText`): in which place the object
  begins (`Begins`), where its string begins, and that each item stands where the one
  before it ends (`Holds`), from `FlatSource`, the induction over the body.
- `Cleaning`: trimming and stripping the fences leave a part of what was written,
  and which part: up to the last symbol that is not white, or, of a fenced text, the
  one before the last fence (`Left`, `LastFence`). The operators that only cut
  (`TrimSpace`, `Rest`, `Tail`...) are lemmas about parts of a text (`IsPart`), so
  that no later step speaks of sequences.
- What remains is one of five forms: nothing with a brace (`Braceless`), cut within
  the opening (`Begun`), cut behind an item (`CutAfter`) or within one (`CutWithin`),
  or with all of the body (`Through`). For each form and each stage there is a lemma
  that says what the stage answers: `WholeObject`, `HalfObject` and `BrokenObject` for
  `Unmarshal`; `CutAfterPlain`, `CutWithinPlain` and `ThroughPlain` for
  `attemptStructuralRepair`; `ScanWorded` for the scan. `RepairedAfter`,
  `RepairedWithin` and `RepairedThrough` put the stages in the order of the code.
- Each of the loops keeps its state as far as the items go: `UnquotesRun`
  (what was unquoted is what the items mean), `StructsRun` (what was written is the
  items with raw newlines escaped), `ScansRun` (what was read is what the items mean,
  pairs split in two). A step of the induction is one item: up to six steps of the
  loop (`UnquotesItem`, `StructItem`). What comes after an item that was cut in two is
  bounded by the symbols there were of it (`UnquoteHalved`, `ScansHalved`). The loops
  are recursive functions, of which `UnquotingDefined`, `StructuringDefined` and
  `ScanningDefined` prove the equations.
- `RepairLeft` compares the answers with what is owed (`Owed`): `OwedArrived`,
  `OwedCutOff`, `OwedFenced`.

**`TransportProofs`, of `Exchange`**, for every list of messages of any length and
roles, any tools, names and configuration. The invariant `ExInv` only says that what was sent came from
`InjectContext`; the work is in lemmas about sequences: `InsertIsSeq` and
`InsertKeeps` say where each message is after an insertion, `InsertedSystem` that
inserting a system message leaves the last turn what it was, `AppendedTurn` that
"Please continue." becomes it, and `LatestExists` that a list with a conversational
message has a last one.

- `EndsWithUserTurn` (`UserTurnLast`), `NothingLost` (`ClientKept`), `NameIsNew` (the
  transport tool has the name of none of the client's tools).

The way back is proved for answers of any number of choices and calls. `XInv` adds
to `ExInv` that one request goes out at most, that every choice of the answer is well
formed, and that what is returned without an error is what `NormalizeNonStreaming`
makes of it. The lemmas about `Those`, the loop that sorts the calls by name, are
inductions over the list, done through a least counterexample (`UpToInduction`,
instantiated with a set of numbers, where an induction rule with a predicate as
parameter is not available): `KeptDefined` (the recursive function exists),
`ThoseAppend`, `ThoseTwice` (filtering twice is filtering by what both let pass),
`ThoseAgree` (only the names that occur matter). For the first two theorems nothing is
needed of `RepairSyntheticArguments`: whatever it says, it touches neither calls nor
finish reason. For the last two, `XInv` says in addition that the arguments of every
transport call are the first symbols of a writing (`Argued`) and that no choice has
transport calls if none were asked for.

- `ClientCallsReturnedHolds`: the calls of the client's own tools come back, all and
  in order, and no transport call does. It rests on `NameIsNew`: a client's tool with
  the name of the transport tool would lose its calls. Assumed is that no tool is
  named "odd", the model's mark for an entry that is no call of a function.
- `FinishHonestHolds`: the finish reason agrees with the calls that are left.
- `TextDeliveredHolds`: the text of a choice is that of its transport calls, one piece
  for each in their order (`PiecesOfWhole`, `CallsMade`), and each piece carries the
  writing it came from (`CallRepaired`, an instance of `Repaired`).
- `RefusedForCauseHolds`: `NormalizeChoice` fails only for a `Cause`, and `Repaired`
  says of which writings nothing is to be had. That empty arguments fail too is
  `EmptyUndecoded`.

**`StreamTransformProofs`**, for any choices, tool indexes, side buffer sizes,
entries and lengths of a stream (`IndexAssumption`: -1 is none of the indexes;
`SizeAssumption`; `DeltasAssumption`: an entry has any list of fragments, and any of
the other parts).

- `Invariant`: `IInv` is `TypeOK`, that `[DONE]` is the only chunk of no choice, and
  for each choice `Working` until its finish reason and `Settled` from then on.
  `Working` has four parts. `Content`: what the upstream sent is delivered, or in the
  side buffer, or held by the decoder, behind what was delivered and in order; and a
  buffer that was flushed had been full. `Tools`: every fragment of a real call is
  delivered, in order and under the number of its call; the calls seen have the
  numbers from 0 on, one each, without which two calls could share a number. `Synth`:
  the index of the synthetic call is known from its first fragment on, without which a
  continuation could be taken for a real call. And no finish chunk was written.
  `Settled` is what remains of this for the client: `Delivered`, `Kept`, and `Closed`
  (the finish chunk is the last and says what the others show).
- The step: `Stage` is `Working` in the middle of an entry, for the fragments treated
  so far. Each stage of the loop body keeps it (one lemma for each of
  `EmitRole`, `EmitReasoning`, `EmitTools`, `EmitContent`), and `EmitFinish` settles
  the choice. The loop over the fragments of an entry is an induction by a least
  counterexample over the recursive function `WorkedTools` (`LoopDefined`). The other
  choices are undisturbed, as chunks are only appended and each names its choice.
  That a flushed buffer was full is a statement about cardinalities: the pieces in
  the buffer have different places.
- `BufferedNoConcatenationHolds`, `ContentInOrderHolds`, `RealToolsPreservedHolds`,
  `FinishTruthfulHolds`. `NoConcatenation` itself is false (`stream_concat`).

**`TransportProofs`, of `StreamDecoder`**, for strings of any length and chunks cut anywhere. Assumed is
that the string is made of any of the items but a raw quote, and that there is no white
space before the closing brace: with it the decoder delivers too much, as the run
`decoder_spaced` shows, and a raw quote may be taken for the closing one.

- `Invariant`: `Between` says what the decoder may be at between two chunks, by the
  number of symbols it was fed: before the string, with the key read so far
  (`AtOpening`); between two items with the meaning of all of them delivered
  (`AtItem`); between the halves of a surrogate pair (`AtHalf`); with the beginning of
  an escape or a multi-byte character held back (`HeldItem`), or a quote that is the
  last symbol of the chunk (`HeldQuote`); or behind the string (`AtEnd`). So its state
  is a function of the place in the text and not of how the text was cut.
- The step: the text of a document is laid out once and for all (`DocumentLayout`:
  which symbol stands where, from `FlatStep`, the induction over the body that says
  where each item begins). A chunk with what was held back is a window of the text
  (`Window`). `OpeningStep`, `ItemStep` and `QuoteStep` say what one round does at each
  kind of place, `RoundStep` puts them together, and `ChunkDecoded` is the induction
  over the rounds, of which `WorkedDefined` says that the recursive function exists.
  As `FlattenSeq` is recursive too, `FlattenDefined` proves its equation.
- `DeliveredPromptlyHolds`: the items complete in what was fed are counted (`Counted`)
  with the ends of the items, which grow strictly; in every case of `Between` they are
  the items delivered.
- `DeliveredInFullHolds`: the invariant is joined by `Noted`: the decoder's note that
  something was sent, by which `Finish` decides between releasing what it holds back
  and repairing the whole text, is true (`FeedNotes`, `NoteWorked`: no round within a
  chunk touches it). `FinishStep` then has two cases. If something was sent, what is
  held back is less than the item that was cut in two, or the quote of an empty string
  (`HeldIs`). If nothing was, no item was read to its end, the part that was read is a
  writing (`DocumentIsWriting`), and `Repaired` says that the repair finds no more than
  came of the first item.

**`KeyManagerProofs`**. `TypeCorrect` holds for any processes, configurations and
calls. The other theorems are about one process (`Alone`) whose static keys do not
change between starts (`Settled`), with any number of calls at a time, statements
that fail anywhere, and crashes and restarts at every point. The assumptions are
needed, see the last of the notes above.

- `Invariant`: `IInv` is `TypeOK`, `RefusesRetired`, `HonoursIssued` and what they
  rest on. `MutexHeld`: only one call is between `Lock` and its return, and none while
  the import runs. `ImportSoFar`: the keys the import has visited are marked, the one
  under way is not, and no id conflicts, so that neither `INSERT` is turned back.
  `RowsKept`: what is marked has a row or was retired, and what was retired has no
  active row and, if it is static, is marked: this is what keeps the import from
  bringing it back. `CreatesFresh`: a key being created is known to nobody yet.
  `CallsWritten`: what a call has written is still there, and what it has loaded is
  the table, when it swaps the snapshot. `AnswersKept`: what was answered is in the
  table, and `SnapshotSince` in the snapshot.
- `RetiredStaysRefused`, `IssuedStaysHonoured`, `SnapshotIsCurrent`, and of the
  steps, `RetiredIsFinal` (`NoResurrection`) and `ImportNotTurnedBack`
  (`ImportCompletes`).

The type invariants of `Limiter`, `KeyManager`, `UpstreamConfig` and `UpstreamClient`
are proved and therefore not listed in the runs.

Every invariant and every action property of the passing runs is proved. Only
model-checked is liveness (`AcquireReturns`, `CallsReturn`, `HandlerReturns`,
`UpdateReturns`, `ShutdownEnds`): the proof system has no support for fairness and
`ENABLED`.

## What is not modelled <a id="left-out"></a>

- Key expiry, allowed models, encryption and listing of keys; names and prefixes.
- The command line's writes of the settings file: `UpstreamConfig` has one process
  that writes. Two of them share the `.tmp` without a lock, so a file may be
  renamed that the other is still writing.
- Raw and fenced text in a stream and the limit of 500 bytes on a key
  (`StreamDecoder` has the branches, but is fed objects only); arrays and numbers as
  arguments; the limit on the length of arguments.
- Ids, model names, usage chunks, blank and comment lines of a stream; an over-long
  line is one of the ways to a `ReadError`.
- The texts of the messages the gateway adds, and the patterns of model names, which
  are represented by what they say of a model.
- Configuration parsing and the `.env` file: sequential, without state afterwards
  other than the upstream settings. `LimitedReader`: forty sequential lines with one
  boundary, for which a unit test is the better tool; a request over the limit is one
  of the failures of a call.
- Logging, the admin page, the live test client: output.
- A stream that ends without a finish reason loses what is buffered: the
  properties speak of finished choices.
- A second transport call in one choice of a stream, which would share the decoder of
  the first (`stream.go:223-225`): `Protocol` sends one at most. `Normalizer` has
  several.
- The injection of a format retry (`orchestrator.go:222-257`): its messages, and the name of its
  transport tool, which is drawn without a look at the client's tools
  (`orchestrator.go:229`), so that only its 96 random bits keep it apart from them.

## Plan <a id="plan"></a>

Done, in this order: the limiter with its abstraction and proofs, the handler on
top of it, the key manager, the stream transformer and decoder, the settings; then
the upstream client with its proofs, the injector, the normaliser and the repair,
their composition, and the proofs about it, about the key manager and about the handler.

Also done: the proofs about the streaming translation for streams of any length, about
the way back of a whole answer, and that the decoder delivers promptly, whatever the
cuts; and about the repair of arguments, for every text and every cut, with what
follows of it for the decoder and for whole answers.

Next, most important first:

1. The command line as a second writer of the settings; key expiry.
2. White space before the closing brace in the decoder's proofs, which now leave out
   the documents of which the code delivers too much (`decoder_spaced`).
