# InferCore in TLA+

InferCore is a gateway in front of LLM backends: it accepts `POST /infer`,
applies a tenant policy and an overload gate, routes by rules and cost, calls a
backend with fallback, and keeps a ledger of what happened. These modules model
its concurrent and stateful core, check it with TLC on small instances, and prove
every safety property that the passing runs check, with TLAPS, for every value of the constants. Paths
below are relative to `src/`; every modelled definition is tied to its lines in `PROJECT.json`
(`map`).

## 1. The system

| Component | State | Operations | Talks to |
|---|---|---|---|
| Admission gate (`internal/server/server.go`, `beginInferLoad`) | atomic counter `inferInflight` | load/compare-and-swap in, add(-1) out | every `/infer` handler |
| Policy engine (`internal/policy`) | per-tenant window second and count, one mutex | `Evaluate`, `allowByRateLimit` | pipeline |
| Infer pipeline (`internal/inferexec`, `internal/server/{server,orchestrator,infer_rag}.go`, `internal/execution`) | one goroutine per request: stage, context, step index, last error | `Server.infer`, `Orchestrator.Run`, `StepWriter.Run` | all of the below |
| Request ledger (`internal/requests`) | request rows and step rows; memory, sqlite or postgres | create, update, append step, get | pipeline, replay, trace |
| Reliability manager (`internal/reliability`) | none beyond the loop | primary, then fallback targets of the primary | adapters |
| Router, cost engine (`internal/router`, `internal/cost`) | none | `SelectRoute`, `Estimate` | pipeline, replay |
| Health cache (`server.go`) | snapshot, its time, a single flight | `cachedBackendHealth`, `probeBackendHealth` | pipeline, `/status` |
| SLO store (`internal/slo`) | bounded map of request timings, one mutex | `Record*`, `Snapshot`, `ScalingAggregates` | response, `/metrics` |
| Timeout spike (`server.go`) | window start and count, one mutex | `recordTimeoutSpike`, `timeoutSpikeActive` | failure path, scaling signals |
| Telemetry exporters (`internal/telemetry`) | buffered events and metrics, last flush time | `enqueue`, `flush`, `post` with retries | every request, shutdown |
| Backend adapters (`internal/adapters`) | none | `Invoke`, `Health` | reliability, health cache |
| Retrieval and rerank (`internal/retrieval`) | none | `Retrieve`, `Rerank` | RAG stage |
| Replay, evaluation (`internal/replay`, `internal/eval`) | none (read the ledger) | re-run a row, run a data set, export rows | ledger, router, reliability |
| Configuration (`internal/config`) | none after start | load, default, validate | everything |
| HTTP layer (`server.go`) | request counters | routes, API key, `/status`, `/metrics` | pipeline |
| Command line (`cmd/infercore`) | the life of the process | `serve` (signal, drain, shutdown), `replay`, `trace`, `ledger export-eval`, `eval` | HTTP layer, ledger |

What makes them correct, and what makes that hard:

* *Gate*: never more than the limit inside, and a counter that never drifts. The
  code is lock-free, and every one of nine ways out of `Run` must give the slot back.
* *Policy*: a tenant's rate is charged to nobody else. The clock is read before
  the mutex is taken, so calls take the lock out of time order.
* *Pipeline and ledger*: the row, the step rows, the trace and the HTTP status tell
  one story. They are written by different code, at different times, under a context
  that may have ended, and every ledger error is dropped.
* *Fallback*: an answer comes from a backend believed healthy; timeouts of the
  request are told apart from timeouts of a backend.
* *Adapters*: an answer is one backend's whole text, whatever the wire does, and an
  error is called what it was. Five families report a deadline in three ways.
* *Health cache*: one round of checks at a time, nobody forgotten, bounded age.
* *SLO store*: bounded although requests in progress may lose their record, and a
  record made anew by a later call is not mistaken for a whole one.
* *Telemetry*: each record in one batch, sent at most attempts-many times; counters
  that mean what they say. Emission and flush take the lock separately.
* *Configuration and router*: never an unhealthy backend, the cheapest allowed one, and
  no reference in an accepted file that leads nowhere. Validation and lookup compare
  names differently.
* *Replay and export*: a row may be read while its request runs, after it failed, or
  with some of its writes lost.
* *Process*: a signal loses nothing, a death leaves rows that nobody takes for work in
  progress, and two counters incremented at two ends of a request stay consistent.

`PROJECT.json` (`hazards`) lists the places where these can go wrong.

## 2. Modules

| Module | Models | Kind |
|---|---|---|
| `AdmissionGate` | what the gate promises: an atomic counting gate | abstract specification |
| `Admission` | `beginInferLoad`, one action per atomic operation | implements `AdmissionGate` |
| `RateLimiter` | `allowByRateLimit`: reading the clock, then the locked part | component |
| `PolicyEngine` | `Evaluate`: the checks of tenant, limits, tools and budget, then `RateLimiter` | implements `RateLimiter` |
| `RequestLedger` | what the ledger promises whoever reads it | abstract specification |
| `LedgerStore` | the writes of the ledger drivers, as operators on rows and steps | part of `InferPipeline` and `RequestLedger` |
| `InferPipeline` | a request from arrival to answer | composes `AdmissionGate` and `LedgerStore`, implements `RequestLedger` |
| `Replay` | exact replay and evaluation export of a row, at any moment of its life | reads `InferPipeline` |
| `Gateway` | the process: API key, counters, signal, drain, shutdown, death, restart | composes `InferPipeline` |
| `BackendCalls` | `Invoke` of the five adapter families at the grain of response events, along a fallback chain | component; grounds the error classes of `InferPipeline` |
| `HealthCache` | snapshot, TTL, single flight, sequential checks | component |
| `ConfigLoad` | `config.Load`: the defaults and `validate`, as functions of the file | pure algorithm |
| `Router` | `SelectRoute`, its cost pass a backend at a time, and `buildFallback`, over a loaded file | composes `ConfigLoad` |
| `TelemetryExporter` | the batching OTLP/HTTP JSON exporter | component |
| `SLOStore` | records, eviction, and a request's calls in order | component |
| `TimeoutSpike` | the one-minute window, beside a rolling count | component |
| `Admission_proofs`, `PolicyEngine_proofs` (and of `RateLimiter`), `HealthCache_proofs`, `TelemetryExporter_proofs`, `BackendCalls_proofs`, `Router_proofs` (and of `ConfigLoad`) | theorems about the module of that name, which each extends | proofs |
| `Gateway_proofs` | theorems about a request's life, its readers and the process; extends `Gateway` and `Replay` | proofs |
| `ScalingSignals_proofs` | theorems about what the scaling signals are computed from; extends `SLOStore` and `TimeoutSpike` | proofs |
| `MC*` | constants, symmetry | instances for TLC |

**Admission.** `conf` is the server's configuration, fixed at the start. A request
is at `load`, then at `decide` with the value `cur` its `Load` returned, then
`serving` or `refused`. `CasSucceeds` needs `inflight = cur[r]`, else `CasFails`
goes back to the load. `Release` is the deferred closure. The limit is an int cut
to int32 (`Int32`), and `config.Load` replaces a limit `<= 0` (`QueueLimit`).
The refinement maps a refusal to the `Load` that saw the limit reached and an
admission to the compare-and-swap.

**RateLimiter.** `ReadClock` takes `nowSec`; `Allow` and `Deny` are the section
under the mutex. `opened` and `granted` are history: how often the window was
moved to a second, how many calls each second granted.

**PolicyEngine.** An ask is what the checks look at: the type, the declared fields (in
tenths, because `toInt` cuts a fraction off), the tools, `max_tokens`. `Begin` runs the
checks and the first lines of `allowByRateLimit`; they touch nothing shared, so they are
one step. For the limiter a rejected call is one that never came (`LimiterKept`).
`Read` is `toInt`: below the greatest int (`MaxInt`) it truncates; of a float64 above, Go leaves the
result to the build, so `beyond` is chosen once, the least int (amd64) or the greatest. A fraction
is compared as a float and never overflows.

**InferPipeline.** `Invalid` is the handler's refusals before a request counts: a method other than
POST (405) and six kinds of bad body (400). After that `pc` names the stage. Each action is one stage of `infer`/`Run`
together with the ledger writes it makes, in the order of the code; where a second
write may be separated from the first by another request's steps or by the end of
the context, it is an action of its own. `ctx` may become `expired` (budget of
`request_timeout_ms`) or `canceled` (the client left) between any two actions; it
never makes a step happen by itself, as in Go. `PassGate` is `beginInferLoad` in its
abstract form; with one request it always admits, and the `gateway` run, with two requests
for one slot, takes its other branch. `RunStep` is `StepWriter.Run`: it
counts the step whether or not the write succeeded. SQL writes fail when the
context has ended (and, with `StoreFaults`, at any time), the memory store never
looks at it. `InvokeOk`, `FallBack` and `GiveUp` are one turn of the fallback loop:
the candidates are those of the *primary's* rules whose target is healthy in the
request's snapshot, and whether to go on is asked of the rules of the backend that
just failed. `Report` and `Verdict` decide the status from the context and the
error when the failure is reported. The policy's verdict, the router's
choice among healthy backends, retrieval and the backends' behaviour are choices
over everything they can answer.

**RequestLedger** is the view of a reader: a row is opened, its steps are logged in
order and none after a failed one, routing may name a backend, and it settles once. Every
one of the pipeline's writes, in each of its outcomes, is one of these steps or none
(`LedgerKept`).

**Replay** adds no state. Both readers load one row and change nothing, so what they
would do is a function of the row (`ExactBackend`, `ExpectedBackend`), and the properties
say what it is in every state of the pipeline: running, failed, half written.

**Gateway.** `Serve` is the handler of a request inside the process that serves it. A request that
gets no key is answered before the wrapper that counts (`Refused401`); `Record` is the
return of the handler through the wrappers. `Signal`, `Drained` and `Exit` are
`serveCmd` after a SIGTERM; `Crash` ends the process between any two steps, and what was
in memory is gone, including the ledger when it is not SQL (`LedgerLeft`). `Restart`
opens the same ledger and does nothing else to it.

**BackendCalls.** A chain of candidates is called one after the other. `pc` follows one
call: `dial`, `wait` (for headers), then `json` (one body decoded at once) or `read`
(the scanner loop). `sent` is what the server sent, `text` what the string builder
holds, `end` how the body ended. A deadline that passes before the headers is a
`timeout` (HTTP), `raw_deadline` (mock) or `backend_error` (bedrock). A dial that the transport's own
time limit ends may be a `timeout` too, with the call's context alive (`DialErrors`). While the body
is read a deadline is always `backend_error`, so a rule on `timeout`, the spike signal
and the 504 all miss it. `ErrorsAsAssumed` states what `InferPipeline`'s constants
`DeadlineErrors` and `Replies` take for granted. `ctx` tells the call's own
`timeout_ms` from the request's budget and the client, because only the first is
renewed for the next candidate (`NextCandidate`). As the code has it: a stream that
closes cleanly without `[DONE]` is an answer, a line that does not parse is skipped,
and a stream of data without text (an error event, say) succeeds with a placeholder
text. Whether a failure falls back is a free choice here (`NextCandidate`, `GiveUp`).

**HealthCache.** Times are ages, so the state space is finite without a clock. `stage` is
the flight: `recheck`, `check` (backend `turn`, running for `elapsed`), `store`,
`finish`. The mutex around the snapshot and `singleflight` are modelled by the
atomicity of `PeekHit`, `Store` and of joining or leading a flight.

**ConfigLoad.** A file is a record of what validation or a lookup looks at. A name is a word
and whether spaces surround it, since `validate` trims backend names and
`BackendByName` does not. `Load` fills the defaults in, `Valid` is `validate`, the rest
is what the program built from the file finds and has.

**Router.** Each initial state is a file with a request and a health
snapshot. `SelectByRules` makes the base decision, `Consider` is one round of the loop of
`optimizeByCost` with the backend at `turn`, and `Return` hands the decision to `Run`, which asks
for the fallback of it. The properties say what the answer should be without computing it
that way. A cost is in thousandths, because an estimate is the unit cost times
`1 + max_tokens/1000`; nothing checks the sign of a unit cost or of a tenant's budget, so both
are integers, and a budget that is not positive is none.

**TelemetryExporter.** `Enqueue` appends under the lock and decides whether to flush;
`TakeAll` empties all buffers under the lock again, by whichever emitter gets
there first. A post is answered or fails, and a failed one may have been taken by
the collector. `Shutdown` is the end of the process.

**SLOStore.** `RecordStart`, `RecordFirstToken`, `RecordCompletion`, `RecordFallback`
and `Snapshot` are the calls of a request in the order of the code, each with
`ensureRecord` and the eviction that follows. Ties between equally old records are
broken by Go's map order, a choice. Latencies are reduced to whether they are real.

**TimeoutSpike.** A minute is `Minute` ticks; `recent` counts what a rolling minute
would (`Noted`, as a set of pairs of an age and a number).

## 3. Runs

| Run | Question | Bounds |
|---|---|---|
| `admission` | Does the loop count, bound, implement the gate and end? | 4 requests; limits 0, 1, 2 and one beyond int32, both actions, from a file or not |
| `rate_limiter` | What is a tenant granted, denied for, and let do? | 4 calls, 3 tenants and an unknown one, 5 asks, 3 seconds |
| `pipeline_sql` | Do row, steps, trace and status agree on every path, does the ledger keep its promise, what does a reader make of it? | 1 request of any type, 3 backends, chained rules, SQL store with faults |
| `gateway` | Is every slot given back and every 503 true? Does a signal lose nothing, a death explain itself, do the counters bracket? | 2 requests, 1 slot in reject mode, 1 backend, SQL ledger without faults, 2 starts |
| `backend_calls` | What is an answer made of, what is an error called, does every chain end? | all 25 pairs of families, bodies of up to 2 pieces |
| `health_cache` | How stale is health, is a flight shared, is everybody answered? | 3 callers, 2 backends, TTL 2, checks up to 2 ticks |
| `router` | Does an accepted file work? Is the answer healthy and cheapest? | files of every shape: 3 backends, up to 2 rules, 3 unit costs, names with and without spaces, each part wrong once |
| `telemetry_exporter` | Is no record lost between two flushes or counted wrongly? | 3 emitters, 2 kinds, retries |
| `slo_store` | Is the store bounded and what it reports whole? | 3 requests, 2 records, 4 instants |
| `timeout_spike` | Is the signal sound and how much can it miss? | minute of 3 ticks, threshold 3 |
| `pipeline_budget_504` | README: an expired budget is answered 504 | finding |
| `slo_fallback_flag` | a response says when a fallback answered it | finding |

Why the bounds are enough. A lost update at the gate needs one request between
another's load and swap; a wrong refusal needs the limit plus one; four requests
at limits one and two give both with one to spare. The limiter's anomaly needs two
calls that read different seconds and a third that pays for it. Everything that
`InferPipeline` says of one request depends on other requests only through the gate,
so one request with three backends (primary, target with rules of its own, target
without) covers rows, traces and fallback, and two requests for one slot cover what
meets at the gate; its degrade and disabled modes are the business of `admission`. A
second start is enough to meet what a first one left; with a memory ledger (`LedgerLeft`), which
no run takes, it meets nothing. The ints of `rate_limiter` end at 3, so that a declared 4 is beyond every int, with a build of either
kind. The health
cache needs a leader, one who waits and one who arrives late. The exporter
needs two emitters that decide to flush and one that adds in between. A pair of candidates shows all that
one call can leave to the next, and two pieces a gap and an order. The SLO store
needs one more request than records. The counter bounds (`MaxSecond`, `MaxTime`,
`MaxBurst` and those of the exporter) cap clocks and input only.

**Fairness.** `Admission`, `InferPipeline`, `Gateway` and `HealthCache` assume weak fairness
of each goroutine's own next step (`Handle`, `Serve` and `Record`, the flight and each
caller): Go schedules runnable goroutines, and each blocking call is bounded (adapters'
clients and health checks have timeouts). `Gateway` adds that main goes on when the drain is
over (`Drained`, `Exit`). Nothing makes a context end, a request arrive, a signal come or the
process die. `BackendCalls` assumes that
the gateway's own steps are taken and that a live context ends
(`context.WithTimeout` of `reliability/manager.go:82`), and nothing of the server. No compare-and-swap is
assumed to succeed: `EveryCallSettles` holds because a failed one means that
another call made progress, and there are finitely many calls. `RateLimiter`,
`PolicyEngine`, `SLOStore`, `TelemetryExporter`, `TimeoutSpike` and `Router` state safety only.
`CHECK_DEADLOCK FALSE` is set where a finite set of requests may finish.

## 4. Proofs

`Admission_proofs`, for any finite set of requests, any configuration and any width
of the integer:

* `TypeCorrect`: the counter stays between zero and the number of requests.
* `RejectModeBounded`: in reject mode the holders never exceed the configured limit, and the
  counter equals their number. The bound alone is not inductive, because the swap
  compares with the counter while the bound is on the set; `CountInv` joins types,
  `InflightIsHolders` and `RejectBound`. A limit cut by the conversion only becomes
  smaller (`Int32NotLarger`), so even then the bound holds; of one that becomes negative that says
  little, since nobody is let in.
* `ImplementsGate`: the loop implements `AdmissionGate` whenever the limit fits an
  int32. Needs `MarkInv` as well: only admitted requests carry the degrade mark, and
  only an enabled gate reaches the swap.

* `CounterIsHolders`: in either mode the atomic counter is the number of requests inside.

`PolicyEngine_proofs`, first of `RateLimiter`, for any tenants, limits and number of calls:

* `TypeCorrect`: no count passes its limit.
* `GrantsAreBounded`: what a second granted is at most the limit times the openings
  of the window on it. Inductive with the current count added: what was granted
  since the last opening is exactly the count.
* `DenialsAreEarned`: a denial means that the tenant's own calls had used up the limit.

and then of `PolicyEngine`, for any asks as well:

* `ImplementsLimiter`: the engine implements `RateLimiter`, when a rejected call is seen as
  one that never called. So the theorems above hold of `Evaluate`, and a refused
  request spends no token.
* `AllowedStaysWithinTenant`: a call let through keeps its tenant's caps, tools and budget,
  up to the fraction that `toInt` cuts off, and but for a number above every int: that one
  passes where what the build makes of it does not exceed the cap. Proved for either result of the
  conversion. Inductive with: a call that has read the clock passed every check.

`Gateway_proofs`, first of a request's life, for any finite set of requests, any backends, fallback rules and error
classes, either kind of ledger driver and any loss of writes. `PipelineTypeOK` and the
properties are not inductive: they say what an answered request left behind, and nothing of
how it came there. `IInv` says for each request, at each stage of its handler, what every piece of its state is:

* `CauseInv`, `AnswerInv`: a cause exists only once the request fails, a trace and a reply only
  after `Report`; `SlotInv`: which stages hold a slot. Whether a failing request holds one
  depends on why it fails, and so does its trace, so neither can be stated by the stage alone.
* `KindInv`, `PlanInv`: the steps run are a prefix of the declared plan, of the length that belongs to the
  stage (`StepsAt`). `KindInv` rules out that an agent request reaches the retrieval stages, whose
  lengths would not fit.
* `LogInv`: each step row is the step that ran at its index, indexes increase, and with no lost
  write nothing is missing. `RowInv`, `RouteInv`: the row's status and backends follow stage and
  cause. They are stated for any loss of writes, and sharpened where none was lost (`Recorded`): an
  update that follows a lost one must not be taken for a whole row.
* `DeadlineInv`: what a 504 needs was noted when the error was seen, stages before it is said.

Every step touches the state of its own request only (`OthersUnchanged`), so one lemma per
part and action shows the step of the request that moves, and `LocalInvKept` the others. From it:
`TypesCorrect`, `SlotIsHeldInside`, `RunFollowsPlan`, `RowAgreesWithAnswer`, `EveryAnswerTracedOnce`,
`StepRowsReplayRun`, `TimeoutAnswerIsJustified`; the two readers of `Replay`
(`ReplayCallsRoutedBackend`, `ExportExpectsWhatRan`); and two that are about steps:

* `OverloadIsTold`: a refusal for overload is given only while as many others as the limit run, because the
  gate's holders are requests inside `Run` (`SlotInv`).
* `HandlerKeepsLedger`: the handler implements `RequestLedger`. Each of its writes is a step of the
  abstract ledger when it succeeds and none when it is lost; that no step follows a
  failed one, and that a row settles once, come from `PlanInv` and `RowInv`.

And then of the process, for any number of requests, starts and deaths, with or without an API key.
A handler that died stopped anywhere, so `IInv` does not hold of its request. `ProcessInv` splits: a request whose
handler is gone (`Past`) keeps only what it left behind (`PastInv`: no slot; if it returned, an answer, and a
settled row unless a write was lost), the others satisfy `LocalInv`, and a
process that is neither serving nor draining has no open handler. Requests' steps are those
shown before, cited and not proved again (`RequestStepKeeps`); what remains is
what a drain, a death or a restart forgets (`ForgetKeeps`, `LedgerLeftKeeps`). From it `StopIsGraceful`,
`UnfinishedRowIsExplained`, `SlotsSurviveRestarts`, `OverloadIsRealForGateway`, and:

* `SqlLedgerOutlivesProcess`: with a SQL ledger the gateway implements `RequestLedger` too. The lemmas
  about a handler's writes ask for the invariant of its own request only, so a death of the
  others does not matter.
* `CountersAgree`: the two request counters bracket each other: `requests_total` is at least the answers of
  the statuses that only a counted request gets, and at most all answers with the open requests. The first sum
  leaves out 405, which is never counted at the start, and 400, which may be either (`invalid` was not
  counted, `rag_not_configured` was). `CountersBracket` is not inductive, because of an open request that answered
  one of the two the counters do not tell. `MeterBounds` adds `Pending`, the open requests that have answered
  neither, to what was answered, and so has one step of a request move one unit from term to
  term. It also bounds the answers by the closed requests, which gives `GatewayTypes`. A
  restart sets both counters to 0, and no request is open then (`ProcessInv`).

`ScalingSignals_proofs`, first of `SLOStore`, for any number of requests, capacity and age limit. `KeptRecordTold`,
`SamplesWhole`: a record that was evicted and made anew by a later call has no start, one that was never
evicted is as its request's own calls left it (`RecordInv`). What one call does to all
records is stated once (`PutEffect`: a set is kept, one of them written, the rest absent
and marked). `TouchedStoreIsFresh` is an action property that follows from it, and
`StoreIsBounded` adds that what is kept is never more than `max_records`.

And of `TimeoutSpike`, for any length of a minute, any threshold and any number of timeouts in a tick.
`SignalFollowsMinute`: a signal that is on is never false, because the window's count is the number of timeouts of the
ages `0 .. opened`, all within the minute. That a burst is not hidden needs the past: the ages before the
window (`Before`) can hold the notes of one earlier window only, and if they are as many as the threshold, the
signal was on after the last of them (`SpikeInv`: `quiet` is no larger than the age of any). So
with the signal off for longer than a minute each of the two parts is short of the threshold. `NotedAges` shows that a tick
moves every timeout to the next age and loses only those older than a minute.

`Router_proofs`, for files with any number of backends, rules and fallback rules, any names, costs and
budgets, and every health snapshot.

* `TakesTheCheapest`: `BestOfLooked` is the invariant of the loop: the decision is the base one, or the cheapest
  of the eligible backends before `turn` and the first of its price. Its strict comparison must be
  known to hold against the base's unit cost as well, since that is what the first candidate is compared with. The
  properties compare unit costs, the code whole estimates: `EstimatesFollowUnits`.
* `AcceptedFilesWork`: `ValidNamesAreFound` says what the trimming in `validate` leaves open, a name that is found unless
  the file has a padded one; `BaseIsHealthy`, `NoBaseNoneHealthy` and `FallbackIsMeant` follow each way to
  a decision. The first place at which something is found exists by the well-foundedness of the inclusion of
  finite sets (`HasLeast`).

`TelemetryExporter_proofs`, for any number of emitters, batch size and retries. `RecordInOnePlace` counts
places; the invariant `PlaceInv` says pairwise that no two hold the same record, which
steps preserve one by one. `KindInv` (buffers hold their own kind) is needed because a batch is looked up
by the kind that is posted, `FlushInv` because only a posting emitter has a batch,
`CopyInv` because copies are bounded by the tries of the post under way. `FullBufferIsFlushed`:
the emitter that fills a buffer decides to flush in the same step, because its record was not in
the buffer before and counts (`PlaceInv`).

`BackendCalls_proofs`, for chains and bodies of any length and every order of the server's and the
gateway's steps. `AnswerIsWhole`: `TextInv` says during the read what the property says at the
end, that the text holds in order what was sent and not spoilt. `StreamFlagIsHonoured` and
`ErrorsAreAsAssumed` need `CallInv`: which family can be at which stage, and with which
kind of body. So what `InferPipeline` assumes of its error classes is a theorem about the adapters.

`HealthCache_proofs`, for any callers, any number of backends, any TTL and check timeout:

* `TypeCorrect`: types, and ages under their cap.
* `StalenessIsBounded`: no caller is handed a check older than the TTL plus the time of the
  checks after it. The bound says nothing of the checks under way, so `AgeInv` adds where the oldest
  check stands: `Span(turn - 2) + elapsed` in a flight at backend `turn`, `Span(Backends - 1)` once all are
  done, and as much more than the snapshot's age in a snapshot that may still be taken.
* `SnapshotLives`: a flight that probes found the snapshot old, and nobody else replaces it
  (`FlightInv`), so a snapshot lives its TTL.

The assumptions are the named `ASSUME`s of the modules (finite sets of requests, types of
the constants). They are evaluated by every run.

Attempts that failed for a good reason corrected the models. `ErrorOf` had overlapping `CASE` arms (a
canceled mock call), which leaves the value unspecified; TLC takes the first arm, the
prover does not. The replies of `InferPipeline` were typed by the codes of its own results, which the
401 of `Gateway` is not one of. An exporter with a kind named `"none"` would confuse it with posting
nothing (`ExporterAssumption`). `None` must be no error class and no cause.
A tenant budget that is not positive is no budget, which `Affordable` had left out.
Three statements were once proved of models that were too kind to the code, and hold now with the
exceptions their models had hidden: the conversion beyond int (`AllowedWithinTenant`), the 405 that one counter
alone sees (`CountersBracket`), and the dial timeout of a live call (`ErrorsAsAssumed`).

The prover cannot do induction over data, so no definition that is proved about is recursive or a
fold: what is counted is the cardinality of a set of pairs (`Answers`, `Noted`), and a loop over a
sequence is an action (`Consider`), whose invariant says what the rounds so far have made.

Only model-checked is all liveness (`EveryCallSettles`, `ChainEnds`, `EveryRequestAnswered`,
`EveryCallerAnswered`, `StopsOnSignal`): the prover has no rule for fairness and ENABLED. And the two
properties of the finding runs are false, as those runs show.

## 5. Where code and documents disagree

Shown by a run:

* `pipeline_budget_504`: README.md:309 promises 504 when the budget ends anywhere; a
  budget that ends in retrieval or rerank is a 502, and so is one that ends in an HTTP
  adapter whose timeout error does not wrap the deadline.
* `slo_fallback_flag`: the response's fallback flag is overwritten from an SLO record that
  may have been evicted after `RecordFallback`.

Seen while modelling, without a run of their own:

* README.md:363 promises a telemetry flush at shutdown; the `otlp-http-json` exporter has
  no `Shutdown`, so up to a batch of each kind is lost (`FullBufferHasFlusher` bounds it).
* `server.go:241` says a `queue_limit <= 0` disables the checks; from a file it never
  arrives, since `config.Load` puts 200 (`QueueLimit` of `Admission`; a limit of 0 set in code does disable them, as `GateSpec` requires).
* README.md:314 calls the rate limit a "1s window"; a call that waits for the mutex
  across a second moves the window back, and a tenant may then get its limit twice in one second
  (`GrantsBounded` says what does hold).
* `execution/steps.go:29` says `OnStep` follows each *persisted* step; it runs before
  the write and also when the write fails.
* `eval/ledger_export.go:12` takes `selected_backend` for "successful completion"; it is set
  at routing, so failed rows export an expectation (`ExportTellsRun` says which).
* docs/observability.md:11 calls the spike "rolling"; it is a window that opens with a
  timeout, so a burst across its end is split (`SignalMatchesMinute` bounds the miss).
* docs/observability.md:29 and the help text at `server.go:781` count all HTTP requests in
  `infercore_http_requests_total`; a 401 is answered before the wrapper that counts, while a 405 or
  another bad request is counted there and not in `infercore_requests_total` (`CountersBracket`).
* A declared number above every int, `max_steps: 1e30` say, passes every tenant limit where the
  conversion gives the least int, as on amd64 (an exception in `AllowedWithinTenant`).
* A dial timeout of the transport itself (30 s, or less for one address of several) is called
  `timeout` though no configured limit has passed, so it feeds the spike signal
  (`ErrorsAsAssumed`).
* README.md:302 has validation cover the references; a backend name with spaces around
  it is found by `validate` and by no lookup (`AcceptedConfigWorks` makes it its one
  exception).
  Knowledge bases are compared as written too, and a second one of a name replaces the first.
* README.md:305 lists the fallback triggers without `upstream_4xx` and `upstream_5xx`, which
  the code accepts; no adapter yields `backend_unhealthy`.
* README.md:322 says retrieved chunks are merged into the input "before the chat adapter
  runs"; they are put under keys of the input (`retrieval/merge.go:20`) that no adapter
  reads: each sends `input.text` only.
* An exact replay runs the primary even when a fallback target answered the recorded run
  (`ExactReplayFollowsRoute`), and `replay --mode current` over many rows spends the rate
  tokens of an engine of its own.
* On SIGTERM the ledger is closed before the telemetry exporter; a failing
  `ListenAndServe` ends in `log.Fatalf`, which skips the deferred shutdown; later signals
  are not read during the drain (`StopsOnSignal` holds because every request ends).
* A negative `timeout_ms` of a backend and a write timeout below the request budget pass
  validation. README.md links docs/offline-tooling.md, which does not exist.

## 6. Not modelled, and the plan

Out of scope: log and stub exporters, the SQL schema and encoding, the arithmetic
of latencies and costs beyond comparisons, retrieval scoring, the pipeline
registry (no handler uses it), the Python client and deployment files. `ConfigLoad` leaves
the environment out: a knowledge base that cannot be read or a database that cannot be
reached is left out at start, whatever the file says. Current replay and the
evaluation runner are sequential callers of parts modelled elsewhere.

Order of work, most important first; all of it is done.

1. `AdmissionGate`, `Admission` and proofs: the one lock-free algorithm.
2. `RateLimiter`, `PolicyEngine` and proofs.
3. `LedgerStore`, `InferPipeline`: the request's life.
4. `HealthCache` and proofs; `Router`.
5. `TelemetryExporter`, `SLOStore`, `TimeoutSpike`.
6. `BackendCalls`: the adapters' calls and stream readers.
7. `Replay`: exact replay and export of a row at any moment.
8. `ConfigLoad`: defaults and validation, and what the router may assume after it.
9. `RequestLedger` and `Gateway`: what a reader is promised, and the process around the requests.
10. Proofs of `InferPipeline`, `Replay`, `Gateway`, `SLOStore`, `TelemetryExporter`, `BackendCalls`.
11. Proofs of the properties that count or choose: `CountersBracket`, `SignalMatchesMinute`,
    `OptimizesToCheapest`, `AcceptedConfigWorks`.

What would be worth adding: the arithmetic of the scaling ratios over the records of `SLOStore`, and
the current mode of replay as a composition of `PolicyEngine`, `Router` and `InferPipeline`.
