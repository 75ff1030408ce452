# Nephtys in TLA+

Nephtys is a Go service that ingests event streams (webhook, gRPC, WebSocket, SSE,
REST polling), runs each through a small pipeline of middlewares and publishes the
result to NATS JetStream. Streams are created, re-configured and removed at run time
through an HTTP API; their configurations live in a JetStream KV bucket and are
restored when the process starts.

These modules model the part of the service where mistakes are expensive and tests
are weak: goroutines that overlap, streams that are swapped or removed while events
are in flight, a store that refuses or delays writes, a process that dies between two
steps. Paths in this document are relative to `src/`.

- [1. Inventory](#1-inventory)
- [2. Modules and how they correspond to the code](#2-modules-and-how-they-correspond-to-the-code)
- [3. Runs](#3-runs)
- [4. Fairness](#4-fairness)
- [5. Proofs](#5-proofs)
- [6. Where the code and its documents disagree](#6-where-the-code-and-its-documents-disagree)
- [7. What is not modelled](#7-what-is-not-modelled)
- [8. Plan](#8-plan)

To check a model: `tlc -config <Run>.cfg <Module>`; to check the proofs:
`tlapm <Name>_proofs.tla`. `PROJECT.json` lists
the runs, the lines each definition translates, the hazards and which property guards
against which.

## 1. Inventory

| Component | State | Operations | Hard because |
| --- | --- | --- | --- |
| Stream manager, `internal/server/manager.go` | maps of configs, runtimes, generations, cancel functions, done channels and port claims, all under `m.mu` | `Register`, `UpdatePipeline`, `Remove`, `Restore`, `StopAll` | waits for other goroutines while it holds `m.mu`; persists in the middle of an operation; `UpdatePipeline` works between two lock periods |
| Supervisor, `manager.go` `supervise`, `restart.go` | attempt, restarts, status, last error, readiness time | Open, Run, Close, back off, give up | a cancellation may come between any two steps; two places spend the same budget |
| Generation, `internal/pipeline/generation.go` | context, `inFlight` RWMutex, `sealed` channel, worker group | `Publish`, `Retire` | a publisher may load a generation, be swapped out, and enter it when it is already retired |
| Batch stage, `internal/pipeline/batch.go` | `eventCh`, the worker's slice, the ticker | accept, flush, drain | publishers park on a full channel while they hold the read lock that retirement waits for |
| Dedup stage, `internal/pipeline/dedup.go` | LRU list and index, timestamps | check, mark, evict, expire | marks before it publishes; holds its mutex across `next`; lazily expired entries occupy room |
| Other stages: filter, transform, enrich, threshold | threshold keeps a last value per group | one event in, none or one out | threshold unlocks before it publishes; enrich can panic with every lock held |
| Configuration, `internal/server/validate.go`, `internal/pipeline/validate.go`, `redact.go`, `internal/domain/event.go` | the document in the manager's map, whose blocks the sources share | decode, validate, build, store, describe, restore | constructors write into the document; a description is made from aliased pointers; the bucket outlives the validator that filled it |
| Push connectors, `internal/connector/webhook.go`, `grpc.go` | listener, server, handler goroutines | Open, Run, Close | stop races `Serve`, handlers, clients and the grace period |
| Pull connectors, `websocket.go`, `sse.go`, `rest_poller.go` | connection, watcher goroutine, ticker | Run | a blocked read does not see the context |
| Config store, `internal/store/kv.go` | the KV bucket | Put, Delete, List | a call that timed out may have taken effect; List leaves out keys it cannot read |
| Management API, `internal/server/handlers.go` | none | POST, PUT pipeline, DELETE, reads | concurrent with everything, the shutdown included |
| Telemetry, `internal/telemetry/metrics.go` | Prometheus series per stream | set, delete | building a pipeline already sets series, outside `m.mu` |
| Process, `cmd/nephtys/main.go` | none | restore, serve, signal, `StopAll`, `Shutdown`, exit | order of the last three; death at any point |
| Broker, `internal/broker/nats.go` | the NATS connection | Connect, EnsureStream, Publish | reconnection is the client library's |

How they interact. A connector calls the publish function it was given; that function
loads the stream's current generation through an atomic pointer and calls its
`Publish`, which runs the middlewares and ends at the broker. The batch stage breaks
that chain: it answers at once and a worker goroutine publishes later. The supervisor
owns the connector; `Remove` and `StopAll` cancel the supervisor's context and wait on
its done channel while holding `m.mu`. `UpdatePipeline` replaces the generation without
the supervisor noticing and retires the old one after it has let go of `m.mu`.

What makes each part correct:

- generations and batching: an event whose publisher was told `nil` is published, or
  its batch's publish failed, whatever is swapped or removed meanwhile; never twice;
  retirement always ends and leaves no goroutine;
- supervisor: exactly the configured number of restarts, a stop is never reported as a
  failure, the source is held exactly while a session may use it;
- manager and store: one owner per port, claims and listeners agree with the maps, what
  is stored is what runs, also after a crash;
- connectors: a cancelled session ends, its port is free again, no client is told of a
  success that did not happen;
- dedup and threshold: dedup drops only duplicates inside the window and forgets only
  for lack of room; what leaves the threshold is a threshold's output; every call
  returns;
- configuration: what runs is what was written, with the documented defaults, through
  any number of updates, descriptions and restarts;
- telemetry: no series describes a stream that does not exist, and the state gauge says
  its status.

## 2. Modules and how they correspond to the code

Three modules are abstract specifications, without machinery; the detailed modules are
shown to implement them.

| Abstract | Says | Implemented by |
| --- | --- | --- |
| `Handover` | an accepted event is held by one generation until it is settled, once; a retired generation holds nothing | `Generation` |
| `Lifecycle` | the states of a stream in `docs/LIFECYCLE.md` section 2 and the edges between them | `Supervisor` |
| `Registry` | the bucket as a durable table that changes only as a client's pending call asks: create never replaces, update changes only the pipeline of an entry that is still there, an answered call changes nothing any more | `StreamManager` |

**`Generation`** composes `generation.go`, `batch.go` and the paths of `manager.go` that
swap, abandon and retire a generation. Each event is a `Publish` call with its own
control state (`ppc`): load the pointer, `RLock`, look at `gen.Err()`, the two cases of
the select, `next`, `RUnlock`. Each generation has a worker (`wpc`) with the cases of
its select and `drainAndFlush`. Each caller is a PUT or DELETE request, and `Retire` is
six steps, the two phases of `Lock` included: a Go `RWMutex` admits no reader once a
writer waits. `accepted`, `published` and `discarded` are history variables.

**`RestartPolicy`** is the restart block: what `validateRestart` accepts and what
`restartPolicyFor`, `next` and `delay` make of it. It has no state; `Supervisor` and
`Config` use it.

**`Supervisor`** is `supervise` with `recordFailure`, `markFailed` and `sleepCtx`, under
the policy of any restart block the validator accepts. `FailOrRetry` is the code shared by its two places that spend an attempt.
Looking at the context and spending are two steps (`GoSpend`, `Spend`), so a
cancellation may come in between. The source is anything `source.go` allows.

**`StreamManager`** is the manager with its API, store and process. A request is one
operation split where it releases `m.mu` and around each store call; a supervisor is
reduced to in session / backing off / errored / stopped, a generation to the pipeline it
runs. `store` is the bucket, `late` a write whose caller got an error but which may
still land, `bound` the listeners. `Die` may happen in every state, `Boot` restores.

**`Chain`** is the middlewares of one generation as concurrent publishers run through
them, any subset of them configured, in the order of `builder.go`; `pc` is the stage a
call stands before. It uses **`Dedup`**, the LRU with its clock, and adds the mutex that
dedup holds across `next`, enrich's panic, the threshold's early unlock, the batch
channel, the broker's refusal and a retirement reduced to cancel and seal. In a webhook's
handler `net/http` recovers the panic (`EnrichPanics`); under any other source it ends the
process (`EnrichKills`, `gen = "dead"`). Which source calls is left open at each panic.
What filter lets by and transform makes of it are constants.
`Generation` has the handshake of that retirement and abstracts the stages.

**`Config`** is the life of a configuration, with whole requests as steps: decoded and
validated, built into a source and stages, checked against the port claims, stored,
described, given another pipeline, restored by the next process or registered as failed.
A document keeps each optional field as omitted, malformed or a value. The constructor's
writes into the document, the copy `redactConfig` makes and what `omitempty` does in the
bucket are definitions of their own (`sourceFromConfig`, `redactConfig`, `Stored`).
`StreamManager` has the interleavings of the same requests, and abstracts the document.

**`PushSource`** is webhook and gRPC through several sessions, `net/http` and `grpc-go`
modelled from how they are used. **`PullSource`** is the other three connectors, with one
watcher per `Run`, which a return releases by closing `sessionOver` (`Leave`); its SSE sessions read lines with the operators of **`SseReader`**, the
scanner of `sse.go`, which is compared with a definition of frames over the whole input.
**`StreamSeries`** is the set of series of one stream as building, discarding, swapping,
supervising, removing and publishing set and delete them; the state gauge is four series
that are written one after the other. A publishing handler goes through
`instrumentedPublish` in four steps (`Call`, `Load`, `Enter`, `Process`): it may outlive
its session, and what its closure refers to stays reachable after the removal.
`RemoveFinish` waits for what `Remove` waits for, the supervisor and the write lock of the
current generation, and for nothing else.

The `MC` modules add model values, documents, restart blocks, batch sizes and symmetry
sets; `PushSource` and `PullSource` are checked directly. Definitions marked *Mutant* are faulty variants
of the definition that follows them; no specification uses them. Each shows what mistake
the named property would notice.

## 3. Runs

| Run | Instance | Shows |
| --- | --- | --- |
| `Generation` | 2 events, 2 generations with batches of 1 and 2, 2 requests | types, `RetireIsLossless`, `PublishedAtMostOnce`, `AcknowledgedIsHeld`; `RetireReturns`, `AcceptedIsFlushed`, `NoWorkerLeaks`; implements `Handover` |
| `Supervisor` | no restart block and the valid ones of 768, on every kind | `BudgetKept`, `OpenMatchesSession`, `LadderGrows`, `CancelIsNotFailure`; `FlappingGivesUp`, `CancelledReturns`; implements `Lifecycle` |
| `StreamManager` | 2 streams, 1 port, 2 pipelines, 2 requests, 2 process starts, late writes, unreadable keys | `ClaimsConsistent`, `BoundByHolder`, `LeastIdWins`, `StoredIsRegistered`; the bucket implements `Registry` |
| `StreamManager_live` | 2 streams, 1 port, 2 requests, 1 start, no store faults | `RequestsAnswered`, `StopAllReturns` |
| `Chain` | 2 publishers, every subset of 4 stages, 3 bodies (two numbers and null), cache of 2, TTL 1, clock to 2, channel of 1 | `HoldsMostRecent`, `DedupIsExact`, `ThresholdIsExact`; `CallsReturn` |
| `Config` | 2 ids, 12 documents, 9 pipelines, 3 documents of an older version | `HonouredAsWritten`, `RunsWhatIsValid`, `ConflictIsNamed`, `DescribedAsRun` |
| `PushSource` | 2 clients (one may hang in publish), 2 messages, 2 sessions, both kinds | `ReleasedIsFree`, `SessionIsOver`, `SuccessIsTrue`, `CancelledReturns` |
| `PullSource` | 3 Runs, three kinds, SSE sessions of up to 5 lines | `SessionContract`, `OneEventPerFrame`, `CancelledReturns`, `WatchersLeave` |
| `StreamSeries` | 4 requests, 2 handlers, capacities 1 and 2 | `StateIffRegistered`, `NoDedupAfterRemove` |
| `PushSource_grpc_stop` | 2 clients that publish normally | violates `RunReturnsOnCancel` (section 6) |
| `StreamManager_shutdown` | as `StreamManager`, no store faults | violates `ShutdownRetiresAll` (section 6) |
| `Chain_retry` | as `Chain` | violates `RetryGetsThrough` (section 6) |

Why these bounds are enough to be interesting.

- *Generation.* The races are between one publisher and one retirement, with a second
  event to fill the batch or to park on the full channel, and a second request to swap,
  abandon or remove at the same time. `Sizes` in `MCGeneration` gives the first
  generation batches of one, where the second publisher parks while it holds the read
  lock, and its replacement batches of two, which only the ticker or the final drain
  flushes half full. One event belongs to a webhook handler that outlives its grace period
  (`Late`), so it publishes into a generation that is already retired.
- *Supervisor.* Each field of a block is omitted, written well or written badly, the ends
  of the ladder cross with and without the defaults, and three attempts reach its cap.
  `CounterCap` only stops the count of restarts, which resets of the budget would
  otherwise drive to infinity.
- *StreamManager.* Two streams on one port is the smallest conflict; the first state of
  the bucket is arbitrary, two streams on one port included; two requests are what
  `m.mu` arbitrates; two starts give one restart after a crash anywhere.
- *Chain.* One body more than fits the cache, so that entries are evicted, and a clock
  that runs past a window, so that they expire; two publishers to disagree about the
  order; a channel of one, so that the second parks. Two numbers a delta apart and a
  body without one are what the threshold tells apart; groups do not meet. The time of
  an arrival is noted for one body (`Probes`), since dedup treats them alike; the theorem
  has any set of them. The clock ticks only where dedup may look at it.
- *Config.* Ports clash by spelling, by default and across kinds; a field of each sort is
  omitted, written and wrong; two ids are the smallest conflict.
- *PushSource, PullSource.* Two sessions show what one session leaves for the next; five
  lines hold two frames with data, or an unfinished one.
- *StreamSeries.* An update that races a remove, with a create before and after it,
  takes four requests; two handlers are one in the generation that was swapped out and one
  in the current one. They are all the requests there are, so the run may stop.

The proofs of section 5 remove these bounds for the safety properties.

`TypeOK` of a module other than `Generation` is a conjunct of one of its invariants
(`ClaimsConsistent`, `ReleasedIsFree`, `SessionContract`, `HoldsMostRecent`,
`StateIffRegistered`) or is proved (`Supervisor`).

## 4. Fairness

Fairness is weak and says: a goroutine that can run does run. In particular a call of
`Publish` that has begun is carried on, a request past its first step continues, the
clock advances, a worker's ready select case is not ignored for ever. For the poller's
select, where the ticker may be ready each time the context is (`StopPolling`), it is
strong: Go chooses among ready cases at random. `Chain` is strong for a call's own step
for the same reason, and because a Go mutex is handed to a waiter that has starved for a
millisecond, so a publisher that waits for the dedup mutex gets it; between cancel and
seal its batch worker is asked for nothing. Nothing is asked of a process that a panic
has ended. A watcher of `PullSource` that was released leaves; that every way out of `Run`
releases it is what `WatchersLeave` checks.

Nobody is obliged to send an event, a request or a signal, and nothing makes a healthy
session end. `Supervisor` and `StreamManager` assume of the source what `source.go`
demands: a cancelled `Run` returns. `PullSource` and the webhook half of `PushSource`
show that the connectors honour it; gRPC does so only if its clients end their streams,
which is why `CancelledReturns` of `PushSource` has that premise and
`RunReturnsOnCancel` without it is violated. Publishing returns in the end, but for the
clients in `Wedged`. In the liveness runs of the manager the store answers each call;
its errors are answers.

## 5. Proofs

Every safety property of the passing runs, invariant, action property or refinement, is
a theorem for every value of the constants; so the bounds of section 3 matter only to
liveness and as a check of the formulas before they were proved. The module
`<Name>_proofs` has the theorems about module `<Name>`; `PullSource_proofs` also has those
about `SseReader`, `Chain_proofs` those about `Dedup`, `Supervisor_proofs` those about
`RestartPolicy`. Each defines an inductive invariant `IndInv`, shows by one lemma per
actor or operation that every step keeps it (`InitInd`, `NextInd`), concludes that
`Spec => []IndInv`, and derives the stated properties from it.

What is assumed of the constants:

- `GenerationAssumption`: `Binary` and `Late` are sets of events, `Batching` a set of
  generations, `FirstGen` one of them, and each batch size is positive, which
  `resolveCount` in `NewBatch` ensures.
- `RestartPolicyAssumption`: the defaults are themselves a ladder (positive start, cap not
  below it, factor and reset window positive), and `Omitted` and `Malformed` are no
  numbers. `SupervisorAssumption`: the documents are restart blocks of the right shape,
  valid or not. Nothing is assumed of the policy a stream runs with:
  `ValidatedIsWellFormed` proves it from `validateRestart`.
- `StreamManagerAssumption`: ids are finitely many and ordered, the marks (`None`, `Main`,
  `Free`, `NoPort`) are nobody's name, and the process starts at least once.
- `ConfigAssumption`: a document, one an older version left included, is what the decoder
  can give (`DocumentOK`: the fields of `StreamSourceConfig`, each duration and port
  omitted, malformed or a value), nothing about its validity; `Itoa` spells a port so that
  `Atoi` reads it back; the constants of the code are themselves valid (default ports
  in range, default poll interval not below the minimum, default counts within the limit).
- `DedupAssumption`, `ChainAssumption`: cache size and TTL are positive, which
  `resolveCount` and `resolveDuration` ensure, `Probes` is any set of hashes, the delta is not negative, NaN and a missing
  value are no numbers.
- `PushSourceAssumption`, `PullSourceAssumption`, `StreamSeriesAssumption`,
  `SseReaderAssumption`: the bounds are positive, the marks are not among the values.

### Generations: `Generation_proofs`

| Theorem | Statement |
| --- | --- |
| `TypeCorrect` | types; `eventCh` within its capacity, the batch below its threshold |
| `RetireLossless` | when `Retire` has returned, all its generation accepted was published or was in a refused batch |
| `AtMostOnce` | no event is published twice, nor published and reported failed |
| `NoSilentLoss` | what was answered `nil` is published, refused with its batch, or held where a worker will flush it |
| `SealedQuiet` | nothing enters a sealed generation's buffer |
| `OneRetirer` | no generation is retired twice; only `Remove` retires the current one |
| `Refinement` | `Spec` implements `Handover` |

`IndInv == TypeOK /\ HandshakeInv /\ CallInv /\ HeldInv`. None of the stated invariants is
inductive alone: whether draining is safe depends on where publishers stand, and where
they can stand depends on the lock.

- `HandshakeInv`: sealed implies cancelled, and **no call stands at the send of a
  sealed generation**: the retirer seals only when the read lock is free, and a call
  that enters later sees the cancelled context and goes past the buffer. A worker
  drains or has exited only when its generation is sealed, an exited worker has left
  nothing behind, and a request past its seal has its generation sealed.
- `CallInv`: a call that has not been answered has left no trace in a buffer or with the
  broker, which is why neither path can publish an event a second time.
- `HeldInv`: each accepted event is in exactly one place: buffer, batch, or settled.
- `OwnerInv` (for `OneRetirer` only): each generation that was built is the current one
  or belongs to exactly one request.

Lemmas give one step per actor (`PublishInd`, `WorkerInd`, `CallerInd`) and treat the
flush once (`FlushInd`, `TakeInd`). The refinement maps the buffer and batch to `held`,
publications and reported errors to `settled`, returned retirements to `closed`.

### Supervisor: `Supervisor_proofs`

| Theorem | Statement |
| --- | --- |
| `ValidatedIsWellFormed` | every block the validator accepts resolves to a policy with a budget and a ladder whose cap is not below its start, one end of it left to its default included, so `restartPolicyFor` needs no clamp |
| `BudgetHolds`, `OpenClosePaired`, `FailureExplained`, `CancelNeverSpends` | `BudgetKept`, `OpenMatchesSession`, `TerminalIsExplained`, `CancelIsNotFailure` |
| `LadderHolds` | `LadderGrows`: the delays never fall and never pass the cap, at any number of attempts |
| `Refinement` | `Spec` implements `Lifecycle` |

`IndInv == TypeOK /\ BudgetKept /\ OpenMatchesSession /\ TerminalIsExplained`.
`LadderHolds` needs that a power with a factor of at least one does not fall. `Pow` is a
recursive function; the induction over attempts is done through the least
counterexample (`Least`, from the well-foundedness of `<`): `PowUnfolds` shows that the
recursive definition defines a function, `PowGrows` that it grows, `DelayBounds` what it
means for a delay, and `TimerOK`, that the timer of a sleep is within its delay, is the
part that depends on the state.

### Manager and bucket: `StreamManager_proofs`

| Theorem | Property |
| --- | --- |
| `ClaimsHold` | `ClaimsConsistent` |
| `ListenersHold` | `BoundByHolder` |
| `WinnerHolds` | `LeastIdWins` |
| `StoreHolds` | `StoredIsRegistered` |
| `RegistryRefinement` | `ImplementsRegistry` |

`IndInv == Shape /\ Ownership /\ RunningOK /\ SortedOK /\ LeastIdWins /\ AgreeOK`.

- `Shape` ties a request's argument to where it stands and `m.mu` to the phase
  (`PhaseOK`: main holds it exactly in `Restore` and `StopAll`), and says that a write
  that may still land is in doubt.
- `Ownership`: what is registered, claimed and bound, with the admission in between.
  `ClaimsConsistent` and `BoundByHolder` depend on each other: a supervisor may rebind
  because its claim kept others away, and the admission's listener becomes a session's
  because nobody could claim its port while `m.mu` was held (`AdmissionOK`).
- `SortedOK`: what `Restore` has admitted has smaller ids than what is to come, hence
  `LeastIdWins`.
- `AgreeOK`: the bucket agrees with the map, **up to what the holder of `m.mu` has already
  written and not yet installed**, for each id that is not in doubt. `StoredIsRegistered`
  is the case in which nobody holds it.

For the refinement the entries of `Registry` are those of the bucket, and its pending calls
are the requests that have arrived and not yet written (`CallOf`). A write of an entry that
is not in doubt is the create, update or delete its own request asked for
(`WriteIsRegistryStep`), because the map the request looked at under this lock agrees with
the bucket; the write is also what answers the call (`AnsweredStep`), it touches no other
entry (`OneEntryWritten`), and steps that do not write only ask or answer (`TalkStep`). So
an update whose stream was removed while it was building cannot write: its `Put` would be
a step that no call allows.
Entries in doubt, and requests served after `StopAll`, are outside the statement
(section 6).

### Series: `StreamSeries_proofs`

`StateSeriesHold` (`StateIffRegistered`) and `NoLeftoverDedup` (`NoDedupAfterRemove`). The
invariant adds how far a write of the gauge has come (`WrittenOK`: the series before
`writing` say the status), that after the last session a handler is left only if it has
outlived it (`QuietOK`), and that without a stream only a build which is still to be
installed or discarded can have left dedup gauges, a handler that has outlived its session
excepted for the size (`LeftoverOK`). For the capacity there is no exception. What such a
handler does is in section 6.

### Push connectors: `PushSource_proofs`

`PortReleased` (`ReleasedIsFree`), `NothingSurvives` (`SessionIsOver`) and `SuccessHolds`
(`SuccessIsTrue`). The invariant adds what a handler has received, handed over and counted
at each point (`MessagesOK`), when a server accepts (`LoopOK`), and that an open connection
is one of a handler of the session that is up (`ConnOK`).

### Pull connectors and SSE: `PullSource_proofs`

`ContractHolds` (`SessionContract`): inductive once it is known where each connector can
be and that the poller keeps no connection (`StageOK`, `PollerOK`).

`FramesHold` (`OneEventPerFrame`): the scanner against a definition of frames over the whole
input. The reference is not recursive: a frame is the lines between two blank ones, it
carries data if one of its `data:` lines has a text, its name is the one it gives itself,
and the published events are listed by an increasing enumeration of the blank lines that
end such frames. Only where a frame without data has left a name over (`NameLeftOver`) is
nothing said of the name; the proof still follows it there (`EventsAt`, what the scanner
makes of the lines) and derives the frame's own name elsewhere (`ScannedIsEvent`). The invariant
`ScanOK` says what the two buffers hold in terms of the same definition: the texts and the
name of the frame still to be ended (`Collecting`), or, while its event is being
published, that of the frame just ended. The lemmas say what reading one line does to
each of these sets (`BlanksAfter`, `EarlierFrame`, `CarryingAfter`...), so that the induction
over the input is the induction over the steps of the reader.

### Chain: `Chain_proofs`

`CacheIsMostRecent` (`HoldsMostRecent`), `DedupExact` (`DedupIsExact`) and `ThresholdExact`
(`ThresholdIsExact`). `ListOK` says that the LRU list is the first `CacheSize` hashes of the
unbounded history of arrivals, without repetitions; the lemmas about taking an element out,
putting it in front and cutting off the last show, element by element, that each operation
keeps it so. `StampOK` ties the time stamps to what was let through and to what was last
seen. For the threshold,
which unlocks before it calls `next`, the invariant is that a call that dedup lets through
is alone behind it (`MutexOK`), and that the stage's last value is the number that left last
or that of this one call (`EmitOK`).

### Configuration: `Config_proofs`

`Honoured` (`HonouredAsWritten`), `ValidRuns` (`RunsWhatIsValid`), `ConflictNamed`
(`ConflictIsNamed`) and `Described` (`DescribedAsRun`), for any documents. The heart of it is
that the bucket has either what was written or that with the constructor's defaults filled
in (`StoreOK`), and the lemmas about the operators: filling in defaults is idempotent, keeps
a valid document valid, keeps its port and its meaning, and survives marshalling; a
canonical port is spelled one way. `ConflictIsNamed` then follows from `PortsOK`: each
listener's canonical port is claimed by its own stream.

### What is only model-checked

Only model-checked is liveness, since fairness and `ENABLED` are outside the
prover: `RetireReturns`, `AcceptedIsFlushed`, `NoWorkerLeaks`, `FlappingGivesUp`,
`CancelledReturns` (three modules), `RequestsAnswered`, `StopAllReturns`, `WatchersLeave`
and `CallsReturn`. Conversely `SealedOnlyDrains`, `SoleRetirer` and `TerminalIsExplained`
are proved and have no run of their own.

## 6. Where the code and its documents disagree

Three disagreements have a run of their own that exhibits them, 4 to 7 a property and a
configuration to try it with: `tlc -config Chain_ttl.cfg MCChain` violates `FreshUntilTTL`,
`Chain_null.cfg` with `MCChain` `NonObjectsPass`, `PullSource_sse_name.cfg` with `PullSource`
`FramesNamed`, and `StreamSeries_late.cfg` with `MCStreamSeries` `NoSeriesAfterRemove`.

1. **gRPC has no stop limit** (`internal/connector/grpc.go:121`). `GracefulStop` waits
   for every open client stream. One silent client keeps a cancelled `Run`, and with it
   `Remove` or `StopAll` with `m.mu`, waiting for ever; `source.go:37-38` says that Run
   returns when its context is cancelled.
2. **`StopAll` comes before `srv.Shutdown`** (`cmd/nephtys/main.go:229`). A POST served
   in between is admitted by an emptied manager and nobody retires it; `README.md:543`
   says a buffered batch is flushed before the process exits.
3. **Dedup remembers what was not published** (`internal/pipeline/dedup.go:98`). A
   client that is told of a failure and retries within the TTL is answered with success
   although the event was never published; `README.md:465` leaves the retry to the
   client.
4. **A drop does not renew a dedup entry** (`internal/pipeline/dedup.go:78`). `dedup.go:20-21`
   and `README.md:522` count the TTL since a body was "last seen"; the timestamp is that of
   its last pass, so a body that recurs within the TTL is still published once per window.
   `DedupIsExact` says what both readings have in common: nothing is dropped that was last
   seen longer ago than the TTL, nothing passes that passed within it, unless crowded out.
5. **Enrich panics on `null`** (`internal/pipeline/enrich.go:32`). `enrich.go:25` says a
   payload that is not a JSON object is passed through; `null` parses into a nil map without
   an error, and the write of the first tag panics. `net/http` recovers it for a webhook;
   under every other source the process ends.
6. **An SSE name outlives its frame** (`internal/connector/sse.go:121`). `README.md:520` makes
   the frame's `event:` the type and `sse.go:119` ends the event at the empty line; the
   name is reset only when something was published, so that of a frame without data
   becomes the type of a later one. `OneEventPerFrame` says nothing of that one name.
7. **A late handler brings series back** (`internal/server/manager.go:258`). A webhook handler
   that outlived its grace period goes on into the generation its closure leads to; it
   sets the dedup size gauge (`dedup.go:100`), and the counters and the histogram, after
   `Remove` has deleted them. `metrics.go:119-122` says a deleted stream leaves nothing
   behind, `manager.go:453-455` that the final flush is the last thing that happens on the
   stream. `NoDedupAfterRemove` excuses the size gauge, and nothing else, after such a
   handler.

Further sentences do not describe the code as modelled. They are smaller, and the
properties here are stated so as to say what the code does:

- `webhook.go:183-185`, the event of a handler that outlived its grace period is dropped by
  a retired generation: it is published, past the buffer (`Late` in `Generation`).
- `README.md:531`, no event is lost: a batch whose flush fails is dropped with a log
  line (`batch.go:77-80`), hence the `discarded` in all loss properties.
- `docs/LIFECYCLE.md:375-376`, a stop "cannot race a rebind": between the look at the
  context after the backoff and `Open` it can (`Rebind`); the session then ends at once.
- `docs/LIFECYCLE.md:49-51`, no "running while unbound": between Run's return and the
  next status the stream shows running without a listener.
- `docs/LIFECYCLE.md` section 2 has no edge from connecting to backoff; the code has it
  for each session that ends before it was ready. `Lifecycle` includes it.
- `manager.go:551-553`, running and stored pipeline "cannot disagree": they can after a
  write that timed out and landed, until the next write of that stream or the next start
  (`doubtful` in `StoredIsRegistered`).
- `docs/LIFECYCLE.md:334-337`, persisted is visible: a key `List` cannot read is skipped
  (`kv.go:91-99`); a later POST with its id replaces it. A POST after `StopAll` may
  replace a stored stream as well.
- `README.md:561`, an invalid stored config is skipped: it is registered as failed.
- `source.go:37-38`, nil when cancelled: a cancelled dial returns its error.
- `metrics.go:61-64`, the capacity gauge describes the stream's dedup stage: after an
  update the store rejected it describes the discarded one. A swap keeps the size gauge
  of the old cache until the next event.
- `metrics.go:34-36`, exactly one state is set: between the four writes of
  `SetStreamState` a scrape may see none or two. `StateIffRegistered` says it of the
  moments when nobody writes.
- `metrics.go:29-32`, events published to NATS: `publishFunc` counts before it publishes
  (`manager.go:764-766`), refused publishes included.
- `validate.go:209`, "omit the field for unlimited restarts": for webhook and gRPC
  omitting it means five (`restart.go:26`).
- `threshold.go:78`: a value that parses as NaN passes as the first of its group and
  then drops every later one. The stage also notes a value before it is published, as
  dedup does, so a refused event still moves the reference.
- `threshold.go:82`: without a dedup stage in front, two publishers may leave the stage
  in the opposite order of its decisions, hence the premise of `ThresholdIsExact`.
- `manager.go:647-649`, a description is the configuration the stream was registered
  with: the constructors have filled in their defaults, so it also has values nobody
  wrote, and so has the bucket.

## 7. What is not modelled

- JSON: the envelope, the type a WebSocket message is given, the match of filter, the
  paths of transform and threshold, the array of a batch.
  They are functions of one document and tests cover them. An event is a model value,
  its body after transform and the number at the threshold's path are constants.
- Strings: the patterns of ids and topics, URL parsing, the redaction inside URLs and
  error messages, the token check. A string is well-formed or not, a secret withheld or
  not. The webhook's path is left out of a document.
- The environment and the logging, read once at start.
- Prometheus counters and the histogram, but for section 6.
- Reconnection, acknowledgement and storage inside NATS: a publish succeeds or fails, a
  store call succeeds, fails, or fails and lands later.
- Readiness and health: a decision over two values read from the NATS client.
- A server error at start (`main.go:222-226`) returns without `StopAll`; it is one of the
  ways to `Die` and loses what memory held, as a crash does. A stored stream may hold the
  API's own port at that point: ports outside the streams are not modelled.
- What a client of the gRPC stream does after an error: it is not told how many of its
  messages were accepted (`grpc.go:181`), and one that resends publishes them again.
- FNV collisions in dedup; `time` arithmetic beyond ticks; the floating-point factor of
  the ladder and delta of the threshold, integers here.
- Generated gRPC code, command-line checks, documentation tools.

## 8. Plan

The order follows what an error costs: loss of events, then a stream or a process that
cannot be stopped, then a registry that disagrees with itself, then the edges. All of it
is modelled, checked and, for safety, proved:

1. `Handover`, `Generation` and its proofs.
2. `Lifecycle`, `RestartPolicy`, `Supervisor` and its proofs.
3. `Registry`, `StreamManager` and its proofs, the refinement included.
4. `PushSource`, `PullSource`, `SseReader`, `StreamSeries` and their proofs.
5. `Dedup`, `Chain` and their proofs.
6. `Config` and its proofs.

What is left to do: the safety half of the liveness arguments as theorems of their own
(a retirement under way is never without an actor that can move it; a waiting publisher
never waits on itself), and action properties that today are only implicit in the
inductive invariants (who may change a claim, a listener or an entry of the bucket).
