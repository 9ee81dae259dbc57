# TLA+ models of the ConfigDirector JavaScript SDKs

The repository is a monorepo of SDKs for a remote-configuration service. All client SDKs
(browser, React, Vue, React Native, Next.js, Nuxt, OpenFeature web) share one client,
`packages/js-client-core`; the server SDKs share another, `packages/js-server-sdk`. Both are
single-threaded JavaScript in which every interesting thing happens at an `await`, inside an event
emission, or in a timer or network callback. This directory models those interleavings, checks them
with TLC on small instances, and proves the most important results with TLAPS for all instances.

## Inventory

| Component | State it keeps | Operations | Hard behaviour | What makes it correct |
| --- | --- | --- | --- | --- |
| Client core (`DefaultConfigDirectorClient.ts`) | config set, watchers, readiness flags, `readyPromise`/`readyResolve`, one timeout timer, submitted and current context | initialize, updateContext, pause/resumeNetwork, dispose, watch, config set and error handlers | overlapping calls share one timer and one `readyResolve`; listeners call back in mid-handler | newer values, contexts and calls win; watchers told; calls return; `isInitializing` ends |
| Streaming transport | generation, current EventSource, timer | connect, close, message dispatch | connect suspended on the client session while others connect, pause, dispose | one connection, never after its close |
| Polling transport | generation, interval, fatal flag, requests in flight | connect, first fetch, poll, close | requests are never aborted by a close; they overlap and answer late | fatal stops for good, transient never stops |
| Event source (`packages/eventsource`) | ready state, abort controller, retry timer, parser buffer | connect, close, reconnect, parse | abort against retry, callbacks that close, chunks cut anywhere | one attempt at a time; closed stays closed; events independent of chunks |
| Cached values (`cached-values.ts`) | device entry, one read, one write and one queued write per launch, adoption | read, adopt, replace, remove | asynchronous provider, relaunch at any time, context changes | cached never covers live; device never goes back; values go to their context |
| Client session (`client-session.ts`) | instance id, one storage call, deadline | read, write, deadline | storage that is late or fails, over several launches | a persistent id is the stored one and stays; an ephemeral id is not found later |
| Telemetry (`packages/shared/src/telemetry`) | bounded queues, contexts and samples, drop counters, flush timer, context | record, flush, updateContext, close | flushes in flight overlap context changes, records and close | events under their context, each reported at most once, numbers conserved |
| Telemetry worker (`WebWorkerTelemetryClient.ts`, `worker.ts`) | worker, backlog, messages in flight, close promise and timer | record, updateContext, page hidden, close | lazy start, late session, a worker that fails or hangs, close handshake with timeout | order kept, the close flushes and always ends |
| Server client (`packages/js-server-sdk`) | configs and segments, readiness, heartbeat, polling | initialize, bundle handler, dispose | deltas, late polls (no generation), heartbeat after fatal | watchers current whatever changed; one connection with one heartbeat; fatal stops polling, transient does not; disposed is never ready |
| Config evaluator (`packages/config-evaluator`) | none (pure) | rules, conditions, segments, rollouts | ties, rules that throw, boundaries, unexpected shapes of values | the first serving rule serves; shares and negations partition; segments not named do not matter |
| Values and contexts (`value-parser.ts`, `native-values.ts`, `browser-half.ts`, `context-kind.ts`) | none (pure) | read, encode, hand over, admit | halves, unsafe integers, empty texts, null | a value comes back as given or the default says why |
| Test connections (`testing/InMemoryConnection.ts`) | stored values, attempts, queue of updates | set, remove, hold, connect, close | synchronous delivery into callbacks that call back | watchers told what is stored; only the wanted attempt connects; attempts settle |
| Hosts: React, React Native, Vue, Next.js, Nuxt | status, the client given or built, startup phase, contexts given | mount, unmount, effects, app state, connectivity, contexts | strict mode, a continuation of an older client, contexts before the start | status follows the client; the last context wins; a built client never outlives its mount |
| OpenFeature providers | the status their SDK records | initialize, context change, close | the SDK records outcomes after the provider's own events | the SDK's status ends as the client's |

The components interact through few seams: the client calls `Transport.connect/close` and hears
`configSetReceived` and `connectionError`; the streaming transport owns one `EventSourceClient` per
connect; the client session is a promise both transports, the cache and telemetry wait for; the
cache is a provider outside the client; telemetry is told of every evaluation and context, in the
browser through a worker; a host holds a client and hears `clientReady` and its calls' returns.

## Modules

| Module | Models | Composes |
| --- | --- | --- |
| `ClientCore` | the client's calls, promises, flags, config set, watchers (one operator per turn; no behaviour of its own) | |
| `StreamingClient` | the client over `StreamingTransport` | `ClientCore` |
| `StreamingClientProofs` | types, connections, values, watchers, `isInitializing` and contexts of `StreamingClient` | `StreamingClient` |
| `PollingClient` | the client over `PollingTransport` | `ClientCore` |
| `PollingClientProofs` | polling goes on until a fatal answer | `PollingClient` |
| `EventSourceContract` | what a transport relies on: the five states of an event source | |
| `EventSourceParser` | the parser as a data type, and the reference definition of a body's events | |
| `EventSource` | `EventSourceClient`, shown to implement the contract | parser, contract |
| `EventSourceProofs` | the refinement of the contract, attempts and ready state, the events of a body however it is cut, types | `EventSource` |
| `ClientSession` | the instance id of a launch, its storage and deadline | |
| `CachedValues` | device, store, adoption and replacement over several launches | `ClientSession` |
| `CachedValuesProofs` | the order of values, the device at rest, and the instance id | `CachedValues` |
| `TelemetryQueues`, `TelemetryAggregates` | the bounded event queues, limited maps, samples and aggregation as data | |
| `TelemetryCollector` | the client's telemetry collector with its reporter | `TelemetryQueues` |
| `TelemetryWorker` | the page's telemetry client, the channels and the worker around its collector | `TelemetryCollector` |
| `TelemetryProofs` | of the collector: types, the flush loop, the end of reporting, the accounting of events; of the worker: types, contexts of events, the flush of a close | `TelemetryWorker` |
| `ServerTelemetry` | the server's collector with contexts, invalid contexts and its reporter | both data modules |
| `ConnectionPlans` | what the options of both SDKs plan: offline or connected, polling intervals, the transport (no behaviour of its own) | |
| `ServerCore` | the server client's initialize, readiness race, bundle handler and dispose | |
| `ServerClient` | the server client over its streaming, polling and offline transports | `ServerCore`, `ConnectionPlans` |
| `ServerProofs` | of the server client: types, watchers, heartbeats, polling and dispose; of its telemetry: conserved numbers and contexts; of the evaluator: the walk, its segments, shares, negations and values | `ServerClient`, `ServerTelemetry`, `ConfigEvaluation` |
| `Comparisons` | one attribute condition: what it resolves to and how each target type compares | |
| `ConfigValues` | reading, encoding and handing over values; admission of contexts; resolutions | `Comparisons` |
| `ConfigEvaluation` | one evaluation of a server, offline or connected client, step by step | `ConfigValues`, `ConnectionPlans` |
| `TestConnection` | the in-memory connection of both SDKs under the watchers of its client | |
| `TestConnectionProofs` | only the wanted attempt connects, and watchers are told what is stored | `TestConnection` |
| `HostedClient` | a client as its hosts see it | |
| `ProviderComponent` | what hosts share: status, mount and startup decisions | `HostedClient` |
| `ReactProviders`, `NextProvider`, `PluginProviders` | React, React Native and `withProvider`; Next.js; Vue, Nuxt and OpenFeature | `ProviderComponent` |
| `ClientProvider` | an application with one host of any kind | the three above |
| `ClientProviderProofs` | the connections of a client its host built, its contexts, its initializations and the status it reports | `ClientProvider` |

A run checks the component's module itself, with the constants its configuration gives; where a
configuration needs definitions (`MCConfigEvaluation`, `MCTestConnection`, `MCClientProvider`), a
module that extends the component's holds them. The modules keep `Spec` (safety) and, where a
liveness property is checked, `FairSpec` apart, so that theorems speak of `Spec`.

### How code becomes actions

JavaScript runs to completion. A *task* (timer, network, application code) runs until the stack is
empty, then all promise reactions run, then the next task. `ClientCore.turn` says which emitting
handler is on the stack: between the step that emits and the step that continues (for instance
`StreamRefused` and `RejectConnect`, or `AdoptContext` and `AwaitReadiness`) the application's
listeners may call the client. A payload takes three turns: the merge that emits `configsUpdated`
(`ConfigSetReceived`), the telling of the watchers once its listeners have run (`UpdateWatchers`),
and the rest of the chunk (`chunk`). `Quiet` says that no reaction is due, and guards every task. A
connecting call is numbered; `pc` is where it is suspended, `promise[i]` its `readyPromise`,
`lastCall` the owner of `readyResolve` and of `submittedContext`. Values are represented by the call
whose connection supplied them, which is what "older" and "newer" mean in the properties.

A configured key is present or absent; a full set replaces, a delta merges. Evaluation, formatting
and logging are left out. A context of an invalid kind is admitted as no context.

In `StreamingClient` a stream steps as `EventSourceContract` says; `EventSource` is checked to
implement it, with its attempts, abort controllers, retry timer and callbacks. There a body is a
sequence over `CR`, `LF` and `d` (a piece of a data field), cut into chunks anywhere. In
`CachedValues` the provider is asynchronous, may fail, and a read may return what was stored when
it was asked. `ClientSession` runs beside it: an id is the number of the launch that generated it,
and `storageCall` is what `settleFromStorage` awaits; the checksum decides only whether a record is
usable. The other modules that wait for the session see it settle in one step.

In `TelemetryCollector` each flush is a record of its own, because flushes overlap: it carries what
it has taken and the await it is suspended at (`hashing`, `session`, `sending`; `report` and
`answered` are promise reactions that are due). Events are numbered as they are admitted; `evicted`,
`reported` and `counted` are history for the properties. The owner is the telemetry worker or the
React Native client. Invalid context submissions and aggregation are in `ServerTelemetry`.

`TelemetryWorker` puts that collector behind two channels: `toWorker` is the sequence of messages
posted and not yet handled, the backlog is what waits for the lazy start, and a worker may fail at
any step, also while it loads; what is in the channel then is lost. An event remembers how many
contexts had been given when it was recorded. In `ServerTelemetry` every record brings its own
context; a flush takes the evaluations first and the rest after the hashing, and the server goes on
recording meanwhile. Hashing of contents is one step.

In `ServerClient` the variable `mode` is what `ConnectionPlans` makes of the options, and enables the
actions of one transport. A bundle is full or a delta and carries configs, each with the segments
its rules use, and segments; a version is the number of the bundle something came with, so
`Evaluation` (a config's version with the versions of its segments) changes exactly when what the
evaluator reads does. `turn` is `updated` from the merge of a bundle until the watchers are called,
`watchers` while they run, `fatal` while `connectionError` is emitted. A request whose headers or
body settled is `ok` or `failed` until the reaction of its connect ran (`FinishConnect`), then
`done`; `TaskMayRun` says that no such reaction, nor one of `initialize`, is due. Session ids,
evaluation itself, watch and unwatch in mid-handler and listeners that throw are left out there:
evaluation is `ConfigEvaluation`, and watching inside callbacks is `TestConnection`.

`ConfigEvaluation` runs one evaluation from each of its inputs, one step per stage (admit the
context, walk a rule, read the served text, report). A text is an atom, and what the libraries read
in it (a number, a version, a date, JSON) is a constant of the model; numbers are counted in halves,
so that truncation and `toPlainDecimal` do something. A condition or rule that throws is an outcome
of its own, and it ends what the code's try ends. The bucket of a context is an input: `rapidhash` is
left out, and shares are counted in buckets, so that floating-point sums of fractional percentages
are too.

`TestConnection` has the update queue, the round over the keys and the round over the callbacks of
a key as they are nested on the stack (`turn`), so that a callback may call anything in between. A
callback that throws, or unwatches one already passed, shortens the round; `cut` remembers the keys.
The handlers of `connectionError` are no callbacks there, `unwatchAll` inside a callback still calls
the rest of the array that is being iterated, as the code does, and the recordings tests read
(contexts, tracked events) are left out.

In the hosts a client is `HostedClient`: its flags, its context and its calls. A superseded call, or
one of a disposed client, may return at any time or never, which covers what `ClientCore` does. A
host is at a render, a mount, an effect or a continuation after an `await`; `setState` is applied
when it is called. What the OpenFeature SDK does with a provider's events and outcomes is external.
`missedReady` (a component listened to nothing when its client became ready) and `settledByReplaced`
(a call of a client that was replaced settled the status) are no code: they remember what the
exceptions of the status property are about.

## Runs

| Run | Bounds | Shows |
| --- | --- | --- |
| `client` | 3 connecting calls, 2 messages, 1 pause or dispose, 1 key, no context (contexts are told apart by their call) | at most one live connection, none after its call was cut off; newer values stay; watchers current; contexts in order; `isInitializing` ends with a payload; the latest call returns |
| `polling` | 2 calls, 1 poll, 1 pause or dispose (3 overlapping requests) | fatal stops polling and requests, transient failure keeps polling (`PollsUnlessFatal`); the latest call returns |
| `eventsource` | 3 attempts, 6 characters, chunks of up to 3 | the contract; one attempt at a time and an honest `readyState` (`AttemptsMatchReadyState`); chunk boundaries do not matter unless a CRLF is cut |
| `cache` | 2 launches, 3 config sets, 1 named and the anonymous context | cached never covers live and the device never goes back (`ValuesOnlyGetNewer`); at rest it is up to date; instance ids are kept and ephemeral ones are not found later |
| `telemetry` | 3 events, 3 calls, 4 flushes at once, queues of 1 | one flush timer; no event reported twice or lost, drops counted once (`EventsAccountedFor`); a fatal answer is final; what waits is flushed |
| `worker` | 2 events, 3 contexts, hidden pages or closes, queues of 1 | events stay behind their context and before the next in the backlog and the channel (what the collector then makes of overlapping contexts is its own affair, see `TelemetryContext.cfg`); when a close is answered no event given before it waits in a queue; a close ends |
| `server_telemetry` | 4 records, 1 close, 2 flushes at once, every limit 1, 2 identified contexts, 2 samples | numbers are conserved between what is recorded, reported and dropped; an evaluation's context is reported with it or earlier, or counted; records are sent |
| `server` | 2 calls, 2 bundles, 1 poll, 1 close or dispose, 1 key, 1 segment, each transport | watchers current, also through segments and removals; one event source with one heartbeat; fatal stops polling, transient keeps it; dispose never makes ready; an initialize that is not overtaken returns, unless the body of its first poll never ends |
| `evaluation` | about 30,000 inputs: every operator over every shape of value, up to 3 rules with segments, rollouts and rules that throw, 4 buckets, every type of served value and default | the first serving rule serves; segments not used do not matter; shares and negations cut without overlap or gap; values are kept or the default says why |
| `test_connection` | 4 calls, 2 keys, 3 watchers (2 of one key), both SDKs, callbacks that throw | watchers are told what is stored; only the wanted attempt connects; attempts settle |
| `hosts` | 3 calls, 2 clients, 2 mounts, 2 inputs, 2 contexts, every kind of host | the status is "ready" of a ready client and, after a call the host awaited, of no other; connections belong to the mounted host; the last context wins, Vue apart; no initialization during another |
| `client_resume` | 3 calls, 2 contexts | finding: resume uses an older context |

The bounds suffice for the interesting cases: three calls give one that is abandoned, one that is
superseded while it waits, and one that is current; two messages let a chunk go on after a listener
acted; one cut falls at every point of every call. Two calls and a poll give three requests in
flight at once. Six characters are enough for two events, or for one with a terminator of each kind,
a split CRLF and a following field. Two launches are what adoption needs, three sets are one in flight, one queued
and one that replaces the queued one. Queues of one event make every second event an overflow, and
three calls with the timer give four flushes that overlap at every await. In the server client two
calls are one overtaken and one current (also one made by a listener of the other's fatal error),
two bundles are one full set and a delta or a second full set over it, with a key and a segment
that each is carried or not, and two calls with a poll give three requests in flight at once.
In the worker three calls are a context that starts it, one that must not overtake an event, and the
close. Four records over limits of one fill every collection twice while a flush waits. Three rules
are what a tie between two needs beside a third; four buckets have a boundary inside, one at each
end and a share of none. Four calls of the application are a connect, a value, a change of it from
inside its delivery and a close or a newer attempt. Two mounts and two clients are the remount of
strict mode; three calls are one superseded twice.

`CHECK_DEADLOCK FALSE` everywhere: an application that makes no more calls (and, in the models, a
used-up bound) simply stops.

### Fairness

Only what the runtime does by itself is fair: promise reactions, armed timers, the return of a
handler, the settling of the client session (its storage has a deadline). Neither the server nor
the application has to do anything. In `PollingClient` a request ends: its timeout aborts it until
the headers arrive. For the body there is no timeout in the code (`fetchWithTimeout` clears it with
the headers), so `LatestCallReturns` there *assumes* that a body once begun ends or breaks. A
telemetry request is aborted after five seconds and its body is not read, hashing ends, and armed
flush timers fire. In `ServerClient` the timeout of a streaming connect and armed readiness timers
fire, the values file of the offline transport is read or fails to be, and a polling request is
answered or aborted (`Answered`). Nothing is assumed of a body there: `InitializeReturns` carries the
exception instead, a call whose first fetch stays in a body for ever (`BodyPending`) may wait with it.
Its other exception are calls that another overlaps: two overlapping ones share `readyTimer`, and the
first to end clears the timer of the other.
`WorkerFairness` lets the channels, the worker's handlers and its collector go on and the close
timer fire; a worker that failed does nothing more, and `CloseEnds` rests on the timer then.
`ServerTelemetry` is fair as the client's collector is. In `TestConnection` callbacks return or
throw, the synchronous loop goes on, and the timer of a held attempt fires. `ConfigEvaluation` and
the hosts have no liveness property and no fairness.

### Exceptions

A property is stated with what the code does not keep, and no more. `StatusFollowsClient` has three
parts, all of them of quiet states (no call of the host has a continuation due). `ReadyIsReported`: a
host says "ready" of a ready client, but for a client given to a component that listened to nothing
when it became ready (`missedReady`; `withProvider` catches up, the others do not), and for a class
provider mounted again whose status was settled by a call of the client it had disposed
(`settledByReplaced`: what goes on at `provider.tsx:57` sets the status at `:66` from the client it
awaited, whichever is current). `UnreadyIsReported`: of a client that is not ready a host does
not say "ready", provided the last call on the client is one the host awaited and no pause in the
background made it unready. Calls nobody reports to the host are left out: a hook's `updateContext`
that times out, `resumeNetwork`, and a Next.js provider mounted again until it calls its new client.
`StaleWhileCached` is the stale status of the OpenFeature provider. `ClientProviderGiven.cfg`,
`ClientProviderRemounted.cfg` and `ClientProviderUnready.cfg` show what is left out.

`LatestContextWins` is about clients their host built. It leaves out Vue (`ClientProviderVue.cfg`) and
the context with which a resume reconnects, which is the client's own affair and the subject of
`client_resume`.

`ClosedMeansFlushed` speaks of what the worker was given before the close message: each event was
sent, dropped, or taken by a flush; a flush that had begun before the close may be in flight still.

`LatestCallReturns` carries the exceptions the code makes: the finally of a rejected streaming race
clears whatever timer is armed then, and an older polling call that finishes its first fetch late
clears the newer call's timer.

## Proofs

A theorem holds for every value of the constants; the run of the same property looked for a
counterexample first. Each safety theorem rests on an inductive invariant, kept by every action.

`StreamingClientProofs`, for any number of calls, messages, cuts, keys and contexts:

1. `TypeCorrect`: `TypeOK`.
2. `OneConnectionOnly`: `NoConnectionOutlivesItsCall`. It is not inductive by itself: a connect
   still suspended on the session is the danger. `OneConnection` adds that a suspended connect whose
   generation is current is the latest call and younger than every cut and every stream, and
   `CallsInOrder` that calls not yet made have left no trace.
3. `NewerValuesAlwaysStay`: the action property `NewerValuesStay`, from `ValuesFromStreams` (values
   come from streams no younger than the current one, and a chunk belongs to the current one).
4. `WatchersAlwaysCurrent`: from `WatchersFollow`: a key whose watchers are behind is one of those
   about to be told (`notified`), which is empty outside of the turn `updated`, and before the first
   payload there is nothing to remove. Listeners of `configsUpdated` may call the client meanwhile.
5. `InitializingAlwaysEnds`: from `InitializingIsOwed`: while initializing, either the latest
   `readyPromise` still awaits the payload or a resolved one is about to end it.
6. `ContextsAlwaysAdoptedInOrder`: `ContextsAdoptedInOrder`, from `AdoptionOrder`. Connects leave
   the session in the order of their calls (`SessionInOrder`), and one that can still be settled
   from outside is the latest, or the latest replaces it in reactions that run before any task
   (`SettledInOrder`).

`PollingClientProofs`, for any number of calls, polls, cuts and overlapping requests:
`AlwaysPollsUnlessFatal`. `PollInv` adds to the types of what decides the interval (`PollTypes`)
that the latest call, unless cut off, has the present generation, so that its first fetch is not
abandoned (`LastCallPolls`), and that earlier phases have left no trace (`CallsFollow`).

`EventSourceProofs`, for any number of attempts and any bodies, from `AttemptInv`
(`ConnectionTypeOK`; `AttemptsOwned`: what is in flight belongs to the current abort controller;
`StatesExplained`: what each ready state, the timer and a callback on the stack say of it):

1. `AttemptsAlwaysMatchReadyState`: `AttemptsMatchReadyState`.
2. `EventSourceImplementsContract`: the refinement `ImplementsContract`, so that the streams of
   `StreamingClient` are what the transport really gets.
3. `ChunksNeverMatter`: `ChunksDoNotMatter`, from `BodyInv`. The property speaks of the events only,
   which say nothing of how the next chunk goes on; `BodyInv` adds, for a connection being read, that
   its parser `Follows` the text: what it buffers is as long as the text's unterminated tail, and the
   event it collects is the run of fields since the last empty line. A chunk keeps that in two
   steps. The scan of buffer and chunk finds the lines that the chunk adds to those of the text
   (`ScanOfChunk`), because a character more adds at most one line end, the last
   (`LinesOfMore`, `NthOfMore`). Dispatching these lines makes the events that they add to those
   of the lines before (`DispatchOfLines`, from `EventsInMore` and `RunsOfMore`). Only a chunk that
   begins with the LF of a CRLF breaks the first step, and `splitCRLF` excludes just that.
   The loops of `parse` and `scanLines` are recursive functions on the positions passed. That such a
   function exists is `ScanIsLoop` and `DispatchIsLoop`; what holds of each position is shown by the
   least one where it fails (`LeastNat`, `EveryNumberTo`).
4. `TypeCorrect`: `TypeOK`, with `CountersBounded`: each failure is one of an attempt that is over, so
   they stay within the attempts made.

`CachedValuesProofs`, for any number of launches, config sets and contexts, from `StoreInv`: writes
are made one at a time, each newer than what it replaces (`WritesInOrder`), and live values are the
last to be written or on their way (`LiveValuesKept`):

1. `ValuesAlwaysGetNewer`: the action property `ValuesOnlyGetNewer`.
2. `DeviceIsAlwaysUpToDate`: `DeviceIsUpToDate`.
3. `InstanceIdsAlwaysKept`: `InstanceIdsAreKept`, from `SessionInv`: an id is written only where none
   is stored, and once a session is persistent its storage has nothing left to do.

`TelemetryProofs`, for any limits, events, calls and flushes in flight:

1. `TypeCorrect`: `TypeOK`, which says that no queue exceeds its limit (`PushKeepsLimit`).
2. `OneFlushLoopOnly`: `OneFlushLoop`. `start` arms its timer without cancelling another, so the
   inductive `FlushLoopInv` adds that a collector not yet started has no flush in flight.
3. `FatalErrorIsAlwaysFinal`: `FatalErrorIsFinal`. `report` checks `executeRequests` before it
   awaits the session; `FatalInv` says why no flush waits there when the fatal answer comes.
4. `EventsAlwaysAccountedFor`: `EventsAccountedFor`. For its parts `EachReportedOnce` and
   `NothingLost`, `AccountInv` adds where an event can be no longer (`CloseTakesTheLast`): a flush
   that has not come to its report has no batch, a collector that stopped has an empty evaluation
   queue, and a closing flush past its report leaves no tracked event for the clearing of the queues
   to lose. For the third, `DropsCountedOnce`, `DroppedApart` adds that no event is dropped twice and
   that a queue to be cleared has no drops its flush has not taken. The sum over the flushes in
   flight is a recursive function; that it goes along with an append, a change and a removal is
   proved by the least index at which it would not.
5. `WorkerTypesCorrect`: `TypeOK` and `WorkerTypeOK` of the page, its channels, the worker and the
   collector in it. The worker's steps are the collector's, but for the backlog's entries
   (`WorkerStepsAreCollectorSteps`), which come before anything else is in the collector
   (`EntriesComeEarly`), so that they fit in the batch and keep the accounting.
6. `ClosedAlwaysMeansFlushed`: `ClosedMeansFlushed` (no event given before the close is left in a
   queue; flushes begun before it and evaluations posted after it are exempt), from `WorkerInv`: to the collector's `AccountInv`
   it adds what the page knows of its worker (`PageInv`) and that the flush the worker awaits is the
   one of a close (`CloseAwaited`).
7. `ContextsAlwaysKeepTheirEvents`: `ContextsKeepTheirEvents`, of the backlog and the channel and not
   of the collector behind them. It is inductive with `WorkerInv`; the lemmas are about how the contexts posted before a message count when messages are posted and
   handled.

`ServerProofs`, of `ServerClient` for any number of calls, bundles, polls, closes, keys and
segments, over each transport:

1. `TypeCorrect`: `TypeOK`. That a request gets a number of its own needs `sent` to be bounded by
   the calls and polls made so far (`SendBound`).
2. `WatchersAlwaysCurrent`: `WatchersAreCurrent`. Inductive is `WatchersFollow`: a watcher that is
   behind is on the stack's list of keys, and before the first bundle no config is held.
   `UnreportedKeysKeepTheirValue` is the heart of it: a key that `KeysUpdatedBy` and `KeysRemovedBy`
   do not name evaluates after a merge as it did before.
3. `OneHeartbeatOnly`: `OneConnectionOneHeartbeat`. Inductive is `HeartbeatOwned`: the running
   heartbeat is the one `heartbeatTimer` can stop, it belongs to the current event source, and that
   source lacks it only while its fatal answer is being emitted.
4. `AlwaysPollsUnlessFatal`: `PollsUnlessFatal`, from `PollingGoesOn`.
5. `DisposedIsNeverReady`: `DisposedIsNotReady`, from `DisposalSettles`: a dispose outside of every
   handler settles the promise that makes the client ready, and no reaction that does so is due.

of `ServerTelemetry` (`TelemetrySpec`), for any limits, contexts, records, closes and overlapping
flushes, from `CollectorInv` (types; a collector that stopped executing holds nothing; the two
parts below):

6. `NumbersAlwaysConserved`: `CountsAreConserved`, from `Conserved`: what was recorded is what waits
   in the queue and its drops, what the flushes in flight hold (`Weight`) and what was requested.
   The lemmas are about sums over finite sets: a sum does not depend on the order its elements are
   taken in, and goes along with a changed, added, renamed or removed element (`SumOfChanged`,
   `SumOfExtended`, `SumOfRenamed`), so that aggregation and the bounded map of samples keep their
   totals.
7. `ContextsAlwaysFollow`: `ContextsFollowEvaluations`, from `ContextsHeld`: the contexts that are
   neither held nor reported are no more than the limited map says it dropped.

of `ConfigEvaluation` (`EvaluationSpec`), for any bundles, contexts, buckets, served states and
default values:

8. `AlwaysServesFirstServing`: `ServesFirstServing`. `WalkIsInOrder` says that the places of the walk
   order name every rule once and in order (as many rules precede a rule as there are places before
   it); `WalkFollows` that the explanations so far are those of the rules walked, and that none but
   the last ended the walk.
9. `OnlyUsedSegmentsEverMatter`: `OnlyUsedSegmentsMatter`. A segment condition is decided by its own
   segment and no other (`OneSegmentMatters`).
10. `CutsAlwaysExact`: `CutsAreExact`. The ends of the shares never go down (`EndsGoUp`), so the
    buckets of a share are the interval between two ends (`ShareIsAnInterval`) and its length is
    their difference; an operator and its negation, for each type, from the definition of their
    comparison (`TextNegation`, `ArrayNegation`, `NumberNegation`, `SemverNegation`).
11. `ValuesAlwaysKept`: `ValuesAreKept`. A value is encoded as one state that reads back as the value
    and decodes to it (`NativeIsKept`); a read is an error with the default or a value of its shape
    with the ids that were served (`ReadCarries`); `ServedInTurn` says that a state is served only
    once one was taken, and is an offline client's own.

`TestConnectionProofs`, for any number of calls, keys and watchers:

1. `ConnectedIsAlwaysWanted`: `ConnectedMeansWanted`, from `NewestGeneration`: an attempt held, up or
   about to be delivered is the one wanted.
2. `WatchersAreAlwaysTold`: `WatchersAreTold`. The last update queued for a key carries what is stored
   (`QueueEndsAtStored`), a round calls the watchers of its key with what is served
   (`RoundsAreOfTheirKey`), and a watcher that has not been told is one the turn still comes to
   (`ToldOrDue`). Callbacks that watch, unwatch or set change the array and the queue under the round.

`ClientProviderProofs`, for any hosts, contexts, mounts and calls:

1. `ConnectionsAlwaysOwned`: `ConnectionsAreOwned`. `LinksOwned` says that a client the host built and
   that is linked is the current one of a mounted host, and adds for Next.js and Nuxt which client a
   startup in progress will connect.
2. `LatestContextAlwaysWins`: `LatestContextWins`, for every kind of host but Vue, from
   `ContextsFollow`: how each kind keeps track of the context given last until it has asked for it
   (React by comparing, Next.js and Nuxt by what waits for the start), where the last call on its
   client that submits a context is not already of that one.
3. `OnlyOneAttempt`: the action property `OneAttempt`: no client is initialized while it is
   initializing. It may be again afterwards (a Nuxt application that defers its start does so when a
   context comes while the client is not ready). From `CallsOK`: the current client and those of calls
   are built, and no client initializes before the first call.
4. `StatusAlwaysFollows`: `StatusFollowsClient` with the exceptions above, from `StatusInv`. The views of
   a client hang together (`ViewsFollow`: one that is ready has received and waits for nothing), a host
   hears its current client and no other (`HostShape`), and its calls are all on that client
   (`CallsShape`) unless it is a Next.js or class provider that builds its clients (`SingleClient`).
   "Ready" (`HostTold`): a client becomes ready only by a payload, which its handlers hear, and every
   call makes it unready; what they do not hear is `missedReady`, and the one continuation that can
   unsay it is `settledByReplaced`. Not "ready" (`UnreadyTold`): once the last call on the current
   client was awaited and has gone on (`AwaitedLast`), and the client was not paused behind the host's
   back (`Informed`), its continuation has said "default". An OpenFeature provider may lag while a call
   is open (`FeatureTold`): with none open the recovery of a client that waits for values is awaited,
   and one awaited while cached values are served is reported stale. The invariant is needed because
   the property speaks of quiet states only, and says nothing of how a host gets to one.

The proofs assume what the modules assume of their constants: the numbers of calls of both
clients, the attempts of the event source and the limits of the queues are positive, the other
bounds are numbers, `NoContext` is not a context. Those about the evaluator assume of its inputs
what the types of the payload say (`InputsAssumption`: lists are lists, operators those of their
type, percentages within the buckets, orders below the one that stands for
`Number.MAX_SAFE_INTEGER`), of the libraries that a text spells at most one number or version
(`TextsAssumption`), and that what `String` and `JSON.stringify` write is read back
(`RoundTripAssumption`). TLC evaluates every one of them on the inputs of the run.

Only model-checked: the liveness properties (that calls return, queues are flushed, closes end and
attempts settle), which rest on fairness and `ENABLED` and are out of the prover's reach. Every safety
property that a run checks is proved.

## Findings

The run `client_resume` expects a violation: it shows a disagreement between the code and a line of
its documentation, which `PROJECT.json` quotes. Further disagreements have a configuration of their
own beside the runs; TLC finds the property it names violated:

| Configuration | Property | What the counterexample shows |
| --- | --- | --- |
| `StreamingReturns.cfg` (`StreamingClient`) | `EveryCallReturns` | a call superseded while it connects never returns: the newer connect closed its stream, and the one timer of the transport is the newer call's, or cleared by its end |
| `PollingPaused.cfg` (`PollingClient`) | `NoPollingWhileCut` | a pause or dispose during the first fetch does not stop the interval that its `finally` arms (`PollingTransport.ts:45`) |
| `EventSourceCRLF.cfg` (`EventSource`) | `EventsOfTheBody` | a CRLF cut in two counts as two line ends (`EventSourceParser.ts:68`) |
| `CachedValuesTag.cfg` (`CachedValues`) | `ServedToTheirContext` | values are kept under the context submitted when they arrive, so a launch serves the values of another context (`DefaultConfigDirectorClient.ts:229`) |
| `TelemetryContext.cfg` (`TelemetryCollector`) | `ContextSettles` | two overlapping `updateContext` leave the older context (`ClientTelemetryEventCollector.ts:38`) |
| `ClientProviderGiven.cfg` (`MCClientProvider`) | `GivenIsReportedReady` | a client given to a host that becomes ready between the host's constructor and its mount is left at loading |
| `ClientProviderRemounted.cfg` (`MCClientProvider`) | `RemountedIsReportedReady` | a class provider mounted again is left at "default" by the call of the client it had disposed, though its own client is ready (`provider.tsx:57`, `:66`) |
| `ClientProviderUnready.cfg` (`MCClientProvider`) | `UnreadyIsNeverReady` | after the application's `updateContext` returns without values, the host goes on saying "ready" of a client that is not |
| `ClientProviderVue.cfg` (`MCClientProvider`) | `VueContextWins` | Vue's `useContext.ts:15` compares a new context with `client.context`, which lags behind a call in flight: of `updateContext(B)` and then `updateContext(A)` the second is not sent |

Met on the way, without a configuration:

- `types.ts:148-149` says that without streaming an operation that times out is not retried;
  `PollingTransport.ts:41-45` schedules polling either way, and says so.
- After an unrecoverable polling failure `initialize` sets `initializing`, sends nothing and emits
  nothing, so `isInitializing` stays true.
- An older polling call whose first fetch is answered last adopts its context, values and timestamp
  over those of the newer call and repeats its own fetch from then on.
- `ready` may become true for a call that has received nothing yet, when a listener of the first
  payload changes the context.
- The timeout of `fetchWithTimeout.ts:21` is cleared with the headers: a body that never ends holds
  up the first fetch, and the call with it. The server's polling transport uses the same fetch, so
  that `initialize` there may outlive its timeout.
- The removal of an unreadable entry by a slow read may delete an entry written meanwhile.
- Closing the telemetry worker waits for the flush of the close only: a flush that began before it
  may be cut off when the worker is terminated.
- A watcher that unwatches a callback already passed shifts the array that is being walked
  (`DefaultConfigDirectorClient.ts:467` and `:496` of the client core), so that the next one is skipped.
- The server's `PollingTransport.ts:38` also schedules polling when the client was disposed of during
  the first fetch, though `types.ts:329` of that package says that all connections are closed.
- A listener of `configsUpdated` that disposes of the server client leaves `ready` true: the bundle
  resolved readiness before the listener ran. `client.spec.ts:1329` expects a dispose to end a pending
  initialize without marking the client ready. `DisposedIsNotReady` carries the exception.
- Two overlapping calls of the server's `initialize` share `readyTimer`; the first to end may clear
  the timer of the other, which then waits for a bundle without a limit.
- A listener or watcher that throws ends the server's bundle handler early: the remaining watchers
  are not called, and a poll has already advanced its timestamp, so the change is not sent again.

## What is left

Extensions worth making, in this order: several tabs on one storage; larger instances of the hosts
(three mounts). Not modelled:

- two clients on one storage (tabs of one origin that start at once each write an instance id, and
  the cached values of one replace those of the other);
- rendering on the server (`register`, the server half of the Nuxt plugin) reads a server client
  without a state of its own, and Nuxt's `module.ts` runs at build time;
- React Native's metadata and fetch adapters, and hooks that only read the client;
- the public API layers: construction and re-exports;
- `percent-hashing.ts` with `rapidhash`, and floating-point sums of fractional percentages: the
  bucket of a context is an input, and shares are counted in buckets;
- `deepEqual`, the truncation of samples, parsing of numbers, versions and dates, logging: sequential
  code with unit tests of its own, or no effect on a property;
- the OpenFeature server provider hands its calls on to the server client;
- the client core over its offline transport, which connects and stays connected: its plan and its
  values are in `ConnectionPlans` and `ConfigEvaluation`.
