# TLA+ models of the tm_kit transport layer

This directory holds TLA+ models of the concurrent parts of the tm_kit
transport layer under `src/`. TLC checks them. The models cover:

- the ZeroMQ broadcast endpoint;
- the remote-facility self-loop;
- the subscription-lifecycle helper that drains subscriptions and then
  calls `env->exit()`;
- the heartbeat tracker composed with `SetupRemoteFacilities::run`;
- the gRPC and JSON REST client facilities;
- the Redis importer/exporter and the broadcast-publisher dispatch.

`PROJECT.json` lists the components, the runs, the mutants, the map from
each definition to the source lines it translates, the findings and the
hazards.

## 1. Inventory

### Components and how they interact

At runtime, data flows like this:

```
peer heartbeats + clock ticks
  -> HeartbeatTracker (HeartbeatMessageToRemoteFacilityCommand)
  -> per-tick action arrays, split per facility index (SetupRemoteFacilities::run)
  -> FacilitySelfLoop k -> MultiTransportRemoteFacility k
       extra output (Register/Deregister results)
         -> classifier -> priming request (self loop)
         -> extraOutputConverter -> <<locator, isRegister>> -> RemoteSubscriberHelper.removeID
       order output -> initial-callback filter -> RemoteSubscriberHelper.saveIDAndRemoveConnector
  exit source -> RemoteSubscriberHelper.unsubscribe -> order input of the facility
```

Each component below gives its state, its operations and what is hard
about it.

**ZeroMQ broadcast transport** (`src/src/zeromq/ZeroMQComponent.cpp`)

- *State:*
  - per subscription endpoint: three client lists (no filter, exact match, regex) under `mutex_`;
  - per sender endpoint: `incoming_` and `processing_` under a mutex and condition variable.
- *Operations:*
  - `getPublisher` and `addSubscriptionClient`, which create the port's sender and the host:port's subscription, each with its thread, on first use;
  - `addSubscription`;
  - the publisher callback (the user-to-wire hook runs in the caller's thread);
  - the sender thread: wait at most 1 ms, splice `incoming_` into `processing_`, then send each item with `dontwait`, so a send can drop;
  - the receiver thread: a 16 MiB buffer (oversize frames are skipped), CBOR decoding (failures are skipped), then a walk of the three lists and `callClient` with the wire-to-user hook;
  - destruction: `~ZeroMQComponentImpl` is defaulted, so `ctx_`, declared last, is destroyed first, before the senders and subscriptions that own the threads.
- *Hard:*
  - publishers, the sender and the receiver run concurrently;
  - `addSubscription` can race the receive loop;
  - sends are lossy;
  - hooks can suppress delivery;
  - destruction terminates the context while the threads still use its sockets, and an idle sender never closes its socket.

**HeartbeatTracker.** Only its declaration is under `src/`. It keeps an entry
per (sender, facility) pair: the locator, when that pair was last seen, and the
last action emitted for it. Its operation is `processHeartbeatMessage`. It is
modelled from the spec only to drive `ManagedFacilities`; no property is
checked of it alone.

**MultiTransportRemoteFacility.** Its code is not under `src/`.

- *State:* the live set of sessions, one per locator.
- *Operations:* Register, Deregister, and dispatch of requests (Designated or Random).
- *Hard:* a Designated request sent to a locator that is gone is rejected.

**FacilitySelfLoop** (`MultiTransportRemoteFacilityManagingUtils.hpp`,
`setupDistinguishedRemoteFacilitiesInternal`)

- *Operations:*
  - a classifier keeps only Register results;
  - the self-loop creator issues one priming request `(l, initial_input())`;
  - an initial-callback filter;
  - the extra output is converted to `<<locator, isRegister>>`.
- *Hard:* Register and Deregister results share one queue.

**SetupRemoteFacilities wiring** (same file)

- *Operations:*
  - the heartbeat listener, the clock, the parser and the branchers;
  - `synchronizer2`, which pairs the non-distinguished command arrays with the distinguished loops' `nextTriggeringSource`.
- *Hard:*
  - the non-distinguished facilities stall if a distinguished loop never triggers;
  - `hookPairFactory` is never passed to the facilities (the `managed_hooks` run).

**RemoteSubscriberHelper** (`RemoteTransactionSubscriberManagingUtils.hpp`)

- *State:* `idStorage`, a map from locator to subscription id, under `idStorageMutex`.
- *Operations:*
  - `saveIDAndRemoveConnector` runs on the order output: it stores a Subscription id, or erases an acknowledged Unsubscription and calls `env->exit()` if the map is then empty;
  - `removeID` runs on `(l, false)`;
  - `unsubscribe` runs on the exit trigger: it calls exit if the map is empty, and otherwise sends one Unsubscription per entry.
- *Hard:* three streams feed one map, and the exit depends on the map draining.

**gRPC client facility** (`grpc_interop/GrpcClientFacility.hpp`)

- *State:* `reactorMap_` under `reactorMapMutex_`.
- *Operations:*
  - `actuallyHandle` ignores a duplicate id and otherwise creates and starts a reactor;
  - `OnReadDone` publishes only when the read succeeded;
  - `OnDone` erases the reactor;
  - `waitForStart` spins until the channel is set.

**JSON REST client facility** (`json_rest/JsonRESTClientFacility.hpp`). It
sends one request per call and gets one final reply. If the reply does not
parse, nothing is published.

**Redis importer/exporter** (`redis/RedisImporterExporter.hpp`)

- *Operations:*
  - the exporter's `start` sets `env_` and obtains the publisher;
  - the exporter's `handle` drops data until `start` has set `env_`;
  - the importer's `start` adds a subscription client on a topic pattern;
  - the importer's callback publishes the bytes, or, for a typed importer, only what `RunDeserializer` accepts.
- *Hard:*
  - Redis pub/sub reaches only the subscribers present at publish time;
  - other publishers share the channel;
  - undecodable messages are dropped silently.

**Broadcast publisher factory** (`MultiTransportBroadcastPublisherManagingUtils.hpp`).
This is a dispatch on the protocol at graph-construction time. It has no
runtime state.

### Properties per component

**ZeroMQ endpoint**

- It refines `TopicBroadcast` (spec 4.1, 8.1, 8.2). Each client gets messages:
  - in publication order;
  - never twice;
  - only on admitted topics;
  - with content converted by both hooks, suppressed when the subscriber hook returns nullopt.
- Its sender drains what was enqueued.
- Its destruction completes: checked, and found violated (see `zmq_teardown`).

**FacilitySelfLoop.** Every applied Register gets exactly one priming
request: at most one (safety), and eventually one (liveness) (spec 8.5).

**RemoteSubscriberHelper**

- every stored id belongs to a live connection (spec 4.5, 8.6);
- an exit trigger eventually leads to exit with every server-side subscription unsubscribed (spec 4.5, S6).

## 2. Modules and runs

| Module | Models | Composes |
|---|---|---|
| `TopicBroadcast` | abstract promise of a broadcast endpoint | - |
| `ZmqTransport` | one ZeroMQ endpoint: publisher, sender thread, receiver thread, subscriptions | refines `TopicBroadcast` |
| `RemoteSubscriber` | one Designated facility, its self-loop and the subscriber helper | facility + self-loop + helper |
| `GrpcClient` | gRPC client facility: handler thread, reactor map, reactor callbacks | - |
| `JsonRestClient` | JSON REST facilities and one-shot call: request encoding, reply callbacks | - |
| `HeartbeatTracker` | `HeartbeatMessageToRemoteFacilityCommand`: entries, TTL, tick actions (from the spec) | - |
| `ManagedFacilities` | `SetupRemoteFacilities::run`: branchers, self-loop chain trigger, `synchronizer2`, the Random facility, hooks | `HeartbeatTracker` + distinguished + non-distinguished facility |
| `RedisBroadcast` | one Redis exporter/importer link and `oneBroadcastPublisher` | exporter + importer over Redis pub/sub |
| `MC*` | model values and definitions for TLC | - |

### RemoteSubscriber

The dataflow runtime runs each of the following consumers on its own thread,
fed by its own FIFO queue:

- the self-loop's extra-output consumer (`extraQ`);
- the connection-change consumer `removeID` (`removeQ`);
- the facility's request handler (`reqQ`);
- the order-output consumer `saveIDAndRemoveConnector` (`outQ`).

The model keeps these four queues separate. Each helper function body runs
under `idStorageMutex`, so it is one atomic step.

**Environment actions**

- `Register` and `Deregister` stand for the tracker's actions as applied by the facility. They are modelled from the spec.
- `ServerReply` stands for the remote server answering a request.

**Bounds and variables**

- `MaxChanges` bounds Register/Deregister actions and is set to 4 (two servers).
- `exited` models `env->exit()`. It ends the process, and every action is guarded by `~exited`.
- `opened` is the servers' side: the subscriptions `[loc, sid]` a server holds. A server opens one when it acknowledges a Subscription and closes it when it acknowledges the Unsubscription. A Deregister means the server is gone, so its subscriptions go with it.

**Fairness**

- Weak fairness is assumed on each internal consumer thread and on server replies to in-flight requests.
- No fairness is assumed on Register, Deregister or the exit trigger, which belong to the environment.

**Runs**

- `subscriber_safety` (pass) checks three properties:
  - `TypeOK`;
  - `PrimingPerRegister`;
  - `EveryRegisterPrimed`: every Register the facility applies is eventually followed by its priming request, unless the process has exited. With `PrimingPerRegister`, that is exactly one priming request per Register.
- `subscriber_stale_id` (violation) checks `IdStorageTracksLive`. Trace:
  1. Register l1.
  2. The self-loop sends the priming request and the server replies.
  3. l1 deregisters.
  4. `removeID` runs before `saveIDAndRemoveConnector` has seen the reply, which then stores an id for the dead connection.

  Spec 4.5 says a Deregister drops the id for good.
- `subscriber_exit` (violation) checks `CleanShutdown`: once the exit source fires, the process eventually exits, and by then no server still holds a subscription. The spec says the map is used at shutdown to pair every subscription with an Unsubscription, and that `env.exit()` follows the acknowledgements (S6). The code breaks this in two ways.

  The process may never exit:
  - a subscription acknowledged after the exit trigger is never unsubscribed;
  - `removeID` can empty the map without calling `env->exit()`.

  The process may exit too early, leaving a subscription open on a live server:
  - the map is empty at the trigger while a Subscription acknowledgement is still queued for `saveIDAndRemoveConnector`;
  - a late `(l, false)` has erased the id of `l`'s next session.

  Before choosing the property, each of the two early-exit traces was reproduced with TLC on its own.

### ZmqTransport

**Model values**

- Three clients:
  - `c1`: no filter, with a hook that maps `x1` to `x2` and drops `x2`;
  - `c2`: exact match on `t1`;
  - `c3`: a regex matching `{t2}`.
- Two topics and two contents.
- The publisher hook swaps the two contents.
- `x1` on the wire is over 16 MiB.

**Bounds**

- `MaxPub = 3`: three publishes are enough to get a batch splice while a send is in flight.
- `MaxGarbage = 1`: one undecodable frame.

**Modelling choices**

- The regex is modelled by the set of topics it matches (`RegexMatch`).
- A frame is delivered to all its targets in one step because the receive loop holds `mutex_` for the whole walk.
- The socket may drop any frame it sends.
- The sender of a port and the subscription of a host:port are created, with their threads, on first use (`GetOrStartSender` in `GetPublisher`, `GetOrStartSubscription` in `AddSubscriptionClient`). A caller publishes only after `getPublisher`; frames reach the subscriber socket only once it exists. `AddSubscriptionClient` is one step: a frame the receive loop takes between its two critical sections has no client yet, which is the same as a lost frame.
- Destruction follows libzmq and cppzmq. `ContextTerminate` is the destructor of `ctx_`, the first member destroyed. `zmq_ctx_term` then blocks until every socket is closed, and every socket call after it fails with ETERM. cppzmq throws on ETERM, and `run()` catches nothing. So the receiver's next `recv` (`ReceiveTerminated`) and the sender's next `send` (`SendTerminated`) each end the process with `std::terminate` (`aborted`). A sender with nothing queued makes no socket call at all, so it never closes its socket and `zmq_ctx_term` never returns. The destructors of `senders_` and `subscriptions_`, which would clear `running_` and join the threads, run only after `zmq_ctx_term` returns, so they are not actions of the model. `Destroy`, the rest of the destructor, is enabled only when no thread was ever started.

**Fairness.** Weak fairness is assumed on the sender's splice and send steps,
on the receive loop, and on the two threads' failing socket calls after
`ctx_` is terminated. These are long-lived threads whose waits are bounded by
1 ms and 1 s. The rest of the destructor (`Destroy`) is weakly fair: the
destroying thread goes on as soon as `zmq_ctx_term` returns. Nothing forces
the component to be destroyed.

**Runs**

- `zmq_broadcast` (pass) checks three properties:
  - `TypeOK`;
  - `BroadcastRefinement`: `ZmqTransport` implements `TopicBroadcast!Spec` under a mapping that projects each client's deliveries to `[idx, content]`;
  - `SenderDrains`: every enqueued item leaves the sender's queues unless destruction has begun.
- `zmq_teardown` (violation) checks `DestructionCompletes`: once destruction begins, the destructor returns. The spec says destruction joins all owned threads before releasing sockets. In TLC's trace a subscription is started, `ctx_` is terminated and the receiver's `recv` then throws out of its thread. The other way it fails was confirmed separately: with only a publisher, `ctx_` is terminated while the sender idles and `zmq_ctx_term` blocks forever. Only a component that never started a thread is destroyed cleanly.

`CHECK_DEADLOCK FALSE` is used in both models. The processes really do idle:
they wait on sockets and heartbeats once the bounded environment is
exhausted. `RemoteSubscriber` also idles after `exit`. In `ZmqTransport`
nothing runs after `std::terminate`, after the destructor has returned, or
while `zmq_ctx_term` waits on an idle sender's socket.

### GrpcClient

`calls[g]` is the g-th `OneCallReactor`. Its phase follows gRPC's contract:

- `OnReadDone` runs once per read;
- a streaming call re-reads after a good read;
- `OnDone` runs once no read is pending.

`eraseReactor` is split into its two halves. `markEndHandlingRequest` runs
first, outside the lock, and the erase runs second, under `reactorMapMutex_`.
The handler thread handles requests only after `waitForStart` has seen
`channel_`.

**Model values and bounds**

- two ids;
- `MaxReq = 3`, so that one id is requested twice;
- `MaxStream = 2` messages per streaming call.

**Fairness.** Weak fairness is assumed on `start()`, on the handler thread and
on each completion callback. A pending read is assumed to complete, with data
or with false. At this layer the code sets no timeout, so this is an assumption
about the server or the transport, and it is stated as such.

**Runs**

`singleCallback` (the constructor's `isSingleCallbackServer`) is chosen
once in `Init` and never changes, so one run covers unary and streaming
servers.

- `grpc_reactors` (pass), for both kinds of server, checks:
  - `TypeOK`;
  - `OwnsRunningReactors`: `reactorMap_` owns exactly the reactors that gRPC may still call back, each under its own id;
  - `EveryCallEnds`.

A failed single-callback call ends without publishing anything, so the
caller waits for a reply that never comes. The spec does not say that a
reply must come, so this is recorded as a hazard at
`GrpcClientFacility.hpp:89` and not as a run.

A duplicate request id is ignored only while its first reactor is in
`reactorMap_`; a later retry runs the call again. The model lets ids repeat
and checks that a concurrent duplicate never replaces a running reactor. It
does not check the stronger reading of the comment, which the spec does not
settle (see the hazard at `GrpcClientFacility.hpp:142`).

`actuallyHandle` holds `reactorMapMutex_` while it creates and starts the
call, and `OnDone` takes the same mutex in `eraseReactor`. This would
deadlock if gRPC ran `OnDone` inline on the handler thread. gRPC's callback
client, which is not under `src/`, never does that: its reactions are not
inlined into `StartCall` or `StartRead`. So the model runs every reaction on
gRPC's own threads, and this is not a hazard of this code.

### JsonRestClient

`cfg` ranges over every combination of:

- the locator flags `use_get`, `simple_post`, `no_query_body` and `no_wrap`;
- `http_method` (empty or `PUT`);
- the request kind: pair-like, empty, JSON-only, or ComplexInput;
- the reply kind: raw, with status, or JSON.

A reply body is one of:

- `wrapped`: `{"response": ...}`;
- `bare`;
- `garbage`: not JSON.

**Fairness and bound.** Weak fairness is assumed on the handler thread and on
the HTTP client calling back each request. `MaxReq = 2`.

**Runs**

- `json_rest_encoding` (pass) checks `TypeOK` and `PayloadSentOnce`.
- `json_rest_replies` (violation) checks `RequestsComplete`: every request, whether from a facility or a one-shot call, eventually completes. A facility request completes with a published reply. A one-shot call completes when its promise is set. An undecodable reply leaves a facility request without any reply. It also leaves a one-shot call's promise unset: the caller never gets a reply, and its `future.get()` most likely ends with `std::future_error` (broken_promise) once the callback holding the promise is destroyed.

### ManagedFacilities

One Designated facility with two servers (`d1`, `d2`) and one Random
facility with one server (`n1`).

**The tracker.** `ManagedFacilities` instantiates `HeartbeatTracker`.

- `Heartbeat(l)` is a heartbeat from a server that is up. It sets `last_seen = now`, and a new key is appended to the tracker's insertion order.
- `Advance` moves the clock.
- `Crash(l)` stops a distinguished server. It stops heartbeating and stops answering.
- `Tick` is `processHeartbeatMessage` on a clock tick. It emits one action per entry whose liveness changed (alive iff `now - last_seen <= ttl`), in insertion order. Each action becomes one array from the parser, with the action at its facility's index and `NoChange` elsewhere, following `HeartbeatMessageToRemoteFacilityCommandConverter`. `Tick` also clones each array into the two branchers (`run`, lines 524-542). In the code the parser and the two branchers are separate dataflow actions; the model folds them into one step. That changes no observable order: the branchers only copy and pick elements of the array, and `synchronizer2` queues each of its two inputs until the other side arrives, so an array reaching one branch before the other is the same as both arriving together.

**The facilities.**

- `DApply` and `DInitialReply` model `setupVIEFacilitySelfLoopAndWait` from spec 4.4, since that code is not under `src/`. A Register opens the session and primes it. The array is passed on by `nextTriggeringSource` only when the initial reply comes back, which needs the server to be up.
- `Synchronize` is `synchronizer2`: one trigger and one non-distinguished array are consumed together.
- `NApply` is the Random facility applying `getOneAction`'s element.
- Sessions record the hooks they were opened with. The Designated facility is built without the hook-pair factory (line 263), and `run` builds the Random facilities without passing it on (line 596), so the default factory is used.

**Bounds.** `TTL = 1`, `MaxTime = 3` and `MaxTicks = 3` (arrays emitted).
With these, a server can register, expire at the first tick after
`last_seen + ttl`, and register again. A tick can also emit two actions at
once. One tick more takes the run past five minutes.

**Fairness.** Weak fairness is assumed on the dataflow threads (`DApply`,
`Synchronize`, `NApply`) and on a running server answering its priming
request (`DInitialReply`). Nothing forces a heartbeat, a tick or a crash.

**Runs**

- `managed_safety` (pass, servers may die) checks:
  - `TypeOK`;
  - `NonDistinguishedAfterDistinguished`: the Random facility gets arrays in the parser's order, each only after the self-loop has finished it;
  - `LiveSetsFollowTracker`: whenever nothing is in flight, each facility's sessions are exactly the tracker's registered entries for its servers;
  - `ProgressUnlessPrimedServerDied`: an array can be held back only by a wait on a dead primed server.
- `managed_stall` (violation) checks `AllTicksApplied`. A distinguished server that dies before its initial reply stops every later change, Deregisters included, from reaching the non-distinguished facilities. Whether the distinguished facility's own later actions stop too depends on `setupVIEFacilitySelfLoopAndWait` blocking while it waits; that function is not under `src/` and is modelled from the spec. The violation does not depend on it: it is shown on the non-distinguished facility. The tracker can register a server that has already died, as long as it is still within its TTL, so this can happen.
- `managed_hooks` (violation) checks `SessionsUseFactoryHooks`. Every session opens without the hooks of the factory given to `run`.

### RedisBroadcast

`Init` chooses:

- the publisher that `oneBroadcastPublisher` returns for a protocol, or `throw`;
- the exporter kind (typed when the dispatch created it);
- the importer kind;
- the importer's pattern (a topic or `*`).

Redis keeps every published message in `msgs` and marks whether it was
pushed to the subscriber. `wire` is the subscriber's socket. `calls` counts
`handle` calls and foreign publishes. `MaxMsgs = 3`, two topics, and bodies
`ok` or `garbage`.

**Fairness.** Weak fairness is assumed on the two `start` calls, which the
runtime makes, and on the subscription callback. Nothing forces `handle`
to be called.

**Run.** `redis_link` (pass) checks:

- `TypeOK`;
- `ExporterReachesImporter`: a message handed to a started exporter while a matching importer is subscribed is eventually published by the importer.

### Mutants

Each property of a passing run is broken by a mutant of the code it is about:

- classifier accepting every result -> `PrimingPerRegister`
- classifier testing for Deregister -> `EveryRegisterPrimed`
- converter forwarding the action type -> `TypeOK`
- sender taking a batch only when two items wait -> `SenderDrains`
- `callClient` ignoring the hook -> `BroadcastRefinement`
- receiver not dropping suppressed clients -> `TypeOK`
- `actuallyHandle` without the duplicate check -> `OwnsRunningReactors`
- map entry naming the previous reactor -> `TypeOK` (gRPC)
- `OnDone` only after a failed read -> `EveryCallEnds`
- request body ignoring `use_get` and `no_query_body` -> `PayloadSentOnce`
- empty `http_method` passed on as the method -> `TypeOK` (JSON REST)
- non-distinguished brancher taking the distinguished element -> `TypeOK` (managed)
- `synchronizer2` releasing arrays without a trigger -> `NonDistinguishedAfterDistinguished`
- `synchronizer2` waiting for a second trigger -> `ProgressUnlessPrimedServerDied`
- `synchronizer2` forwarding only the last queued array -> `LiveSetsFollowTracker`
- `oneBroadcastPublisher` not checking the environment's support -> `TypeOK` (Redis)
- exporter `handle` with the `env_` test inverted -> `ExporterReachesImporter`

## 3. Plan for the next modules

1. `ZmqTransport`: several endpoints behind the host:port and port registries. They share only the registry maps, so the gain would be small.
2. `ManagedFacilities`: two non-distinguished facilities (`getOneAction` per index), if the state space allows it.
3. `HeartbeatTracker` is modelled from the spec (its code is not under `src/`); a property about it would say nothing about this repository, so none is checked beyond its use by `ManagedFacilities`.

## 4. Not modelled

- Byte-level CBOR encoding, JSON encoding, URL building and channel-spec parsing are formatting. They are abstracted to "decodes / does not decode".
- ConnectionLocator, the dataflow runtime and the RPC libraries are not under `src/`.
- The endpoint registries (`getOrStartSubscription` keyed by host:port and `getOrStartSender` keyed by port) are reduced to one endpoint.
- `HeartbeatMessageToRemoteFacilityCommand` and its converter to per-facility arrays have only declarations under `src/`. They are modelled from the spec, and their map entries are marked `spec_modelled`.
- Two compile-time mismatches are outside what a model checker can reach:
  - The recursive call at `MultiTransportRemoteFacilityManagingUtils.hpp:322-327` omits the `InitialCallbackPickers` template argument and the pickers argument. So `run` compiles only with at most one distinguished facility, and the model has exactly one. A chain of several distinguished facilities is not modelled, because that code cannot be built.
  - `oneBroadcastPublisher` calls `createTypedExporter` with three arguments (locator, hook, name). `RedisImporterExporter::createTypedExporter` takes two. The model keeps the dispatch and the exporter the Redis branch would create.
- `RemoteTransactionSubscriberManagingUtils::createSubscriber` calls `MultiTransportRemoteFacilityManagingUtils<R>::setupOneDistinguishedRemoteFacility`, which no file under `src/` defines. So `createSubscriber` compiles only against a version of the utilities that has it. `RemoteSubscriber` wires the subscriber as `setupDistinguishedRemoteFacilitiesInternal` would for a single facility. That function's classifier, self-loop creator and converter are in the map. The branch without an exit source (`removeConnector`, lines 146-161) only drops the locator from each key. It has no state, and it is not modelled.
- `GrpcClientFacilityFactory::runSyncClient` is a blocking call on the caller's thread. It has its own channel and context and shares no state with the facility, so there is nothing to interleave.
- Found by reading the code, with no run: `typedOneShotRemoteCall` labels a `simple_post` form body `x-www-form-urlencoded`, which is not a MIME type (`JsonRESTClientFacility.hpp:445`). `createClientFacility` uses `application/x-www-form-urlencoded`. A unit test on the request reaches this directly.
