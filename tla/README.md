# A verification of the Kalix JavaScript SDK

TLA+ models of the SDK in `src/sdk/src`, of its test kit, its code generator and
its npm scripts, the TLC configurations that check them on small instances, and
TLAPS proofs of their main properties for every instance. `PROJECT.json` maps every definition to the lines it models.

## 1. The system

A Kalix service is a node process that serves gRPC calls of the *Kalix proxy*.
The proxy owns the durable state (journals, snapshots, values, replicas) and
the clients; the SDK keeps what is needed to run the user's handlers and
answers what the proxy asks. One event loop runs everything: a *turn* reads a
message or runs user code up to an `await`, and the continuations of settled
promises run before the next turn.

| Component (source) | State | Operations | Talks to | What is hard |
|---|---|---|---|---|
| CommandHelper (`command-helper.ts`) | one context per command: active, error, effects, forward, reply | `handleCommand`, `invoke`, `invokeHandlerLogic`; `ctx.effect/forward/fail` | the entity kinds call it; writes to the stream | a context is alive until *after* the entity has done its part; five ways to fail that combine |
| Event sourced entity (`event-sourced-entity-support.ts`) | `anyState`, `sequence` per stream | Init with snapshot, event, command, snapshot request; `emit` | proxy's journal | events applied before the answer is decided; snapshots inside batches; handlers that throw half way |
| Value entity (`value-entity-support.ts`) | `anyState` per stream | Init, command; `updateState`, `deleteState` | proxy's value store | memory changed before the answer is decided; update/delete order |
| Replicated entity (`replicated-entity-support.ts`) | `currentState` per stream | Init, delta, delete, command; `ctx.state`, `ctx.delete` | proxy's replicas | remote deltas and deletes while a handler runs; pending deltas of failed commands |
| Replicated data (`replicated-data/*.ts`) | value and accumulated delta | mutators, `getAndResetDelta`, `applyDelta` | replicated entity | the delta must say what the local operations did, in any order |
| Action (`action-support.ts`) | per call: answered, effects, callbacks | unary, streamed in, out, both | proxy | callback, return value and promise race to answer |
| View (`view-support.ts`, `view.ts`) | none; the rows are the proxy's | one event, one upsert, or the end of the call | proxy | a failure is not reported: only the absence of an upsert makes the event come again |
| Kalix service (`kalix.ts`) | proxySeen, proxyHasTerminated, waitingForProxyTermination, devMode | start, discovery, version probe, ProxyTerminated, SIGTERM, shutdown | proxies, OS | the order of signals, discoveries and terminations, of one proxy after another |
| Integration test kit (`testkit/src/integration-testkit.ts`) | the service, the proxy's container, its port | start, shutdown | service, Docker | a start that fails half way; discovery before the port is known |
| Test kit mocks (`testkit/src/mock-*.ts`) | the state, event log and error of one entity | `handleCommand`; the context's `updateState`, `deleteState`, `emit`, `fail` | tests | a test goes on with the state a failed call has left |
| Registration and clients (`kalix.ts`, the component classes, `grpc-util.ts`) | the process's supports; each component's client creators; headers of a user's Metadata | constructors, `addComponent`, `start`, discovery, `preStart`, `createClient`, requests | proxy, other services | what is shared by the services of one process; what stays behind in a Metadata object |
| Metadata (`metadata.ts`, `cloudevent.ts`, `jwt-claims.ts`) | the list of entries | `get/set/delete/has/clear`, the map, cloud event, principals, claims | user's handlers | five views on one list, spelling, empty values, an assignment that throws half way |
| Any (`protobuf-any.ts`) | none | `serialize`, `deserialize`, `toComparable` | all components; keys of replicated data | defaults without a byte, values of different types that look alike, fields of other writers |
| Code generator (`codegen/`) | the files of the user's project | introspection of the descriptor, one write after another | npm scripts, user | a run over files of earlier runs and of the user, that may end between two writes |
| npm scripts (`npm-js/`, `sdk/bin/download-protoc.js`) | archives, descriptors, generated code, images | create, install, build, package, deploy | protoc, docker, the proxy's cloud, user | each script trusts what an earlier one left on disk |
| Replies and effects (`reply.ts`, `effect-serializer.ts`) | a Reply: message, forward, failure, effects | `message`, `forward`, `failure`, `setX`, `addEffects`; `serializeEffect` | the two handlers of commands, which turn a Reply into an answer | two pieces of code that make the same answer of the same Reply, or not |
| TCK (`tck/src`) | the value of an entity, in memory and persisted; the data of a replicated one at each node | one handler for a request of many steps: `process`, `processUnary`, `processStreamedIn`, `processStreamedOut` | proxy | the handler shows a state it has brought up to date itself; Replies merged over the messages of a stream; data made in three different ways |
| Samples, documentation | - | - | - | not modelled, see section 8 |

What makes each correct. *Entities*: the memory equals what the proxy has
persisted whenever a new command may start; a handler decides on all of that
state; every command is answered exactly once; nothing of a failed command is
persisted; what is persisted can be replayed; the snapshot is a prefix of the
journal and recent enough; no change of a replica is lost or counted twice.
*Replicated data*: the delta leads another replica to the same value, and is
sent once. *Actions*: one answer, side effects with it once, silence after
cancellation. *Service*: it stops when told, and never under a proxy that
serves. *Test kit*: components get the container's port, and the service goes
after the proxy; a mock is the entity it stands for. *View*: a row is what the
handler made of all events, each taken once and in order. *Registration*: what
the proxy was told of is what the process serves, and a request proves the
sender's identity to its addressee and to nobody else. *Metadata*: each view
reads what all of them wrote. *Any*: a value comes back as it was, and values
compare equal when they are. *Generator and scripts*: the user's files are
kept, and what a successful script leaves is all of the present project.
*Replies*: a Reply is answered as it says, by an entity and by an action, and
an empty one with an empty message. *TCK*: a response shows the state that is kept, or what the
updates of all requests make; its answer is what the last deciding step asked
for, with no side effect lost or doubled.

## 2. Modules

| Module | Models |
|---|---|
| `CommandHelper` | the command context, how a handler may settle (`Results`), and `Answer`: the messages `handleCommand` writes for it |
| `EntityStream` | the `Handle` call shared by the entities: opening, Init, protocol errors, half-close, loss; one command from `CommandSent` to `AnswerWritten`; the proxy reading answers |
| `EventSourcedEntity` | one event sourced entity over `EntityStream`, with the proxy's journal and snapshot store |
| `EntityJournal` | abstract: an atomic log that takes a whole batch with a success and nothing with a failure |
| `ValueEntity` | one value entity over `EntityStream`, with the proxy's value store |
| `EntityRegister` | abstract: an atomic register that only a success changes |
| `ReplicatedData` | the eight replicated data types as operators: every mutator, `getAndResetDelta`, `applyDelta` |
| `DeltaExchange` | two replicas of one object of any of the types, which give each other their deltas |
| `ReplicatedEntity` | one replicated entity of a counter over `EntityStream`, with the proxy's replica and the changes of other nodes |
| `ActionCall` | one call of an action, of each of the four kinds |
| `KalixService` | the process of a service, its server, its flags, and the proxies that call it |
| `IntegrationTestkit` | composes `KalixService` with its owner: a deployment or the integration test kit |
| `ViewUpdate` | a view's `Handle` calls, with the proxy's rows and offsets |
| `EntityMocks` | a mock entity and its contexts, beside what the real entity's proxy would have persisted |
| `ComponentServices` | construction and registration of components, discovery's description of them, gRPC clients and their headers |
| `MessageMetadata` | the metadata of one message and every view on it |
| `AnyValues` | `serialize`, `deserialize`, `toComparable`, and two replicas that find their keys by them |
| `Replies` | the Reply, its targets, and the answer an entity and an action make of it, as operators |
| `TckModels` | a request to the TCK's event sourced entity, value entity or action, step by step, and a component of one's own that builds a Reply |
| `TckReplicatedEntity` | requests to the TCK's replicated entity at two nodes, over `ReplicatedData` |
| `DataExercises`, `DataExercisesMC` | `DeltaExchange` and `TckReplicatedEntity` side by side, and a small instance of them |
| `ComponentLibrary`, `ComponentLibraryMC` | `ViewUpdate`, `EntityMocks`, `ComponentServices`, `MessageMetadata`, `AnyValues` and `TckModels` side by side, and a small instance of them |
| `CodegenModel` | the generator's model of a descriptor, as operators |
| `CodeGenerator` | the plan of a run of the generator, and its writes, one at a time |
| `ProjectBuild`, `ProjectBuildMC` | a project on the user's disk over `CodeGenerator`: created, installed, built, packaged, deployed and edited; a small instance |
| `EntityStreamProofs` | lemmas about `EntityStream` for any component that conjoins to it |
| `EventSourcedEntityProofs`, `ValueEntityProofs`, `ReplicatedEntityProofs`, `ActionCallProofs`, `ComponentLibraryProofs` | theorems about those modules |
| `DeltaExchangeProofs` | theorems about `DeltaExchange` and `DataExercises` |
| `ToolingProofs` | theorems about `IntegrationTestkit`, with `KalixService`, and `ProjectBuild` |

A component's action is a stream action conjoined with what it does to its own
variables (`ReceiveCommand == ... CommandReceived(...)`), so each action is one
turn of the event loop: a turn that reads a message (`CanRead`), turns of the
user's handler (`Emit`, `RecordAction`, `Fail`, `UpdateState`, ...), the turn in
which its promise has settled and the entity does its part (`Settle`), and the
continuation that writes the answer (`WriteAnswer`). Between the last two only
other promise callbacks run (`CanRead` demands `ctx.pc # "settled"`), but the
context is still active, so `Emit` may come between them when `EmitsLate`.
`EventSourcedEntity`, `ValueEntity` and `ReplicatedEntity` all extend
`EntityStream` in this way.

The state of an event sourced entity is represented by the sequence of events
that were applied to the initial state; an event by its command, its position
and whether the entity's event handler can apply it. Everything else of a
message is left out, but for the client action and the number of side effects.

The proxy is not in the repository. It is modelled from the messages the SDK
exchanges with it and is marked external in the map: it sends Init, replays the
journal from the snapshot, sends one command at a time
(`docs/src/modules/javascript/partials/eventsourced.adoc:16`), persists what a
reply carries together with telling the client, and may close or lose a stream
at any time.

`DeltaExchange` lets one replica change at a time: while it has changes that
were not taken from it, the other one has none. How proxies merge concurrent
deltas is theirs, and not in the repository; for votes, which only the proxies
can count, the delta of the other replicas is computed from all votes.
A replicated map is modelled with counters as its values.

`ReplicatedEntity` takes a counter for the data, because the handler treats all
types alike and a counter shows every change that is lost or doubled.
`inbox` holds the deltas and deletes of other nodes that the service has not
read; they are read in turns of their own, also between the turns of a running
handler, but before a command that was sent after them. Handlers work on
`ctx.state`. `asked`, `acked`, `others` and `unread` are history: what the
awaited command did, what acknowledged commands and other nodes did, and the
sum of `inbox`.

`ActionCall` is one call: calls share nothing but the user's own variables.
`turn` is the user's code that runs; a handler that returned a promise goes on
in turns of its own. An answer is a call of the gRPC callback, or a write on
the stream. `uncaught` stands for an exception or rejection that leaves the
SDK: what node does then is not the SDK's. A Reply or message is abstracted to
what it answers (reply, forward or failure), whether it can be serialized and
how many side effects it brings. A unary call looks at `alreadyReplied` before
it answers with what its handler returns or its promise is fulfilled with; a
streamed in call does not, and its second answer is part of the model. What
the handler itself does with a call it has answered is a habit of its:
"repeats" answers it through the context again, "mixes" fails, or returns a
value where that is not ignored.

`KalixService` lets one proxy run at a time. A call of a proxy that is gone is
never read. `IntegrationTestkit` owns the options of the service
(`delayDiscoveryUntilProxyPortSet` is set by the kit), and its tests call
`shutdown` after the callback of `start`. When the container's `start()`
rejects, no container and no proxy is taken to live on: the kit has no handle
of one that does.

`ComponentLibrary` extends the six modules of the parts a component's own code
and tests work with. They share no state of the program, so that a behaviour
exercises one of them (`part`) and the variables of the others stay as they
are: their product would multiply states and show nothing that one of them
does not show.

* In `ViewUpdate` the proxy is external: it has one call at a time for a
  subject, stores the row together with the event's offset, and sends an event
  again when its call ended, or was lost, without an upsert. A row is
  represented by the events that went into it.
* In `EntityMocks` a call is a turn up to the `await` of the handler, turns of
  the handler (`MockUpdateState`, `MockEmit`, `MockFail`, ...) and the turn after
  it (`SettleValue`, `SettleEventSourced`, `HandlerThrows`). `asked` is what the
  handler asked for, in a context of its own as the real entity gives it, and
  `stored` what the proxy would have persisted; the real side follows
  `CommandHelper` and the two entities.
* In `ComponentServices` several `Kalix` objects live in one process, as in the
  suites of a test run. `supports` are the singletons of the support modules,
  `told` what a service's last discovery answered, `clientsOf` the client
  creators `preStart` made. A service has one component for a service name, as
  a proxy demands. A request is made with the arguments of its kind of method,
  into which the patched method splices the header; grpc-js reads its Metadata
  after the message, if there is one.
* In `MessageMetadata`, `written` is history: per key, the values given to it
  and not taken from it since. Claims are functions of a text, and the instance
  lists texts with what `parseFloat` and `JSON.parse` make of them: an
  assumption of the instance (`MCClaimsFit`) says that the getters give what
  the texts are texts of. `get` and the map are written apart, as in the code,
  where they agree on what they leave out.
* `AnyValues` uses the conversions as `ReplicatedCounterMap` does: `index` is
  its `Map` from comparables, `wire` the serialized keys, into which another
  writer may have put a field more. Keys are values of all sorts, messages of
  several types among them, and `serialize` is called with any options: with
  JSON and without primitives a buffer or a long is written as an object.
* In `TckModels` the handler of a request is one turn; a step of the request is
  a step of the specification so that requests need not be enumerated. `wanted`,
  `due` and `fresh` are history: the kind of answer the steps ask for, the side
  effects the answer owes, and those of the steps since it was last decided.
  The `Restart` of an entity between requests reads the persisted value back.
  A request to a value entity does not change the state and fail as well
  (`MixesFailure`); to an event sourced entity it may. A component of one's own
  is an entity, or an action whose response is of a type of its own or an Any.

`TckReplicatedEntity` handles a request in the same way. `said` is history: what
the updates of all requests make, one after another, since the entity was
last deleted. The proxies bring what a request published to the other node
before the next one. Data is made in three ways, and `made` tells them apart:
by the handler (with the blank value, and for a map with a default value of its
keys), for the first delta (with the SDK's `{}`, and without a default), and
anew after a delete. A request fails only at its first step: what a failed one
has changed is `ReplicatedEntity`'s subject.

`CodegenModel` takes a descriptor's files, services and options to the model,
or to the failure the generator ends with. `CodeGenerator` makes of a model
the list of writes (`GeneratePlan`); each write is a step, so that a run can
end between two of them. Writing one file is taken to be atomic. A file is what
its text is made from, and whether the tools manage it or the user. In
`ProjectBuild` a script's external programs either do their work or end with a
status that is not 0, at any step and `MaxFailures` times; the user acts
between scripts. The download of protoc also fails with success: what came is
kept, and the script goes on.

## 3. Constants

| Constant | Meaning |
|---|---|
| `MaxCommands`, `MaxStreams`, `MaxEmits`, `MaxEffects` | bounds: commands, streams, events and side effects of a command |
| `SnapshotEvery` | the option of the event sourced entity |
| `Values`, `InitialState` | values of a value entity (and, without the second, of a register, or the texts of a request to the TCK) |
| `SwallowsFail`, `EmitsLate` | handlers may catch the error of `ctx.fail` and go on; may call `ctx.emit` from code they do not await |
| `MixesFailure` | handlers (and requests to the TCK's value entity) may change the state and then fail without throwing |
| `DeletesMerged` | handlers that found no entity may delete the one they made after another node's change was merged into it |
| `MaxChange`, `MaxRemotes` | bounds: net change of a command, changes by other nodes |
| `Elements`, `Keys`, `EmptyObject`, `Steps`, `MaxCount` | data of the replicated types; `EmptyObject` is the `{}` of a register without a value; `MaxCount` bounds counters |
| `ReusesValues` | a value that a map holds may be set into it again |
| `MaxWrites`, `MaxData` | bounds: answers and requests of an action call |
| `Habits` | what an action's code may do besides answering once: throw its own error, answer again, fail or return a value after it has answered, swallow the context's errors |
| `Parts` | the parts of `ComponentLibrary` that are exercised |
| `Subjects`, `MaxEvents` | subjects of a view, and a bound on the events of each |
| `HandlerResults` | what a view's handler may do; "promise" is left out: a promise is stored as an empty row |
| `MockCalls`, `MockValues` | calls of a mock, and values of its state and events |
| `Habits` (of `EntityMocks`) | what a test does that a mock does not follow: overlapping calls, a context used twice, an update after a delete, a change together with a failure, a state changed in place by a handler that fails, events that cannot be applied |
| `Hosts`, `Components`, `Identity`, `Addresses`, `Metadatas`, `MaxClients`, `MaxRequests` | services of a process, components, proxies with their identification info, addresses of clients, Metadata objects; bounds on clients and requests |
| `Overlapping`, `LateComponents`, `ReusesMetadata` | services may run at the same time; components may be added after start; a Metadata object may go with a second request |
| `KeyNames`, `Spellings`, `TextValues`, `BufferValues`, `Attributes`, `SourceKey`, `ServiceKey`, `HttpKey`, `HttpCodes`, `ClaimTexts`, `MaxEntries` | keys, values and claims of metadata; a bound on entries |
| `SetsDataschema`, `HasEmptyEntries` | a cloud event's dataschema is set; an entry may be an empty text, or have no value |
| `Contents`, `MessageTypes`, `ObjectTypes`, `MaxKeys` | values and their types; a bound on keys |
| `Dir`, `IntegrationTests`, `TypeScript` | configuration of the generator |
| `Projects`, `MaxEdits`, `MaxFailures`, `Versions` | protobuf sources of a project; bounds on edits, failures and versions |
| `DescriptorArgument` | protoc's arguments send the descriptor elsewhere than configured |
| `Services`, `Call`, `Methods` | the commands of the registered components; the TCK's `two.service.methods.Call`; what a component of one's own takes for methods, be they or not |
| `MaxSteps`, `MaxState` | bounds: steps of a request, length of a persisted text |
| `Exercises` | the parts of `DataExercises` that are exercised |
| `Blank`, `Changes`, `MaxSaid` | the empty text of registers; by how much an update changes a counter, and a bound on its value |
| `Proxies`, `DevProxies`, `MaxSignals` | proxies, those in development mode, and a bound on SIGTERMs |

## 4. Runs

| Run | Question | Bounds | States |
|---|---|---|---|
| `es_recovery` | with disciplined handlers, do memory and journal agree and can a stream recover from the snapshot and what it leaves to replay, whatever streams do? | 3 commands of up to 2 events, 3 streams, snapshotEvery 3 | 725 000 |
| `es_anyhandler` | whatever handlers do, is the journal an atomic log, and does no command hang? | 2 commands of up to 2 events, 2 streams, snapshotEvery 2 | 503 000 |
| `es_swallowed_fail` | violated: memory and journal agree when the error of `ctx.fail` is caught | 2 commands of 1 event, 1 stream | - |
| `value_disciplined` | is the memory the persisted value, and the store an atomic register? | 3 commands, 3 values, 3 streams | 340 000 |
| `replicated_data` | does a delta lead another replica to the same value, for all types and any calls, and does a response show what all updates make? | 3 elements, 2 keys, 2 values, steps of 1 and 2, counts up to 2; requests of 3 steps at 2 nodes, changes of -1 to 1, counts up to 1 | 246 000 |
| `replicated_disciplined` | is no change lost, doubled or acknowledged for nothing, against other nodes? | 2 commands of change 1, 2 streams, 2 remote changes | 482 000 |
| `action_calls` | one answer of a unary call, effects once, and an answer in the end? | 2 effects, 2 writes, 1 message | 194 000 |
| `action_async` | violated: one answer when a streamed in handler is asynchronous and answers through the context | 2 writes | - |
| `kalix_lifecycle` | does the service stop when told and never under a serving proxy, and the kit stop things in order? | 3 proxies, one in development mode, 2 SIGTERMs | 2 000 |
| `component_library` | are mocks, registration, clients, metadata, Any, views, Replies and the TCK's components what they promise? | 2 services, 3 proxies, 1 client, 2 requests; 2 mock calls of up to 2 events; 3 entries; 3 keys of 18; 2 subjects of 3 events and 2 failures; requests of 4 steps, texts up to 3 | 744 000 |
| `project_build` | does a successful build leave all of the present project, and every script the user's files alone? | 3 protobuf sources, 2 edits, 1 failure, 2 versions | 1 027 000 |
| `project_deploy` | violated: a successful deploy runs the project as it is | 1 edit, no failure | - |

Why the bounds suffice. Three commands of two events over a snapshotEvery of
three let a batch end on, cross, and fall short of a multiple; three streams
let a stream recover from a snapshot that an earlier recovery produced. In
`es_anyhandler` a snapshotEvery of two puts a multiple inside every full batch.
Two keys, of which one is removed or cleared while the other is updated, and a
third element tell the parts of a delta apart; the number of mutator calls is
not bounded. Two remote changes can be a delta before and a delete after a
command; two streams make memory start anew from the replica. Two writes are
what it takes to answer twice, and two effects to lose one of them. Three
proxies give a production proxy before and after one in development mode, and
the second SIGTERM comes while the service waits for the first. Two components
for one service name in two services of a process are what it takes to serve
the wrong one; three entries hold two of a key with another between them; three
keys put two that might be confused next to a third; three events with two
failures fail one twice, or two once. Four steps of a request are a change, a
decision, a side effect and another decision; three at either of two nodes, and
any number of requests, make, delete and make an entity again. Two mock calls show the second what the
first has left. The three protobuf sources replace, add and break components;
two edits change the sources there and back, or a file and the sources between
two builds, and one failure at every step of every script, with the scripts
that follow it, is what a retry meets. `HostSymmetry` is sound: no definition
tells one `Kalix` object from another, and only invariants are checked with it.

`CHECK_DEADLOCK FALSE` because bounded behaviours end: an entity whose commands
and streams are used up, a call that is answered, an exited process, an object
whose counters have reached `MaxCount` all rightly stop.

*Fairness.* `NoCommandHangs` (`EventSourcedEntity!FairSpec`): the user's
handler settles, the event loop runs the continuation of a settled promise, and
the proxy reads what was written to a live stream. The first is the assumption
on user code that no answer can do without; the second is node's promise queue;
the third is the delivery of gRPC. Nothing obliges the proxy to send, open or
close, nor a handler to emit, effect or fail. `UnaryIsAnswered`
(`ActionCall!FairSpec`): a call that was received is started, and user code
ends what it was called for, its promise included; nothing obliges it to answer
through the context, nor the client to cancel. `StopsWhenTold`
(`IntegrationTestkit!FairSpec`): a proxy that serves a service that got SIGTERM
says in the end that it stops, because the two share a pod and are stopped
together; nothing obliges a proxy to start, discover or go.

## 5. Findings

With a `violation` run of their own:

* `es_swallowed_fail`: a handler that catches the error of `ctx.fail` has its
  events applied in memory, although its command fails and nothing is persisted
  (`event-sourced-entity-support.ts:168` looks only for a failed Reply).
* `action_async`: an asynchronous handler of a streamed in call that answers
  with `ctx.write` and returns nothing, as `action.ts:404-405` asks of it, is
  answered again with an empty reply when its promise is fulfilled
  (`action-support.ts:236` does not look at `alreadyReplied`).
* `project_deploy`: "npm will also conveniently package and publish your docker
  image prior to deployment" (`template/base-common/README.md:118`), but an image
  of the same version is taken as it is (`kalix-scripts.js:143`).

Refuted by TLC as well, and not kept as runs. To see one, set the constant, or
add the property, in the configuration named:

* `ActionCall_calls.cfg`, `Habits = {"throws"}`, `AnsweredOnce`: a unary handler
  that throws is answered with a failure and then with an empty reply
  (`action-support.ts:557`); "Can only write to unary call once", says the mock
  of `test/action-handler.test.ts:67`.
* `ProjectBuild_project.cfg`, property `InstalledIsWhole`: an answer that is an
  error, or a body that breaks off, is left as protoc's archive, nothing is
  extracted, and the install succeeds (`download-protoc.js:79`); line 67 trusts
  the archive from then on.
* `ComponentLibrary_parts.cfg` with
  * `SetsDataschema = TRUE`, `WrittenIsRead`: the setter of a cloud event's
    `dataschema` writes `ce-subject` (`cloudevent.ts:119`), so that the schema is
    not set and the subject is lost ("Get or set the dataschema", line 109);
  * `HasEmptyEntries = TRUE`, `WrittenIsRead`: an empty text is there for `has`
    (`metadata.ts:416`), but not among "all the values" of `get` (`:357`, `:364`)
    nor "the first metadata entry that matches the key" of the map (`:238`);
  * invariant `IdentityFits`: for a client-streaming call without metadata the
    header is spliced behind the callback (`grpc-util.ts:213`), where grpc-js
    does not read it, against "to all request methods" (`:197`);
  * invariant `KeysAreApart`: the comparable of a protobuf message has its bytes
    and not its type (`protobuf-any.ts:159`), against the guarantee of lines
    132-139 for "any protobufjs types";
  * invariant `EmptyIsEmpty`: an action with a response of `google.protobuf.Any`
    sends the JSON of an empty Reply (`action-support.ts:180`), which "may be
    useful for emitting effects while sending an empty message" (`reply.ts:117`),
    and drops its metadata; an entity sends the empty message, with them.

Met while modelling besides. Where a constant is named, setting it to the value
given makes TLC refute the property named:

* A value entity's handler that updates the state and returns a failed Reply
  changes the memory of the entity and nothing else
  (`value-entity-support.ts:163`, against `value-entity.ts:51`;
  `MixesFailure = TRUE`, `MemoryIsStored`, and `AnswerShowsState` for the TCK's).
* A counter that is set again into the replicated map that holds it goes to the
  other replicas as an initial zero (`replicated-data/map.ts:304`, `:357`;
  `ReusesValues = TRUE`, `PeerFollows`).
* `delete` decides with the `noState` of the command's start
  (`replicated-entity-support.ts:296`): for an entity that another node made
  since, nothing is deleted but this node's memory (`DeletesMerged = TRUE`,
  `ChangesBalance`).
* The supports of all `Kalix` objects of a process are the same, so that a
  second one that runs beside the first takes over the service names both have
  (`kalix.ts:527`; `Overlapping = TRUE`, `ToldIsServed`), and a component added
  after `start` is described to the proxy and served by nobody
  (`LateComponents = TRUE`).
* The identification header is merged into the caller's Metadata and stays in
  it (`grpc-util.ts:217`; `ReusesMetadata = TRUE`), and a client keeps the token
  of a proxy that is gone. The patched methods return nothing (`:220`).
* An assignment to the map of undefined or null throws when the old values of
  the key are gone (`metadata.ts:121`).
* A mock deletes when `deleteState` was called, even before an `updateState`
  (`mock-value-entity.ts:81`), keeps the changes of a call that failed, and
  leaves the event log half-way when an event cannot be applied (the members of
  `Habits`, `MockIsEntity`).
* A view's handler that returns a promise has an empty row stored
  (`view-support.ts:113`; "promise" in `HandlerResults`, `RowIsFold`).
* A `--descriptor_set_out` among protoc's arguments leaves the generator with an
  earlier descriptor (`kalix-scripts.js:76`; `DescriptorArgument = TRUE`,
  `BuildIsCurrent`).
* "We only generate tests for entities where we are successful in generating an
  entity" (`SourceGenerator.scala:30`): a test is generated whenever it is
  missing, so that one the user removed comes back with the next build
  (`EntityServiceSourceGenerator.scala:45`).
* The side effects of a failed Reply are left out by an entity
  (`command-helper.ts:203`) and sent along by an action
  (`action-support.ts:152`); a forward to no method fails the command of an
  entity and is an empty answer of an action.
* The TCK's replicated entity makes a map with a default value only where it is
  made by the handler: at a node that was told of it, an update of a key that is
  not there is ignored. A key that is added to a counter map with a zero is
  known where it was added only (`ResponseShowsUpdates` excepts both).
* A negative `snapshotEvery` does not disable snapshots
  (`event-sourced-entity-support.ts:174`, against `eventsourced.adoc:51`).
* The pending delta of a failed replicated command stays in the data and goes
  out with the next success (`replicated-entity-support.ts:253`);
  `MixesFailure` is for it.
* A streamed in action that returns a Reply has it written as if it were the
  message (`action-support.ts:239`); a promise of its end callback is ignored
  (`:517`). The debug message of line 229, that the value is ignored after an
  answer through the context, stands behind a test of `call.cancelled`.
* A client that cancels while a unary promise is pending makes a rejection that
  nobody handles (`:194`).
* The test kit polls for discovery without a limit, and a version probe ends
  the wait too early (`integration-testkit.ts:189`).
* An Init without an entity id throws inside of the `data` callback, outside of
  any `catch` (`event-sourced-entity-support.ts:87`); commands are not awaited
  (`:252`), so that all rests on the proxy sending one at a time.
* `applyDelta` of a register forgets a local change that was not sent yet
  (`register.ts:133`); the exchange model has one replica change at a time.
* After `kalix.shutdown` a SIGTERM waits for a `ProxyTerminated` that the
  server no longer takes.

## 6. Theorems

All for arbitrary bounds, values of `SnapshotEvery` and, where not said
otherwise, any handler:

* `TypeCorrect`, `AnswersOnce`, `JournalRefinement`
  (`EventSourcedEntityProofs`). `OneAnswer` is inductive together with the type
  invariant. The refinement rests on `BatchInv`: the context's events, and those
  of a reply on the wire, are a batch of the command awaited, and a reply whose
  client action is a failure has no body; only `ReadReply` and `ReadFailure`
  are steps of the journal.
* `MemoryTheorem`, `HandlerTheorem` and `RecoveryTheorem` (also
  `EventSourcedEntityProofs`), under `~SwallowsFail` and `~EmitsLate`. Both
  assumptions are needed: TLC refutes `MemoryIsJournal` without either.
  `RecoveryTheorem` is of `IsRecoverable`: the snapshot is the state after a
  prefix of the journal, what is left to replay stays below a bound, and every
  event of the journal can be applied. None of the properties is inductive
  alone. `MemoryInv` adds what holds in between: `StoredInv` (the snapshot is a prefix, and near enough),
  `FedInv` (the stream was fed a part of the journal that covers the snapshot,
  and the whole of it once a command was sent), `WireInv` (a reply on the wire
  carries the events that memory is ahead by, all of which can be applied, and
  a snapshot of the state with them) and `LiveInv` (memory is what was delivered,
  plus the events of the settled context or of the reply on the wire).
* `TypeCorrect`, `AnswersOnce`, `RegisterRefinement` (`ValueEntityProofs`), for
  any handler. The refinement rests on `ActionInv`: a reply whose client action
  is a failure carries no state action. `MemoryTheorem` and `HandlerTheorem`,
  under `~MixesFailure` (without which TLC refutes it), rest on `MemoryInv`: of a settled command, and of a reply on the
  wire, the memory is what the store will be when the reply is read.
* `TypeCorrect`, `AnswersOnce`, `DeletedTheorem` (`ReplicatedEntityProofs`), for
  any handler; the last from `ActionInv`, as above. `AcknowledgedTheorem`, under
  `~MixesFailure`, from `ReplicaInv`: what is left in the counter is what the
  running command changed, all of it is taken when the command settles, nothing
  goes out with a failure, and the reply on the wire says what the command
  asked. `BalanceTheorem`, under `~DeletesMerged` too, from `BalanceInv`: the
  counter in memory, plus what was not read, minus what was not taken, is ahead
  of the replica by exactly the state action under way (`Ahead`).
* `ExercisesTypeTheorem`, `PeerFollowsTheorem`, `NotEchoedTheorem`
  (`DeltaExchangeProofs`), for any sets of elements, keys and values and any
  bounds; the second under `~ReusesValues`, without which TLC refutes it. They
  rest on `DataInv`: one relation per type (`CounterRel`, `SetRel`,
  `RegisterRel`, `MapRel`, ...) between an object that has changed and the
  replica that follows it, which says what the accumulated delta still owes the
  other: what was added since is in the one and not in the other, what was
  removed the other way round, and after a clear all of the delta counts from
  nothing. It is kept by each mutator, and once the delta was taken and applied
  it says that the two are equal. The third says that an object which only
  applied a delta has none to send.
* `ResponseTheorem` (`DeltaExchangeProofs`): `ResponseShowsUpdates` of the TCK's
  replicated entity, without a condition. It rests on `RequestsInv`, which uses
  the same relations: the object of the node that handles a request shows what
  was said (`Shows`) and leads what the other node has or would make for a first
  delta (`Leads`); between requests both nodes show it and neither has anything
  to tell (`Settled`); a register that one node has and the other has not was
  never told of, so its first value is still pending (`OneRegister`); a
  multimap has no key without values (`Full`); and a request that has deleted
  what it had made itself has left the data as if nothing was said. An update
  keeps the two relations, the end of the request turns what the leader shows
  into what both show.
* `TypeCorrect`, `EffectsTheorem`, `CancelledTheorem` (`ActionCallProofs`), for
  any handler; the type of the side effects needs `EffectsHeld`, that a context
  holds no more of them than were recorded. `OnceTheorem`, of unary calls, for
  handlers without the habits "throws", "repeats" and "mixes", from `OnceInv`:
  code in which the context threw, and a cancelled call, have no answer yet, and
  otherwise the context knows that there is one. Of streamed in calls it does
  not hold: see `action_async`. `EffectsOnceTheorem`: those answers carry, between them,
  each recorded side effect once.
* `TypeCorrect`, `NeverLeavesProxyTheorem`, `PortTheorem`, `ShutdownTheorem`
  (`ToolingProofs`), for any set of proxies and number of signals.
  The first safety theorem rests on `FlagsInv` (at most one proxy is live, and
  the flags are about the one that serves), the others on `KitInv` (without a
  container that is known no proxy is live, but while it starts).
* `BuildTypeTheorem`, `FilesTheorem`, `CurrentTheorem`, `IndexTheorem`
  (`ToolingProofs`), for any projects, edits, failures and versions. The type
  rests on `CopyInv`. `FilesTheorem` needs that the generated directory is not one of the user's
  (`GeneratedIsApart`) and rests on `FilesInv`: no file of the user's is in it.
  `CurrentTheorem` needs in addition that two managed files of one plan are not
  written to the same path (`NamesApart`) and `~DescriptorArgument`; it rests on
  `CurrentInv`: each tool finds what the ones before it made of the present
  sources, and each managed file of the plan is written or still to be written.
  `IndexTheorem` needs these three and `SourcesApart`: the path of a source
  belongs to one component in all the sets of sources that follow each other
  (a source that is there is not written again, so it would stay the first
  one's). It rests on `ServedInv`, each file is of the component some plan made
  it for, and while the generator runs each write of the plan is still to come
  or its file is there; and on `IndexPlanned`, that the source of each import
  is in the plan, which is about the generator's operators alone.
* `ServedTheorem`, `MockTheorem`, `ViewTheorem` (`ComponentLibraryProofs`), for
  any number of services, components, proxies, calls, values, subjects and
  events. The first, under `~Overlapping` and `~LateComponents`, rests on at
  most one service being up, whose components are those that were registered by
  its start, and on `clientsOf` being the proxy of the running service's last
  discovery. The second, for `Habits = {}`, rests on at most one call running,
  in a context of its own, whose record is what the handler asked for. The
  third, for handlers that return no promise, rests on a call being of the next
  event, over the row as it is (`CallFits`), and on a strictly increasing row
  staying so when the next event is appended.
* `WrittenTheorem`, `RoundTripTheorem`, `TypeTheorem` (also
  `ComponentLibraryProofs`). The first, under `~SetsDataschema` and
  `~HasEmptyEntries`, both of which TLC shows to be needed, rests on
  `MetadataInv`: the entries of a key, in their order, are what was written to
  it. The second is for all values, messages of several types with the same
  bytes among them, and all options of `serialize`; it rests on `ValuesInv` (the
  index has, for the comparables of the keys, keys with those comparables, and
  what arrives is what can be serialized, or the object a buffer or long was
  made) and on two values with one comparable being equal, or messages of two
  types. The third is of the six parts together, for tests that do not use a
  mock's context twice.
* `ShownTheorem`, `AskedTheorem` (also `ComponentLibraryProofs`), for any texts, services, methods and number of
  steps. The first, under `~MixesFailure`, rests on `ShownInv` (the handler's
  own state is the state the entity began with, with what was emitted or updated
  since) and `KeptInv` (the memory is what is persisted). The second rests on
  what the Reply under way is to become (`EntityAsked`, `ActionAsked`, and
  `StreamAsked` for the Reply merged over the messages of a stream): its kind is
  the wanted one and it holds as many side effects as are due.

`OneAnswer`, `HandlerSeesStored`, `EffectsGoAlong`, `CancelledIsQuiet`,
`DeletedBySuccess` and `NotEchoed` are proved and not among the properties of a
run: TLC agreed to them before.

The assumptions are those each module states for its constants, and the
conditions named above, which stand in the theorems.

## 7. Only model-checked

* Liveness under fairness (`NoCommandHangs`, `UnaryIsAnswered`,
  `StopsWhenTold`), which is out of the prover's reach.
* The counterexamples of section 5. `StreamedInAnsweredOnce`,
  `InstalledIsWhole`, `DeployedIsCurrent`, `IdentityFits`, `KeysAreApart` and
  `EmptyIsEmpty` do not hold of the code, and no theorem says that they do under
  a condition.
* The getters of JWT claims, on the texts the instance lists (`ClaimsFit`).

## 8. Not modelled, and the plan

Left out for good: the text the generator's templates print, layout and
imports inside of a file included; the loading of protobuf descriptors
(`protobuf-helper.ts`), the table of gRPC status codes and the settings read
from `package.json` (look-ups and file I/O); the release script of the
repository; samples and the documentation, which use the SDK and hold no logic
of it; of the TCK, its view, its eventing and its "two" and "configured"
entities, whose handlers do nothing.

Done, in this order: `EntityStream`, the event sourced and the value entity;
replicated data and the replicated entity; actions; the service's lifecycle and
the integration test kit; the generator and the npm scripts; mocks,
registration and clients, metadata, Any and views; Replies and the TCK; the
theorems of section 6.

What is left, most important first:

1. Replicated maps with values other than counters, and `ReplicatedEntity` for
   a type that is not a single number.
2. Side effects and forwards of the mocks, against `CommandHelper`.
