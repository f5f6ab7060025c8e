# Verification of the Kestrel SDK

TLA+ models of the concurrent and failure-prone parts of `kestrel_sdk`, TLC runs
on small instances, and TLAPS proofs of the properties that matter most. Source
paths below are relative to `src/kestrel_sdk/`; the table from definitions to
source lines is the `map` of `PROJECT.json`.

## 1. Inventory

The SDK is the contract between an agent host and its features. Most of it is
value objects and abstract classes whose behaviour is in the host. The code with
state and concurrency of its own is this:

| Part | State | Operations | Interaction | What is hard |
|---|---|---|---|---|
| `isolated_feature/client.py`, `IsolatedFeatureClient` | request ids and futures, read task, fence, readiness, shutdown latch, lifecycle lock, close task | `initialize`, `health`, `list_tools`, `call_tool`, `call_host_ingress`, `prepare_config_transition`, `shutdown`, `close`, read loop | JSON-RPC lines over the child's pipes | callers, reader and close interleave at every await; cancelled callers; dead or misbehaving child |
| `isolated_feature/service.py`, `IsolatedFeatureService` | in-flight tasks, stop and restart latches, effective config | `serve`, dispatch, lifecycle hooks, tool and ingress handlers | answers the client | inline against concurrent requests, handlers that hang or cancel themselves, teardown |
| `isolated_feature/client.py`, `SubprocessIsolatedFeatureClient` | published child, generations, spawn slot, retirement records, operations, pending transition | `start`, `stop`, `prepare_config_transition`, `health` | owns the process and the client above | `stop` does not take the lifecycle lock; every wait is bounded; late spawns; unkillable children |
| `isolated_feature/service.py`, threaded stdio | request and job queues, completions, terminal latch | `readline`, `write`, `drain`, `close`, two daemon threads | stands between the service and its inherited pipes | two threads and a loop; cancellation; failure in the middle of a frame |
| `computer_use/acquisition.py` | durable checkpoint of one acquisition | `prepared`, `dispatched`, `accepted`, `unknown` | host's compare-and-swap, native provider | lost acknowledgements, crashes, retries of a paid create |
| `security/encryption.py` | salt file, per-process durability cache | publish, load, sync, read-key resolution | several processes share a volume | concurrent first starts, host crash, read-only volumes |
| `tools/deferred.py` | one factory, baseline, publication context | `for_tool`, `finalize` | hooks edit the envelope meanwhile | one-shot transfer between threads |
| `computer_use/human_control.py` | lease, frame and action records | admission checks on the host's snapshots, revocation, fences | a driver outside this repository applies the input later | stale snapshots, expiry, a revocation that overtakes the opening |
| `operator/runs.py`, `operator/context.py` | requests, run records, idempotency scopes | launch, control, read, attach, list | a durable run service outside this repository | retries, replays, what a denial tells of other tenants |
| `native_a2a/server/agent_execution/active_task.py` | producer and consumer tasks, agent queue, subscribers' queues, reference count, request lock | `start`, `subscribe`, `cancel`, idle release, `aclose` | the request handler starts and tails it; other replicas write the same task | cancellation of a task that is cleaning up, full queues, conflicts of versions |
| `native_a2a/server/cluster/`, `default_request_handler_v2.py` | versioned rows, event log, remote cancels and tails | `save`, `on_cancel_task`, `on_subscribe_to_task` | replicas share a database | lost races, commits reported as failures, where a tail begins |
| `default_request_handler.py`, event queues | running agents, tapped queues, consumers | send, stream, subscribe, cancel, cleanup | superseded, still exported | departing clients, cleanup against other requests |
| `native_a2a/plugins/`, `_plugin_hooks.py`, client interceptors | how many plugins were opened | before, event and after hooks | wrap every call of server and client | one of several hooks raises |
| task stores' `list`, push configuration stores and sender | tasks, page tokens, webhooks | list page by page; set, delete, notify | requests change rows meanwhile | equal and missing time stamps, owners, undecryptable rows |
| `native_a2a/client/`, `compat/v0_3/`, bindings of the server | chosen interface, one call | send, get, list, cancel, subscribe, push, card | two protocol versions over JSON-RPC, gRPC and REST | conversions at both ends, defaults, errors |

Everything else (tools and schemas, features, hooks, signals, voice, storage
contracts, tracing, deploy, training, testing kit) is listed in `PROJECT.json`
with the reason why it is not modelled.

What makes each modelled part correct:

* **client** - no call waits for a future nobody will settle; a fence survives
  every late reply and every queued transition; lifecycle requests are
  serialized and nothing starts work behind a shutdown.
* **service and client together** - host and child agree on the effective
  config, or the host knows that it must replace the child.
* **supervisor** - never two children, never an unowned one, no false success of
  `stop`, and `stop` ends without any help from the child.
* **threaded stdio** - whole frames in order, every drain and every read answered.
* **acquisition** - at most one native create, from the recorded bytes, and its
  lease is never lost.
* **salt** - every ciphertext stays readable, one salt wins, no fallback.
* **deferred result** - the factory runs at most once and never for an envelope
  that policy changed.
* **human control** - an input takes effect only inside its lease and on a frame
  young enough, however long it was under way; a revoked control never opens.
* **operator runs** - one run per key, each control once and from the sequence it
  names, and no answer depends on the runs of another tenant.
* **A2A task** - a stored end is final, a task in use is not forgotten, a cancel
  returns; across replicas a cancel answers what happened and a tail misses nothing.
* **A2A server parts** - hooks nest, every unchanged task is on exactly one page,
  every registered webhook is handled once per event, no accepted event is lost.
* **A2A wire** - request, answer and error arrive as they were sent, but for what
  the older protocol cannot carry.

## 2. Modules

| Module | Models | Composes |
|---|---|---|
| `FeatureWire` | frames, capabilities, the two pipes | |
| `FeatureClient` | the host client against an arbitrary child | `FeatureWire` |
| `FeatureService` | the child service | `FeatureWire` |
| `ConfigHandoff` | abstract promise of a config transition | |
| `FeatureRpc` | both ends, crashes, fairness; refinement of `ConfigHandoff` | `FeatureClient`, `FeatureService` |
| `ChildSupervisor` | the subprocess wrapper | |
| `StdioWriter`, `StdioReader` | the child's stdio threads | |
| `AcquisitionCustody` | one durable acquisition | |
| `KeyFileSalt` | salt of a key file | |
| `DeferredDelivery` | one-shot render delivery | |
| `HumanControl` | leases and inputs of a human in a computer session | |
| `OperatorRuns` | requests on durable runs | |
| `ActiveTask` | one live A2A task with its clients | |
| `TaskCluster` | a task shared by replicas: store, event log, cancel, tail | |
| `PluginHooks` | hooks around one call | |
| `TaskListing` | `tasks/list` of both stores | |
| `PushConfigs` | webhook stores and the sender | |
| `LegacyHandler` | the older request handler on one task | |
| `CompatTypes` | the v0.3 models | |
| `CoreTypes` | the v1.0 messages | `CompatTypes` |
| `CompatConversions` | v0.3 models to v1.0 messages and back | `CoreTypes` |
| `CompatProto` | v0.3 models to v0.3 protobuf and back | `CompatConversions` |
| `WireCodec` | what each binding writes and reads | `CompatProto` |
| `A2AWire` | client, transport, binding and handler for one call | `WireCodec` |
| `FeatureClientProofs`, `FeatureRpcProofs` | theorems about the client, and about both ends | `FeatureClient`; `FeatureRpc` |
| `ChildSupervisorProofs`, `StdioProofs` | theorems about the wrapper, and about the two threads | `ChildSupervisor`; `StdioWriter`, `StdioReader` |
| `HostProofs` | theorems about the contracts a host relies on | `AcquisitionCustody`, `KeyFileSalt`, `HumanControl`, `OperatorRuns`, `DeferredDelivery` |
| `ActiveTaskProofs` | theorems about a live task | `ActiveTask` |
| `A2AProofs` | theorems about the rest of the A2A server | `TaskCluster`, `PluginHooks`, `TaskListing`, `PushConfigs`, `LegacyHandler` |
| `A2AWireProofs` | theorems about a call and the round trips of its values | `A2AWire` |
| `MC_Parts` | the self-contained SDK modules, one at a time: `Init` chooses | `StdioWriter` to `OperatorRuns` |
| `MC_A2A` | the self-contained A2A modules, one at a time | `A2AWire`, `TaskCluster`, `PluginHooks`, `TaskListing`, `PushConfigs`, `LegacyHandler` |
| other `MC_*` | symmetry and small definitions for TLC | |

A definition whose comment calls it a variant (or bug variant) is a wrong version
of another one. Nothing of the specification uses it; it records which mistake a property is
there to catch.

### FeatureClient

asyncio runs one task at a time, so a step is the code between two awaits.
`Issue` is `request` up to its drain, `DrainDone` the rest of the send, `Settle`
the `finally` that removes the future, and one `End...` action per public method
is what its caller does with the outcome. `TakeLock` covers what happens when the
lifecycle lock is granted: an RPC is issued, refused, or fails on a dead stream.
`Read...` and `Terminate` are the read loop and its `finally`; the three `Close...`
steps are the private close task. The child is unconstrained: `ChildWrites` puts
any response with any id on the pipe, or a line that cannot be decoded, and either
pipe may close at any time. A task that asyncio cancels before its first step never
enters its body. That can happen to the read task only: a close task is already queued
when the first request creates it, and runs before it (`overtaken`). Then `ReadSkipped`
ends the read task without the `finally` of `_read_loop`, nothing fails the pending
future, and the first requests (`initialize` or probes, since nothing is known of the
child yet) wait for ever; `PendingSound` and `DeadChildReleases` name it as their exception.
`close` is bounded up to the join of the reader only: `writer.wait_closed()` may never
settle, which the code's own comments say (`client.py:686`). The wrapper's next config is `hostConfig`, updated in
the same step as the fence because nothing is awaited between them.

### FeatureService and FeatureRpc

`SvcRead` takes a frame: lifecycle methods become the `inline` job and block the
loop, the others join `inflight`. Hooks may answer, raise, end with their own
cancellation (`SelfCancelling`), or never return. `SvcExit` gives handlers their
grace period, cancels the rest and closes the pipes; it assumes that handlers
yield to cancellation. `SvcDie` kills the child anywhere. `FeatureRpc` joins the
two ends; `ImplementsHandoff` is the abstract specification under the refinement
mapping `asked <- Asked` (the config of the transition that is being awaited).

### ChildSupervisor

Nothing is awaited under `_state_lock`, so a locked section is one step. A
retirement record is a stage per child (`retire[p]`), which is sound because
`_claim_retirement_locked` matches records by identity. Bounded waits end either
way: `RetireTimesOut` for process waits, an "unresolved" end in `RetireClose` for
shutdown, startup and close tasks. A `close()` that raised leaves its record
unresolved for good, as in the code. `Cancel` may hit any operation; `Unwind`
lets it take effect at every await of an operation, which over-approximates the
code. `health` of a fenced client and a transition on one share `Probe`.
`_retire_start_result_owned` cannot be reached (a start that failed has no
generation to return) and is left out.

### StdioWriter and StdioReader

`write`, `drain` and `close` are one locked section each on the loop; the thread
is `TakeJob`, `WriteSucceeds`, `WriteFails`, `Latch`. Frames are numbers in the
order of acceptance, so the wire is correct when it reads 1, 2, 3, ... . In the
reader a result travels through `posted`, because `call_soon_threadsafe` delays
it and `close` posts answers of its own.

### AcquisitionCustody

The SDK's part is the pure candidate transitions; the host row with its
compare-and-swap, the provider and its inventory are external and follow the
protocol classes of the same file. `LostAcknowledgement` is a commit whose answer
never arrives, `Exit` ends an operation anywhere, `Enter` starts one again.

### KeyFileSalt

A key is named by its salt: the derivations are taken as injective. `entry` is the
directory as processes see it, `diskEntry` what a crash of the host certainly
preserves; `HostCrash` may keep or lose an entry that was not synced. The content
of the temporary file is synced before it is linked, so there is no partial salt.
`dirSync` is the platform: on Windows `_fsync_directory` returns without syncing
(`encryption.py:330`) and the salt is marked durable all the same (`:294`), so a crash
of the host may lose a salt that is in use. `lost` records that this happened, and
`SaltSafe` promises readability to every other host.
`Reconfigure` is what the error messages ask the operator to do. Deleting the salt
file by hand is outside the model.

### DeferredDelivery

Result n + 1 is the successor `for_tool` makes of result n, and all share one
lock and one context. An envelope is reduced to whether it reads as the tool wrote
it. A refused `for_tool` loses the factory it had already claimed, as in the code.

### HumanControl

The SDK's checks are `RequireSession` and the admission of an action; the host
calls them on snapshots it read earlier. The driver is external: it compares the
input with its own lease and epoch and applies it at a later time. The clock
advances between any two steps.

### OperatorRuns

`ReplayAnswer`, `ControlAnswer`, `ReadAnswer` and `ListAnswer` are the decisions the
SDK takes on a request and what the service found; the service (external) may look
a run id up among all tenants or the caller's own. Because answers are functions of
the stored runs, `NoOracle` compares them with the answers of a world in which the
other tenants have none.

### ActiveTask

A step is the code between two awaits. The agent is arbitrary: it emits any state,
returns, raises, or is cancelled. The consumer's save may lose to another replica
(`ApplyConflict`), after which it reads again, retries, gives up to the stored end or goes
on. A sink has a capacity; a full one is evicted (`FanOut`), so it cannot hold up the
dispatch. `Cancel...` are the steps of `cancel`, which waits without the lock;
`Aclose...` those of `aclose`, which shuts the queues before it takes the lock. Both
may cancel a producer that has been created and has not begun: `TasksBegin` then skips
it, its `finally` does not run, no queue is closed, and what waits for them (`cancel`
itself with an agent that only cleans up, a `message/send`) may wait for ever.
`CancelReturns` and `RequestReturns` except that case. The dispatch of an event from the
source to all its sinks is one step. The registry of active tasks is reduced to
whether this one was dropped (`cleaned`).

### TaskCluster

A transaction is one step. A commit may take effect and be reported as a transient
error, so `save` retries what it has already done. The event log is appended in the
transaction of the row. A tail takes the rows of a poll one at a time, and ends where
`_subscribe_remote` does. `delete` of the versioned store, which no handler calls, is
not modelled.

### PluginHooks, TaskListing, PushConfigs

Every hook may raise or be cancelled. A listing is the pages of one caller with
any token of an earlier page, filtered by context, status and time, while other
requests save and delete. Time stamps are nanoseconds, the database keeps microseconds
(`MicroSecond`).

A push sender is a consumer of events: that of an active task, or one of several of the
older handler, where every request on a task has its own and each sends what it reads.
Senders run at the same time and may be cancelled; each reads the configurations once
per event and handles its webhooks one step at a time, while configurations are set and
deleted. `pushRegistry` is what the owners were promised, which follows their own
requests only; what the database's primary key lets another owner write over is
remembered in `pushTaken`.

### LegacyHandler

Each message has its producer, queue, consumer and cleanup; a later request on the
same task taps the registered queue. An event is accepted, in hand (queued or being
saved), saved, or lost to a save that failed or was interrupted, which is how
`LegacyKept` accounts for it. `SaveFails` is `process` raising (a mismatched event, the
store, a conflict): it loses its event and ends the consumer, a send also cancels its
producer, and what is still queued stays there unread. A save writes the copy its
request has read (`lgCopy`), so it may undo what another request stored; the stored
task is known to hold a request's events only while that request was the last writer.
`on_cancel_task` is a step per await (`CancelTask`, `CancelAnswers`, `CancelProducer`).
Queues never reach their capacity of 1024.

### CompatTypes, CoreTypes, CompatConversions, CompatProto, WireCodec, A2AWire

Conversions are operators from records to records, one per function of the code: what
they drop, default or rename is kept, and JSON and protobuf serialisation of one type
is the identity. Resource names of v0.3 protobuf are formatted and matched: a pattern
reads a segment up to a `/` (`Cut`; `Slashed` gives the ids that have one and what
stands before it), and a name it does not match is an `InvalidParamsError`, at the
server or, for an answered push configuration, at the client. REST paths with an empty
or slashed segment meet no route (`Routed`, `RouteMissing`). Left out of the ids are
other URL syntax (`?`, `#`, `%`, dot segments, endings that look like a verb) and
pieces that are words of the routes; so is a v0.3 REST subscription without an id,
which asks for a task named ":subscribe". A `JSONParseError` over v1.0 JSON-RPC does
not pass the error model of the response (its code is not the literal that is
required): it becomes an `InternalError`, or an HTTP 500 before the first event of a
stream (`Surfaced`).

`Absent` is a Python `None` or an unset field with presence; an unset string is `""`.
A free-form dict is the set of its keys (`DictKeys` and the one key the conversions
reserve). `A2AWire` sends a request through the client's transport, the server's
binding, the handler (external, answers anything) and back. The two ends are the two
sides of this SDK. Of a v0.3 card `PlainCard` compares the name, the flags, the
skills' ids, the modes, the kinds of the schemes and the requirements; urls, provider,
skill details and signatures are converted by the model and not compared. Transport
failures are left out: the call either arrives or the server refuses it.

## 3. Runs

| Run | Checks |
|---|---|
| `client_safe` | `PendingSound`, `FencedNotReady`, `LifecycleOrder`, `FenceIsFinal`: probes, calls, ingress, transitions and shutdown of two callers |
| `client_live` | `DeadChildReleases`, `CloseReleasesStreams` |
| `rpc_handoff` | `TransitionSafe`, `NoRequestLost`, and the refinement `ImplementsHandoff` |
| `rpc_live` | `HealthAnswered` although tool handlers hang |
| `supervisor_own` | `ChildrenOwned`, `StopSuccessMeansReaped` |
| `supervisor_config` | `ConfigCoherent`, `ConfigHeld` |
| `supervisor_live` | `StopEnds`, `StartSettles` |
| `parts` | stdio: `FramesConserved`, `LinesInOrder`, `DrainSettles`, `CloseReleases`; `SaltSafe`, `DeliverySafe`, `CreateOnce`, `CustodyKept`; runs: `NoOracle`, `RunsOnce`; `InputBounded` |
| `a2a_task` | `CleanedUnused`, `StatusFinal`, `CancelReturns` |
| `a2a_cancel` | `RequestReturns`, which is violated (below) |
| `a2a_parts` | wire: `RequestCarried`, `ReplyCarried`, `ErrorCarried`; cluster: `EndIsFinal`, `CancelHonest`, `TailFaithful`; `HooksPaired`, `PagesComplete`, `PushFaithful`, `LegacyKept` |
| `a2a_errors` | `ErrorNamesCause`, which is violated (below) |

Several properties are conjunctions of named parts of one idea (`PendingSound` is
the exact table and its reader, `SaltSafe` that everything stays readable and that
one salt wins). A module's type invariant is a conjunct of one of them, or of the
inductive invariant that section 4 proves.

The two violations are disagreements between the code and its own documentation:

* `RequestReturns`. `_run_producer` is documented as "Safe to cancel"
  (`active_task.py:665`). The `finally` block of a producer that has started awaits the close of the agent's queue
  (line 741) before it closes the subscribers' queue; a `cancel()` that arrives in
  that await (line 944) ends the block, the subscribers' queue is never closed, and
  a `message/send` that has not read a final event waits for ever.
* `ErrorNamesCause`. `_handle_http_error` of `compat/v0_3/rest_transport.py:360`
  "raises the appropriate A2AError", but looks for a top-level `type` that the body
  built by `error_handlers.py:102` does not have: a missing task, sent as 404,
  is raised as a missing method. `ErrorCarried` states what holds otherwise.

Exceptions stated in properties, because the code makes them:

* a first request whose read task a queued `close` cancels before its first step has
  no reader (`PendingSound`, `DeadChildReleases`, `HealthAnswered`); a producer that
  `cancel` reaches before its first step closes nothing (`CancelReturns`,
  `RequestReturns`);
* a Windows host that crashes before its file system has written the directory may lose
  the salt (`SaltSafe`);
* v0.3 carries no tenant and drops some fields (`PlainRequest`, `PlainReply` list them).
  Two losses are not the protocol's (`Delivered`): over v0.3 gRPC an id with a `/`
  reaches the task or configuration named by what stands before it
  (`compat/v0_3/proto_utils.py:25`), and v1.0 REST sends the metadata of a cancel
  (`client/transports/rest.py:205`) that the server ignores (`rest_dispatcher.py:229`);
* a push configuration whose v0.3 name does not match fails at the client, and a path
  without a route is reported as a missing method (`ErrorCarried`);
* a unary call that is cancelled skips its after hooks (`HooksPaired`);
* consumers of one task in the older handler are not ordered among each other, so a
  webhook may be called twice for an event, or for events out of order, by two of them;
  a cancelled consumer, or one whose stream client left, sends no more; in the database
  another owner that sets the same task and id takes the configuration over
  (`database_push_notification_config_store.py:297`) (`PushFaithful`);
* the older handler loses the event whose save failed or a departing client interrupted,
  and events of an agent that raises; a request that saves its own copy of the task may
  undo what another saved (`LegacyKept`).

**Bounds.** Client: two callers are enough for one to be in flight while another
queues or probes; three requests let a transition, a probe and a successor overlap;
one unread line of an arbitrary child (it may be anything) is what the reader can
meet next; two configs tell an overwritten one apart. RPC: one frame per pipe,
which still lets a request, an inline job and a reply be under way together.
Supervisor: two processes and two stops (`MaxGen` 3), so that a late spawn, a
replacement and a retry of `stop` meet; the config run needs one stop, the liveness
run one process. Stdio: five frames and two senders; four reads and three lines.
Acquisition: two operations, preparations, leases and resources, five commits.
Salt: two processes, two salts. Deferred: three threads, a chain of three.
Runs: three callers of two tenants, the same run ids and keys in both. Human
control: two control ids and consumers, clock to 3, so that a frame can age and a
lease can expire under way. Active task: one sender, one watcher, a sink of two,
two steps of others (a replica's write and a cancel can meet); `a2a_cancel` two
senders. Cluster: two writers, a canceller and a tail, three versions, two attempts.
Hooks: two plugins and two interceptors. Listing: three tasks, two owners, two
stamps within one microsecond (distinct in memory, equal in the database) and none,
pages of one and two, two changes; three kinds of tasks by stamp, context and state and
five filters, alone and combined. Push: two owners, tasks and urls, two
senders, two events and two changes, so that two consumers overlap, one sends twice, and
an owner meets another's configuration. Older handler:
two requests, one event of the first agent and two of the second, of kinds that go on,
interrupt a send and end a run. Wire: an id and a tenant with a slash, cards for each binding and version, each method, requests and
answers with each field set and unset.
`client_safe` keeps of the frames already written, which no action of the module
reads, only which methods follow a shutdown frame. `rpc_live` needs
three requests: the probe that makes the client ready, the call that hangs, and the
probe behind it. Symmetry is used in runs without liveness only.

**Deadlock** is not checked where the system may stop: when a bound is used up, a
client is closed, a child stays unresolved. The A2A models end with
their calls.

**Fairness.** Client and RPC: the event loop runs what is ready (reader, close
task up to its wait for the writer, callers that can move); `wait_closed` is not
assumed to return, the service loop goes on, its health and lifecycle
hooks return; nothing is assumed of tool and ingress handlers, nor that a child
answers. Supervisor: only its own tasks, since every wait of theirs has a timeout;
nothing of the child, the operating system or callers. Stdio writer: the thread
takes jobs and latches failures; a call of the stream may block for ever, and
`DrainSettles` makes that the only excuse. Stdio reader: the loop and the
thread's queue; the parent may never write. Active task: the event loop runs what is
ready, the agent's `execute` and `cancel` end, clients read, an `aclose` that began goes on; nothing of other
replicas, nor that a client starts, stays or cancels.

## 4. Theorems

Proved by TLAPS for every value of the constants: any number of callers, clients,
replicas, processes, events and versions. Each component has one inductive
invariant, proved action by action, and the properties the runs check follow from
it. The theorem's name is followed by the property where the names differ.

* `FeatureClientProofs` - `ClientInv` is inductive. The safety properties are not
  inductive alone: that the table holds exactly the waiting calls needs ids that
  are unique (`OwnIds`), futures that are empty outside a call (`NoStaleReply`)
  and a dead stream once the reader is done (`ReaderLatch`), or that the reader was
  overtaken, which only happens to the first request (`OvertakenIsFirst`); the fence needs that
  only an unfenced client awaits a transition (`AwaitedUnfenced`); the frame order
  needs the shutdown latch (`ShutdownIsLatched`). From it: `ClientTypeCorrect`,
  `NoForgottenCall` (`PendingSound`), `FenceHolds`, `LifecycleSerialized`
  (`LifecycleOrder`), `FenceFinal`.
* `FeatureRpcProofs` - `RpcInv` is `ClientInv` with the child and both pipes. Every
  request id is in one place only and below the next id (`Placed`, with `Apart` and
  `Numbered` over the places); what the child has under a caller's id is what that
  caller asked for (`Matches`); at most one transition is at the child, until the
  host is fenced it is awaited, and its answer tells what the child did
  (`Transitions`, `AnswersTruthful`); the child has a config before its capabilities
  let the host ask for another (`Initializes`). From it:
  `NoRequestIsLost`, `TransitionIsSafe`, and `RpcImplementsHandoff`: the initial
  states map to initial states of `ConfigHandoff`, and each action of either side is
  mapped to one of its actions or to a stutter.
* `ChildSupervisorProofs` - `SupervisorInv`. The lifecycle lock makes the spawn slot
  and the open handoff belong to the one task at work (`Serialized`, `Owned`,
  `HandedOver`). `stop` never takes that lock, so what it relies on is that every
  task it interrupted carries a cancellation and publishes nothing any more
  (`Accounted`, `Stopped`). From it: `ChildrenAreOwned`, `StopReallyReaped`
  (`StopSuccessMeansReaped`), `ConfigIsCoherent`, `ConfigIsHeld`.
* `StdioProofs` - `WriterInv`: the wire, the job in the thread's hand, the queued
  jobs and the unflushed frames are consecutive numbers (`FramesConserved`), the
  thread has a job exactly where its state says so (`WorkerHolds`) and a close mark
  is the last job (`MarkLast`). `ReaderInv`: answers, posted results and requests
  each ascend and are behind the lines read (`LinesAscend`, `PostedAscend`,
  `RequestsAscend`, `LinesBehind`), and a line is not forgotten between thread and
  loop (`LinesKept`). From them: `FramesAreConserved`, `LinesComeInOrder`.
* `HostProofs` - `CustodyInv`: a permission to post is unique, and used up by a
  create; a view with the row's sequence is the row (`CreatesOnce`,
  `CustodyIsKept`). `ControlInv`: a lease lies within its session, an id and an epoch
  have one lease each, a fenced id has none, and an input under way was admissible
  when it was sent (`InputStaysBounded`). `RunsInv`: an id and a key scope name one
  run in a tenant, and a run's sequence is beyond those of its controls
  (`RunsHappenOnce`, `NoOracleOfOthers`). `DeliveryInv`: the factory is a single
  token (`DeliveryIsSafe`). `SaltInv`: an entry appears only where there was none, and
  a salt becomes a write key only when it is durable or configured, or, where directories
  are not synced, is the one in the directory (`SaltIsSafe`,
  `CiphersCover`, `DurableSaltStays`, `LegacyIsReadOnly`).
* `ActiveTaskProofs` - `ActiveInv`: what a writer remembers is an earlier version of
  the row, or the row (`StoreKept`); a status is only applied over a task that was not
  terminal when it was read (`ApplyingKept`), which the compare-and-swap then makes a
  fact about the row; the reference count is the running consumer plus the clients
  that hold one, the dropped ones included (`RefsKept`). From it: `CleanedIsUnused`,
  `StatusIsFinal`.
* `A2AProofs` - `ClusterInv`: the log has an event for each version, or for each but
  the first; a snapshot with the row's version is of a task that had not ended; a
  tail has a contiguous piece of the log (`CancelIsHonest`, `TailIsFaithful`,
  `EndStaysFinal` (`EndIsFinal`)). `HookInv`: which plugins and interceptors are open
  at each stage, since the log's pairing speaks of the past only
  (`HooksArePaired`). `PushInv`: the readable rows are the promised configurations that
  nobody took over, and a sender's posts to a webhook never run ahead of its own event
  (`PushesAreFaithful`). `LegacyInv`: saved events come before the one in hand, and
  that one before the queued ones; all are the agent's; an event that is in none of
  these places follows one that ended the run. A request that did not begin, or that
  only cancels, has no events, and only a client that left or a failed consumer has lost
  one; a request's copy has all it saved, and so has the task it was the last to store
  (`LegacyIsKept`). `ListingInv`: the pages so far hold, of the tasks nobody touched,
  exactly those not after the token (`CursorSplits`), each once (`ListedOnce`). It
  rests on two theorems about pages: `PositionsAgree`, that the SQL position with its
  NULL comparisons and the comparison in memory select the same tasks after a cursor,
  and `PageCutsOrder`, that a page is everything down to its token. The code sorts and
  slices; the model takes a page as the tasks with fewer than `size` others above
  them, and that some task has exactly rank `size` is shown by counting, not by
  induction (`ListingPagesComplete`, which is `PagesComplete`).
* `A2AWireProofs` - `CallInv`: what the caller has got is what is read of the first
  answers, the frames under way are those of the other answers in their order, and
  behind them is the frame of the error that was raised, if any; the request at the
  handler is what the binding reads of what the transport wrote; the verb of a
  subscription was changed only because the server refused POST. `ErrorsCarried`
  (`ErrorCarried`) follows from it with a table of the error classes. The other two also
  need that a value comes back from the wire. These are lemmas about the conversions
  alone, one per type, each for the way through the v0.3 models (JSON-RPC) and the way
  through v0.3 protobuf (gRPC, REST): parts (`PartBack`), messages, artifacts, statuses,
  tasks, events, push configurations, send requests and agent cards (`CardBack`,
  `RestCardBack`). What is read back equals the original once the fields v0.3 lacks are
  blanked, as `PlainRequest` and `PlainReply` do. From both: `RequestsCarried`
  (`RequestCarried`) and `RepliesCarried` (`ReplyCarried`), for every card,
  configuration, request and answer and any length of a stream.

The specifications of the theorems are the modules' `Init` and `Next`, without
fairness: safety does not need it. The assumptions are the named `ASSUME`s of the
modules: sentinels are not members of the sets they stand beside, and bounds are
natural numbers. For listings (`ListingConstants`) time stamps and ids are numbers and
a page has room for a task. For the wire, `Absent` is none of the values it stands
beside (`AbsentIsNoValue`), the key that marks a wrapped scalar is no caller's key
(`MarkIsReserved`), the empty string is a string (`BlankIsText`, which the provers do
not know by themselves), and requests, answers, cards and configurations are values of
their types (`WireConstants`). TLC evaluates all of them in the runs.

Only model-checked are the eight liveness properties (`DeadChildReleases`, `CloseReleasesStreams`,
`HealthAnswered`, `StopEnds`, `StartSettles`, `DrainSettles`, `CloseReleases`,
`CancelReturns`): the prover has no reasoning about fairness and `ENABLED`. Every
invariant and every action property of the passing runs is a theorem.

## 5. Not modelled

* Event notifications of the client (`on_event`, backlog, handler tasks).
* Lengths of lines and the stream readers' limits.
* Inference leases, payer policy, argument coercion of tools, validation of
  payloads, tool metadata and records: local and without concurrency of their own.
* Contracts whose behaviour is in the host or a provider (LLM adapters, voice,
  storage, channels, training, deploy, signals, the host's hook dispatcher).
* A2A: the registry of active tasks, `delete` of the clustered store
  (`cluster/database_task_store.py:353`), transport failures, observer hooks, generated
  protobuf code, authentication records.

Behaviours of the code that are known, and about which no property is stated:

* an event handler that awaits an RPC of its own client stops the read loop
  (`isolated_feature/client.py:919`);
* a tool handler that ends with its own `CancelledError` sends no reply
  (`isolated_feature/service.py:868`), and one that suppresses its cancellation
  keeps `serve` from returning (`:792`);
* the frame of an accepted ingress payload can be longer than a line may be (`:817`);
* a refused `for_tool` loses the factory (`tools/deferred.py:144`);
* a cipher built before a salt is published cannot read what is written later
  (`security/encryption.py:517`);
* `subscribe` counts its reference before the steps that may raise
  (`active_task.py:806`), so a request that meets a closing task leaves the count up;
* `get_task` waits for an agent that returns without emitting anything (`:1116`);
* the older handler: a unary send whose client left has no consumer, and `close`
  waits for its queue (`default_request_handler.py:449`); a raising agent leaves its
  queue registered (`:549`); a second request's cleanup closes the first's queue (`:554`);
  a failed save ends the consumer and leaves the rest of its queue unread (`:437`);
* the database lists at microseconds, the memory store at nanoseconds
  (`database_task_store.py:277`), and saves by id whoever owns the row (`:205`);
* the version check compares the major part only (`version_validator.py:29`).

## 6. Plan

1. `FeatureEvents` (notification backlog and handler tasks) and a framing module
   for line limits; the tool execution context with it.
2. The registry of active tasks composed with `ActiveTask`; transport failures in
   `A2AWire`.
3. Pure operators against reference definitions: argument coercion of
   `tools/base.py`, precedence in `payer_policy.py`, contribution validation; the
   records of `llm/inference_lease.py`.
