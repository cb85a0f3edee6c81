# Llumnix ("tianshu-huiyang"): a TLA+ verification project

The repository is a distribution of Llumnix, a scheduler that runs many LLM
inference engines (vLLM 0.6, vLLM V1, BladeLLM) as Ray actors, dispatches
requests to them, moves running requests from one engine to another while they
decode, and starts and replaces the engines. Nearly all of its difficulty lies
in coroutines and actors that meet in an order nobody wrote down: a request is
migrated while its engine steps, an instance dies while the Manager cleans up
after another, a placement group is granted just after the loop stopped waiting
for it. The modules here model these interactions.

Line numbers are those of `src/`; `PROJECT.json` maps every definition that
models code to its lines, and lists the hazards, each at its line.

## 1. Inventory

| Part | State it keeps | Operations | Module |
|---|---|---|---|
| **Llumlet** (`llumlet/llumlet.py`), one Ray actor per instance | engine, coordinator, migration scheduler | `generate`, `abort`, `migrate_out`, `clear_migration_states`, the V1 calls | LiveMigration, MigrationFaults, V1Migration |
| **MigrationCoordinator**, **LlumnixRequest**, **LocalMigrationScheduler** (`llumlet/`) | status, stages, `is_migrating` of a request | stages, pre-allocation, commit, aborts, policies | LiveMigration |
| **vLLM 0.6 scheduler and engine** (`backends/vllm/scheduler.py`, `llm_engine.py`) | queues, block tables, pre-allocations | step, `pre_alloc`, `commit_dst_request`, instance info, outputs | LiveMigration, GlobalScheduling, OutputDelivery |
| **V1 EngineCore contract and adapter** (`v1_migration.py`, `v1_engine.py`) | request states, reservations, streams | freeze, import, commit, abort, register | V1Migration |
| **V1 P/D hand-off** (`v1_kv_transfer.py`, `corex_p2p_connector.py`) | `recv_store`, sockets, decorated ids | send, listen, receive, `get_finished` | KvHandoff |
| **KV events** (`v1_kv.py`) | block index of an instance | live events, replay, affinity | KvEvents |
| **Manager: migrations** (`manager.py`) | `instance_migrating`, epochs, `v1_migrating_requests` | `_push_migrations`, `_migrate`, callback, `_migrate_v1*` | LiveMigration, MigrationFaults, V1Migration |
| **Manager: membership** | `instances`, pending count, `enable_migration` | `scale_up`, `scale_down`, rebuild | BackendRebuild |
| **Manager: routing** | `request_instances`, waiting P/D requests | `generate`, `abort`, reconciliation | RequestRouting |
| **Manager: deployment**, **Launcher** (`launcher.py`) | pending ids and groups, launches in flight, port offset | `_auto_scale_up_loop`, `done_scale_up`, watches, P/D check, restart | Deployment |
| **GlobalScheduler** (`global_scheduler/`), **InstanceInfo** | instance infos, dispatch set, counters | `dispatch`, `pair_migration`; `check_scale`, which nothing calls, is not modelled | GlobalScheduling |
| **Client of the API server** (`entrypoints/vllm/client.py`) | streams, fallback counters, `manager_available` | `generate`, `abort`, output loop | RequestRouting, OutputDelivery |
| **Output queues** (`queue/`, `backends/utils.py`) | sockets, queue of a server | put, store, reply, time-out | OutputDelivery |
| **Simulator, arguments, metrics, logging, BladeLLM backend, tools** | | | not modelled |

How they interact: an API server calls `Manager.generate`, which asks the
GlobalScheduler for one instance or, with P/D disaggregation on V1, for a pair,
and submits to their Llumlets. The Llumlets' engines send outputs directly to
the API server's queue. The polling loop of the Manager reads instance infos,
notices the dead, and pushes migrations between Llumlets. Instances join through
the Launcher and leave through `scale_down`; both change the migration group.
All of the Manager runs on one event loop, so every `await` is a point at which
the others may run; a Llumlet's coroutines share the loop with its engine's
step loop.

## 2. Modules

| Module | Kind |
|---|---|
| `LiveMigration` | migration between vLLM 0.6 engines, without crashes |
| `LiveMigrationInv` | its invariants, among them the one that survives crashes |
| `Ownership` | abstract specification: what migration promises about a request |
| `LiveMigrationOwnership` | the refinement mapping from `LiveMigration` to `Ownership` |
| `MigrationFaults` | EXTENDS `LiveMigration`: crashes and the Manager's clean-up |
| `LiveMigrationProofs` | theorems on `LiveMigration`, the refinement and `MigrationFaults` |
| `V1Migration`, `V1MigrationProofs` | V1 migration tasks, EngineCore contract, streams; theorems |
| `BackendRebuild`, `BackendRebuildProofs` | membership and rebuild of the migration group, theorems |
| `Deployment`, `DeploymentProofs` | auto-scaling, launcher, deployment checks, restart of the Manager; theorems |
| `RequestRouting`, `RequestRoutingProofs` | client, Manager and Llumlets for one request's life; theorems |
| `GlobalScheduling`, `GlobalSchedulingProofs` | dispatch, pairing; theorems |
| `OutputDelivery`, `OutputDeliveryProofs` | outputs from engines to the streams of API servers; theorems |
| `KvHandoff`, `KvHandoffProofs` | KV tensors from prefill to decoding instance; theorems |
| `KvEvents` | KV-cache events to the affinity index |
| `MC...` | constants and symmetry for TLC |

### 2.1 LiveMigration, Ownership

An action is what happens between two awaits of one coroutine, one remote call
executed by its receiver, or what one engine step does to one request.

State: `place[i][r]` is the queue of instance `i` that holds `r` (or `detached`:
only the coroutine holds it), `stat` the LlumnixRequest status, `held` and `pre`
the lengths of the block table and of the pre-allocation, `free` the free
blocks, `lastStage` the list of last-stage requests, `meta` the other attributes
of a request. `pc`, `dst`, `cur`, `todo`, `stage`, `num`, `last` are the locals
of `migrate_out`; `busy` is `instance_migrating`.

| Action | Code |
|---|---|
| `AddRequest`, `Admit`, `Grow`, `Preempt`, `Finish`, `FinishRemoved`, `AbortRequest` | dispatch, abort, and what one engine step does to one request |
| `PushMigration`, `MigrateDone` | `_push_migrations`, `_migrate` and its callback |
| `MigrateOut` (`MigrateNone`, `MigrateSome`) | choice of the policy, `is_migrating` set on all chosen |
| `MigrateOutOneRequest` (`Begin...`) | dispatch on the status, first test, over-limit and aborted requests |
| `StartStage` | incremental blocks, last-stage decision, stage limit |
| `RemoveRunningRequest`, `AfterRemoval` | the engine loop removes the request, what the coroutine finds afterwards |
| `MigrateInPreAlloc`, `AfterAllocated`, `AfterRefused` | the destination grants or refuses; the coroutine with the answer |
| `SendBlocks`, `CommitDstRequest`, `AfterCommit`, `AfterAbort` | transfer, commit, source clean-up, release of the pre-allocation |

Left open or out: token ids and block contents, the order within a queue (so a
policy's choice is any request that some order could put first), swapping,
chunked prefill. `MaxBlocks` bounds the growth of a request.

`Ownership` has five actions (`Accept`, `Detach`, `Return`, `HandOver`, `End`):
a request is served by one instance, may be taken out of service to be moved,
returns or is handed over in one step, and ends only in service. The mapping
takes as serving every engine that has the request in a queue or still processes
the outputs of its last step, and as moving a source that detached it and whose
destination has not committed. `ImplementsOwnership` is `Own!Spec` as a
property, its weak fairness of `Resume` included.

### 2.2 MigrationFaults

`Crash` kills an instance with all it holds; a pending call of a coroutine to
it fails (`CallFails`), as does the Manager's call (`CallDead`). `ErrorCallback`
clears the busy flags first and then goes through `CheckInstanceError`,
`ClearMigrateOut`, `ClearMigrateIn` and `ScaleDownDead`, each an action of its
own because the code awaits between them. `DetectDead` is the polling loop's own
scale-down, which may come before the callback's check.

`late` is a history variable: it becomes true when `ClearMigrateOut` finds in the
last-stage list the request of a migration that goes on (`TakesNewer`), one that
was started after the callback had cleared the busy flags. Nothing in the model
reads it; the properties say what holds until then, and section 6 what may
happen afterwards.

### 2.3 V1Migration

A task walks `prepareOut -> prepareIn -> transfer -> commitIn -> register ->
commitOut -> finishOut`, with incremental pre-copy after five calls on separate
sessions (`begin -> reserve -> send -> commit -> append`); any failure of the
pre-copy falls back to a full transfer. The operators named like the code
(`prepare_migration_out`, `reserve_import`, ...) are the EngineCore's changes of
state; `Accepts` is its condition for a call. `snap` is `_snapshots`: a snapshot
is never removed, and `abort` compares its epoch before anything else, also when
it aborts an import (`EpochMatches`). `NotMigratable`, `CallFails`,
`PrepareOutInvalid` and `ActorError` are the ways a call does not succeed, each
with its own handling. The clean-up calls are a set `pending` that is emptied in
any order (`asyncio.gather`); they are best effort, so each may fail
(`CleanupFails`, `AbortSessions`), which the history variable `unclean` records.
`skip` records that the transfer will leave out the pre-copied prefix. `Pairs`
are the pairs the scheduler may plan, `MaxEpoch` and `MaxFaults` are bounds;
`MaxAttempts` is the code's own.

The requests are those `generate` gives to one instance, the only ones that
migrate: the halves of a P/D pair run under ids that `request_server_info` does
not know, and `_migrate_v1_pair` returns. The tables `request_instance`,
`request_instances` and `request_server_info` are left out. `generate` writes
them after its awaits, the callback of `abort` deletes them, and the
reconciliation replaces them by answers of different moments, so nothing can be
assumed of them: in the model an abort may reach any instance, and a task may
pass over any candidate. What the routes are worth is the subject of 2.6.

### 2.4 BackendRebuild

`pending` is `pending_rebuild_migration_instances`; a task has the snapshot
`members` and `count` of a round, the saved `origin`, and the members that
`dead` answers reported. Actions: `ScaleUp`, `ScaleDown`, `Crash`,
`PushMigrations`/`Migrate`/`MigrateDone` (only what they keep busy), and
`BeginRebuild`, `RunRebuild`, `AfterRebuild`, `RunWarmup`, `AfterWarmup`.
In `RunRebuild` the initialisation may time out on any of the living members
(`migration_backend.py:207`), which have destroyed their old group before and
then have none; their answer, like that of a failing warm-up, is `False`, and
the Manager only looks for dead actors.
`MayEmpty = FALSE` describes a cluster whose Manager always has an instance
left.

### 2.5 Deployment

Ray's side (`pg`, `inst`, `srv`), the Manager's (`known`, `pendingIds`,
`pendingPgs`, `lastTimeout`) and the Launcher's (`launch`, `inflight`, `offset`).
`ScaleUpPass`, `DeployGroup`, `DeployAgain` and `WaitTimesOut` are the loop
`_auto_scale_up_loop` cut at its awaits; `LaunchReady`, `ServerRun`, `LaunchUp`
and `LaunchFails` are `done_scale_up`; `ScanDeployments`, `WatchEnds` and
`PdCheck` the two checking loops; `InitGlobalInstance` the blocking launch of the
configured replicas. `DisableStateApi` and the listing of a pass may lose the
State API at any moment. `DeployAgain` is a launch whose Llumlet is still there.
When the Llumlet of a launching instance has died and only its server is there,
the code creates a second Llumlet and then raises on the server's name
(`launcher.py:122-125`); the model lets the loop wait until the failing launch
has given the group back. That Llumlet belongs to no launch, is in no counter,
and goes with the resources of its id. `ManagerRestart` keeps what Ray keeps. An id nobody
remembers stands for a new uuid, so a finite set of ids does not bound the
number of launches; `MaxPort` does.

### 2.6 RequestRouting

`call`/`stream`/`fallback`/`count`/`target`/`leaving`/`closing` are the client's,
`gen`/`plan`/`waiting`/`routes` the Manager's, `active` the Llumlets'. `Generate`, `FirstError`,
`FallBack`, `FallbackAnswers` follow `LlumnixClientVLLM.generate`; `Dispatch`,
`CancelSeen`, `Accept`, `SubmitFails`, `GiveUp`, `Book` follow `Manager.generate`
cut at its awaits; `ReconcileStart/Answer/End` are `_get_request_instance`.
A reconciliation in which an answer is an exception other than
`RayActorError`, which would end its loop (`manager.py:1851-1853`), is left out.

`Abortable` says when the HTTP handler, or another caller that knows the id, can
abort. `abort` awaits the Manager (`AbortByManager`, `AbortReturns`); when the
Manager is down, or dies before it has answered (`leaving = "error"`), it takes
the entry of the fallback away and calls that Llumlet itself (`AbortByServer`,
`ServerAbortAnswered`). `abort_request` (`CancelStream`) waits for nobody. The
Manager's calls are elements of `aborts` that arrive in any order: calls of
`abort`, whose callback forgets the routes, calls of the clean-up in `generate`,
which has no callback, and calls whose Manager has died since, which may arrive
or be lost. `target` is the Llumlet that `_generate_by_instance` awaits, a local
variable that outlives the entry in `_fallback_request_instance` (an abort or
the last output may remove the entry first); `closing` is the Llumlet whose
answer the client's `abort` awaits, after it took the entry away and before it
lowers the counter. `cut` is a history variable: the fallback requests that a
Manager's call ended at their Llumlet.

### 2.7 GlobalScheduling

A sequential component, so an action is a call. `v1` fixes the backend of a
behaviour; `_get_instance_info` and `update_instance_info` make the counters an
instance reports from its scheduler or adapter, and the load metrics are
computed from them, rounded to units of 1/12 (infinities of the code are
`PosInf`, `NegInf`). The exception is `virtual_usage`, the default metric of
dispatch (`instance_info.py:189-234`): its formula has an exponential, so it is
the parameter `VirtualUsage`, of which only that it is a number is assumed; in
the run it grows with the blocks in use and wanted. `dispatch`, `SelectPd` and
`pair_migration` are operators over the present infos; a decision is recorded in
`last` together with what it was made from, for the properties. Sorting with
ties and iteration of dicts are sets of possible results. `ReportsAssumption`
says of the states that may be reported that their counters are numbers; it
stands for an induction over the queues whose blocks are added up.

### 2.8 OutputDelivery

A `put` is one RPC with a batch for one server (`sent`, `stored`, `ok`,
`error`). The vLLM 0.6 engine starts the puts of a step without waiting for
those of the step before; V1 awaits each. `TimeOut` may leave a message that is
stored later (`LateStore`) or lost with its socket (`LateLost`). A batch is a
function from its requests to the numbers of their outputs: one step makes at
most one output per request, and the order within a batch is not observable.

### 2.9 KvHandoff

A request has a half on a prefill and on a decoding instance; its id names both
endpoints. `StartStep` batches queued requests and lists the transfers of the
model thread in the code's order (layer by layer on the producer, request by
request on the consumer); the thread blocks in each. `Listen` runs in the
listener thread. `Fails` is what an exception in the model thread does to an
EngineCore. The transport is zmq_cpu; the native NCCL engine belongs to vLLM.
Every tensor that arrives starts the timed wait of the consumer anew
(`corex_p2p_connector.py:276`); as finitely many can arrive, the model lets the
wait for one that will not come expire at any moment. The listener ends with its
EngineCore; that a `ZMQError` of an open socket ends it (`:224`) is left out.

### 2.10 KvEvents

The publisher's log, the live SUB socket and the replay thread, which ask for
the same events independently, and the index to which both apply them.

## 3. Runs

| Run | Instance | Checks |
|---|---|---|
| `LiveMigration` | 2 instances, 2 requests, FCWSR | `IInv`, nothing lost, blocks conserved, complete hand-over of a frozen request; every migration ends; `LiveMigration` implements `Ownership` |
| `LiveMigrationPD` | 1 prefill + 2 decoding, 2 requests, LCR | an instance is in at most one migration; `is_migrating` ends with the migration |
| `MigrationFaults` | 3 instances, 1 request, 1 crash, 2 callbacks | one owner and conserved blocks in spite of crash, clean-up and new migrations, until a clean-up takes a request from a newer migration |
| `V1Migration` | 1 prefill + 2 decoding, 1 request, 2 tasks, 3 epochs, 1 fault (failed call, failed clean-up or crash), pre-copy | one task per request, nothing lost, a frozen request and an import have a task, one instance runs a request that is not migrated and forwards its outputs, the left-out prefix is there; every task ends |
| `BackendRebuild` | 3 instances, 2 coroutines | `RebuildInv`; filter and groups are those of the present instances, time-outs excepted; under fairness migration is enabled again |
| `Deployment` | 3 ids, `max_instances` 2, ratio 1:2, 1 restart | counters exact, ports unique, ratio kept; no group requested beyond the limit |
| `DeploymentSettles` | 2 ids, 1 fault, 1 restart | while the State API answers, no placement group keeps a GPU without a registered instance |
| `Routing` | 1 P/D request, 2 Llumlets, 1 death, 2 Manager crashes | a cancelled request is not submitted, what the fallback counters count is there but for two exceptions, a reconciliation restores the routes, `generate` returns |
| `DispatchScheduling` | 4 instances of 2 roles and 2 keys, both backends | fresh snapshots, roles kept, health before affinity, sound pairs |
| `Outputs` | 2 requests, 1 or 2 servers, 1 fault, both backends | order of V1 streams, isolation of servers; streams end |
| `KvHandoff` | 1 + 1 instances, 2 requests, 2 layers, 2 faults | acknowledged means stored, no residue; the consumer ends |
| `KvEvents` | 2 prompts, 3 events | violation: the finding of section 5 |

Bounds, and why they are enough for the cases they are meant for:

* `LiveMigration`: four blocks, requests of up to three, watermark 1: two
  requests do not fit on one instance together, so that admission is refused,
  growth preempts, and a pre-allocation is granted, granted only partly, and
  refused. `LastStageMax = 1` and `MaxStages = 2` give one-stage and two-stage
  migrations and the abort at the stage limit. Two requests are the longest list
  `migrate_out` gets from a policy. Three instances with two types are the least
  in which both rounds of the P/D pairing have work.
* `MigrationFaults`: the case it is about is a clean-up that meets a newer
  migration of its source. After one crash that migration needs a third
  instance as its destination; a second callback lets two clean-ups overlap.
  Six blocks and requests of up to four let a destination hold a block table and
  a pre-allocation together. The state in which `late` becomes true is reached,
  and so are violations of both properties without it (section 6).
* `V1Migration`: two tasks can share an instance and meet in one request; one
  fault gives every clean-up and every retry. Three migrations along `<<a, b>>`,
  `<<b, c>>`, `<<c, b>>` are the least that bring a request back to an instance
  that keeps a snapshot of it; the case in which the epoch check then makes
  `abort` raise is reached (section 6).
* `BackendRebuild`: three instances let one join, one leave and one crash within
  a round, and any of them time out in it; the second coroutine is there so that a
  second rebuild would be possible.
* `Deployment`: three ids with a limit of two leave room for one group too many;
  four ports allow four launches, so a ratio of 1:2 is completed and begun
  again. Three GPUs let a group stay pending. `DeploymentSettles` drops to two
  ids to afford liveness with a death of an actor and a restart.
* `Routing`: one request is enough for its properties, which relate one request
  to several actors; two crashes of the Manager let a fallback be followed by a
  second outage. `mgrAvail` starts with either value, as an earlier request
  leaves it.
* `DispatchScheduling`: each role and each key occurs twice, so there is always
  a wrong choice to be made; reports range from idle to overloaded with a
  threshold between them; two requests allow one P/D selection.
* `Outputs`: two outputs per request are the least that can overtake each other
  and both placements of two requests on servers are tried.
* `KvHandoff`: two requests and two layers make the two transfer orders differ;
  two faults combine a refused tensor or a time-out with a death.

Symmetry is used in safety runs only. Deadlock is checked in the runs of
`LiveMigration` and `BackendRebuild`, which never stop. It is off where the
system may really stop: after a crash the only partner may be gone, and the
other models end when all requests, events or launches of the bounds are over.

Fairness:

* `LiveMigration!FairSpec`: weak fairness of a coroutine's own steps (an asyncio
  event loop runs a ready coroutine), of a pending remote call (Ray executes a
  call on a living actor) and of the Manager's done-callback. None of the
  engine's choices is fair, except that the removal asked for by
  `remove_running_request` is done by the step loop, which runs as long as the
  actor does. The second wait there, for the processing of outputs
  (`llm_engine.py:436-439`), is taken as answered by the same loop.
* `V1Migration!FairSpec`: weak fairness of a task's next step: its call
  returns, fails or raises. Calls to the dead raise.
* `BackendRebuild!FairSpec`: weak fairness of the rebuild's steps. Nothing is
  assumed of the wait for quiet instances, because the code gives no guarantee:
  migration stays enabled meanwhile and new migrations may go on for ever.
* `Deployment!FairSpec`: the loops and launch tasks run, actors that Ray accepted
  come up. That a placement group gets its resources is not assumed.
* `RequestRouting!FairSpec`: the coroutines of client and Manager go on, calls
  are answered, a dead Manager is restarted (`max_restarts=-1`). That both roles
  exist is not assumed: a request may wait, but not after its cancellation.
* `OutputDelivery!FairSpec`: engines step, RPCs to living servers are answered
  or time out, the loop of a living server runs.
* `KvHandoff!FairSpec`: both threads of an EngineCore run, calls arrive, a loaded
  request is decoded. The time-out of a tensor that will not come is part of the
  model thread's step.

## 4. Proofs

### 4.1 LiveMigrationProofs, first part: migration without crashes

`THEOREM InductiveInvariant` proves `Spec => []IInv` for every set of instances
and requests, every choice of prefill instances, every policy and every number
of blocks and stages. The assumptions are those named in `LiveMigration`:
`NoReqAssumption`, `ReqAssumption` (the requests are a finite set; only the sums
of blocks need it), `PrefillAssumption`, `PolicyAssumption`, `BlocksAssumption`.
`IInv` is a conjunction:

| Conjunct | Says | Needed because |
|---|---|---|
| `TypeOK` | types; free counts are naturals | |
| `OneToOne` | an instance is in one migration | otherwise two sources could fill one pre-allocation |
| `JobInv` | what `pc` implies for `cur`, `todo` and `last`; no exception | gives `NoException`; the other conjuncts speak of `cur` and `last` |
| `PlaceInv` | a detached request is in the last stage of a coroutine, and conversely | gives `NotLost` |
| `UniqueInv` | two instances know a request only while `committed` hands it over | gives `SingleOwner` |
| `KeptInv` | an arrived request is known or finished somewhere | `NotLost` |
| `CopyInv` | what a copy looks like in each queue: status, blocks, not finished | gives `RunningHasBlocks`, also for a copy that returns to its queue |
| `StageInv` | what was sent and what is to be sent fit; a stage has at least one block | `commit_dst_request` finds its pre-allocation; `pre_alloc` is never asked for 0 blocks, where `blocks[-0:]` would be the whole table |
| `PreInv` | a pre-allocation belongs to a coroutine in `Reserving` | `PreAllocOwned`, `NoException` |

None of `SingleOwner`, `NotLost`, `NoException` is inductive: that the commit
succeeds depends on a pre-allocation made several steps earlier by another
actor, and that a detached request is not aborted in place
(`migration_coordinator.py:160`) depends on nobody being able to finish or
preempt it there. The proof has a lemma per action and, under it, one step per
conjunct that the action can disturb. `TypeCorrect`, `SingleOwnerHolds`,
`NotLostHolds`, `NoExceptionHolds`, `PreAllocOwnedHolds`, `OneToOneHolds` and
`RunningHasBlocksHolds` follow.

Two more invariants are inductive relative to `IInv`:

* `FrozenInv` gives `FrozenCommitCompleteHolds`. Its part `WaitingWhole` says
  that the stage of a waiting request has the blocks of all its tokens, and
  `LimitedWhole` that a request that has done its expected steps is sent in one
  stage: no block was sent before, it is in no waiting queue, the stage has all
  blocks it holds. `Answered` adds that the destination had nothing for the
  request before and has exactly the stage afterwards; this is what fails for
  a request of several stages (`PreAllocHonest`, section 6). That no engine step
  changes such a request rests on `Grow` and `Preempt` passing over it, and on
  `PlaceInv` for one that is detached.
* `FlagInv` gives `MigratingFlagEndsHolds`, for the policies LCR, LR and SR and
  with or without prefill instances: a runnable request that is marked as
  migrating is the one under migration, before its reset, or still in the loop
  of `migrate_out`, and no request has `eom`. With FCW and FCWSR the statement
  is false (section 6), so the restriction is not one of the proof.

### 4.2 BackendRebuildProofs

`THEOREM RebuildInvariant` proves `RebuildInv` for every finite set of instances
and any number of coroutines, under `~MayEmpty` (with `MayEmpty` it is false,
section 6). The heart is `RoundInv`: during a round `pending >= count`, and if
they are equal then no change came since the snapshot, so `known = members`. A
round that ends with `pending = count` has therefore rebuilt exactly the present
members: each that lives has left its old group and has the new one, or none
after a time-out. This gives `ConvergedHolds` and `NoKeyErrorHolds`; and `pending > 0`
exactly while a coroutine is started gives `OneRebuildHolds` and
`RestoredHolds`.

### 4.3 LiveMigrationProofs, second part: the refinement

`THEOREM OwnershipImplemented` proves the safety part of `ImplementsOwnership`:
`Spec => Own!Init /\ [][Own!Next]_(Own!vars)`, for the constants of 4.1. Under
`IInv` every action maps to one action of `Ownership` or to a stutter:
`AddRequest` to `Accept`, the removal from the running or waiting queue to
`Detach`, the actions that put a request back to `Return`, `CommitDstRequest` to
`HandOver`, completion and abort to `End`. `UniqueInv` is what makes the mapped
set of serving instances change by one step at a time, `PlaceInv` and `KeptInv`
what makes a detached request belong to the coroutine that will return it or
hand it over.

### 4.4 V1MigrationProofs

`IInv` holds for any sets of instances, requests, pairs and tasks, with and
without pre-copy, any number of failing calls, failing clean-ups and crashes.

| Conjunct | Says |
|---|---|
| `TypeOK`, `TaskInv`, `NewInv`, `DeadInv` | the locals of a task, and that `v1_migrating_requests` are exactly the requests of the tasks; a request that was not dispatched and an instance that died hold nothing; deaths and failed clean-ups are faults |
| `OneOwner` | a request is in one task |
| `SnapInv` | what a task has frozen has the snapshot of the task's epoch, so that the epoch check never refuses to unfreeze the source |
| `FrozenInv`, `ImportInv` | a frozen copy or an import belongs to a task between freeze and hand-over, or to one whose clean-up has its abort call still pending, with the exceptions of the properties |
| `KeptInv` | what the two sides of a task hold at each `pc`, that nobody else runs the request, and that one instance runs a request nobody migrates, unless a clean-up of it failed |
| `StreamInv` | outputs are forwarded where the request runs, or there is a task that will register or abort it there |
| `PrefixInv` | the target has synchronised the prefix before the source marks it |

The properties speak of tasks that are over, or of requests that nobody
migrates; the invariant has to say what each call leaves behind until the
clean-up, in whatever order its calls return or fail, has undone it.
`OneOwnerAlways`, `FrozenHasTaskAlways`, `ImportHasTaskAlways`,
`OneRunnerAlways`, `StreamFollowsAlways` and `PrefixSafeAlways` have no
hypothesis beyond the ones in the properties. `NotLostWithOneFault` assumes
`MaxFaults <= 1`, because with two faults the statement is false (section 6);
`KeptWhileAliveAlways` says what remains for any number of failing calls and
clean-ups, while no instance has died: every request is still held by an
EngineCore that can go on with it.

### 4.5 DeploymentProofs

For every finite set of ids, every limit, ratio and number of faults and
restarts. `CountsInv` ties the Launcher's `inflight_num_*` to the launch tasks, for which
it needs that no id is launched twice at a time: a group that is deployed is
not the one the loop awaits or will take up again (`AwaitInv`), an actor that
misses from a deployed group has died (`DeathsInv`), and actors live in created
groups only (`HeldInv`). `PortsInv` is `port < offset = stored` for every
server, `GroupsInv` that the Manager remembers every group until a restart.
`PortsUniqueAlways` and the action property `GroupsBoundedAlways` hold without
hypotheses. `CountsExactAlways` assumes `MaxFaults <= 1`, and
`CountsExactListedAlways` the State API instead: when both are missing, TLC
shows a second launch of an id while its first is in flight (section 6).

`RatioKeptAlways` holds for every ratio and without a bound on the faults. The
launched instances are at a place in the rounds of the ratio: for some `b`,
`u` and `v` there are `b*RP + u` prefill and `b*RD + v` decode instances with
`u <= RP`, `v <= RD`, not both full (`InRounds`). `NextInRounds` shows that the
next kind the code chooses never leaves that box, whichever of the two is ahead,
and `RoundsRatio` that a number of instances divisible by `RP + RD` means
`u = v = 0`. `CleanInv` carries this along the behaviours: while no launched
instance was lost, every deployed id has its Llumlet, none is both registered
and in flight, and the counters from which the kind is chosen are the exact
numbers, with no need of the fault bound of `CountsExactAlways`.

### 4.6 RequestRoutingProofs

For any number of Llumlets, requests, deaths and Manager crashes.
`CancelInv` says that with P/D a cancelled request is no longer in the waiting
set and never leaves the loop of `generate` but to return; with `StageInv` and
`CalmInv` it gives `CancelledNotSubmittedAlways`. `FallbackCounted` has two
parts. That a counter is the number of entries and of aborts under way
(`CountInv`) is inductive only with `EntryInv`, which says that an entry and a
`closing` Llumlet exclude each other, and that a request which will be generated
again has no entry on a Llumlet the server still counts on. That what is counted
is really there (`ThereInv`) needs that a Llumlet executes the server's call of
`generate` before its later call of `abort`, and that a fallback request is
never muted, so that its last output settles the entry whenever the stream is
still open. The two exceptions are those of the property; without them it is
false (section 6).

### 4.7 OutputDeliveryProofs

For any number of requests, servers, outputs, time-outs and deaths. For V1,
`SingleInv` says that there is one put of a request at a time, with its latest
output, and that a message whose sender gave up belongs to a request that makes
no more; `QueueInv` that the queue of a server holds the outputs of a request in
order, between what the stream was given and what is under way; `CompleteInv`
that nothing is missing but the latest. `StreamInOrderAlways` follows.
`ServersIsolatedAlways` needs only `FailedInv`, and holds for vLLM 0.6 too.

### 4.8 GlobalSchedulingProofs

For any number of instances, any reports (`ReportsAssumption`) and any
thresholds. The invariant is small, as the component is sequential:
`MembersInv` (the dispatch set is exactly the registered instances of a
dispatchable role, snapshots are of registered ones) and `CountersInv` (every
instance of the dispatch set has a counter, so that the round-robin index is
taken modulo a positive number). The weight is in the lemmas on the operators:

* `FiltersApart`, `SortedOnce`, `PairsMatch`, `PairsMatchV1`: no instance passes
  the source and the target filter, sorting names each once, so the pairs are a
  matching, and the groups of the compatibility keys are disjoint
  (`PairsSoundAlways`);
* `LeastLoad`: a non-empty pool has an instance of least load, by descent on a
  bound of the ids (`WFMin`); with `CandidateHealthy` it gives
  `HealthFirstAlways` for a pool of any size;
* `CandidateOfPool`: the policies that sort the pool choose from it
  (`RolesKeptAlways`, which therefore assumes `Policy \in {"load", "queue"}`:
  for `balanced` it is false, section 6); `CandidateCounted` is what remains for
  the others.

### 4.9 KvHandoffProofs

For any finite sets of instances and requests, any number of layers and faults.
`KvInv` is inductive:

| Conjunct | Says |
|---|---|
| `IdInv` | an id names the pair the request was dispatched to, or nobody when it has no pair; only an instance it was submitted to has a half |
| `JobInv` | the transfers of a model thread are of running requests, each tensor once |
| `AskInv`, `NetInv` | one tensor of a producer is under way at a time: first the message, then the answer; an answer that says yes is about a tensor that is stored |
| `LoadInv` | a consumer has every layer of a loaded request, and of a running one what its thread does not still await |
| `TensorInv` | a tensor is ahead of its producer, under way or stored, and only one of these; when its request is done, none of them |

`AckedIsStored` alone is not inductive: the answer a producer reads was given by
the listener earlier, and meanwhile the consumer may have been aborted or have
failed. `NoResidue` needs that no message is under way when the consumer drops
the tensors, which follows from a tensor being in one place only. That a step
transfers each layer of each request exactly once, in both orders, is
`TransfersAll`. `AckedIsStoredHolds` and `NoResidueHolds` follow.

### 4.10 LiveMigrationProofs, third part: blocks and crashes

`IInv` does not survive a crash: an exception leaves a request detached with
nobody working on it, and a dead destination takes a pre-allocation along.
`CrashInv` is what remains true of the actions of `LiveMigration` and of those
of `MigrationFaults`: `OneToOne` and `UniqueInv` as before, and of each instance
that the requests in no queue are those of the last-stage list (or the one just
removed), that only an engine which runs a request or has just handed it over
holds blocks, and that a request in its last stage is neither finished nor
preempted. Counts are arbitrary integers in it, since after an exception
nothing bounds them.

* `BlocksConservedHolds`: every action changes one block table or one
  pre-allocation and the free count by opposite amounts (`BlocksMoved`), or none
  of them. `CrashInv` is needed for the places where the code overwrites an entry
  or drops one without giving anything back: there it was empty.
* `FaultInvHolds`: `late \/ (CrashInv /\ DeadInv)`, for any number of instances,
  requests, crashes and callbacks. The step that matters is `ClearMigrateOut`:
  without `TakesNewer` no coroutine works on the requests of the list, and putting them
  back makes their source the only owner (`RequeueCrash`). As a by-product
  the status that `clear_migration_states` asserts (`llumlet.py:651-670`) is
  the one the request has.
* `LiveBlocksConservedHolds`, `SingleOwnerUnlessLateHolds` follow. For
  the former, that freeing all pre-allocations of an instance gives back their
  sum (`FreeAllBlocks`).

The sums are folds over finite sets. What they need is proved by induction over
sets instead of predicates (`SetInduction`: a set that contains 0 and with `n`
also `n + 1` contains every natural number, from `WFMin` and
`NatLessThanWellFounded`; `SubsetInduction` on the subsets of a finite set):
the sum without an element and the sum of a changed function (`SumPoint`,
`SumPlus`).

### 4.11 How the invariants were found

Each `IInv` was checked by TLC, on the instance of its run and on others, before
it was proved: `V1Migration` on its run's instance, with three faults and
without pre-copy (776 thousand states), and with all pairs and two faults
(734 thousand); `Deployment` with two faults and a restart, and with three ids
(1.2 million states); `OutputDelivery` with five outputs and three faults
(6.2 million); `GlobalScheduling` with the policies `load`, `rr` and `balanced`;
`RequestRouting` with two requests (partly: 15 million states without an error).
`FrozenInv` was checked with FCWSR (282 517 states) and, with `FlagInv`, with LCR
(36 177) and P/D disaggregation. `FaultInv` was checked on the instance of its
run (1.1 million states) and with two crashes (5.0 million); `KvInv` on four
instances of up to 422 thousand states, with up to two producers, two consumers,
two requests and two layers; `CleanInv` on the run's instance (2.2 million), with
three instances and no restart (3.4 million), and with a fault (partly:
10 million states without an error).
Only `LiveMigration` and `BackendRebuild` keep that check as a run, because
there the invariant is itself the property.

### 4.12 Model-checked only

Every invariant and action property of the passing runs is stated by a theorem.
What TLC alone shows are the liveness properties, whose reasoning under fairness
is beyond the prover: `MigrationEnds`, `TasksEnd`, `MigrationResumes`,
`GroupsSettle`, `RoutesRestored`, `GenerateReturns`, `StreamsEnd`, `HandoffEnds`,
and the fairness part of `ImplementsOwnership`. The hypotheses that some
theorems have (`MaxFaults <= 1`, a policy) are those without which section 6 has
a counterexample.

## 5. Finding

**KvEvents** (`backends/vllm/v1_kv.py:119`). The replay thread hands every
batch to the index whatever its sequence number, concurrently with the live
socket. A replayed `BlockStored` that is applied after the live removal of the
block puts it back for good, and the dispatcher prefers the instance for a
prefix it no longer has. The docstring calls duplicates harmless
(`v1_kv.py:102-103`).

## 6. Statements that the models refute

The following definitions state what one would like to hold, often in the words
of a comment, and TLC finds counterexamples that follow the code line by line.
They stay in the modules, with the constants under which they fail, and are not
among the runs.

| Statement | Module and constants | What happens |
|---|---|---|
| `AllBlocksSent` | `LiveMigration`, 2 instances, 1 request, LCR; 4 blocks, watermark 0, `MaxBlocks` 3 | the blocks of the last stage are listed before the request leaves the running queue; a step in between may add one that is never sent (`migration_coordinator.py:122`) |
| `PreAllocHonest` | `LiveMigration`, 2 instances, 2 requests, LCR; 4 blocks, watermark 0, `MaxBlocks` 4, `MaxStages` 3 | a later pre-allocation without enough free blocks answers with ids of blocks already filled (`scheduler.py:182`) |
| `SurvivesDst` | `MigrationFaults`, as its run | a dead destination that the polling loop has already removed makes the callback raise a `KeyError`; the source is never told to put its last-stage request back (`manager.py:1780`) |
| `SingleOwner`, `BlocksConserved` | `MigrationFaults`, as its run | the callback clears `instance_migrating` before its awaits (`manager.py:758-761`), so a migration from the same source to a third instance can reach its last stage before the old callback's `clear_migration_states` arrives; that puts the newer migration's request back into its queue, the commit then gives it a second owner, and when a later migration comes back to the source, the block table there is overwritten |
| `FrozenHasTask` without `AllAlive` | `V1Migration`, as its run | a crash of the target ends the task without unfreezing the source (`manager.py:1003`) |
| `ImportHasTask` without `snap[i][r] = 0` | `V1Migration`, as its run | a request moved from `a` to `b`, from `b` to `c` and back to `b`, where a call fails: `b` still has the snapshot of its export, whose epoch is not the one of the new migration, so that `abort` raises and the import stays (`v1_migration.py:226`) |
| `ImportHasTask`, `FrozenHasTask` without `unclean` | `V1Migration`, as its run; with `MaxFaults = 2` | the clean-up call itself fails, and is not repeated (`manager.py:1146`) |
| `NotLost` with `MaxFaults = 2` | `V1Migration` | the source crashes after the target commit, the registration fails, and the clean-up aborts the only copy |
| `CountsExact` with `MaxFaults = 2` | `Deployment` | without the State API, both actors of a launching instance die, the loop takes its group up again and launches the id a second time while the first `done_scale_up` is under way, so the id is counted twice (`manager.py:1177`) |
| `Restored` with `MayEmpty = TRUE` | `BackendRebuild` | the count is reset while a rebuild waits, a second one starts, and `enable_migration` stays off (`manager.py:1375`) |
| `GroupComplete` | `BackendRebuild`, as its run | the initialisation of the group times out on a member, which answers `False`; the round counts as done, the member is admitted to migration and has no group (`migration_backend.py:207`, `manager.py:1643-1678`) |
| `FixedSize` | `Deployment`, `Scaling = FALSE`, `Initial = 2` | a Manager that dies within `init_global_instances` is asked again, and creates all replicas again |
| `RetainedResumed` | `Deployment`, without faults | without the State API a retained group counts towards the limit that stops the loop from resuming it (`manager.py:1220`) |
| `OnlyDeadFelled` | `RequestRouting`, as its run | the decoding half cannot be submitted, and the living prefill instance is scaled down (`manager.py:469`) |
| `AbortReachesPair` | as above | the lookup of a removed instance raises a `KeyError` before the other half is called (`manager.py:535`) |
| `FallbackBounded` | as above | a fallback request stays counted for good, against the comment at `client.py:243`: (a) a copy that the Manager had dispatched before it died finishes first, so that the fallback's last output finds no stream and settles nothing; (b) the abort of a restarted Manager, or a clean-up its predecessor left behind, ends the request at its Llumlet, and only `abort` without a Manager lowers the counter |
| `RolesKept` with `Policy = "balanced"` | `GlobalScheduling`, `MaxRequests` 3 | the policies that choose among the counters can name a decode-only instance that P/D selection has given one |
| `PeerReleased` | `KvHandoff`, as its run | a consumer whose producer failed waits for the whole time-out and fails with its EngineCore, where the comments (`llumlet.py:609`, `manager.py:437`) want it released |

Further, seen while modelling, at points where the code promises nothing that
could be stated or the models stop short:

* with FCWSR a request with `eom` that fails leaves `is_migrating` on the
  requests after it (`llumlet.py:255`), and with FCW and FCWSR a waiting request
  that has just migrated in can be chosen, marked and skipped
  (`MigratingFlagEnds` fails in both cases); a waiting request put back by
  `clear_migration_states` is admitted without blocks (`llumlet.py:669`);
* after a legacy migration of several requests only the first is re-routed; the
  others wait for the next reconciliation (`manager.py:789`);
* tokens that the V1 target makes before its stream is registered have nowhere
  to go (`manager.py:1068`), and as the clean-up calls have no order both sides
  may run for a moment (`manager.py:1146`);
* outputs of vLLM 0.6 may overtake each other (`llm_engine.py:284`);
* a migration scheduled before a rebuild may start during it (`manager.py:731`),
  and the rebuild may wait for ever (`manager.py:1627`);
* an abort between the source commit of a V1 migration and the new route goes to
  the source only (`manager.py:994`);
* `generate` awaits inside an iteration over `self.instances` (`manager.py:336`);
* the first request that meets a dead Manager is not generated again, and its
  stream stays open if it had not been submitted (`client.py:104`);
* a single request with an undecorated id ends the EngineCore of a producer
  (`manager.py:390`), and a V1 adapter always reports RUNNING, so that its
  Llumlet is not stopped (`llumlet.py:219`).

## 7. Not modelled

* Tensor copies, RDMA/NCCL/gloo transports, token contents, encodings of
  snapshots: data plane without decisions.
* HTTP handlers beyond when they wait and abort, argument parsing, logging,
  metrics, `v1_api_server.py` (one engine, no Manager): I/O.
* The local launch mode of `init_instances` and `entrypoints/setup.py`:
  sequential start-up in the driver process.
* The Ray queue (a wrapper of `ray.util.queue`), the simulator and profiling
  (numeric), the BladeLLM engine (not in the repository), the measurement tools.
* Swapping and chunked prefill of vLLM 0.6; what migrations write into the
  route tables, which the next reconciliation replaces.
* `ScalingScheduler` and its policies: `check_scale` has no caller in
  `src/llumnix`, only in a unit test, so that nothing follows from its decision;
  nor is the order of its two thresholds enforced anywhere. The scaling that
  does happen is `_auto_scale_up_loop` (2.5).

## 8. What is left

The system is modelled as far as section 7 allows, and the safety properties of
the runs are proved. Open are the liveness properties of 4.12, and the
statements of section 6: a change of the code that is meant to make one of them
true can be tried on the model first, as a new run with the constants named
there.
