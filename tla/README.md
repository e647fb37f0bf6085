# Megatron training and inference jobs in TLA+

The repository holds four bodies of code: Megatron-LM (`src/Megatron-LM`, the
training library with `megatron.core`), Megatron-Bridge
(`src/Megatron-Bridge`, the training loop and the conversion to and from
Hugging Face), MindSpeed (`src/MindSpeed`, patches of Megatron for Ascend
devices) and MindSpeed-Bridge (`src/MindSpeed-Bridge`, model definitions on top
of Bridge). Most of it is tensor computation, recipes and name mapping. What is
protocol, and therefore what a unit test hardly reaches, is concentrated in a
few places: saving checkpoints while training goes on, repeating a suspicious
iteration across processes, scheduling pipeline stages that send and receive,
reducing gradients in hooks, and serving inference requests from a small memory
behind a coordinator. This project models those.

## 1. Inventory

| Component | State | Operations | Talks to |
|---|---|---|---|
| Asynchronous save queue (`core/dist_checkpointing/strategies/async_utils.py`) | deque of active calls, `call_idx`, the caller of each call; for the persistent caller the process, `queue`, `preload_q`, `comp_q`, `cur_item` | `schedule_async_request`, `maybe_finalize_async_calls`, `close`, `execute_sync`, `async_loop` | worker processes by fork and by queues; other ranks by all-reduce and barriers; finalize functions by callback |
| Checkpoint data writer (`strategies/filesystem_async.py`, `state_dict_saver.py`, `torch.py`) | the write results queue of a process, cached plans | `prepare_write_data`, `write_preloaded_data_multiproc`, `retrieve_write_results`, `save_state_dict_async_finalize` | the coordinator by gather and broadcast; the disk |
| Checkpoint entry points (`serialization.py`) | the directory | `save`, `load`, `metadata_finalize_fn` | the two above |
| Training checkpoints of Bridge (`bridge/training/checkpointing.py`, `utils/checkpoint_utils.py`) | checkpoint directories, two trackers, the cached train states, clean-up threads | `save_checkpoint`, its finalize functions, `cleanup_old_non_persistent_checkpoint`, `load_checkpoint` | the save queue; the disk; the training loop through `train_state` |
| Training loop of Bridge (`bridge/training/train.py`, `pretrain.py`, `setup.py`) | `train_state`, weights | `train`, `train_step`, `checkpoint_and_decide_exit`, the final save | `save_checkpoint`, the rerun state machine, the buckets, signals |
| In-process restart (`bridge/training/inprocess_restart.py`, `megatron/training/inprocess_restart.py`, `async_utils.py`) | module variables that survive the restart | abort hooks, `reset_persistent_async_worker` | workers, results queue, global state |
| Training checkpoints of Megatron-LM (`megatron/training/checkpointing.py`) | as for Bridge, with a text tracker | as for Bridge | as for Bridge |
| Rerun state machine (`core/rerun_state_machine.py`) | per rank: state, flags, failed call and its result, suspicious device, saved random state, saved microbatches | `should_run_forward_backward`, `validate_result`, `should_checkpoint_and_exit`, `state_dict`, `RerunDataIterator` | the loop, all ranks by all-reduce, the next process by checkpoint and exit code |
| Pipeline schedules (`core/pipeline_parallel/schedules.py`, `p2p_communication.py`) | per stage: place in warm-up, steady state or cool-down, tensors kept, handles in flight | 1F1B, interleaved 1F1B, `_communicate` | neighbouring stages by sends and receives; the buckets by `no_sync`, `grad_sync_func`, `param_sync_func` |
| Gradient and parameter buckets (`core/distributed/param_and_grad_buffer.py`, `distributed_data_parallel.py`) | per bucket group: ready counts, golden counts, handles, "dispatched" | `register_grad_ready`, `start_grad_sync`, `finish_grad_sync`, `start_param_sync`, `finish_param_sync`, enabling and disabling hooks | backward and forward hooks, data-parallel ranks by collectives, the loop |
| Dynamic inference (`core/inference/engines/dynamic_engine.py`, `contexts/dynamic_context.py`, `dynamic_block_allocator.py`) | block stack, rows of requests, waiting queue, stop words, suspended requests | add, schedule, forward, bookkeeping, pause, resume, evict, suspend | clients by futures, the coordinator |
| Inference coordinator and client (`data_parallel_inference_coordinator.py`, `inference_client.py`, `run_engine_with_coordinator`) | routing position, acknowledgements; per engine the signals it has seen | submit, reply, pause, unpause, suspend, resume, stop | clients and engines by messages, engines of an expert parallel group by all-reduce |
| Number of microbatches, samplers, loss scaler | consumed samples, scale and its counters | update functions | the loop |
| Process groups (`parallel_state.py`) | group lists | rank generator | everything |
| Optimizers, models, conversion, recipes, datasets, MindSpeed, MindSpeed-Bridge | tensors, names, configuration | numerical code | – |

`PROJECT.json` lists each of them with its status and the reason. What makes
the modelled ones correct:

* *Checkpoints.* A checkpoint has metadata only if it is complete, whatever
  ranks fail; the ranks agree on which saves are finished, and in which order;
  the trainer changes its weights only once they are staged; a scheduled save is
  finished or the job hears of the failure; the checkpoint that the tracker
  names can be loaded at any moment at which the job may crash; a job that exits
  on purpose resumes exactly where it stopped.
* *Reruns.* A rerun computes from the very inputs of the first run; all ranks
  come to one verdict; what the machine concludes about the hardware is true;
  every suspicion is resolved.
* *Pipelines.* No stage waits for ever; each pass works on what its neighbour
  made of the same microbatch; gradients are reduced once, after the last
  microbatch; no stage keeps more activations than 1F1B promises.
* *Buckets.* The optimizer sees the gradients of all microbatches of all ranks;
  nobody computes with or saves old weights; collectives of different ranks
  never meet crosswise; no assertion fails.
* *Inference.* Every block belongs to one request or to the free stack; tokens
  go to the slots of their positions; every accepted request is answered, by the
  engine through pauses, evictions and suspensions, by the service through pauses
  (section 5 for suspensions); engines of a group step together or not at all,
  and stop together.

Hard behaviours: every rank polls its own worker at its own speed and then meets
the others in collectives; queues carry items without names; one results queue
serves all saves of a process; writers fail, or die without saying so; finalize
functions run steps after the save they belong to; directories are removed by
background threads while others are written; a crash falls between any two
files; an in-process restart keeps module variables and caches alive; a diagnosis
spans two processes and two devices; sends and receives are matched by order
alone, several passes ahead of their use; hooks run in another order on every
rank; requests move between rows of parallel tensors whose alignment nothing
checks; control signals cross acknowledgements and all-reduces. Each is a hazard
of `PROJECT.json` at its line, with the properties that guard it.

## 2. Modules

```
AsyncSave  <== AsyncCallsQueue --+-- PersistentAsync -- MCPersistentAsync
 (abstract)   (trainer side)     |        `------------ PersistentAsyncProofs
                                 `-- TemporalAsync -+-- MCTemporalAsync
                                                    `-- TemporalAsyncProofs

DurableTraining <== CheckpointTraining --+-- MCCheckpointTraining
 (abstract)          (job and directory) `-- CheckpointTrainingProofs

RerunStateMachine --+-- MCRerunStateMachine
(machine, train_step) `-- RerunProofs

PipelineDataflow <== PointToPoint --+-- PipelineWithoutInterleaving -- MCPipelineWithoutInterleaving
 (abstract)          (communicator) |        `------------------------ PipelineProofs
                                    `-- PipelineWithInterleaving ----- MCPipelineWithInterleaving
                                             `------------------------ InterleavingProofs

GradientBuckets -- MCGradientBuckets

DynamicContext --- DynamicInference --+-- MCDynamicInference
 (blocks, rows)     (engine)          `-- InferenceProofs
InferenceCoordinator --+-- MCInferenceCoordinator
                       `-- InferenceCoordinatorProofs
```

`<==` reads "is implemented by" (INSTANCE with a refinement mapping, the abstract
specification as a PROPERTY of a run); lines join a module to those that extend
it.

### AsyncCallsQueue: the trainers

All ranks run the same program of calls (SPMD), at their own speed: saves,
non-blocking and blocking finalizations, a close, synchronous saves. A save is
named by its position in the program; `call_idx` is a renaming of these.
Variables correspond to code as follows: `calls` is `async_calls`, `vote` the
`is_alive` flag of `sync_all_async_calls`, `fin` the call whose finalize
functions run, `got` the item `retrieve_write_results` returned, `results` the
`_results_queue` of the process; `written`, `torchMeta` and `ckptMeta` are the
shards, `.metadata` and `metadata.json` on disk. Everything a rank does alone
is an action of that rank (`BeginFinalize`, `QueueEmpty`, `Retrieve`,
`ExecuteSync`); a collective is one action of all ranks, enabled when the last
of them has entered it (`GatherResults`, `SaveMetadataJson`, `AgreeOnCallIdx`,
`SyncBarrier`, and the all-reduce of the caller). That is sound because a rank
inside a collective does nothing else and cannot leave before the others come.

### PersistentAsync, TemporalAsync: the callers

`PersistentAsync` adds the worker process of a rank with `queue`, the unfinished
tasks of `preload_q`, `comp_q` and `cur_item`; the steps of `async_loop` (take,
preload, write, put the result, report) interleave with all trainers. A write
may fail, which puts an exception on the results queue, and a worker may die in
any step of a request, which puts nothing anywhere. `Restart` is an in-process
restart at any moment before a mark of the program: the queues are dropped and
the workers killed, while the results queue of the process survives; with
`AbortStopsManager` the manager behind it is shut down as the Bridge does. The
processes of nvidia-resiliency-ext that call the hooks are external.

`TemporalAsync` is the caller that forks one process per save; several may be in
flight. The planning and caching of shards, and the several write processes
inside one worker, are abstracted to one write per rank and save.

### CheckpointTraining: the job and its directory

The ranks are one actor here; that they agree is the subject of the modules
above. The actions follow `train` (poll, batch-size ramp, step, decide, save,
exit), `save_checkpoint` with its finalize functions in their order (metadata,
`train_state.pt`, tracker, text tracker, `run_config.yaml`), the clean-up before
a non-persistent and after a persistent save with its threads, and
`load_checkpoint` with the choice among the two kinds of checkpoints. Files are
absent, torn or written; a write that truncates takes two steps. `Crash` may
happen at any moment, `InProcessRestart` likewise but keeps the `lru_cache` of
`read_train_state` and the object it handed out (`alias`). `warm` is a history
variable, read by no guard: it becomes true for good when a restart in place
finds something in those caches. Weights are the
number of steps they have been trained, which is what tells two checkpoints
apart. Not in the model: local checkpoints of nvidia-resiliency-ext, object
stores, `fsdp_dtensor`, PEFT and release checkpoints; a restart within the
process while an asynchronous save is active (it is in `PersistentAsync`).

### AsyncSave and DurableTraining: the promises

`AsyncSave`: saves are scheduled in order, ranks write data of an uncompleted
save, a save is completed after its predecessors and only with the data of all
its writers, unless it is given up, after an exception or a restart; what is
given up is neither written nor completed any more. In the refinement mapping a
save is given up once no rank will schedule it, has it queued or finalizes it.
`DurableTraining`: the step advances by one, a step already reached becomes
durable, a durable step is never given up, a job that stops goes on from the
durable one.

### RerunStateMachine: a suspicious iteration

`machine[r]` is the `RerunStateMachine` of rank r, `iterator[r]` its
`RerunDataIterator`, `pc[r]` its place in `train_step`. `Forward(r)` is one
microbatch: it draws a batch, advances the random numbers and runs
`validate_result` for the enabled checks (NaN, which is fatal, and spiky loss,
which is not), with one operator per branch of that function (`FirstRejection`,
`CompareInPlace`, `CompareElsewhere`, `Collect`). `should_run_forward_backward`
is split by its state: `BeginInitialRun`, `BeginRerunFromCheckpoint` of a rank,
and the transitions that follow an all-reduce of flags, of all ranks together
(`AcceptInitialRun`, `RerunInPlace`, `ContinueInPlace`, `StopInPlace`,
`EndRerunFromCheckpoint`, `ReportStats`). `Decide` and `Exit` are
`should_checkpoint_and_exit` with the exit of `train`, `Relaunch` the launcher
(external) that starts a second job on other devices from the checkpoint.

A result is a record of its batch, random position and of how it was computed:
well, by a glitch, or by a broken device. The machine sees only equality and
NaN, but the properties see everything, so that "what it concludes is true" can
be stated. Not modelled: the error injector, the statistics of
`is_unexpectedly_large`, evaluation.

### PipelineDataflow, PointToPoint and the schedules

`PointToPoint` is `_communicate`: a call starts up to four operations, and the
library pairs sends and receives of two stages by order alone. Batched
operations run together; single ones of a pair of stages and a process group
run one after the other in the order each stage started them, which is where
`_p2p_ops` must start with a receive on odd stages and use another group when
there are two stages. `Transfer` completes one pair.

`PipelineWithoutInterleaving` follows the three loops of
`forward_backward_pipelining_without_interleaving`; `stage[r].at` is the
program position, one action lies between two calls of the communicator.
`PipelineWithInterleaving` does the same for interleaved chunks, with the
schedule table, the three modes of overlap, the lists of handles that are waited
for passes later, and the index arithmetic for gradient and parameter
synchronization. A pass does not assume that it works on the right tensor: its
microbatch is read off the tensor that arrived (`ForwardOf`, `BackwardOf`; 0 if
its tensors do not belong together), and the refinement of `PipelineDataflow`
shows that it was right. `PipelineDataflow` promises that every microbatch goes
once through every layer forward and, in training, once backward, each after its
neighbour, and, with its weak fairness, that all of them do.

Not modelled: overlap of expert communication, the window of activation
checkpoints, the exchange of shapes for variable sequence lengths,
`use_ring_exchange_p2p`, deallocation of outputs, slots of receive buffers,
`finalize_model_grads`.

### GradientBuckets: hooks and collectives

A rank works off `todo`, the list of steps that the loop, the schedule without
pipelining and autograd make of an iteration: `zero_grad_buffer`, forward hooks,
backward hooks, `start_grad_sync`/`finish_grad_sync`, `optimizer_step`, gathers,
enabling and disabling of the forward pre-hooks around evaluation, hash checks
and saves. A call that blocks replaces itself by its wait. `launched[r]` is the
order in which rank r launches collectives; the k-th of one rank meets the k-th
of every other, whatever they are for (that is what the library does), so
crosswise meetings are representable. `grads` counts the backward passes in a
bucket, `weights[r][g][q]` says how new the shard of rank q is in the copy of
rank r. The assertions of the code are `Asserted`, the guard of every step, and
`AssertionsHold` says that no rank runs into one. What autograd and the optimizer do is
external; `plan` fixes per iteration the order of the hooks on each rank,
whether the update succeeds, repeated passes (reruns), evaluations and saves.
The number of hook calls per parameter is the same in all passes, the success of
an update the same on all ranks, and groups are completed in the same order on
all ranks: the code relies on all three. Not modelled: several distributed
optimizer instances, reuse of mxfp8 buffers, `check_grads`, expert-parallel
groups, Megatron FSDP, `overlap_param_gather_with_optimizer_step`.

### DynamicContext and DynamicInference: one engine

`DynamicContext` is the memory as operators on one record: the stack of free
blocks and the rows `[ paused | active ]`, with `AddRequest` and the steps of
`update_requests` (`Finish`, `Pause`, `Resume`, `Evict`, `ChunkLast`,
`Advance`) including how rows move. `DynamicInference` adds the engine: requests,
the waiting queue, scheduling in one piece or in chunks, a step as two actions
(`Forward` up to the point where `async_forward` yields, then the rest, `FinishStep`),
stop words found in one step and obeyed in the next, `Suspend` and
`ResumeEngine`. Tokens are counted, not named; what the model generates is any
choice of requests that end or complete a stop word. Every assertion of the code
leads to `phase = "broken"`. Not modelled: Mamba states, log probabilities, CUDA
graphs, token tensors, unified memory.

### InferenceCoordinator: clients, coordinator, engine loops

Every connection is a queue. The client runs a program of calls and awaits, the
coordinator handles one message at a time (`RouteRequest`, `Broadcast`,
`CollectPauseAck`, `CollectStopAck`, `ForwardReply`), and an engine loops through
`Drain` (all messages that have come, in one go), `Reduce` (the all-reduce of an
expert parallel group) and `Step` or `Obey`. A request is waiting, in the context
or to be resumed; a step ends any of those in the context. Not modelled: the
CONNECT handshake.

## 3. Runs

Passing runs (the constants are in the `.cfg` and the MC module):

| Run | States | Shows |
|---|---:|---|
| `persistent_async` | 95 567 | two ranks, no write failures, an in-process restart of Megatron-LM possible: snapshots of the step of the save, completions match the head of the queue, every save finalized |
| `persistent_failures` | 485 104 | three ranks, one without data, two failures anywhere, an in-process restart of Bridge possible: metadata only for complete saves, finalization only when no worker has the save, agreement of the ranks, `AsyncSave` implemented |
| `temporal_async` | 33 698 | forked writers, one per rank at a time, two failures: a failure, silent death included, is raised on all ranks; `AsyncSave` implemented |
| `training` | 111 023 | four jobs: synchronous saves with `most_recent_k` = 2, a crash and exits; saves of both kinds with a restart inside the process; asynchronous saves with two crashes; asynchronous saves of both kinds with a batch-size ramp, exits and reruns. The resume point stays complete, counters match weights, every exit is durable, training ends, `DurableTraining` implemented |
| `rerun_machine` | 420 702 | two ranks, three devices, three iterations of two microbatches, three modes, three sets of checks, one fault, one rejected correct result, one unlucky relaunch: one verdict, exact replay, true diagnoses, stops, resolution |
| `pipeline_1f1b` | 42 260 | two to four stages, one to five microbatches, training or not, batched or single operations, reduction aligned or not: `PipelineDataflow` implemented, gradients reduced once, activations bounded |
| `pipeline_interleaved` | 32 553 | two and three stages with two or three chunks, two to five microbatches in groups of two or three, four modes of communication, aligned synchronization or not, and four stages in two modes: `PipelineDataflow` implemented, gradients reduced once, parameters gathered before use |
| `gradient_buckets` | 374 274 | two ranks, three parameters in two groups, one used twice, two microbatches, three iterations, seven configurations: assertions, collectives, gradients, weights |
| `dynamic_inference` | 173 185 | up to three served requests on five blocks, in one piece with stop words and a suspension, in chunks, and under `run_engine` with a rejected request: blocks, rows, slots, no failed assertion, stop words kept, requests answered |
| `inference_coordinator` | 36 919 | two engines, alone or in one group, four programs of a careful client: pauses during the work, a request to paused engines, a suspension after the last reply, a stop. A paused group rests, requests are served, engines stop |

Runs that end in a counterexample show where the code departs from what it, its
comments or its documents say; `PROJECT.json` ("findings") quotes the sentence
and the line.

| Run | What the trace shows |
|---|---|
| `v_async_keep_last` | with asynchronous saves and `most_recent_k` = 1 the clean-up chooses the checkpoint to restart from, because a directory still being written counts as a checkpoint |
| `v_stop_hang` | in an expert parallel group the engine that has STOP_ACK leaves its loop after an all-reduce in which the other, that has STOP only, claimed no work; the other waits in the next all-reduce for ever |

### Bounds and why they are enough

*Saves.* Two ranks suffice for a disagreement between a rank that is early and one
that is late; the run with failures has three, so that a rank without data, one
that fails and one that succeeds occur together. Programs have up to three
saves, which gives a save in flight before and after the one being finalized,
polls that find them finished or not, a close with a second start of the
worker, and a drain. Two failures allow a failure while another is being
handled. `MaxFailures`, and in a setup `crashes`, `restarts`, `stops` and
`reruns`, bound only how often the environment strikes. Five training steps with
save intervals 2 and 3 contain steps with one kind of save, with the other and
with none, and a last step that was not saved. `most_recent_k` of 2 and "all"
separate the cases of the slice `[:-n]`.

*Reruns.* Two microbatches put the rejected one first or last in its pass; three
iterations give one before the first check (which is skipped), the suspicious
one and one after. Three devices for two ranks leave one to move to. `MaxFaults`,
`MaxOdd` and `MaxUnlucky` are 1 because the diagnosis is about a single cause:
with two faults at once "reproducible" may be wrong, by design.

*Pipelines.* Four stages have two inner ones of both parities; one to five
microbatches are fewer than, as many as and more than the stages. Two and three
chunks separate "next chunk" from "last chunk"; groups of two or three
microbatches with a remainder exercise the shorter last group of the table.

*Buckets.* A group of two parameters, one with two hook calls, can be completed
in different orders on two ranks; the second group makes the gathers chain.
Three iterations are the first batch (counts are learned), one where hooks are on,
and one after a skipped update or a repeated pass.

*Inference.* A block holds two tokens; the active part has four blocks and the
paused part one. Requests of three or four blocks compete, fill a block every
other step, pause, and overflow the paused part, so that one is evicted. Two engines and two requests show a signal
that has reached one engine and not the other, at every place of their loops.

Deadlock is checked except in four runs. In `persistent_failures` the death of a worker, or the
restart of Bridge, leaves a trainer waiting (section 5). In `dynamic_inference`,
`inference_coordinator` and `v_stop_hang` the system rests when everything is
answered or stopped; that it rests nowhere else is what their liveness
properties say. In the pipelines and in `gradient_buckets` deadlock is the
hazard itself: returning, or the end of the list, is the only allowed rest.

### Fairness

The save modules assume weak fairness of every trainer and every worker (they
are operating-system processes that keep running) and of the collectives (once
all ranks have entered, a collective ends). In `CheckpointTraining` the job, the
worker and the clean-up threads are weakly fair. Failures, deaths, crashes,
faults, signals and exits by duration are never due, so no liveness property
holds because of one of them; the relaunch of a job that exited is, because the
launcher does it. `RerunStateMachine` likewise: ranks, collectives and the
relaunch. A pipeline has weak fairness of its next-state relation as a whole:
each of its behaviours is finite, so that suffices. `DynamicInference` states
fairness of three changes of phase (a step starts when there is work, a step
ends, a suspension ends); which requests end is not fair, but every one ends by
its own length. Submissions are not fair. `InferenceCoordinator` has weak
fairness of client, coordinator and engine loops, each of which is a loop or a
task of its own, and strong fairness of "a step ends a request", for the reason
that `DynamicInference` gives: a step adds a token to every active request.
`GradientBuckets` has safety properties and deadlock only.

## 4. Proofs

The inductive invariants below hold for every value of the constants that the
named assumptions of the modules allow.

About `PersistentAsync`, for every set of ranks, every choice of writers, every
length of program and every bound on failures:

* `TypeCorrect` (`PersistentAsyncProofs`): `Spec => []TypeOK`;
* `SnapshotCorrect` (`PersistentAsyncProofs`): `Spec => []SnapshotOfSameStep`;
* `OrderCorrect` (`PersistentAsyncProofs`): `Spec => []FinalizedInOrderEverywhere`;
* `MetadataCorrect` (`PersistentAsyncProofs`): `Spec => []MetadataOnlyIfComplete`;
* `CompletionCorrect` (`PersistentAsyncProofs`): `Spec => []CompletionIsForHead`;
* `FinalizeCorrect` (`PersistentAsyncProofs`): `Spec => []FinalizeAfterAllRanksDone`;
* `Implementation` (`PersistentAsyncProofs`): `Spec => ImplementsAsyncSave`.

The first two hold for all programs. The others are under the hypothesis
`Plain`: the programs consist of "save", "poll", "drain" and "close", in any
order and number. Without it `MetadataOnlyIfComplete` is false: a synchronous
save during an asynchronous one, or an in-process restart of Megatron-LM, may
take the result of another save (section 5). The last three need `SameWriters` as
well: a rank has data in all saves or in none. A rank that has none in the save at
the head and some in the next one asks its worker about the head all the same,
and may be told that the next one is done. The runs check the properties also
for programs with "sync" and "fault" for which they hold.

About `TemporalAsync`, for the same constants and all programs, those with
overlapping saves included (`TemporalAsyncProofs`):

* `TypeCorrect`: `Spec => []TypeOK`;
* `OwnExitFirst`: `Spec => []FinalizeAfterOwnExit`.

About `PipelineWithoutInterleaving`, for any number of stages and microbatches
(`PipelineProofs`):

* `TypeCorrect`: `Spec => []TypeOK`;
* `ActivationsBounded`: `Spec => []OutstandingBackprops`;
* `GradientsReduced`: `Spec => []GradientsReducedOnce`.

About `PipelineWithInterleaving`, for any number of stages, chunks and microbatches,
any group size and all modes of communication, as far as the schedule accepts them
(`InterleavingProofs`):

* `TypeCorrect`: `Spec => []TypeOK`;
* `ReducedOnce`: `Spec => []GradientsReducedOnce`;
* `SyncedBeforeUse`: `Spec => []ParamsSyncedBeforeUse`.

`LayoutsAssumption` gives the fields of a layout their types, `NoneAssumption` says
that the absence of a tensor is not one of the tensors that receives are started for.

About `RerunStateMachine`, for any number of ranks, microbatches and iterations,
any devices at least as many as the ranks (`RerunAssumption`), all modes, checks
and faults (`RerunProofs`):

* `TypeCorrect`: `Spec => []TypeOK`;
* `VerdictsAgree`: `Spec => []SameVerdict`;
* `RerunsAreExact`: `Spec => []ReplayIsExact`;
* `RejectionStops`: `Spec => []DefaultChecksStop`;
* `FaultsAreFound`, for any number of faults: a result that is not
  reproduced, in place or on another device, was touched by a fault in one of the
  two runs;
* `DiagnosesAreTrue`: `MaxFaults <= 1 => (Spec => []DiagnosisIsTrue)`.

About `CheckpointTraining`, for any number of iterations, all intervals, and any
number of crashes, restarts, stops and reruns (`CheckpointTrainingProofs`):

* `TypeCorrect`: `Spec => []TypeOK`;
* `CountersResumed`: `Spec => []CountersMatchWeights`: the counters agree with the
  weights until a process that had loaded a checkpoint is restarted in place
  (`~warm`);
* `Implementation`: `Spec => ImplementsDurableTraining`, if every setup is `Plain`;
* `RestartPointIsKept`: `Spec => []RestartPointKept`,
  `ResumePointComplete`: `Spec => ResumePointStaysComplete`,
  `ExitsAreDurable`: `Spec => []ExitIsDurable`, and `OnlyCrashesStick` (no save
  fails, and only after a crash may a restart find nothing it can load), if every
  setup is `Safe`.

`Plain` setups save persistent checkpoints only and do not restart within the
process. `Safe` ones, in addition, keep all checkpoints, or save synchronously
and keep more of them than the job has crashes. Neither is for convenience: section
5 has what happens without them.

About `InferenceCoordinator`, for any engines, any grouping into disjoint expert
parallel groups and any programs (`InferenceCoordinatorProofs`):

* `TypeCorrect`: `Spec => []TypeOK`;
* `PausesAreObeyed`: `Spec => []PausedGroupRests`, if all clients are `Careful`: they
  have an "unpause" between two pauses, and an await of a pause between it and
  whatever revokes it.

About `DynamicInference`, for any requests, any size of block, of memory and of a
forward pass, in one piece or in chunks (`InferenceProofs`), if the setups are
`SuspensionsAreOrdinary`:

* `InferenceInvariant`: `Spec => []IInv`, the inductive invariant;
* `TypeCorrect`: `Spec => []TypeOK`;
* `BlocksAreOwnedOnce`: `Spec => []BlocksOwnedOnce`;
* `RowsAlwaysMatchRequests`: `Spec => []RowsMatchRequests`;
* `TokensAlwaysInTheirSlots`: `Spec => []TokensInTheirSlots`;
* `EngineAlwaysGoesOn`: `Spec => []EngineGoesOn`, if `MemoryHoldsARequest`;
* `StopWordsAreKept`: `Spec => StopsAreKept`, if `StopsWithoutChunks`.

`SuspensionsAreOrdinary` restricts only setups that suspend the engine: they do not
fill prompts in chunks, and no client sends a request that would be rejected now or
when it is added again. `MemoryHoldsARequest` says that the longest request has room
in the active part of the memory: `BlocksFor(MaxSequence) <= ActiveBlocks`. With
`StopsWithoutChunks` stop words are used only where prompts enter in one piece. The
setups of the run satisfy all three, and section 5 has what happens without them.

### Types and the hand-over

`TypeOK` is not inductive: the worker decrements the count of unfinished tasks
of `preload_q`, which stays a natural number only if a task is outstanding at
that moment, and a request it takes must be a position and not the message
that stops it. The invariant that is inductive is `TypeInv == TypeOK /\ Shape`.
`Shape` says of every rank that at most one request is between trainer and
worker: while the trainer waits for the staging (`pc = "stage"`) either the
count is 1 and the request is the only item of the queue or in the hands of the
worker in `preload`, or the count is 0; while it does not wait, the count is 0
and the queue is empty, or holds the stop message alone while the trainer joins
the worker. This is the handshake that makes `preload_q.join()` mean "my
weights are staged", so the lemma is worth more than types. The argument has one
lemma per group of actions (`ScheduleType`, `PollType`, `WorkerType`,
`CloseType`, `QueueStepType`, `CollectiveType`, `RestartType`), each of which
first restricts attention to the one rank that moves (`ShapeElsewhere`). The
other theorems about `PersistentAsync` rest on `TypeInv` too. The first is
`SnapshotCorrect`: the trainer is at the operation it staged for as long as the
worker is in `preload` (`StagedInTime`), so what the worker copies then is of the
step of the save.

### Agreement of the ranks

`FinalizedInOrderEverywhere` speaks of what the ranks have finalized, but what
keeps it is what they have not: ranks are at different operations, their deques
have different lengths, and yet the heads they pop together must be one save.
The inductive invariant `Agreement` compares what each rank has given up: the
saves it has scheduled (`Passed`) and no longer holds (`Calls`) are the same
set on all ranks, whatever each of them has scheduled since. With deques that
are strictly increasing this gives `HeadsAgree`: the smaller of two different
heads would have been given up by one rank and not by the other. A step of one
rank, and a collective other than the two that finalize, keeps this set on every
rank (`Keeps`, `AllKeepAgrees`); `StartFinalizeAgrees` and `AgreeOnCallIdxAgrees`
are the two that move a save from the deque to `fin` and from there to the
history. `History` orders the three: finalized before being finalized before
held.

### From the writer to the metadata

The results queue carries results without saying of which save they are, so
`MetadataOnlyIfComplete` needs that the item taken is that of the save being
finalized. `Pipeline` says that of every rank: the results in the queue, the
request the worker has in hand and the request in its queue are, in this order,
strictly increasing (`InOrder`), and together they are exactly the saves whose
results the rank will retrieve (`Line`), unless an exception ends the rank
(`Broken`). The save being finalized is the smallest of these, by `Agreement`;
so if the queue has an item at all, its head is the right one
(`RetrievePipeline`). That a good result means data on disk (`HonestWorker`) is
handed on to the trainer (`HonestTrainer`), and `GatherPipeline` puts it
together over all ranks, because the ranks finalize the same save. The proof
needs no assumption that workers are done when a save is finalized: a missing
result is an error by itself.

### Completions without names

`is_current_async_call_done` takes an item of `comp_q`, keeps it in `cur_item`,
and takes its presence for the completion of the call it was asked about. The
invariant `Completion` says why it is: on a rank that writes, the saves handed to
the worker and not yet used up (`Handed`: the current item, the completed
calls, the request in hand, the request in the queue) are exactly those the
trainer still has to finalize (`Due`), and they lie in that line in the order
of the saves (`InTurn`). So the current item is the least of what is due, the
head of the deque (`CurrentIsHead`). A rank votes to finalize only with a
current item; since the votes are all-reduced and, by `Agreement`, the heads
are one save, a save that is finalized has left the line on every rank
(`FinalizedIsDone`).

### The refinement of AsyncSave

`Implementation` uses all of the above: types, `Agreement`, `Pipeline`,
`Completion`, and `Recorded`, which says that the saves with metadata are those
all ranks have finalized, but for the one whose `call_idx` is being compared.
What AsyncSave sees of a rank is which saves it has begun to schedule (`Begun`) and
which it is not done with (`Holds`); a rank that keeps both (`Same`) makes
AsyncSave stutter. That disposes of all steps but four: the first rank to schedule
a save (`ScheduleImplements`), a worker that writes (`WriteImplements`: it is
due, hence neither complete nor given up), a gathering that finds a failure
(`GatherImplements`: the save is given up), and the metadata
(`MetadataImplements`: all before it is complete or given up, by `Agreement`, and
its data are there, by `MetadataOnlyIfComplete`).

### Forked writers

With forked writers each call has its own process, so it is clear whose completion
a rank sees. `OwnExitFirst` needs that a rank leaves the all-reduce for a `join` of its
own process, and that no later step of another save starts the process of the
save being finalized again. The invariant `Inv` is `TypeOK` with a `Shape` local
to each rank; the theorem holds for overlapping saves too, whose results may be
confused (section 5), because a process is joined by name.

### A stage of the pipeline

What a stage has computed follows from its place in its own schedule, whatever
the neighbours and the network do. `Counts(r)` gives, for every place, the number
of forward and backward passes and of tensors kept as a function of the loop
index; `Syncs(r)` says whether the stage is still inside `no_sync`, and what it
has reduced. Neither speaks of another stage, so `OthersAlone` and
`UntouchedStage` dispose of all stages but the one that moves, and of deliveries,
and the proof has one lemma per action. `WarmupRange` bounds the warm-up by the
number of microbatches. The invariant needs no fact about tensors: it holds even if a
stage received the wrong ones, which is the reason it can be proved without
following the network.

### A stage of the interleaved pipeline

Here too what a stage has done follows from its place in its own schedule, but the
schedule is a table, made by a recursion over groups of microbatches. The recursion
is first shown to define a function at all (`TableExists`), and then what it defines
(`TableShape`, with `Shape` for the table from some microbatch on, kept by putting a
group in front): every chunk comes M times, a chunk comes to a microbatch at least
P entries after the chunk before it (a group is no smaller than the number of stages,
and the last, smaller one not either), and the first entry of chunk c is number
c * N. `Count` turns the table into a number of passes of a chunk (`TableFacts`).

`Forwarded(r, s)` and `Backwarded(r, s)` are the passes that a stage with the locals s
has made, by its place. Whatever the mode of communication, each of the 13
actions is then one of four moves (`Moves`): the next forward pass, the next backward
pass, the flush, or neither. What each mode does with its handles and lists is dealt with
once per action, in the lemmas that end in `Moves`, and the invariant is about the four
moves only. `Inv` adds to the places of the stages (`Positions`) that the lists of
passes are as long as the table says (`Progress`); that a chunk is in `synchronized`,
and its layer reduced once with M passes, exactly if its reduction is due (`Reduced`,
`Due`: with a `grad_sync_func` r passes after the last of the chunk, or at the flush);
and that a chunk's gathering has been launched r passes before its predecessor's
first pass (`Synced`). `Reduced` is inductive because the last microbatch of a
chunk comes once (`LastOfChunk`, `BecomesDue`); `ParamsSyncedBeforeUse` follows because
the chunk itself comes N passes after its predecessor (`FirstOfChunk`), which is why
looking ahead by the rank is early enough.

`TypeOK` bounds the lists of tensors, and what goes into a list is decided by
`PeerSends`, which computes the chunk of the next tensor and asks nobody. `Reach`
counts what these calls have brought for a chunk: a stage inside the ring is one
tensor ahead of its passes; the stage at which the ring starts is given, P - 1
passes later, what the other end has done for the chunk before (`ReachGrows`). What has
come in for a chunk is never behind its passes and never more than M (`ReachCovers`,
from the distance of chunks in the table). `Lists` says how long the lists are: `Outs`,
the forward passes of the chunk less its backward passes; `Ins`, its inputs so far
(`Fed`) less its backward passes; `Grads`, at most the gradients so far (`FedBack`).
`TypeOK` has the consequence, lists of at most M and no output without its input; it is
not inductive, as a pass through one chunk says nothing of how many tensors
are there for the next.

### A rerun

`ReplayIsExact` compares what a rerun has used with what the initial run used;
that its next step keeps this depends on what it will use. `Phase(r)` gives, for
each state of the machine and each place of `train_step`, the batches the
iterator has saved, how far it has replayed them, how many batches the source
has given, and the position of the random numbers, all as functions of `step`
and `micro[r]`: consecutive numbers from `Base`, so that equality of two runs is
equality of intervals (`Runs`, `Drawn`). A rerun in the next job starts from the
checkpoint, which `Saved(r)` ties to the initial run, and `Exited` says it is
there when the launcher is told to start again. `Together` is the agreement of
the ranks: all are inside the loop, or all have left it in one state, and where
each stands then follows from the verdict on that state. It is the collectives
that keep it, the steps of one rank do not touch it; hence one lemma per action
for `Phase`, and one argument for all of them for `Together`.

`RejectionStops` adds `Rejected`: with NaN checks alone no rank, and no machine
in a checkpoint, ever requests to continue, and a rank that rejected a result of
this iteration either requests a rerun or is past its initial run. The request
is all-reduced, so no rank accepts the iteration. With both checks the first
conjunct fails, as does the property (section 5).

### A diagnosis

`DiagnosisIsTrue` relates a verdict to the faults that the environment has put
into devices. What the machine knows is two results and whether they differ, so
the invariant `Diagnosed` says where each of them came from. `Suspicion`: the
initial result of a suspected call is that of the initial run of this iteration,
which the machine kept through the reruns and in the checkpoint, and it was
rejected. `MadeOn`: it was computed on the device the rank was on, wrongly for good if that
device is broken, and otherwise well or with a glitch. `Accused`: from the end of the first
rerun on, if the initial result is the work of a broken device, that is the
device the machine suspects, although the job may have been relaunched on
another. `Statistics` says the like of the results collected for the report on
determinism, and `Budget` counts the faults. That a rerun uses the batch and the
random numbers of the initial run is `ReplayIsExact`, hence the argument rests on
the invariant of the reruns. With one fault at most, two results that differ cannot both be
wrong, and two that agree are not both hit by one, which gives
`DiagnosesAreTrue`. With two faults TLC finds a false diagnosis;
`FaultsAreFound` needs no such bound.

### The job and its directory

What a restart will load depends on files that were written by several steps of
several saves, read through trackers, and removed by threads. Four layers of
invariants follow them:

* `Basic`: types, the places of the loop where the step is below or equal to the
  last (`InLoop`), and what files, caches and the aliased `TrainState` say of the
  step (`Counters`). A cached `TrainState` is never behind its file, and ahead of it
  only if `warm`: as long as it is false, the caches are empty at every load. That
  gives `CountersResumed`.
* `Ordered` (for `Plain` setups): saves come in the order of their steps. The
  requests in the queue are later than what is being finalized, that is later
  than what is published (`Latest`), and none is later than the training
  (`InSequence`); the tracker is torn only while it is written or after a crash
  (`Tracked`). It is what `Implementation` needs: the durable step of `DurableTraining`
  is the one the tracker names, and a step of the mapping moves it forwards only.
* `Kept` (for `Safe` setups): what is published, or on its way, has its files and is not chosen
  for removal. The clean-up counts directories, not checkpoints, and a crash can
  leave one that is not a checkpoint and looks newer; so `Removals` counts these
  (`Leftover`): there are at most as many as there were crashes, and with
  `keep > crashes` at least one place is left for the real one. `Requests` and
  `Finalized` say of every place between a request and its publication which files
  are there; a directory may be rewritten by a later save of the same step.
* `Leaving`: at the places between the decision to exit and the exit, the last
  step is stored, or its request is the last of the queue that the exit drains.

### Who hears of a pause

An engine is paused by the acknowledgement that the coordinator sends to all when it has
the acknowledgements of all. `PausedGroupRests` is a question of what an engine
knows between two all-reduces of its group. `GroupsAwake` answers it: as long as
one engine acts on the group's work, one of the group is `Awake`, which means it is not
paused and will not be by what it hears before the next all-reduce. That in turn
needs that an engine to which PAUSE_ACK is on its way obeys the pause already
(`Acknowledgements`), so that none is sent for an earlier pause. The acknowledgements
carry no round number; what separates two rounds is the client, and
`Rounds` follows a round from the call through the queue of the client, the coordinator,
the engines and back: `Calm` (nothing of a pause is left at engines and coordinator)
whenever a pause or an unpause waits at the coordinator. `Awaited` turns the
positions in the client's program into what it has been told. An engine handles all
its messages in one go (`HandledAll`), so the proof is also one by induction over
them (`Outcome`, `HandledAllOutcome`).

### The rows of the memory

What can go wrong in `update_requests` is that two parallel moves do not fit: a row
lands on another one, keeps the blocks of its predecessor, or is released with the
wrong ones. Each of its steps is therefore described by the function that says which old row
a new row is (`Selects`): injective, since rows are exchanged in pairs
(`ExchangeSelects`, `ToTheLeftSelects`), and with the others gone for good
(`Finishes`, `Pauses`, `Evicts`, `MovesLast`). From these functions alone it follows
that each block still has one owner (`Release`, `Acquire`, for the two directions in
which blocks go) and that no request has two rows (`SelectedRows`). How many rows
move is not needed for that.

What a row says of its request is `Paired`, with a lag of one for a token that
has been generated and has no slot yet. In the middle of `update_requests` every row
has that lag (`Due`, after the finished rows are gone), and `Halfway` says who
can catch up: an active row has a slot for the token (`NextSlot`), since a row that has
filled its last block was paused by step 5 and is active again only with another
block; that is what the assertion of `resume_paused_requests` asks for. `Advance`
then uses the slot. The slots are what makes the count of blocks right:
`InItsSlot` determines it (`BlocksForSlot`). Outside of it `IInv` has where
requests are: in one of the queue, the rows and the failed ones, but for the
prompt that is filled in chunks, which heads the queue and has the last row (`ChunkGood`).
An evicted or suspended request can be admitted again because it has something left to
generate (`CheckpointedQueued`): it would have been finished otherwise.

`EngineAlwaysGoesOn` needs an argument about the amount of memory. Suppose all rows
are paused after the first `resume_paused_requests` (`Stalled`). The right-most one
then has room in the active part, which is empty, so it did not go on for want of a free block
(`StalledResumes`). The rows then have all blocks (`RowsHaveAll`), those of the active
part included, so the paused ones overflow theirs; there are at least two, as one alone does
not fill the active part; and the eviction stops before the last one, as each has a block
(`StalledEvicts`). What it releases lets the second `resume_paused_requests` resume a
row. That `update_requests` never ends a step without an active row is an assertion of the
code; the argument shows what it rests on.

The model chooses the order of a finite set and sums over sequences with operators that are
defined by recursion or choice; that these exist, and what they return, is proved
first (`AscendingLists`, `FlattenLists`, `ActiveTokensType`, `ScheduleExists`).

### Only model-checked

The refinements of `PipelineDataflow`, that of `AsyncSave` by `TemporalAsync` and
for programs with synchronous saves and restarts, that of `DurableTraining` for
setups that are not `Plain`, all liveness, and the safety properties of
`GradientBuckets`. Liveness under fairness is out of the prover's reach. The library's theorems about
induction cannot be instantiated by the provers at hand; induction over the natural
numbers is therefore derived from the well-foundedness of `<` in the form of a set
that is closed under successor (`Induction` in `InferenceCoordinatorProofs`), and a
recursive function is shown to exist by it before its equation is used, there and for
the schedule table of interleaving.

## 5. What the models show beside the runs

The preconditions of the passing runs were found by widening them; other
constants of the same modules exhibit each of the following.

*Checkpoints.*
* A persistent worker that dies leaves the ranks waiting instead of raising
  (`ExceptionsReachAllRanks` with `OneSave` and one failure;
  `async_utils.py:504`).
* After an in-process restart of Bridge the next save uses a proxy whose manager
  is gone, and `preload_q.join()` never returns (`EverySaveFinalized` with
  `AbortStopsManager`; `inprocess_restart.py:110`). After one of Megatron-LM,
  or with a synchronous save during an asynchronous one, a finalization may take
  the result of another save.
* Results of overlapping forked writers arrive in another order than saves are
  finalized (`MetadataOnlyIfComplete` with the `Overlapping` programs;
  `filesystem_async.py:439`), so `temporal_async` has one in flight per rank.
* `most_recent_k` with asynchronous saves: `v_async_keep_last` for 1; with 2 the
  same happens when two saves are queued. The passing asynchronous jobs keep all.
  With synchronous saves, `most_recent_k` = 1 and one crash violate it as well
  (`RestartPointKept`): the crash leaves a torn directory of a later step, and the
  clean-up of the next save, which has an earlier step, counts that as the one to keep and
  removes the checkpoint just published. So the theorems ask for `keep > crashes`.
* The cached `TrainState`, advanced by training, is taken for the one on disk by
  a process that has loaded a checkpoint and is restarted in place
  (`checkpoint_utils.py:313`): in `TwiceRestartedJob` the second restart takes
  step 3 with the weights of step 2, and TLC refutes `RestartsLoadTheLatest` in less
  than a second. A cached tracker may moreover name an older checkpoint than the
  one on disk. `CountersMatchWeights` is therefore about the time before
  (`~warm`). In the setups of `training` no restart finds anything in the caches;
  in `InterruptedJobs`, where a crash, an exit and two restarts come in any order,
  some do, and the invariant holds in its 290 090 states, as `CountersResumed` says
  for all setups. The promise of `DurableTraining`, durable exits and the end of
  training are checked for jobs without such a restart.
* A crash while the tracker is copied, or before `run_config.yaml`, leaves
  nothing loadable (`ResumeNeverFails`).
* `ResumePointStaysComplete` makes an exception for a save of the same step into
  the same directory: the save after training does that when `train_iters` is a
  multiple of `save_interval`. `ExitIsDurable` needs a persistent save before the
  first non-persistent one, because `setup` looks for the trackers of the main
  directory only. A partial directory left by a crash counts among the
  `most_recent_k`.

*Reruns.*
* `FatalFailureStops` with both checks (`BothChecks`): if one rank rejects a NaN
  and another only a spiky loss, all continue, because `continue_requested` is
  looked at first (`rerun_state_machine.py:354`, against the docstring at 483).
* A job relaunched in spite of exit code 17 would restore a random state that
  its checkpoint does not hold; the model ends there. Checkpoints of other
  formats than `torch_dist` carry no rerun state.

*Pipelines.*
* Two interleaved stages that block in their calls deadlock; only the argument
  checks (`arguments.py:573`) forbid them, not the schedule (`Legal` against
  `Accepted`).

*Buckets.*
* An evaluation or hash check before the first successful update disables hooks
  that are not enabled, and the assertion of `disable_forward_pre_hook` fails
  (`train.py:509`; `EarlyEvaluation`).

*Inference.*
* `UselessTokenIsHarmless` (`ChunkedSetups`): a chunk that stays the last row for
  a step that could not continue it has its useless token advanced, into the
  slot of another one (`dynamic_context.py:1616`).
* A suspension in the middle of a chunked prefill fails the assertion on the
  continuation after resuming; a stop word is lost when an evicted request is
  admitted again in chunks; so stop words and suspensions are in the setup that
  admits prompts in one piece.
* A rejected request that is pending at a suspension is added to the failed ones
  twice (`AnswersOnce`); rejected requests alone give the loop no work and are
  not answered until another request comes.
* `run_engine` is not woken by the submission of a request
  (`SleepEndsWithARequest`; `dynamic_engine.py:1163`).
* The model assumes that every request fits the active part of the memory, and
  without chunks one forward pass.  With fewer active blocks `EngineGoesOn` fails
  (two of them in `MCDynamicInference`, within four states): a request whose
  prompt fills the active part is paused, can never be given another block, and
  the assertion on an active row fails.  Nothing in the code asks it of the sizes:
  `dynamic_block_allocator.py:32` only asserts that one active block is left.

*Coordinator.*
* A suspension while requests are in the context, whose resumption is drained
  together with the unpause, steps a suspended engine, which raises
  `EngineSuspendedError`: the future of the request is never resolved
  (`RequestsServed` fails with the setup `BusySuspension`). The example
  `gpt_dynamic_inference_with_coordinator.py:110-113` suspends with requests in
  flight, and does not even await the pause. The same happens to idle engines that get a request before they have resumed, which no client can
  know (`RequestsServed` with the setup `IdleSuspension`: `resume_engines` is not
  acknowledged). `RequestsServed` holds, in `inference_coordinator`, for pauses, and
  for suspensions after the last reply.
* An unpause sent before the pause is acknowledged leaves the engines paused;
  a second pause without an unpause fails an assertion of the coordinator. The
  careful clients of the run await what they asked for.
* "pause, unpause, pause, unpause" without awaits violates `PausedGroupRests`: an
  acknowledgement of the first round is counted in the second, PAUSE_ACK reaches
  engines that are at work, and one of the group acts on an all-reduce that
  another, paused in between, had claimed work in. `Careful` is the hypothesis of
  `PausesAreObeyed` for that reason. `resume_engines` does not clear the client's
  event (`inference_client.py:221`), so a pause after a resume, without an
  unpause in between, is awaited in vain: the await returns at once.

## 6. Not modelled

* *Training checkpoints of Megatron-LM*: the predecessor of the Bridge code, with
  the same protocol; it would repeat `CheckpointTraining` with one tracker.
* *Number of microbatches, samplers, loss scaler, rank generator*: sequential
  arithmetic without interleaving that the repository's unit tests reach. Their
  effects appear where they matter: the ramp-up in `CheckpointTraining`, consumed
  samples in `Relaunch` of `RerunStateMachine`, skipped updates in
  `GradientBuckets`.
* *Optimizers, transformer, Mamba and multimodal models, Megatron FSDP*: tensor
  computations. What they do to the protocols above (when gathers start, that an
  update may fail) is an input of the models.
* *Model conversion, recipes, data sets, tokenizers, MindSpeed-Bridge*: mappings
  of names and configuration, by far the largest part of the repository's lines.
* *MindSpeed*: patches that replace operators, and schedules that follow those of
  Megatron-LM.
* Within modelled components, what the end of each part of section 2 names.

## 7. Plan

Done, in this order: the save modules, `CheckpointTraining`, the proofs about
`PersistentAsync` and `TemporalAsync`, the pipelines and their proofs, `RerunStateMachine` and its
proofs, `GradientBuckets`, dynamic inference, the coordinator, the proofs about
`CheckpointTraining`, the diagnoses and the coordinator, those about the
interleaved pipeline and those about dynamic inference.

Next: the safety properties of `GradientBuckets` as theorems; a model of several distributed optimizer instances; the
rank generator against a reference definition.
