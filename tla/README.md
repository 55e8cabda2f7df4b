# Formal models of vLLM's V1 engine with Power-SMC and of verl's asynchronous training

This directory holds TLA+ specifications of the concurrent parts of the
repository, in four groups:

* *which tokens end up in which request and which KV block holds their KV*: the
  Power-SMC particle group, the KV cache manager, the scheduler (with the
  asynchronous scheduler) and the engine loop with one worker;
* *how the engine talks to its workers*: the lock-free ring buffer in shared
  memory;
* *how data-parallel engines start and stop together*: request waves, the
  coordinator, pause and resume;
* *how training and generation run side by side* in verl: rollouter, message
  queue and trainer.

TLC checks them on small instances. TLAPS proves the invariants of five state
machines, and one refinement, for every value of their constants.

Paths below are relative to `src/vllm/vllm/v1/` unless they start with `src/`.

    tlc -workers 2 -config MCEngine.cfg MCEngineCore         # one run
    tlapm KVBlocksProofs.tla                                 # one proof module

## The system

A client's request is turned by the front end (`engine/async_llm.py`,
`engine/output_processor.py`) into a core request and sent to the engine core
(`engine/core.py`). The engine core runs a loop: read the input queue, ask the
scheduler (`core/sched/scheduler.py`) for a step, hand it to the worker
(`worker/gpu_model_runner.py`), and give the worker's output back to the
scheduler. With asynchronous scheduling (`core/sched/async_scheduler.py`) a
second step is scheduled before the output of the first is known. The scheduler
gives every request blocks of the KV cache through the KV cache manager
(`core/kv_cache_manager.py`, `core/kv_cache_coordinator.py`,
`core/single_type_kv_cache_manager.py`) which takes them from the block pool
(`core/block_pool.py`, `core/kv_cache_utils.py`). Blocks are reference counted,
shared between requests with a common prefix, and stay findable by hash after
they were freed until they are handed out again.

The fork adds Power-SMC (`power_smc.py`): a parent request becomes several
*particle* requests with importance weights. Whenever all particles have passed
a block boundary and the effective sample size (ESS) is low, the particles are
resampled: each takes the prefix of an ancestor. The scheduler then rewrites
the child requests in place, lets them share the ancestor's KV blocks and
queues them again. The front end keeps a second copy of the group to select the
answer.

When the workers are processes of their own, the engine sends them each step
through a `MessageQueue` (`src/vllm/vllm/distributed/device_communicators/shm_broadcast.py`):
a ring of chunks in shared memory, with one byte per reader and one for the
writer in place of locks, a socket that wakes sleeping readers and another for
messages that do not fit.

With data parallelism and experts spread over the ranks, every forward pass is
a collective of all engines. They start together when a front end
(`engine/core_client.py`) tells the coordinator (`engine/coordinator.py`) of a
first request, run dummy batches while others have work, and find out by an
all-reduce that nobody has: that ends a *wave*. A pause is agreed on in the same
all-reduce.

verl's fully asynchronous training (`src/verl/verl/experimental/fully_async_policy`)
uses such engines to generate samples: a rollouter keeps a number of generations
going and puts the results into a message queue, a trainer takes them out and
every few steps sends new weights. How far the rollouter may run ahead is
limited by a counter of stale samples.

### Inventory

| Part | Source | Status |
|---|---|---|
| Power-SMC group manager | `power_smc.py` | modelled, proved |
| Block pool | `core/block_pool.py` | modelled; its ownership protocol proved |
| Free block queue | `core/kv_cache_utils.py` | as a sequence of blocks |
| KV cache manager | `core/kv_cache_manager.py`, `core/kv_cache_coordinator.py`, `core/single_type_kv_cache_manager.py` | one full-attention group with prefix caching |
| Scheduler | `core/sched/scheduler.py`, `core/sched/utils.py` | core paths, FCFS, Power-SMC paths |
| Asynchronous scheduler | `core/sched/async_scheduler.py` | modelled, batch queue of two |
| Engine loop | `engine/core.py` | `step`, `step_with_batch_queue`, aborts, cache reset |
| V1 model runner | `worker/gpu_model_runner.py`, `worker/block_table.py` | token state, slot mapping, sampling mask |
| Shared-memory message queue | `src/vllm/vllm/distributed/device_communicators/shm_broadcast.py` | local readers; proved |
| Data parallel waves | `engine/coordinator.py`, `engine/core_client.py`, `DPEngineCoreProc` in `engine/core.py` | waves, pause and resume; safety proved |
| verl fully asynchronous training | `src/verl/verl/experimental/fully_async_policy` | rollouter, queue and trainer with partial rollout and restarts; safety proved |
| Power-SMC parent in the front end | `engine/parallel_sampling.py` | not modelled (see below) |
| Output processor, detokenizer | `engine/output_processor.py`, `engine/detokenizer.py` | not modelled (text) |
| Clients, serialisation, handshakes | `engine/async_llm.py`, `engine/core_client.py`, `engine/utils.py` | not modelled (I/O), except for the waves |
| Encoder cache manager | `core/encoder_cache_manager.py` | not modelled |
| KV connector, offloading | `src/vllm/vllm/distributed/kv_transfer`, `kv_offload`, `simple_kv_offload` | not modelled, except for invalid blocks |
| Structured output, speculative decoding | `structured_output`, `spec_decode` | not modelled |
| Executors | `executor` | not modelled, except for the message queue |
| V2 model runner | `worker/gpu` | not modelled: it returns no Power-SMC log probabilities |
| Sampler, attention, models, kernels | `sample`, `attention`, `src/vllm/csrc` | not modelled (numeric) |
| verl trainers, workers, utilities | `src/verl/verl` | not modelled (sequential training loops, numeric code, I/O) |

## Modules

```
PowerSMC ── PowerSMCGroup ── PowerSMCGroupProofs, MCPowerSMCGroup
    │
    └────────────────────────┐
BlockPool ── KVCacheManager ── KVMemory ── KVCache ── MCKVCache
                                 │            │ implements
                                 │         KVBlocks ── KVBlocksProofs
                                 │
                             Scheduler ── EngineCore ── MCEngineCore

ShmBroadcast ── ShmBroadcastProofs, MCShmBroadcast
    │ implements
BroadcastQueue

DPWaves ── DPWavesBase ── DPWavesProofs
    └── MCDPWaves

FullyAsync ── FullyAsyncProofs ── FullyAsyncEndProofs ── FullyAsyncRestartProofs
    └── MCFullyAsync
```

`PowerSMC`, `BlockPool`, `KVCacheManager`, `KVMemory` and `Scheduler` are
operators on records: a class of the program is a record of its fields, a
method is an operator from the record before to the record (or set of records)
after. `PowerSMCGroup`, `KVCache` and `EngineCore` are state machines that call
them. The modules of the other groups are state machines of their own. Names follow the program (`UpdateAfterToken` is `update_after_token`).
Operators whose name starts with `Mut` are deliberately wrong variants of the
definition that follows them; no specification uses them. They show that each
property can fail.

**PowerSMC / PowerSMCGroup.** A particle is its tokens, its weight state
(log weight, cumulative log probability, exponent), and the weight states kept
for the block boundaries since the start of its history. A token determines its
two log probabilities. The exponent of the annealing ramp is a fraction with a
fixed denominator, so everything is kept as integers multiplied by
`AlphaScale`. `Token` is `update_after_token`; `maybe_resample` is split along
its outcomes: `MaybeResampleSkip` (the four early returns), `MaybeResampleKeep`
(ESS above the threshold) and `MaybeResampleDraw`. Which of the last two happens
is a free choice unless all weights are equal, because exponentials are not
modelled; the ancestors are any non-decreasing vector, since
`systematic_resample` walks the cumulative weights once. `Select` is
`final_select`.

**BlockPool.** `ref_cnt`, `block_hash`, the free queue as a sequence, and the
hash map as a sequence of entries in insertion order (the first block inserted
under a hash is the one returned). A block hash chains the hashes of the blocks
before it, so it is modelled by the tokens up to the end of the block: equal
hashes mean equal tokens, i.e. no collisions. The null block is left out; with
full attention no block table contains it.

**KVCacheManager.** Block tables and `num_cached_block`;
`get_computed_blocks`, `allocate_slots` (with its failing path
`CannotAllocate`), `cache_blocks`, `free` and
`alias_request_blocks_from_snapshot`.

**KVMemory.** The device: for each slot the tokens whose KV was last written
there. A block handed out to a new owner counts as unwritten, so reading it
before writing it is visible.

**KVCache.** The manager under any order of calls: admission with a prefix
lookup, chunks, sampled tokens, free, resampling (snapshot first, then child by
child), eviction of single blocks, reset. `BeginResample` requires that the
ancestors have computed what is shared, which is what the manager's caller has
to guarantee; the scheduler's side of it is a hazard listed below.

**KVBlocks.** What the pool promises, with sets: owners, reference counts, free
and cached blocks. `KVCache` implements it through the mapping `Ownership`
(free queue to set, block table to set, hash to membership).

**Scheduler.** `schedule()` is `SchedulePlan`: a recursive walk over the
running queue with preemption of its tail, then the waiting queue, then
`AfterSchedule` (`_update_after_schedule` and clearing `finished_req_ids`).
`update_from_output()` is `UpdateOutcomes`: all requests of the frame in order,
then, when a particle reached a boundary, each result `maybe_resample` may have
and `ApplyResamplePlan`. `reset_prefix_cache()` is `ResetRunning` followed by
`ResetPool`. One parent with its particles is modelled; the other requests are
ordinary.

**EngineCore.** `Receive`, `Abort` (also between a step and its output, as
`_process_aborts_queue` allows), `ResetPrefixCache`, `Schedule` and `Update`.
`frames` is the batch queue. The worker executes steps in order and its result
depends only on the steps before, so a frame already carries its output when it
is queued; the scheduler sees it when `Update` takes it. `token_ids` is the
worker's own copy of each request's tokens: a request sends its tokens once,
later steps send only their number (`WorkerTokens`). Each frame records the
tokens after which a token was sampled; nothing but the properties reads that.

**ShmBroadcast / BroadcastQueue.** A step of `ShmBroadcast` is one access to
shared memory, so writer and readers interleave between any two of them:
`acquire_write` is `ClearWritten`, `BeginFill`, `EndFill` (the filling takes two
steps, so a torn message would be seen), `ResetReadFlag` once per reader and
`MarkWritten`; `acquire_read` is `CheckReadFlag`, `CheckWrittenFlag`, `AfterWait`
with the two halves of `SpinCondition.wait` (`Spin`, or `GoIdle` and `Wake`),
`Copy` and `MarkRead`. `SendOversized` and `Recv` are the socket for messages
that do not fit, `Notify` the one that wakes readers. The writer may crash at any
step, and a reader may time out or be shut down. The program puts a fence where
flags and data must not change places; memory is taken to be sequentially
consistent. `BroadcastQueue` is what the class promises: each reader gets every
message once and in order, and the writer is a bounded number of messages
ahead: `MaxChunks`, and one more because a reader releases the chunk of an
oversized message before it has received it.

**DPWaves.** The engine's busy loop is where it waits: `"input"` for messages,
or in one of the three collectives `Forward`, `Sync` (the all-reduce in
`_has_global_unfinished_reqs`) and `ResumeBarrier`, which happen when all ranks
have reached them. Messages are sequences, one for each sender and receiver, so
those of different senders arrive in any order. `AddRequest` and `SendFirstReq`
are the front end's, `HandleFirstReq`, `HandleWaveComplete`, `HandleStartWave` and
`PublishStats` the coordinator's, `HandleAdd`, `HandleAbort`, `HandlePause`,
`HandleResume`, `HandleStartDPWave`, `NotifyIdle` and `Step` the engines'. A request
is the number of forward passes it still needs. FIRST_REQ carries the identity
of the chosen engine as bytes, which never equals a rank's index (`Identity`),
so the engine that got the request is woken like the others.

**FullyAsync.** Inside the rollouter the feeder, the processor, the tasks, the
monitor and `reset_staleness` are coroutines of one event loop: an action is what
runs between two awaits, and `lock` is the `asyncio.Lock` they hold across some of
them. The sample tasks are counted by what they are at (`generating`, `putting`,
`done`, `failed`); a finished task stays in `active_tasks` until the processor
collects it, which is what `reset_staleness` then counts. `PutSample` drops the
oldest entry of a full queue. The trainer's steps are `GetSample`, `TrainStep`,
the weight update (`AbortReplicas`, `ResumeReplicas`, then the three parts of
`reset_staleness`), `SaveCheckpoint` and `StopTraining`. `GenerationFails` and
`Crash` (of the whole job, which is restarted from its last checkpoint) are the
faults. The feeder walks the dataloader, `EpochLength` samples in each of
`TotalEpochs` epochs (`NextBatch`), until there is nothing left or
`TotalRolloutSteps` are fed, and then sends its end signal. A checkpoint holds the
version and the position of the dataloader, which is ahead of the samples trained
by all that is in flight: `save_checkpoint` of the rollouter warns that these are
lost. `Crash` therefore sets `global_steps` back to the samples of the saved
version but the dataloader to the saved position, in the first epoch, because the
epoch is not saved. `drops` and `ckpt_drops` count, for the properties only, the
samples that the queue dropped in the history the checkpoint continues, and
`overlooked` the sample that the last recount did not see.

## Runs

TLC explores the whole state space of every passing run:

| Run | Config | What it checks |
|---|---|---|
| `smc_group` | `MCPowerSMCGroup.cfg` | `state_at` never raises (`BoundaryStateAvailable`), no particle falls behind the last examined boundary, weights equal their closed form (`WeightTelescopes`), resampling copies existing prefixes only, done particles are frozen |
| `kv_cache` | `MCKVCache.cfg` | pool consistent, cached blocks hold the KV of their hash, computed tokens are backed by the request's own KV, and `KVCache` implements `KVBlocks`, whose theorems say that reference counts are owners and free means unowned |
| `engine` | `MCEngine.cfg` | both schedulers: queues match statuses, no leak, placeholders plus discards equal the frames in flight, accepted tokens continue the request, KV correct, forced reset succeeds, every request finishes |
| `engine_smc` | `MCEngineSMC.cfg` | with particles: queues, pool, and each child's output equals its particle in the group manager |
| `shm_broadcast` | `MCShmBroadcast.cfg` | the writer keeps out of chunks that are being read, readers get every message in order, the ring implements `BroadcastQueue`; a message arrives at every reader, spinning or idle, an `enqueue` returns unless a reader is shut down, and a reader that is shut down returns even if the writer has died, unless it waits for an oversized message that was never sent |
| `dp_waves` | `MCDPWaves.cfg` | ranks never wait in different collectives, agree on the wave when it ends, stay stopped through a pause; coordinator and front end know when the engines are idle; requests finish, the engines stop, every pause and resume returns |
| `async_training` | `MCFullyAsync.cfg` | the samples ahead of the trainer are bounded but for one that a recount overlooked, rollouter and trainer never wait for each other, nothing comes after the end signal, a run trains every version its samples are worth and loses at a restart only what was in flight, and it ends |

The other runs end in a counterexample, each a disagreement between the code and what its own
documents, comments or tests say (see `findings` in `PROJECT.json`):

| Run | Property | What happens |
|---|---|---|
| `smc_replay` | `ComputedKVIsOwn` | Synchronous scheduler: after a resample the worker keeps its old tokens (it takes over the scheduler's only with asynchronous scheduling), so the replayed tail has the KV of the old lineage. |
| `smc_stale` | `AcceptedTokensContinueTheRequest` | Asynchronous scheduler: resampling clears the placeholders while a step is in flight, and the token it returns is appended to the new lineage. |
| `smc_stuck` | `IdleEngineAdmits` | Waiting particles that keep aliased blocks can leave too few free blocks to admit any of them; nothing runs, so nothing can be preempted. For the same reason a forced reset fails in such a state. |
| `dp_pause` | `RequestWakesAllRanks` | A request right after a resume: a rank that sees START_DP_WAVE before the resume drops it, the other waits for it in the forward pass, and no second START_DP_WAVE comes. |
| `async_stall` | `NeverBothWait` | `reset_staleness` counts a finished task and its queued sample; with many concurrent tasks the rollouter pauses for samples that do not exist, and the trainer waits for them. |

One more disagreement needs no run of its own. `src/verl/docs/advance/fully_async.md`
(lines 137-139) bounds the samples generated between two updates by
`max_required_samples` less the stale ones. `reset_staleness` counts the active tasks
and the queue; a sample the processor has taken and not submitted is in neither, and
comes on top. `OutstandingBounded` says exactly this: the documented bound, plus
`overlooked`, which is 1 only if there was such a sample at the last recount. Without
that term TLC refutes it in `async_training`.

A property violated by one of the `smc` runs is not checked by `engine_smc`; the
others there hold in spite of them. `async_training` differs from `async_stall`
in the number of concurrent tasks: `NoMutualWait` proves that the disagreement
needs `MaxConcurrentSamples` above `MaxRequiredSamples - ParamSyncSamples`.

### Bounds and why they suffice

* `smc_group`: two particles, block size 2, up to 5 tokens, so there are two
  boundaries and a particle can be a whole block and more ahead; the ramp (3
  tokens) ends between the boundaries, so exponents change before, between and
  not after resamples. Two tokens with different weights make weights differ.
* `kv_cache`: two requests, three blocks of two tokens, up to 4 tokens each:
  requests compete for blocks, freed blocks are reused with stale hashes
  around, resampling at length 3 shares one full block and replays a tail, and
  a KV connector may report one block as invalid (`EvictBlocks`), so that hashes
  also vanish from blocks in use. Requests are symmetric; the view ignores what
  is left in a block that is free and not cached.
* `engine`: three requests with equal prompts and up to three tokens, three
  blocks, two running at a time and a token budget of 3 (one prompt and a half),
  so prefills are chunked, prompts meet in the cache, and requests preempt each
  other; one abort and two resets, so that a second reset finds frames the first
  one made stale.
* `engine_smc`: two particles, KV blocks of 2 and Power-SMC blocks of 2 (the
  program requires the second to be a multiple of the first), four KV blocks,
  so that particles are preempted as well as resampled. Particles end by length
  only (`StopTokens` is empty): a particle that stops early leaves the
  scheduler's group (`ForgetParticle`), which aborts exercise.
* `shm_broadcast`: two readers, of which one has timeouts, two chunks and four
  messages, so the ring goes round twice and either reader may be a whole ring
  behind; the two oversized messages are next to each other and around the end
  of the ring.
* `dp_waves`: two ranks, one front end, two calls (requests or a pause and
  resume), an abort, an all-reduce every two passes: the second request meets
  every stage of the end of the first wave, and a pause every stage of a wave.
  `dp_pause` allows a third call, after the pause.
* `async_training`: two samples a step and two steps a version; two epochs of six
  samples are three versions, so recounts are followed by whole versions, in which
  the rollouter uses up its budget of five, and an epoch ends within a version. One
  task at a time is the most the condition of `NoMutualWait` allows with this budget.
  One fault, a failed generation or a restart at any point: `MaxFaults` bounds their
  sum, since two in one run are too many states. The theorems below cover any number
  of faults and of tasks; only `TrainingFinishes` is not shown beyond these bounds.
  `async_stall` has three tasks where that condition allows one.

`MaxOutputTokens`, `MaxSeqLen`, `MaxResets`, `MaxMessages`, `MaxRequests`, `MaxPauses`,
`MaxCalls`, `MaxFaults`, and in the engine `MaxTokens` and
`MaxModelLen` (limits the program has itself) bound the state space.
`CHECK_DEADLOCK FALSE` is used where stopping is legitimate: an engine without
requests is idle, a particle group at its last token is complete, a writer has
sent its last message, training has ended.

### Fairness

`EveryRequestFinishes` assumes only that the engine process keeps running its
loop: whenever there is work, `Schedule` or `Update` eventually happens
(`Fairness`; `run_busy_loop` is a plain `while`). It is weak fairness of
`Schedule \/ Update` with the enabling condition `HasWork` written out, since
one of the two is enabled exactly when there is work. Nothing is assumed of
clients, aborts or resets. A frame always returns: the program treats a worker
that fails as fatal for the engine.

`ShmBroadcast` assumes that the writer, once in `enqueue`, and every reader keep
running (weak fairness of `WriterStep` and of each `ReaderStep`); nobody has to
call `enqueue`, time out, crash or shut down. The poll of an idle reader returns
when a notification is there.

`DPWaves` assumes that the processes run and that messages arrive: weak fairness
of the coordinator, the front ends' tasks, the collectives and each engine's
step. An engine handles what is in its input queue before each step, so handling
a message has strong fairness: it is disabled while the engine is in a collective
and enabled again after it. A client that paused resumes when its pause has
returned. Nothing makes a client send requests or leave.

`FullyAsync` assumes that coroutines are scheduled, generations end and remote
calls are answered: weak fairness of feeder, processor, monitor, trainer and
tasks, none of failures and crashes.

## Proofs

TLAPS checks the eight proof modules without leaving a step unproved.

`tlapm` has no induction rule it can apply to a formula of ours. Where a proof
needs induction on a length (`NatMin`, `LengthInduction`), it takes the least
element of the set of the lengths for which the claim fails.

`PowerSMCGroupProofs` (for every number of particles, block size, ramp, token
set and integer log probabilities; assumptions `PowerSMCAssumption` and
`MaxOutputTokensAssumption`):

* `GroupInvariance`: `Spec => []GroupInv`, where `GroupInv` adds to the types
  that no particle is behind the last examined boundary and that every boundary
  between the start of a particle's history and its length is recorded.
  `BoundaryStateAvailable` alone is not inductive: it says nothing about
  boundaries that become eligible later, and a resample compacts histories.
* `StateAtNeverRaises`: at a boundary that `maybe_resample` examines, the
  boundary is above the last examined one, hence not before the history start,
  and at most the length of each particle, hence recorded (`CoverageAtBoundary`).
* `NeverBehindLastCheck`, `TypeCorrect` follow from the invariant;
  `DoneParticlesFrozen` is an action property: a resample needs a group without
  done particles, and a done particle takes no token.
* `WeightsTelescope`: the weight that `update_log_weight` and resampling build up
  step by step equals its closed form: the annealed target of the particle's
  tokens, less the target at the start of its history and what the proposal gave
  the tokens since (`WeightStateOf` over `PrefixSums`). `WeightTelescopes` says the same of the
  state kept for each boundary and for the start of the history: without that a
  resample, which makes a kept state the current one, could not be followed. The
  sums are recursive functions of the length; `SamePrefixSums` and `AppendSums`
  say that they depend on the tokens up to a position only and how one more
  token changes them, by induction.
* `ResamplingCopies`: after every step the tokens in a slot are a prefix some
  particle of the group had, or the slot's own and one more.
* `NeverBehindLastCheck`, `TypeCorrect` follow from the invariant;
  `DoneParticlesFrozen` is an action property: a resample needs a group without
  done particles, and a done particle takes no token.

`KVBlocksProofs` (for every set of blocks and every finite set of requests, a
hypothesis of the theorems): `RefCountsCorrect`, `FreeListCorrect`, `TypeCorrect`, by
the invariant `Inv`: types, `RefCountIsOwners`, and that the free list is the set
of blocks with count zero. The argument rests on
`OwnersAfterChange`: when one request replaces its set of blocks, the number of
owners of a block changes by one exactly if the block enters or leaves that set.
The conjunction is needed because `Free` decides by `ref_cnt = 1` whether a
block becomes free, which is right only if the counts are.

`ShmBroadcastProofs` (for any set of readers, any number of chunks and messages
and any choice of oversized ones, `ShmBroadcastAssumption`): `TypeCorrect`,
`WriterKeepsOut`, `ReadersInOrder`, and `RefinesBroadcastQueue`: the ring
implements the abstract queue. The flags alone say too little to be inductive:
a reader's flag in a chunk means "has read it" only relative to the message the
chunk holds. `IInv` therefore ties them to two counters, `sent` and `taken`:

* `IndexInv`: the distance between the writer's index and a reader's is, up to a
  turn of the ring, the number of messages the reader is behind, which is at most
  `MaxChunks`, and less while the writer is inside a chunk;
* `ChunkInv`: a written chunk holds the last message written there (`LastIn`, from
  the index and `sent`), and its flags are exactly the readers that have taken it;
* `WriterInv`, `ReaderInv`: what a process between two accesses may rely on;
* `SocketInv`: the socket of a reader holds the oversized messages it has not
  received, without a gap, so that the next one is the one its chunk announced.

One lemma per action shows that it preserves the invariant. Refinement then
needs two more: a `MarkWritten` is a `Send`, and the last step of a dequeue, a
`MarkRead` or a `Recv`, is a `Receive` of the next message.

`DPWavesBase` and `DPWavesProofs` (for any number of engines, front ends, requests
and pauses, `DPWavesAssumption`): `CollectivesAgree`, `PauseIsHeld`, `WavesAgree`
and `IdleStateIsKnown`. Two invariants are needed. `IInv` follows the engines: they
count the same steps, so they reach the all-reduce together; all have been told of
a pause before one stops for it; and they stop and resume together. `KnownInv`
follows the waves: the engines are in one wave, no message and no belief of the
coordinator or a front end is ahead of it, and whoever believes something else of
the engines than they are at has a message on its way that will correct it.

`FullyAsyncProofs` (for every dataset, batch size, trigger step, staleness budget,
number of tasks, failures and crashes, `FullyAsyncAssumption`): `TypeCorrect`,
`OutstandingStaysBounded` and `NoMutualWait`. The invariant relates
`staleness_samples` to the samples there are: it falls short of those that are
outstanding or taken since the last recount by the sample that was overlooked at
most, and exceeds them by the finished tasks that were counted
with their queued samples, the failed tasks and the dropped samples at most
(`StaleInv`). To be inductive it needs to know that what `reset_staleness` has
counted before its await is still there after it (`CountInv`, by the lock), where a
sample is in hand and who holds the lock (`ControlInv`), and how far the trainer is
(`TrainerInv`). `NoMutualWait` has a hypothesis on the constants, which `async_stall`
shows to be needed.

`FullyAsyncEndProofs` adds the end of a run. `EndInv` says that each of the two
queues is closed by its end signal, and that the processor sends the trainer's only
when its tasks are gone: `NothingBehindTheEnd`. `SamplesInv` says where each sample
that was fed is: trained on, collected, queued, in a task, in hand, pending or
dropped. The queue can drop one even if nothing fails, because a sample that a
recount overlooked is one more than the queue has room for.

`FullyAsyncRestartProofs` adds what a restart costs. What is in flight is bounded
also behind the end signal (`InFlightInv`), so the position of the dataloader in a
checkpoint is ahead of the samples of its version by no more than that and what was
dropped and skipped before (`SkipInv`). From this and `SamplesInv` follows
`EveryFedSampleTrained`: a run that ends has trained `Fed - dropped_samples` samples'
worth of versions, and `Fed` is `TotalRolloutSteps`, less at most `MaxInFlight` for
each restart and what the queue dropped, plus at most one sample for each restart
(from a checkpoint taken after the last sample, the feeder feeds one before it
compares the count). `MaxInFlight` is the loss that the warning in
`save_checkpoint` speaks of; the theorem says that it is the only one.

Model-checked only:

* liveness (`EveryRequestFinishes`, `EveryMessageArrives`, `EnqueueReturns`,
  `ShutdownEndsReader`, `EngineSettles`, `TrainingFinishes`), which needs fairness and
  `ENABLED`;
* everything about `KVCache`: its invariants, which speak of device memory, and the
  refinement that carries what is proved of `KVBlocks` over to it;
* everything about `Scheduler` and `EngineCore`. `schedule()` is a recursive walk over
  two queues that preempts from one while it walks it, written with `RECURSIVE`
  operators, which TLAPS cannot reason about.

## Not modelled

* Floating-point behaviour: overflow or rounding of weights, ESS and sampling
  probabilities.
* `min_tokens` and the detection of repetitions in `check_stop`, and
  `long_prefill_token_threshold` of the scheduler.
* Speculative tokens, encoder inputs, LoRA, structured output, streaming
  sessions, pooling, KV connectors, priorities, pausing and sleeping.
* Sliding-window, mamba, cross-attention and hybrid KV groups.
* Pipeline parallelism and the V2 runner's decode cadence.
* The front end, including the second replica of the particle group: composed
  with the engine, and outputs in transit between the two, it is out of TLC's
  reach.
* Several parents at once; resampling touches only the children of one parent.
* An ancestor that is resampled again while it still replays its tail under a
  small token budget: what `smc_replay` shows happens earlier.
* The linked list behind the free queue, the encoder cache, KV offloading: data
  structures of their own whose use by the scheduler is not part of the model.
* Shared memory weaker than sequentially consistent; the program has fences at
  the places where it would matter.
* Remote readers of the message queue, timeouts of `enqueue` and of `recv`, and the
  executor's calls, which are sequential.
* Elastic scaling, load statistics and shutdown of data-parallel engines.
* Training without partial rollout, validation on the trainer, hybrid replicas, and
  the checkpoint that the trainer forces when its instance is about to expire.
* verl's other trainers: sequential loops over remote calls.
