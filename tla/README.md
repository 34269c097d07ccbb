# turboserve in TLA+

TLA+ models of turboserve, an LLM serving system: a paged-KV engine with
continuous batching and speculative decoding, an asynchronous wrapper around it, a
gateway that routes tenants' requests to replicas, a canary controller, a chaos
harness and the load generator that measures it all. Paths below are relative to
`src/src/turboserve/`.

The modules follow the code: a `VARIABLE` is a field, an action is a method or
one turn of a loop in it, a guard is a condition or an early return. Data is
reduced to what the properties tell apart. `PROJECT.json` maps every definition
to its lines.

## The system

| Component | State | Operations | Hard part |
|---|---|---|---|
| Block allocator, prefix cache (`engine/core/kv_cache.py`, `prefix_cache.py`) | reference counts, free list, retained blocks, hash index and its inverse, LRU order | allocate (free or evict), adopt, incref, decref, insert, reset | three structures that must agree after any sequence of calls |
| Block manager, sequences (`block_manager.py`, `sequence.py`) | block tables, computed and published counts, statuses | can_allocate/allocate with prefix hits, can_append/append_slots, publish, free, preempt | sharing, eviction and reuse of blocks whose contents other sequences read; hits published one step late |
| Scheduler (`scheduler.py`) | waiting, preempted and running queues, step budgets; per-tenant virtual times | add, abort, finish, schedule, preempt, reset | preemption inside the loop that builds the batch; recomputation; starvation |
| Model runner, engine (`runtime/worker.py`, `runtime/engine.py`) | KV tensors, decoders | step = schedule, execute, process; abort; close | a step that raises half way |
| Attention and layers (`engine/model/`) | rotary table, K/V slots | scatter, paged attention by two paths, row selection | offsets of ragged batches; positions beyond the table |
| Speculative engine (`engine/spec/`) | provisional outputs, mirrors in a draft pool | draft, fund, extend, verify, roll back, rewind | abort, preemption or rejection between extension and rollback |
| LoRA registry and layers (`engine/lora/`) | slots, LRU, pins, stacked rows | register, pin, activate, evict, apply | pins plus a step's working set exceed the slots; a load that raises; stale rows |
| Sampler (`engine/core/sampler.py`) | – | penalty, temperature, top-k, top-p, draw on a whole batch | rows with different parameters in one vectorised pass |
| Streaming decoder (`runtime/streaming.py`) | held-back bytes and text | feed, finish | stop strings and characters across token boundaries |
| Async engine (`runtime/async_engine.py`) | pending requests, queued aborts, streams, wake event, loop task, step thread | generate, abort, the loop, close, start | callbacks, a thread beside the event loop, disconnects, shutdown |
| Local backend, memory (`gateway/backends/local_engine.py`, `runtime/memory.py`) | engine, lock, device memory | load once, size the pool, generate, close | callers that arrive during a load; close at any time |
| Remote and mock backends (`gateway/backends/`) | one stream; counters | the SSE client; scripted streams with faults | a connection that ends anywhere; what may be retried |
| Router (`gateway/router.py`) | replica health, failure counts, lanes | select, probe, generate with retry, observe | a probe's answer that is stale when stored; retry only before the first event |
| Limits, usage, application (`gateway/limits.py`, `usage.py`, `app.py`) | buckets, concurrency slots, ledger, sessions | admit, charge, release, settle, answer | negative levels; settlement on every exit |
| Canary (`canary/controller.py`, `prometheus.py`, `k8s.py`) | rollout state, windows; the cluster | start, observe, tick, abort; kubectl commands | decisions on old samples; half-applied commands |
| Chaos (`chaos/`) | timeline, replicas, disruptions | expand, apply, drain, kill, restart, partition, attribute | simultaneous events; restarts under load; what counts as a recovery |
| Benchmarks (`bench/`) | in-flight requests, records, index of results; inbox and driver of a baseline | closed and open loop, observe, summarize, save, compare; generate, drive, close | deadlines, ceilings, failures that flatter a mean; parallel savers; a driver that dies; superseded runs |
| Naive engines (`runtime/naive.py`) | queue | padded static batches | rows that end early |
| Metrics, tracing, logging, CLI, configuration, deployment | – | recording, start-up | no protocol of their own |

Calls go down (gateway → backend → async engine → engine → scheduler → block
manager → pool); outputs come back through per-request queues. Below the async
engine everything runs in one thread at a time; above it everything runs on one
event loop and interleaves at awaits. Replicas are other processes, reached over
HTTP, and fail independently.

What makes each part correct: a block is free, in use or retained and never two
of them; attention reads K/V computed from exactly the sequence's own prefix and
adapter; budgets are hard; accepted requests finish; speculation changes no token;
a stream ends exactly once and its request ends with it; no tenant waits beyond its
share or spends beyond its quota; a retry never repeats a token and a completion is
billed once; a build is promoted only on evidence of its own rollout; a chaos run
reports the faults that happened; a benchmark's numbers are those of its requests.

## Modules

```
BlockPool        contract of the pool, without any order
  ^ implements   KVPool        free list and LRU as the code keeps them
  ^ used by      BlockManager  sequences, K/V contents, prefix hits
                   ^ Engine    scheduler (fcfs), runner, LLMEngine.step
                       ^ SpecEngine   drafts, verification, rollback, mirrors
TenantQueue <- TenantWait             the tenant_fair policy of _WaitQueue; who waited for whom
AsyncEngine      event loop, loop task, step thread, close and restart

Limits  <- Router <- Gateway          a request's life: quota, routing, answer, bill
CanaryController <- Rollout           windows and gates; the runner and the cluster
FaultSchedule <- Chaos                timeline; replicas, driver, load, report

Streaming, RemoteBackend <- OutputPath     tokens to text to events, over a connection
OutputPath <- BaselineEngine               static batching against the reference
MockBackend, Summary <- LoadGen            drivers, records, percentiles
Summary <- Comparison                      which runs the results page compares
BaselineDriver                             inbox, driver task, worker thread of a baseline
Sampler, PagedBatch, LocalBackend, LoRARegistry, ResultIndex
```

(`A <- B`: B extends A.) `MC…` modules give the constants of a run, `…Proofs` modules the
theorems about one.

* **`BlockPool`** states what the allocator promises its callers: allocate,
  share, publish, release, reset on sets of blocks, any free block for an
  allocation and any retained one for an eviction. A free of several blocks is
  one step; in the code it is a loop that nothing can interrupt, and only the LRU
  order depends on it.
* **`KVPool`** is the code: FIFO free list, `OrderedDict` LRU, the two indexes.
  `MaxRefs` bounds sharing in the run; the proofs do without it.
* **`BlockManager`** adds sequences and the contents of the KV tensors. The K/V
  of a position depends on the prefix ending there and on the adapter, so a slot
  holds that pair, its *context*. The chained hash of a full block is modelled as
  the context of its last token, i.e. free of collisions. Contents of a block that
  returns to the free list are blanked: nothing may read them.
* **`Engine`** composes scheduler, runner and `LLMEngine`. `step()` is cut at its
  loops (`phase`, `todo`), so that an invariant is checked between any two visits
  of `_schedule_running` and `_schedule_admissions`, not only between steps.
  Sampling yields any token, or ends the sequence; the forward pass may raise when
  `Faults`. Requests arrive and are aborted between steps, as the loop task does
  it.
* **`SpecEngine`** extends `Engine`: the decode phase drafts (by a second model with
  a pool of its own, which may propose anything, or by n-grams), trims each draft to
  the blocks it can fund, extends the sequences, verifies all of them in one pass,
  rolls back and feeds the accepted tokens through `_process`. The target is a
  function of the prefix for greedy requests. Verification is the greedy one.
* **`TenantQueue`** counts each tenant's waiting requests and keeps its virtual
  time, in units that make `1/weight` whole; float rounding is left out.
  **`TenantWait`** adds a history: for each tenant that waits, how often each of the others
  was admitted meanwhile.
* **`AsyncEngine`** has the event loop's code atomic from await to await and the
  step thread beside it. The wrapped engine is the set of requests in flight, each
  needing `Steps` steps. The consumer may leave at any time, and may close the
  generator at its last item instead of asking for one more, which is what the
  local backend does. The idle timeout of `_wait_for_work` is left out: no property
  leans on it.
* **`Limits`, `Router`, `Gateway`**: token buckets with lazy refill; the pool of one
  model with the health cache, where several refreshes run side by side and store
  their answers with the time they began; the handlers of `app.py` around both. An
  action is the code between two awaits. Replicas answer probes and requests as
  they like, clients leave when they like. `failedAt` and `early` are histories for
  `EjectionHolds`, `charged` and `spent` (the part of it that paid for completions) for
  the quota.
* **`CanaryController`, `Rollout`**: windows, gates and decisions; the runner that
  turns a decision into kubectl commands. A command is one step, may fail, and may
  have worked although it timed out. Evidence comes from the windows or from
  Prometheus. The operator deploys, starts, and may break the glass.
* **`FaultSchedule`, `Chaos`**: the expansion of faults to a sorted timeline as a
  set and an order; the driver, the two kinds of replica, an open loop of requests
  that may be retried, lost control calls and failing restarts (`trouble`).
* **`Streaming`, `RemoteBackend`, `OutputPath`**: a token is a few bytes, a character
  one or two of them; the decoder, the worker's event stream, the connection and the
  client that reads it line by line. The reference is the decoding of the whole
  token sequence.
* **`Sampler`, `PagedBatch`**: tensor code on small integers. Softmax weights are
  powers of two, ties are broken in every way a sort may. A key is the identity of its
  token, so "attends to" can be compared with dense causal attention.
* **`LocalBackend`**: callers, the lock, the load in its thread, close, and the sizing
  of the pool in small units of memory.
* **`LoadGen`, `MockBackend`, `Summary`, `ResultIndex`, `BaselineEngine`**: both load
  drivers against the mock, with the record of every stream and the summary of the
  run; savers that write, lock, replace, fail and are killed; padded batches whose rows
  are cut back to the reference's answer.
* **`BaselineDriver`**: callers of a baseline, the inbox, the driver task that dies with a
  step that raises and is started again by the next caller, the worker thread, close.
  An abort in the event loop may fall into the worker's `_take_batch` (`Collide`);
  `skipped` is the history of what that loses. What a batch answers is `BaselineEngine`'s.
* **`Comparison`**: result files appear one by one; the newest run of an arm at a load
  level counts, and arms name the ones they are measured against. The tables are a
  function of the files; how they are written is left out.
* **`LoRARegistry`** keeps the two maps, the free slots, the LRU order and the pins
  of `registry.py`, and for every slot and projection the adapter each column of
  the stacked buffers belongs to (`layers.py`). `activate()` is cut between its
  loads, because a load may raise: the slot it took is then in no index until
  `reset_slots()` (the history variable `lost` remembers it). A step's tokens are
  grouped into segments as `LoRABatch` does it, and both paths of `_add_delta`
  read the rows.
* **`MCBackends`** instantiates eleven components that share nothing in one run; a
  behaviour moves only the component `part`, so their state spaces add and do not
  multiply.

Operators commented "A slip" are plausible bugs of the definition that follows
them (a dropped guard, a missing reset). No specification uses them; each shows,
put in the place of that definition, that a property would notice.

## Runs

A property with several parts is a conjunction of named definitions, each with its
comment in the module.

| Run | Checks | Bounds and why they suffice |
|---|---|---|
| `runtime` | the allocator: `KVPoolInv`, `EvictsOnlyUnderPressure`, `ImplementsContract`; the async engine: `StreamsInv` (own tokens, one end, the right end), `NoOrphan`, `NoZombie`, `StreamsEnd` | two parts that share no state. 3 blocks, 3 hashes, 2 sharers: free, in use and retained at once, LRU order of length 3, hash collisions on insert. 2 calls that share an id, or with an id each over an engine that is restarted; 3 engine steps, a step that raises, close |
| `engine_chunked` | `EngineInv` (types, queues, reference counts, budgets, privacy of writes, admission arithmetic), `KVFaithful` (what attention and the prefix cache read), `NoStall`, `NoOvertaking` | 4 blocks of 2 tokens, 4 requests of 4 shapes with shared prefixes, 2 adapters, 2 priorities, budget of 3 tokens and 3 sequences: sharing, eviction, preemption of others and of oneself, resumption |
| `engine_whole` | `EngineInv` with a forward pass that may raise, `SamplesAtEnd`, `AllServed` | chunked prefill off; 2 requests that cannot run side by side to their end in 3 blocks, each alone fits |
| `gateway` | `LimitsInv` (slots, budget, honest Retry-After), `OneCompletion`, `BilledOnce`, `ToldTrue` (answers, observations), `EjectionHolds` | 2 requests, one streamed, 2 replicas in 2 lanes, 2 tenants, 2 attempts, probes of `/readyz` beside those of a selection, 1 tick = the TTL: a probe that answers after a failure, both requests on one replica, a bucket overdrawn. Deadlock is checked |
| `canary` | `ClusterInv` (split, images, pods), `OwnMerits` (what a verdict rests on), `RolloutEarned` (steps held, one at a time), `RolloutEnds` | 2 steps, 2 builds, 4 ticks, window of 1, both drivers, both sources: abort and second rollout, failing commands, missing metrics, stall and deadline |
| `chaos` | `ChaosInv` (planned outages only, faults survive restarts, drains spare streams), `ReportTrue` (disruptions, impaired requests, recoveries), `FleetReturns` | 2 replicas of either kind, 2 requests of 2 events, 5 schedules: rolling kills, kill and partition apart and meeting, a total outage; 1 lost control call |
| `spec` | `PlainDecoding`, `BothCachesFaithful`, `SpecBlocksInv` | a greedy and a sampled request of different priority, 4+4 blocks of 3, K = 3: drafts trimmed, rejected, cut by a stop, preempted, mirrors rewound. The code wants powers of two for a block; with 3 a preempted request comes back without a full prefix hit in a small instance, which is when a mirror has to be rewound |
| `backends` | `PathTrue` (the text and its delivery), `SamplerSound`, `PagedSound`, `DeviceShared`, `BenchTrue` (the summary of a run, the page of comparisons), `IndexSound`, `SameAnswer`, `DriverServes`, `LoRAInv`, `LagBounded`, `WaitBounded` | output path: 6 tokens that cut a two-byte character and three stop strings, up to 4 tokens, connection lost anywhere. Sampler: all pairs of 52 rows. Batches: 2 sequences that share blocks, chunks and decodes. Loading: 3 callers, 32 devices. Load: 4 loads (both drivers, ceiling, timeout, duration, warm-up), 12 SLOs, 4 tokens in events of 2. Index: 3 savers, two on one file, failures, kills, a damaged index at the start. Baseline: 9 requests, batches of 2. Driver: 3 callers of an engine that pops single requests from its list or takes batches of 2, steps that raise, close. Page: up to 3 result files of 4 arms at 2 load levels. LoRA: 4 adapters of two ranks over 2 slots, failing loads. Tenants: 3 of weights 1:2:4, 3 requests each, clock up to 12: idle, return, abort, clear |
| `engine_resume`, `output_truncated`, `spec_overload`, `canary_cold_start` | end in a violation, see below | |

`CHECK_DEADLOCK FALSE` appears where the bounded supply of requests (or the
clock) runs out, or the engine is closed: the system may stop there. Symmetry is over
block ids, and only in runs without liveness.

### Where the code and its documents disagree

These runs end in a violation; each is a finding in `PROJECT.json`.

* `engine_resume` (`SamplesAtEnd`): a preempted sequence that already has outputs
  and resumes in chunks samples a token from the middle of itself, because
  `is_chunk` compares with the prompt only.
* `output_truncated` (`NoSilentTruncation`): a worker that fails after its first
  token sends an error object and `[DONE]`; the remote backend of the gateway in front
  finds no choices in the former and ends the stream normally at the latter.
* `spec_overload` (`MirrorSound`): `_rewind` scans the draft model's cache back to the
  first token that agrees with the target. When each step drafts, what is behind that
  token was accepted; when `max_batch_size` lets two plain steps come between two drafts, a
  token behind a rejected one may agree by chance, and the drafter goes on from K/V that is
  not the target's. `spec` shows `MirrorSound` without the limit. The output is right in
  both.
* `canary_cold_start` (`WarmBaseline`): `observe()` says that a stable window that is warm
  when `start()` is called is what makes the first ratio comparison meaningful
  (`controller.py:589`); `start()` clears that window too (`:540`), as its own docstring
  says. `OwnMerits` is what the clear is good for. Its price is that the ratio gate is skipped
  until the stable lane has `min_requests` again, so a slow build may take a step without
  having been compared. With Prometheus as the source nothing is cleared.

### Observations

Met while modelling, narrower than a finding; the properties say what does hold.

Engine.
* A request whose output outgrows the pool preempts itself for ever
  (`scheduler.py:476`); after a step that raised, the next one publishes blocks nobody
  wrote (`block_manager.py:293`), and the local backend does start such an engine
  again; `close()` empties the engine while the step's thread may still run
  (`async_engine.py:156`).
* `_pick_victim` takes the youngest request, which after a readmission is not the
  "most recently admitted" one. A heavy tenant that joins right after a light one was
  served may wait for more admissions than `docs/scheduler.md` promises
  (`WaitBounded` is what holds).
* Aborts and rejections name a request by id; after a restart they may hit a later call
  that reuses it (with three calls, two of one id, `NoOrphan` fails). The gateway's ids
  are UUIDs.
* Speculation: a sequence that resumes with prefix hits over its whole prompt is a
  "decode" of several tokens, which `verify` refuses (`spec_engine.py:506`); rejected
  drafts keep their blocks, so speculation can cause a preemption (`:382`); a forward
  pass that raises between `_extend` and `_rollback` leaves drafts in the outputs; the
  verification batch may exceed `max_num_batched_tokens`.
* LoRA: `activate()` promises that "a step whose working set fits in the pool always
  succeeds", which leaves out pins and the slots of loads that raised
  (`RefusedOnlyWhenFull` counts them).
* Top-p keeps one token more when the mass before it is exactly p.

Streams and backends.
* A stop string completed by a token that also begins a character is noticed one token
  late; if the response ends there it is flushed unmatched and sent
  (`streaming.py:322`; `docs/engine.md:185` says never).
* Non-retryable errors of a worker other than a bad request or an unknown model become
  502 and are retryable at the gateway in front.
* `close()` of the local backend during a load leaves an engine that nobody closes.
* The mock's counters miss a stream that is closed at a yield.

Gateway.
* A probe under way when a replica fails overwrites the failure mark
  (`router.py:453`); `EjectionHolds` excludes exactly that.
* Requests and tokens are charged and not refunded when the concurrency gate refuses;
  a Retry-After is given for amounts above the capacity, which never fit.
* The failure of a streamed response that ends in-band reaches the canary controller
  only if somebody asks the generator for one more event, which `app.py` does not.

Canary and chaos.
* An operator's abort from another process is undone by the runner's next advance; the
  two patches of `set_weight` are not atomic and a failing command leaves a
  half-shifted split (`glass` and `runner.at = "failed"` in `ClusterFollows`); the
  query of Prometheus looks back before the start of the rollout. A request counts for the
  build on trial when it ends after the start, whichever build served it; that is what
  `Heard` in `OwnMerits` says.
* A kill with a restart of 0 s sorts the restart before the kill (`faults.py:502`);
  when two faults overlap on one replica, the end of the first closes the disruption
  (`Clean` in the properties); a kill during injected latency ends a request as
  interrupted although nothing had been sent.

Benchmarks.
* The closed loop ignores `repeat_requests`; an open loop with a ceiling may send after
  its deadline; two scenarios that save under one name leave one file and two entries;
  the baseline loses a batch whose parameters cannot be mixed, and calls an end that is
  both a stop and the maximal length by the other name.
* `BaselineBackend` says that the engine is touched from the driver task alone
  (`common.py:674`), but a caller that leaves aborts from the event loop (`:765`) while the
  worker thread may be in `_take_batch`. With the engine that pops its list in place a
  third request can fall out of the queue and wait until close (`Collide`); a request
  being taken is generated once all the same.
* A run that names its baseline in `compare_to` as well has two rows in one table. The
  headline of the repository's README groups runs of a scenario whatever their profile
  (`report.py:708`).

## Fairness

* `Engine!FairSpec`: weak fairness of the engine's own actions. `generate()` and
  the async loop call `step()` as long as `has_unfinished()`, and nothing in a
  step blocks. No fairness on arrivals or aborts; `AllServed` asks nothing of a
  behaviour with a failing forward pass.
* `AsyncEngine!Fairness`: weak fairness of the loop task and of the step thread
  (a step ends), strong fairness of each `Consume(c)`: asyncio's ready queue is
  first in, first out, so a consumer with an item runs between two turns of the
  loop task although it is disabled during them. None on callers arriving or
  leaving, on `close()` or on restarts.
* `Rollout!Spec`: weak fairness of the runner's next step and of the clock: the loop
  sleeps a bounded time and kubectl has a timeout. None on traffic, metrics, commands
  that succeed or the operator.
* `Chaos!Spec`: weak fairness of the driver of the timeline and of the clock: the
  driver awaits calls that have timeouts. None on requests.

## Proofs

TLAPS checks these for every value of the constants.

* **`KVPoolProofs!PoolSafety`**: `AllocatorSpec => [](AllocatorTypeOK /\ KVPoolInv)`. The inductive
  invariant is the conjunction itself: eviction takes the head of the LRU order,
  so that it is retained needs `EvictableIsRetained`, that its hash is dropped from
  the right entry needs `IndexesAgree`, and that nothing is freed twice needs the
  lists to be free of repetitions. One lemma per allocator call; the lemmas about
  `Tail`, `Append` and removal from a repetition-free sequence come first.
  Assumptions: `NumBlocks \in Nat`, `PrefixCaching \in BOOLEAN`.
* **`KVPoolProofs!PoolRefinement`**: `AllocatorSpec => ImplementsContract`. Under that
  invariant each call is the contract's call on a set of one block.
* **`KVPoolProofs!EvictionDiscipline`**: `AllocatorSpec => EvictsOnlyUnderPressure`, an
  action property, from the same invariant.
* **`BackendsProofs!TenantFairness`**: `QueueSpec => [](QueueTypeOK /\ LagBounded)`, for
  any tenants and weights. `LagBounded` compares waiting tenants only and is not
  inductive: a tenant that is idle may return ahead. `LagInv` adds that no tenant,
  waiting or not, is ahead of the clock or of a waiting tenant by more than
  `MaxCost`, and that the clock is not either.
* **`BackendsProofs!NobodyStarves`**: `WaitSpec => []WaitBounded`: while a tenant waits,
  each other tenant is admitted at most `MaxCost \div Cost + 1` times. `WaitInv` ties the
  count to the virtual times: what the admissions counted have cost the other tenant is at
  most its lead over the waiting one and the largest lag together.

* **`BackendsProofs!IndexTrusted`**: `ResultSpec => []IndexSound`, for any savers and
  file names. `IndexSound` says nothing of the steps between lock and unlock, so
  `ResultInv` adds: whoever is between them holds the lock alone (`HoldsLock`), what it
  read is still the index (`ReadIsCurrent`), only a save that replaced the index is in
  it (`EntryIsLate`), its run file was placed before (`RunIsPlaced`), and a temporary file
  belongs to the write its saver is at (`TempIsOpen`). One lemma per step. Assumption: no
  saver is called like the marks of an absent or damaged file.
* **`AsyncEngineProofs`**: `NobodyOrphaned` (`Spec => []NoOrphan`), `NobodyZombie`
  (`Spec => []NoZombie`) and `StreamsOwn` (`Spec => []StreamsInv`), for any calls, ids and
  number of steps. None of the three is inductive: a request is in turn in `_pending`, in
  the engine, in the outputs of a step and nowhere, while its stream may be closed at any
  moment. The invariant says that it is in one place at a time (`Places`), which places may
  be occupied in which state of the loop task and its thread (`Phases`), that each place
  only names the call whose stream is registered under that id (`Owned`), and that a
  stream is registered until it has its end and then has a reader or an abort on its way
  (`Ends`). Hypothesis `IdsFitAlways`: an engine that may be restarted is used with an id
  per call. The gateway does so; without it `NoOrphan` is false (see the observations).
* **`BackendsProofs!OneEngineOnTheDevice`**: `LocalSpec => []DeviceShared`, for any
  callers and device. `LInv` says that a load is the lock holder's and none of the engines
  that run (`Locked`), which engine runs before, during and after close (`Running`), what
  the memory in use is made of (`Account`), and that the size just computed still fits
  when it is allocated (`Sized`). Integer division is dealt with in three lemmas.
* **`GatewayProofs`**: `EachClientOneCompletion` (`[]OneCompletion`),
  `StatusesAndVerdictsTrue` (`[]ToldTrue`), `LimitsHold` (`[]LimitsInv`),
  `FailedReplicasLeftAlone` (the action property `EjectionHolds`) and `RecordedOnce` (one
  usage record for each request that had an event), for any replicas, lanes, tenants,
  limits and requests. `GInv` has, per request, what each stage knows of its past
  (`Shape`, `Sending`, `Verdicts`, `Answered`); per replica, that nobody but the tasks in
  `early` can be probing one that failed within the TTL (`Ejected`); per tenant, that the
  level of a bucket and all that was charged to it never exceed the burst and the refill
  up to its last use (`Budget`). The level may be negative, when a completion cost more
  than was left; a prompt is only charged to a level that covers it, so what prompts alone
  took, `charged - spent`, obeys the bound. There is one lemma per action.
* **`BackendsProofs!CallersServed`**: `DriverSpec => []DriverServes`, for any callers
  and engines. `DInv` adds that an open future can be found (`Findable`), what the driver
  and its thread know of each other (`Paired`), and what close() has done (`Closing`).
* **`EngineProofs`**, for any pool of blocks, block size, requests, budgets and switches:
  * `EngineSafe` (`Spec => []EngineInv`), also when the forward pass raises. The inductive
    invariant `IInv` adds what the loops of `step()` carry from visit to visit (`LoopInv`:
    what is scheduled and what is left of a budget make the budget, and a sequence is
    visited once), that a table has no block twice and
    at least the blocks its tokens need (`TablesTidy`), and that a block behind what is
    computed is nobody else's and not in the prefix index (`OpenPrivate`), without which
    a write could reach a shared block. One lemma per call of the block manager says what
    it does to reference counts and tables; one per action says the rest. The admission
    arithmetic (`AdmissionFunded`) is that of `can_allocate`: hits that are retained are
    counted as blocks to be had and as blocks that will be gone.
  * `CacheFaithful` (`Spec => [](~faulty => KVFaithful)`) and `CacheFaithfulWithoutFaults`
    (`Spec => []KVFaithful` where the forward pass never raises). `KVInv` adds that what is
    scheduled begins where the computed part ends. After a forward pass that raised, the
    property is false: the next step publishes blocks that nobody wrote.
  * `FirstComeFirstServed` (`Spec => []NoOvertaking`): the queue of arrivals is in the order
    of ids and ids are given out in order (`InLine`).
  * `WholeSampled` (`Spec => []SamplesAtEnd` with chunked prefill off); with it on, the run
    `engine_resume` shows the opposite.
  * `EngineKeepsPoolContract` (`Spec => Pool!PoolSpec`): each step of the engine is a step of
    the contract that `KVPoolProofs!PoolRefinement` proves of the allocator, or none:
    one of its moves, with the blocks, hashes and counts the contract asks for.
  * `PoolNeverRefuses` (`Spec => []CallsAllowed`): the guards of those moves hold back none of
    the engine's. Where one were false the allocator would raise or its indexes would disagree; so
    whoever releases or publishes a block holds it, hits are in
    the index, and there are blocks where `can_append` promised them.

  Assumptions: those of the modules (a finite pool, positive sizes, `Lora` not empty, the
  budgets `SchedulerConfig` accepts).
* **`RolloutProofs`**, for either driver, any steps and either source of evidence:
  `ClusterFollowsController` (`Spec => []ClusterInv`), and the action properties
  `PromotionEarned` (`Spec => RolloutEarned`) and `JudgedOnItsMerits` (`Spec => OwnMerits`). `ClusterInv` speaks of the runner at rest; `RInv` says between any
  two kubectl commands what is left to do: `todo` is the rest of the verb that the
  controller's state asks for, and the cluster is what the commands before it made of it
  (`Raising`, `Undoing`, `Promoting`). It adds which builds may be where (`Builds`), and how
  long the steps behind the present one were held (`Held`), from which the promotion
  follows. Commands may fail at any point, with or without effect.
  `OwnMerits` speaks of requests and knows no percentile: a rollback by the gates has a
  culprit among the requests of this rollout, or a stall, or metrics that were missing too
  often; a step up has enough of them, few failures and one that is fast enough. Its proof
  needs that no sample in a window is older than the start (`FreshEvidence`, in `RInv`), that
  a window is sorted and holds nothing expired (`WindowsAged`), so that a summary is of what
  was `Heard`, and that a percentile lies between the latencies of two requests that
  succeeded (`PercentileFacts`); `Culprit` and `Innocent` go from there to the requests.

* **`BackendsProofs!OwnFactors`** (`Spec => []LoRAInv`), for any slots, adapters, projections
  and widths: the indexes of the registry agree, every token of a step is multiplied with the
  factors of its own adapter on either path through the layers, and a step is refused only if
  it and what is pinned do not fit. `SlotsInv` adds what the loop of `activate()` carries
  (`LoadingLoRA`: what is still to be loaded is wanted, nowhere, and named once), that a slot
  given out early is not taken again before the step ends (`Mapped`), and that the rows of a
  slot are its adapter's with nothing left of the one before (`RowsLoaded`). For the grouped
  path, `GroupedFacts` says that the positions between the ends of a segment are those of
  the tokens of its slot. A refusal is counted: the map from adapters to slots is a
  bijection, so what is resident and what is lost make up the pool. Assumptions:
  `LoRAOptions`' checks, and ranks between 1 and `max_lora_rank`.

* **`ChaosProofs`**, for any fleet, schedules, load and lost control calls:
  `SufferedAsScheduled` (`Spec => []ChaosInv`) and `ReportedAsSuffered`
  (`Spec => []ReportTrue`). The properties compare the fleet with the timeline where the
  driver is at rest; `CInv` says where it is in between. What was applied is a beginning of
  the timeline in the order of `_expand` (`Played`); a replica that is not as it should be has
  the event that brings it back still ahead (`Ahead`); and where no two faults meet on a
  replica, it is what the last event made of it (`AsLeft`), which is found as the greatest
  event applied to it. `Books` and `Slain` relate the open disruptions and the generations
  of processes to the same events, `Severed` and `Flight` the requests to the kills. There is
  one lemma per action, and lemmas on how the spans of two faults may lie. The hypothesis of
  `SufferedAsScheduled`, `NoInstantRestart`, excludes a kill with a restart of 0 s, after
  which the replica stays down (see the observations); `ReportedAsSuffered` does without it.

Several recursive definitions are reasoned about: the tokens of a batch (`Load`), the queue
filtered by `Among`, the order of the canary's steps, the LRU order `Without` some adapters
and the `Grouped` positions of a step; and that a set of numbers can be sorted. Each time it
is by the least counterexample, which exists because `<` is well-founded on the natural numbers (`NatLessThanWellFounded`, a
theorem of the library that has no operator for a parameter).

Everything else is model-checked only. Liveness under fairness (`AllServed`, `StreamsEnd`,
`RolloutEnds`, `FleetReturns`) and `ENABLED` are beyond the prover. `NoStall` does not hold
for all constants: a request that outgrows the pool preempts itself for ever, see the
observations; the run's requests fit. `BilledOnce` sums over sets; the decoder, the
percentiles of `Summary` and the tables of `Comparison`, `Sampler` and `PagedBatch` are folds and
recursive functions over data. No module declares a `RECURSIVE` operator.

## Not modelled

* Metrics, tracing and logs, the command line, configuration files, hardware probes,
  deployment manifests and scripts: recording and start-up, on which no protocol
  depends.
* Numerical code: the products of attention, layers and kernels, the acceptance
  arithmetic on probabilities, weights and tokenizer files. Where one matters to a
  model (what attention reads, that a sampled token may be any token) the model says so.
* Validation of request bodies, chat templates, administrative endpoints, tenants' files,
  the export of usage.
* Prompts, profiles, plots and rendering of the benchmarks, and their scenarios but for the
  driver of baselines; `simulate()` of the
  canary; the projection scripts under `scripts/`. They are long and sequential: files in,
  tables out.
* Statistics counters, except those of the mock backend.

## Plan

What is left is proofs.

1. `OutputPath!DeliveryTrue`, where no fold is involved.
2. `SpecEngine!SpecBlocksInv`, from the lemmas of `EngineProofs` about the block manager.
