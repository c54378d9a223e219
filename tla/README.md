# TLA+ specifications of the NFT duplicate-analysis pipeline

The repository finds NFT contracts that duplicate a set of seed contracts,
fetches trading evidence about every duplicate, analyses it and publishes one
compressed artifact per duplicate and a set of reports. The specifications in
this directory model the parts of it in which order, concurrency and failure
matter: the run pipeline of the `analysis` crate (`src/analysis/src/pipeline`,
`src/analysis/src/reporting/contract_writer.rs`) and its access to the providers
(`src/analysis/src/api`, `src/analysis/src/enrich`), and of the second-generation
`analysis2` crates the evidence checkpoint a run resumes from and the HTTP lanes.

Every module names the code it stands for; `PROJECT.json` maps every definition
to its source lines.

## 1. Inventory

A run (`run` in `orchestrator.rs`) selects the seeds, creates the run directory,
starts dedup on a blocking thread and processes the candidates it streams in one
asynchronous event loop. Four parts work beside each other:

```
 execute_dedup (blocking thread) --CandidateEvent channel--> process_candidates (tokio task)
      |  exact / BM25 batches                 |  analysis, compression      | writes
      v                                       v                             v
 CpuExecutor: admission permits, per-lane weighted queues, worker pools   writer threads
                                                                            |
                                                     run directory: .staging, artifacts, _SUCCESS
```

| Component | State | Operations | What makes it correct | Module |
|---|---|---|---|---|
| CPU executor (`cpu_executor.rs`) and weighted scheduler (`scheduler.rs`) | permits in use, one stored async wakeup, the condvar's and the Notify's waiters, four queues per lane, cursor, running count | blocking and async submit, cancel, dispatch, complete, close of the owner shards | tasks never outnumber permits, a freed permit always reaches a waiter, no kind of task starves, no worker idles beside work, the two `panic!`s are unreachable | `CpuExecutor` |
| Prefetch coordinator (`PrefetchCoordinator` in `orchestrator.rs`) | queue order with stale ids, entry per candidate, three counters | `offer`, `pop_queued`, `freeze`, `finish` | counters agree with entries, queued work is reachable, plans and slots bounded, a finished prefetch covers every hint it absorbed | `PrefetchCoordinator` |
| Dedup coordinator (`execute_dedup` in `coordinator.rs`) and `ShardWorkTracker` (`shard_seal.rs`) | tracked queries, failed-seed bitmaps, window of batches, completion channel, pending count per shard, accumulated relations | register, finish or panic of a query, seal, start, run and complete a batch, publish hints, freeze shards, release scratch | every candidate frozen once and with all its relations, failed seeds marked, nothing frozen after an error, no shared scratch left when it is unwrapped | `DedupCoordinator`, `CandidateStream` |
| Candidate event loop (`process_candidates`) and candidate records (`candidate_registry.rs`) | receive state, final fetches with bases, network and CPU join sets, ready queues, byte budget, aggregate | four fill loops, `select!` over messages, joins and telemetry | each frozen candidate analysed once on evidence that covers it, none lost, stages and bytes bounded, the loop ends | `CandidatePipeline`, `CandidateRecords` |
| Run directory (`contract_writer.rs`, end of `run`) | directory, files, staging files, which process wrote them | create, stage, rename, retry, reports, remove staging, `syncfs`, `_SUCCESS` | `_SUCCESS` only beside complete files, a returned run is durable, runs never mix | `RunArtifacts` |
| Provider access of `analysis` (`api/http.rs`, `api/price.rs`, `enrich/fetch.rs`) | fetch slots per chain family, permits per client, tokens of the rate gate, price lock per chain, price cache | take and return slots, permits and tokens, refill, retry, plan and fetch price windows, Polygon fallback | the gate keeps its burst, no window is planned for a price the chain's cache has, and the windows are few, what is held across requests never leaves everyone waiting | `ProviderAccess` |
| Provider clients of `analysis` (`api/evm.rs`, `api/solana.rs`) | per-candidate; in `evm.rs` also single-flight caches (`OnceCell` per contract) that all fetches share | sequences of requests, decoding | conversions of JSON; one request per cached contract | not modelled |
| `analysis2` evidence checkpoint (`reporting/evidence_cache.rs`, `run_inner` in `cli/src/pipeline.rs`) | meta, jsonl and snapshot files, the sink's rows and pending batch, what is to be refreshed and fetched | load, validate, reconcile, create, push, flush, refresh, fetch, finish, kill | what is resumed was recorded, under the same limits; retryable failures and stale fields are requested again; a kill between lines loses at most a batch | `EvidenceCache` |
| `analysis2` HTTP lanes (`enrich/http.rs`) | token bucket, cool-down, permits, response cache | acquire, 429, retry, look up, store | pauses are kept and do not end in a burst, answers are the caller's own, every request returns | `ProviderLane` |
| `analysis2` enrichment of a candidate (`enrich/*`) | per-candidate | requests, legitimacy probes, value flows | order of gate, fetch, hook | its order in `EvidenceCache`, its contents not modelled |
| Seed selection, Parquet input, resident indexes | built once, then read-only | build, query | results of pure algorithms | not modelled |
| Dedup algorithms (`src/analysis/src/dedup`) | per-query scratch | URI, name, exact and BM25 metadata queries | agree with a reference definition | not modelled |
| Analysis and aggregation (`analysis`, `reporting`) | per-candidate | economics, behaviour, aggregate, report encoding | pure | not modelled |
| Configuration, CLI, progress, NUMA placement, memory probing | - | - | I/O and platform | not modelled |
| `dedup`, `top_contract_analysis_rs` crates | in-memory indexes | batch queries | pure algorithms | not modelled |
| `run/*` scanners (Python) | checkpoint files, worker pools | scan, checkpoint, resume | no block range lost | not modelled |

What is hard to test here: submitters that wait on a condvar and on a `Notify`
for the same counter; a prefetch whose plan is widened or frozen while its
request is under way; a dedup failure that leaves plans behind; a batch
completion that is sent before the batch drops its shared captures; a crash
between the last artifact, `syncfs` and `_SUCCESS`; a kill between the three
files of the evidence checkpoint, or in the middle of a line; a 429 that arrives
while others already computed how long to sleep; a price lock held over requests
that wait for permits. `PROJECT.json` lists these
hazards at their lines with the properties that would catch them.

## 2. Modules

Data is abstracted the same way everywhere (`CandidateRecords`). A relation
record of a candidate is a pair: the seeds it is related to, and the evidence
its NFT selection asks for, as a set of points (a selection of the whole
contract is the set of all points, so `selection_covers` is set inclusion).
`Base[c]`, `Exact[c]` and `Bm25[c]` are what the URI/name pass, the exact pass and
the BM25 pass find about `c`; `Merge` is `merge_prefetch_relations`.

* **`CpuExecutor`** has one entry of `st` per submitted task. A blocking submitter
  holds the admission mutex from the check to the condvar wait, so `CheckSlot`
  parks it in one step; an asynchronous one checks (`saw_full`), then polls
  `notified` (`PollNotified`), and a permit may be freed in between. The worker's
  three steps after the job's body (`ReleasePermit`, `NotifyBlocking`,
  `NotifyAsync`) and the lane's `Complete` are separate, as in the code, because
  a submitter can run between them. `TakeReady` pops one task at a time under
  the lane's lock with the cursor over the weight table (`PopsKind`). A cancelled
  asynchronous waiter passes a wakeup on (`CancelWaiter`, Tokio's promise).
* **`PrefetchCoordinator`** has one action per branch of the four methods. `order`
  keeps stale ids exactly as the `VecDeque` does. The network requests under way
  (`prefetching`) carry the record they were started with.
* **`CandidateStream`** is the abstract specification of dedup as its reader sees
  it: hints, at most one base and one exact per candidate, then frozen candidates
  with everything the passes found, at most once; then success only when all are
  frozen and all hints published, or failure at any time.
* **`DedupCoordinator`** is `execute_dedup`. A batch task sends its completion
  (`RunBatch`) before its captures are dropped (`DropCaptures`): `UnwrapStore`
  fails with the state error of `Arc::try_unwrap` if a capture is alive. A batch
  keeps its worker until its closure has returned, so at most `Workers` of them
  are in between. The
  refinement `ImplementsStream` maps it to `CandidateStream`. An empty seed plan
  returns early in the code and is the case of no seeds; seeds that are missing
  from the snapshot have no relations.
* **`CandidatePipeline`** composes `PrefetchCoordinator` (extended: its actions are
  conjoined into the loop's handlers) with `CandidateStream` (its actions are the
  dedup side). `pc` follows the loop body: condition and memory check, the four
  fill loops in order, `select!`, the candidates of a message one at a time.
* **`RunArtifacts`** separates volatile from durable file contents. A crash keeps
  durable files and an arbitrary part of the others (`Surviving`); the next process
  computes the same deterministic run id and meets the directory again.
* **`EvidenceCache`** follows several runs over one output directory. A cached
  bundle is reduced to what later runs decide on: the limits and the day it was
  fetched under, the evidence families that failed, the seeds it has relation
  results for (`known`) and those that were really probed, and whether it passed
  the legitimacy gate to full enrichment. Only the families of `Retried` have a
  retry rule in `cli/src/pipeline.rs`; a failed relation probe (`Prefilter`, which
  counts as no signal), controllers, royalties and the attribution of mint payments
  have none. The jsonl is the function its lines
  give, the last per contract, with a mark for a missing last newline and for a
  line that does not parse; an append to a file without a last newline tears it.
  `OpenSink`, `WriteMeta` and `RewriteJsonl` are the three writes of `create`,
  `FinishFlush`, `WriteSnapshot` and `CompactJsonl` those of `finish`;
  `EndsWriting` leaves any part of the one under way. An early return on an error
  or on cancellation drops the memory like a kill. `FetchFlushFails` and
  `FinishFails` are write errors after which the run goes on. `create` drops the
  error of removing a jsonl it cannot use, so `OpenSink` may leave the file; the
  history variable `leftover` remembers it until the file is replaced, and for good
  once a run has read it.
* **`ProviderLane`** is one lane of the HTTP client. Time is counted in ticks and
  kept relative (`sleep`, `cool`, `age`), tokens in parts of a token, so that the
  refill by elapsed time is exact. One turn of the loop in `acquire` is one
  action under the limiter's lock. `promised`, `resumed` and `granted` are
  history the properties speak about. A cache file is named by a hash: `File` may
  map two requests to one.
* **`ProviderAccess`** has the fetches of candidates take slots, tokens, permits
  and the price lock of their chain in the code's order. The refill task's look
  and its addition are two steps. `BoundedDayWindows` is `bounded_day_windows` as
  a recursive function, compared in `WindowsAreFewest` with the smallest possible
  cover. `fetch_range` asks again under the older symbol on Polygon (`FallBack`).
  Assumed of the environment: a response has no days outside the window that was
  requested (`WindowArrives`; `fetch_symbol_range` does not filter). A window may
  ask again for cached days that lie between two missing ones.
  The wiring of the clients is a constant of the code (`Client`): the rate-limited
  client "other" is shared by all families, prices go through Alchemy.
* The modules named `...Proofs` hold lemmas and proofs. `MC*` give constants their values.

Definitions whose comment starts with "As X, ..." directly before `X` are the
mutated forms used to show that each property depends on the code it is about.

## 3. Runs

| Run | Instance | Shows |
|---|---|---|
| `admission` | 1 worker, 1 queue slot, 2 async and 2 blocking submitters; 38,951 states | neither panic is reachable, no wakeup is lost although two wait mechanisms share a counter, and every submitted task finishes (or its async submitter was cancelled) |
| `lanes` | 2 lanes, 1 worker each, 4 permits, one task of every kind; 649,856 states | workers never oversubscribed, no idle worker beside queued work, every pop brings a waiting kind nearer |
| `prefetch` | 3 candidates, 2 plans, 2 slots; 19,539 states | counters, reachability, bounds and hint coverage of the coordinator for every order of the four calls |
| `pipeline` | 2 candidates, 2 slots, every failure, fair; 97,974 states | the event loop analyses each frozen candidate once on evidence that covers it, loses none, keeps its bounds and returns, also after failures |
| `pipeline_hang` (violation) | 1 slot for 2 plans, fair, dedup may fail | finding 1 |
| `dedup_stream` | 2 shards x 2 batches, window 2, 2 workers, 3 candidates, messages of 1, fair; 615,050 states | failed seeds are marked, the window is kept, the scratch is unshared when released, dedup implements the stream, and it returns although batches fail and although the receiver goes away |
| `artifacts` | 2 artifacts, 2 reports, 3 attempts, 3 processes; 34,505 states | marker, durability and isolation of runs under crashes |
| `evidence` | 3 runs, 2 days, 2 contracts, 2 registries, 2 limits, batches of 2, failing core families, or failing holders, probes and controllers; 8,348,898 states | limits are mixed only after the removal of an old jsonl failed; the end of a run loses at most a batch unless it cuts a write short or meets a torn file; a finished run is resumed exactly; failures with a retry rule are requested again |
| `evidence_stale` (violation) | as `evidence`, requests succeed | finding 2 |
| `evidence_gate` (violation) | 2 runs | finding 3 |
| `lane` | 3 callers, 1 permit, bucket of 2 refilled every 2 ticks, 1 retry, pauses of 1 and 3, colliding cache files, fair; 252,581 states | the pauses of retried 429s are kept and end without a burst, answers are the caller's own, every request returns |
| `access` | 3 candidates for 2 slots, 1 permit per client, 1 rate token, 1 retry, windows of 3 days, fair; 528,706 states | the gate keeps its burst, no window is planned for a cached price, windows are the fewest, every fetch returns |

**Bounds.** Each bound is the smallest with which the case it is for happens. Four
tasks for two permits leave two waiters, one of each mechanism, or two of the
same. Two lanes with four permits let one lane starve while the other works.
Three candidates for two plans make an offer be refused, and the two hints of a
candidate are chosen so that neither covers the other. In the pipeline one
candidate is widened by the exact hint and the other gains a seed by BM25 only,
so that a prefetch can be reused, extended, or fetched again; sizes 1 and 2
against a budget of 2 make admission skip a payload that does not fit. The stop of
the receive branch at a full backlog (limit 4 here) needs more than two candidates
and is not reached; the theorems about the pipeline include it, `Terminates` does
not. Two
batches per shard make a shard complete at its last batch only, and four batches
for a window of two make refilling after an error necessary. Three processes
allow a crash, a second process that meets the first one's directory, and a third.
Three runs of the checkpoint allow one that is killed, one that resumes what it
left (or meets the jsonl that the first could not remove), and one that relies on
what the second claims; the two registries differ in
a new seed relation and in a candidate that is left out, and a batch of two can be
cut inside and between its lines. Three callers of a lane make one wait out a pause that the second began
and the third extends (a 429 on the last attempt is never noted, `http.rs:516`,
so that the pauses kept are those of 429s that are retried). Of three candidates two share a chain, with days that one
window cannot cover, and the third has to fall back.

**Deadlock** is checked in all runs but `artifacts` and the `evidence` ones, where
the last process may stay down; a returned component stutters explicitly (`Returned`, `Quiescent`).

**Fairness.**
* `CpuExecutor`: weak fairness of each task's own step and of each lane's
  dispatch. They are steps of OS threads or of woken futures; nothing is assumed
  of cancellation, of the close of the owner shards, or of who is chosen by a
  notification.
* `CandidatePipeline`: weak fairness of the loop body, of dedup (but not of its
  failing) and of each writer thread; strong fairness of each kind of `select!`
  branch, because `select!` polls its branches in random order and its telemetry
  branch could otherwise win for ever. No fairness of memory pressure in either
  direction.
* `DedupCoordinator`: weak fairness of queries, batches and coordinator, which are
  threads, and of the receiver as long as it is there. It may go away at any time.

* `ProviderLane`, `ProviderAccess`: weak fairness of every caller (the runtime polls
  a task that can run; a request ends by its timeout), of the clock and of the
  refill task. Tokio's semaphores and mutexes are first come, first served; the
  properties hold without assuming it.
* `EvidenceCache` has no liveness property: a run may be killed at any point.

## 4. Proofs

TLC checks the instances above, the theorems hold for all values of the constants
under the assumptions the modules name (positive capacities, finite task and
candidate sets, finitely many days per candidate, hints that are records, waves
whose batches add up to what the pass finds). Every invariant and every action
property that a passing run checks is a theorem, and so is the refinement.

* `PrefetchCoordinatorProofs` proves `PrefetchInv` inductive. The counters are
  three independent integers with saturating decrements, so their exactness needs
  that each decrement meets an entry of its stage; that needs
  `FetchesMatchActive` (a finishing request belongs to an active entry),
  `FlagsOnlyWhenActive` and `FrozenIsSeen` (a frozen candidate never comes back
  as a new entry). `CompleteCoversHints` needs `ActiveCoversHints`: the record of
  an active entry includes that of its request. Sets selected by stage are counted
  by how one element moves them (`CardinalityMoves`). There is a lemma for each of
  the four methods, so that the pipeline's proof can use them.
* `DedupCoordinatorProofs` proves `DedupInv` and the refinement of
  `CandidateStream`. `WaveCounts` is its heart: `pending[s]` counts the batches of
  the shard whose result was not taken (not yet run, or waiting in the completion
  channel), and without an error all others are in the accumulator. A shard whose
  count reaches zero has therefore accumulated its whole wave (`HoldIs`), which is
  what makes a published record complete. `WaveOrder` says that the exact wave is
  drained before BM25 starts, so that one window bounds both; batches are submitted
  in an order without ties (`IndexInjective`), so that a refill submits at most one.
  `WavePublishes`, `HintsHold` and `FreezesHold` say what is published and what is
  still owed: nothing twice, and everything by the end of the wave. The barrier of
  `FinishBm25` gives `NoStateError` at `UnwrapStore`. For the refinement, the
  abstract channel is the concrete one without the marks (`Chan`); `SendStep` maps a
  send to a hint or a freeze, `StreamStep` every other step to a step or a stutter.
* `CandidatePipelineProofs` proves `PipelineInv`, which is defined in
  `CandidatePipeline`. `OneHand` places a frozen candidate: it is in the queue of
  final fetches, being fetched, waiting for its prefetch, or in the message being
  handled, and only in one of them, or it has passed to the back end.
  `ChannelHolds` and `InboxHolds` say that what is still in the stream was not seen
  before and carries the final record. `HintsWithin` and `BasesCover` bound what a
  prefetch or a kept base can contain, which gives `EvidenceCoversFrozen` for
  reused, extended and repeated fetches. `BackendMatches` relates the stages
  and the aggregate. The prefetch coordinator's part of each handler is discharged by the
  lemmas of `PrefetchCoordinatorProofs`. The dedup side of this module is
  `CandidateStream`, which `DedupImplementsStream` shows to be implemented.
* `CpuExecutorProofs` proves `ExecutorInv`. The scheduler's capacity check cannot
  fail because `PermitsAccounted` bounds the tasks in all the queues by the
  permits (`QueuesHold`: queue entries are distinct tasks in state `queued`).
  `NoLostWakeup` is inductive only with `NoMissedNotify`, which covers the moment
  between an async submitter's check and its wait. `WorkConserving` is inductive on
  top of it. `WaitingKindGetsNearer` is an argument about the weight table: the
  distance of the cursor to a kind's next slot falls with every pop of another kind.
* `RunArtifactsProofs` proves `ArtifactsInv`: `Progress` says what must be complete
  and durable at each place of the process, `DirectoryHolds` that files need the
  directory, `FilesOfOneRun` that they all come from the process that created it.
* `ProviderLaneProofs` proves `LaneInv`. `NoBurstAfterPause` needs `RefillBudget`:
  since a pause ended, the grants, the tokens in the bucket and the time not yet
  credited together never exceed one token and the ticks that passed.
  `AnswersAreOwn` needs `AnswersFollow` (what is stored is the storing caller's own
  full answer); the hash function is arbitrary. Permits are counted by the
  requests on the wire (`PermitsHeld`).
* `ProviderAccessProofs` proves `AccessInv`: slots and permits are counted by who
  holds them (`SlotsHeld`, `PermitsHeld`), a request is under way only where a fetch
  waits for it (`RequestsAwaited`), whoever plans or requests prices holds the lock
  of its chain (`LockHeld`), and therefore what it found missing stays missing from
  the cache (`NotYetCached`). `WindowsAreFewest` follows from `WindowsHold`: the
  windows cover the missing days, begin and end in them, and begin more than `Span`
  apart (`Spaced`), so that no request of any other plan reaches the beginnings of
  two of them (`SpacedIsFewest`, an injection). `WindowsAreSpaced` shows that
  `bounded_day_windows` computes such windows.
* `EvidenceCacheProofs` proves `CacheInv` and on top of it `RunInv`.
  `MixesOnlyAfterFailedRemoval` speaks of what can be read; `LimitsMatch` adds what
  the files hold while they cannot be: a jsonl kept by `create` has the run's limits
  before the meta says so, and a torn meta hides whatever it stands beside. It says
  so of the limits in `Held` (memory and snapshot) and `Filed` (jsonl), which are
  the labelled ones until a leftover is read or is there; a run that opens its sink
  beside an unread leftover cannot use it. `RunInv`
  follows one run over its files: `CandidatesCovered` and `StagesInOrder` (what is
  in memory and what is still queued make up the candidates), `FailuresAccounted`
  (a failed family with a retry rule is still queued for it, or was requested in
  this run), `ResumeHolds`, `SinkHolds` and `JournalHolds` (until an append fails,
  every bundle of the sink is in a jsonl that is not torn, or in the pending batch),
  `RequestsNoted` (an append that failed shows as a requested contract that is
  missing), `SavedHolds`. `KillLosesOneBatchUnlessCut` then follows for each way a
  run can end (`EndsOfRuns`, `PartialAppendKeeps`). The number of runs and kills is
  unbounded. In the run prices are stale and never fail; that a failed price is
  retried rests on the theorem.

The library's induction principles take an operator as a parameter, which the
installed provers cannot instantiate. Two recursions over data are proved without
them: the byte sum of `StagesBounded` and the windows of `bounded_day_windows` are
recursive functions over the subsets of a finite set, and each lemma about them
looks at a smallest subset for which it would fail (`LeastNat`), beginning with the
existence of the function.

The types proved in `PrefetchTypes`, `DedupTypes`, `ArtifactsTypes`,
`ExecutorTypes`, `LaneTypes`, `AccessTypes` and `CacheTypes` and the permits of
`PermitsAreAccounted` are not repeated by a run.

Only model-checked: liveness (`SubmittedTasksFinish`, `Terminates`, `DedupEnds`,
`EveryRequestEnds`, `EveryFetchReturns`), which depends on fairness and `ENABLED`
and is beyond this prover; and the three violations of section 5.

## 5. Findings

1. **The loop can spin for ever after a dedup failure** (`pipeline_hang`). Finished
   prefetches that were never frozen keep their network slots
   (`reserved_network_slots`). If dedup fails while they hold all slots and one
   more prefetch is queued, the loop's condition stays true because of
   `prefetch.has_queued()` (`orchestrator.rs:311`), but a queued prefetch is only
   popped while `reserved_network_slots() < network_limit` (`orchestrator.rs:349`)
   and no freeze will come. The loop then runs on telemetry ticks and the dedup
   error is never returned; the architecture document says that such a failure
   terminates the whole run. It needs fewer slots than plans, which the
   configuration in `analysis/config` gives (52 and 256), and a dedup failure after hints were published.
2. **An interrupted run makes stale evidence pass for fresh** (`evidence_stale`).
   `EvidenceCacheSink::create` writes today's pricing day into the meta
   (`evidence_cache.rs:420`) before any price is refreshed. If the run is
   interrupted before the refreshed rows are on disk, the next run of the day sees
   equal days (`pipeline.rs:1184`) and analyses yesterday's prices; the same holds
   for cached contracts that were no candidates of the run that moved the day. In
   the same way the default signals that `reconcile_cached_relation_legit` inserts
   for a new relation (`pipeline.rs:838`) are written with the price and holder
   refreshes and, after an interruption before the relation refresh, count as
   probed. `analysis2/README.md:192` promises that both are refreshed.
3. **A row of the legitimacy gate is never enriched later** (`evidence_gate`). A
   candidate whose relations are all legitimate is cached without deep evidence.
   When a later run adds a relation that is not legitimate, the row still counts as
   a hit (`pipeline.rs:1245`) and only its relation signals are refreshed, although
   `legit_detect.rs:562` excludes a candidate only when every relation is legitimate.

Seen while modelling, without a run of their own:
* The admission limit of the executor is `workers + queue_capacity` and a finished
  task returns its permit before its worker is free (`cpu_executor.rs:476-480`), so
  that for a short time more than `cpu_queue_capacity` tasks wait.
* A kill in the middle of a line makes the whole jsonl unreadable, and the next run
  removes it and starts over (`evidence_cache.rs:250`, `409`); a kill after a line but
  before its newline does the same one append later; a kill while `create` rewrites
  the jsonl leaves its first rows, which hide the whole snapshot. The comment at
  `evidence_cache.rs:360` says that interrupts leave a reusable cache. These are the
  cases `CutShort` excepts from `KillLosesOneBatchUnlessCut`.
* The error of removing an old jsonl is dropped (`evidence_cache.rs:401`, `409`). The
  new meta is then written beside it and rows are appended to it, so that a run
  killed before its `finish` leaves rows of other limits under its own, "to avoid
  mixing" notwithstanding; this is the exception in `MixesOnlyAfterFailedRemoval`.
* Failed relation probes (`legit_detect.rs:551`), controllers and royalties
  (`enrich/orchestrator.rs:582-594`) and incomplete mint payments
  (`enrich/orchestrator.rs:654`) are cached and never requested again;
  `RetriedWhenFailed` is about the other families.

## 6. Not modelled, and plan

Left out of the modelled components: wording of errors and progress, metrics, the
contents of evidence and artifacts, NUMA placement (the lanes and their sizes are
constants), the allocation of seeds to batches (a constant), the offline hook of
`analysis2` that replaces enrichment.

Not modelled at all:
* the dedup algorithms of both crates, seed selection, indexes, economics,
  behaviour and report encoding: sequential computations over large columnar data
  and floating-point scores. Whether they are right is a question about data,
  which a small instance does not answer; nothing in them depends on order,
  failure or time. They are most of the repository's lines, so the
  map covers a small share of it;
* the provider clients (`evm.rs`, `solana.rs`, `alchemy.rs`, `helius.rs`): sequences of
  requests and decoding of JSON. The slots, permits, tokens and prices they share are
  in `ProviderAccess` and `ProviderLane`. The single-flight caches of `evm.rs`
  (`OnceCell` per contract for metadata and for OpenSea contracts) are not modelled; a
  metadata cell may wait for an OpenSea cell and never the other way round, so that
  they add no cycle to what `EveryFetchReturns` is about;
* `run/*` scanners and `top_contract_analysis_rs`: separate programs, the second one
  superseded.

Plan for what comes next: safety lemmas for the liveness properties (what each
waiter waits for, and that everyone it waits for can move), so that only the
fairness argument itself is left to TLC; the safety half of `EveryFetchReturns`
(a priced candidate keeps its prices) as a theorem; the consequences of
`StreamSpec` that the pipeline's proof uses, proved in the abstract. Then checkpoint
and resume of the scanners.
