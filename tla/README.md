# TLA+ model of the distributed model-serving platform

The platform puts a scheduler in front of a vLLM backend. A gateway takes chat
requests over HTTP, a predictor guesses how long each answer will be, a
shortest-job-first (SJF) scheduler orders the requests by that guess, and
workers forward them to vLLM. The scheduler exists three times: in Python
(asyncio, the one the gateway uses), in Go (goroutines and a condition variable)
and in C++ (threads). Around it are the predictor's data, training and export,
the port of the SmolLM3 model to vLLM with the scripts that register it, and the
benchmarks.

This directory holds TLA+ modules for all of these but the benchmarks, the TLC
runs that check them, and TLAPS proofs. `PROJECT.json` lists components, runs,
mutants, the map from definitions to source lines, findings, hazards and
theorems.

## Parts and modules

| Part | Module | State and actions |
|---|---|---|
| (promise) | `RequestQueue` | abstract: a request is submitted once, then withdrawn or served, smallest key first |
| (promise) | `AgedQueue` | abstract: the same with aging passes that lower priorities |
| `scheduler/priority_queue.py` | `PriorityQueue` | `_heap`, `_pending`, `_cancelled`, counters, `_wait_times`, waiters; one action per method, `dequeue()` split at its wait |
| its use before any aging (`OracleSJFScheduler`: always) | `OracleQueue` | `PriorityQueue` and whether `update_priority()` has been called |
| `scheduler/fcfs_scheduler.py` | `FCFSScheduler` | asyncio queue and its getters, `_pending`, counters; one action per method, `acquire()` split at its wait |
| `scheduler/sjf_scheduler.py` | `SJFScheduler` | instances of the two above, `_pending`, the fallback switch, the aging task |
| `scheduler/aging.py` | `Aging` | the arithmetic of the three strategies for one waiting request and newcomers |
| `scheduler/gateway.py` | `Gateway` | `SJFScheduler`, dispatch loops, forward tasks, futures, stream queues, HTTP clients, backend |
| `go/internal/api/scheduler.go`, `cpp/src/priority_queue.cpp` | `LockedQueue` | heap, pending, cancelled under a mutex; aging passes; callers, contexts, helper goroutines |
| `go/cmd/gateway/main.go`, C++ `SJFScheduler` | `Runtimes` | `LockedQueue` used by handlers and dispatch loops (Go) and by any threads (C++) |
| `predictor/dataset.py` | `Dataset`, `Places` | operators: records, cache, generator, de-duplication, split |
| `training/*.py`, `predictor/{trainer,export,predictor,inference}.py` | `Training` | a job and where it is, the training loop's locals, the files, servers loading them |
| `vllm_port/smollm3.py` | `SmolLM3` | parameters, `load_weights` weight by weight, a forward pass block by block |
| `scripts/patch_registry.py`, `patch_init.py` | `RegistryPatch`, `Places` | the two files of the installed vLLM, read, emptied, written |
| `docker/Dockerfile` | `VllmPort` | the patches, then the model if the registry names it |

`MCPriorityQueue`, `MCAging`, `MCTraining` and `MCVllmPort` hold the constants
and symmetry of TLC runs; `*Proofs` the proofs. Operators introduced by a comment
starting with "Fault:" are plausible bugs; each is the mutated form of the
operator that follows it.

### How the Python scheduler is modelled

**Grain of atomicity.** The Python server parts are asyncio tasks of one thread.
Under CPython 3.12 (the version of the Docker image and of CI) an uncontended
`asyncio.Lock` does not yield and `wait_for` runs the wait in the caller's task,
so no task yields while it holds `_lock`. Each method is one action, split only
where it really waits. `dequeue()` is `Take` (an item is returned), `Park` (it
waits, or raises after its deadline) and `Expire` (the wait times out). A
notification that reaches a waiter which times out at once is lost or passed on,
depending on the CPython release; the model allows both. An asyncio queue hands
it on. One pass of the aging loop does not yield; it is modelled request by
request (`Boost`, `Overdue`), which gives the same behaviours because a pass may
leave any request alone.

**`dequeue()` without a loop.** It pops items in order and discards the first
copy of each cancelled request. `Skipped` is the set of those copies, `Servable`
the rest; the item returned is the first of `Servable`, and the items of
`Skipped` before it are discarded with it.

**Event loop ownership.** A dispatch worker does not yield while `acquire()`
finds requests, so it drains the queue in one go. In `Gateway`, `owner` is the
worker that holds the loop; every other action needs it to be free. `tasks` counts
the forward tasks of a request, two if a duplicate of it was acquired; a task
exists from `acquire()` to `complete()`.

**Data.** Prompts, bodies and chunks are not represented. A predicted length is
a member of `Prios`, an enqueue time the number of the arrival. Time is left open:
a request may be boosted, or overdue, at any pass of the aging loop, and a
time-out may fire at any wait. A prediction succeeds or fails, a backend call
answers 200, answers something else, or raises. Only `Aging` counts time, in
passes of the loop.

**History variables** record what the code does not keep: `submitted`, `acked`,
`dropped`, `dispatched`, `aged` (queue), `arrivals`, `served`, `facked`, `finished`
(FCFS), `completions` (SJF), `acked`, `acquired` (Go, C++), `run`, `export`
(training), `original`, `patches` (registry).

### How the other parts are modelled

**Go and C++.** A critical section is one action. The exception is Go's
`Acquire()`: between starting its helper goroutine and `Wait()` it holds the mutex
(`arming`), and helpers and contexts, which need no lock, may run; that is how a
broadcast gets lost. The heap holds copies of what is in the pending map, and the
aging passes (Go's ticker, `Tick`; C++ at the start of every `acquire()`, `Call`)
change the pending copy only. A boost is any number up to `MaxBoost`, the larger the
longer a request has waited. In C++ the scheduler is a library class: threads call
it whenever they like, and nothing is assumed of them.

**Training.** A job is one of `train.py`, `evaluate.py`, `prepare_dataset.py`
and a call of `Trainer.resume()` (which only tests make today). It may die at any
point (`abort`). Writing a file takes two steps, because `open()` and
`torch.save()` truncate it first; of a dataset cache any prefix may survive. Weights
are known by the run, epoch and loss that made them, their width, and the samples
whose mean and deviation normalised their input. A gradient step is an arbitrary
validation loss, which may be inf or nan. Servers read their two files one at a
time, while a job may be exporting.

**Port.** A parameter is the set of checkpoint weights it holds, a hidden state
the bag of the block outputs it sums. Names are the layer and the last parts of
the dotted name, which is what `endswith` and `replace` look at. A registry file is
the sequence of the entries and lines that the patterns tell apart.

## Runs

| Run | Bounds | Checks |
|---|---|---|
| `queue_aging` | `FairSpec`, 3 requests, 2 workers, 2 priorities | `TypeOK`, `PendingIsHeld`, `NothingLost`, `LatestFirst`, `NoLostWakeup`, `ShortestFirst`, `OnlyStaleRepeats`, `EventuallyServed`; until the first `update_priority()`: `UnagedOnce`, `StatsBalance`, `CancelHonoured`, refinement of `RequestQueue` |
| `queue_duplicate` | `TrackedSpec` | violates `AtMostOnce`: enqueue, boost, dequeue, dequeue |
| `sjf` | `FairSpec`, fallback on, 2 requests, 2 workers | `AgingSeesQueue`, `PendingTracks`, `NoSleeperWhileQueued`, `FallbackServes` |
| `sjf_stranded` | `PatientSpec` (nobody cancels), 1 worker | violates `EventuallyAcquired`: a queued request is left behind by the switch |
| `gateway` | `FairSpec`, a chat and a stream, 1 worker, 1 unread chunk | `QueueAttended`, `AnswersAgree`, `BooksClosed`, `ChatAnswered` |
| `gateway_stream` | `StreamSpec`, 1 request | violates `StreamEnds`: a backend error leaves the client waiting |
| `aging_starves` | values of `configs/scheduler.yaml`, predictions of 100 and 500 tokens | violates `NoStarvation` |
| `training` | 2 jobs, 4 configurations, 3 epochs, patience 2, 4 losses | `CheckpointIsBest`, `ResumeBaseKept`, `EarlyStopping`, `FiniteWeights`, `ArtifactsAgree`, `ServedAgrees`, `DeployedWidth`, `HeldOut` |
| `port` | 3 shapes, with and without vLLM and caches, tied or not, 5 layouts, 2 patches | `WeightsInPlace`, `PreNormStream`, `LayerPlan`, `HeadsPerRank`, `PatchKeeps`, `ExportedOnce` |
| `port_weights` | same | violates `AllWeightsLoaded` |
| `runtimes` | Go and C++, 2 requests, 3 callers, 2 lengths, boosts of 0 and 1 | `BooksAgree`, `NoLostWakeup`, refinement of `AgedQueue`, `ChatAnswered` |
| `runtimes_aging` | lengths 2 and 3, boosts up to 2 | violates `AgingHonoured`: submit the long one, submit the short one, age, acquire |

**Why the bounds are enough.** Two workers give a sleeper and one that is awake,
or two sleepers of which one is notified. Two priorities give a boost and an
outdated copy; three requests let a short one, a long one and a boosted one meet.
`WaitCap` stands for the 10000 samples of `_wait_times`; with 1 or 2 the
truncation happens. In the gateway, two requests allow one to be stranded in the
queue by the other's failed prediction; several workers are covered by `sjf` and
by the proofs. In `runtimes`, two handlers and a dispatch loop compete for two
tickets. Two jobs let one find the other's checkpoint, cache and export, whole or
torn; three epochs with patience two let training stop early, after an
improvement, and at the end. Eleven rows are the fewest that give validation and
test samples; fourteen have a repeated prompt that would fall into two parts.
The shapes have a layer count that is and is not a multiple of the interval, and
fewer, as many and more ranks than key-value heads. Symmetry is used only in runs
without liveness. `MaxUnread`, `MaxRuns`, `MaxPatches` and `MaxBoost` (500 in the
code) are the named bounds.
Runs do not check for deadlock where the system may stop: a gateway after
`shutdown()`, jobs and patches at their bound, a forward pass at its end, and
clients that have all been answered.

**Fairness.** The event loop resumes every ready task, so a worker that can run
in `dequeue()` does (weak fairness); `EventuallyServed` needs no time-out to fire.
`FallbackServes` also needs the time-outs of `acquire()`, which the gateway sets to
one second: a worker asleep in the abandoned queue is only brought over by it. In
the gateway the request time-outs and the forward tasks (which end by httpx's own
time-outs at the latest) are strongly fair: their tasks are ready while a worker
holds the loop, and asyncio's ready queue is first-in first-out. `StreamSpec` adds
that the time-outs of `acquire()` fire and that clients read. In `Runtimes` only Go
has fairness: steps that need the mutex are strongly fair (Go's mutex hands itself
to a goroutine that has waited long), contexts end, helper goroutines run, and
backend calls return. C++ threads owe nothing.

## What the runs show

What holds: no request is lost and none invented; `_pending`, `_heap` and
`_cancelled` agree however many copies aging makes; dispatch is by current
priority, and only a copy that aging outdated is served again; no wake-up is lost
even if a notified waiter times out, in either queue of the SJF scheduler and in
C++; what the fallback takes over it serves; clients are told what their futures
were settled with, every chat is answered, in Python and in Go, and no request
stays in a `_pending` that nobody is going to take it out of. Until aging touches
it the Python queue implements `RequestQueue`; the Go and C++ queues implement
`AgedQueue`. `best.pt` is the best epoch of a training run, and a resumed run has
put the weights it was given aside before it overwrites it; an export that was not
interrupted is consistent, and so is what a server loads after it and during no
other; only models of the width the loader expects are exported; no prompt trained
on is in the parts `train.py` validates and tests on. Whatever its order, a
checkpoint puts no weight in a wrong place, and a forward pass adds every block once
and gives every layer its cache. The patch scripts keep foreign entries, register
the port where they find an anchor, and remove a fallback of the form they match.

What does not hold, each against a line of the repository quoted in
`PROJECT.json`:

- `update_priority()` leaves the old item in the heap without a cancel mark, so a
  boosted request is dispatched twice (`queue_duplicate`).
- The first failed prediction switches to the fallback for good; what was in the
  priority queue is not served any more (`sjf_stranded`).
- A stream whose backend call fails never ends; no time-out covers it
  (`gateway_stream`).
- With the configured values linear aging grants 90 tokens in the five minutes a
  request may wait, so it does not prevent starvation (`aging_starves`).
- `load_weights` matches `q_proj` and its like against the end of names that end
  in `.weight`; the merged projections are not loaded (`port_weights`).
- The aging passes of Go and C++ do not reach the heap, so a request they put ahead
  of a shorter one is still handed out after it (`runtimes_aging`).

What the models have against a line of the repository, and no run shows; the
properties around it are stated so that they do not pass over it in silence:

- `FCFSScheduler.cancel()` leaves the request in its queue, and `acquire()` returns
  it, though `base_scheduler.py:76` says "Cancel a pending request." `PendingTracks`
  is about `_pending` only. In the priority queue, a request that was boosted before
  it was cancelled comes back through the copy `queue_duplicate` is about;
  `CancelHonoured` ends with the first boost, and `OnlyStaleRepeats` says that such a
  copy is the only way.
- `resume()` trains a new model and forgets the best loss, though
  `trainer.py:158` says "Resume training from checkpoint." and line 162 "delegate to
  train with loaded weights". `CheckpointIsBest` is about `train.py` only;
  `ResumeBaseKept` says that the weights are at least not lost.
- `patch_registry.py` matches a fallback entry only with a comma before the closing
  parenthesis. The one-line entry that `smollm3.py:21` quotes as the one to remove
  stays, though `docker/Dockerfile:28` says "removes Transformers fallback" and
  `test_smollm3.py:481` asserts that it is gone. `PatchKeeps` promises the removal
  for a registry without such an entry; the layouts of the run include one with it.

What the models have and no line of the repository speaks of:

- A client that leaves a stream cancels nothing. At the queue's own interface an
  `update_priority()` takes a cancellation back (the scheduler's aging loop does not
  get there, since `SJFScheduler.cancel()` forgets the request first).
- In Go the dispatch loops take requests and drop them; a caller whose context is
  done swallows the signal meant for another; a broadcast may come before its
  caller waits. `ChatAnswered` holds because the dispatch loops' contexts end every
  second and wake everybody.
- A run without a finite loss exports the previous run's weights with its own
  normalisation (`export` is then "stale"). An interrupted export leaves new weights
  beside old metadata; `ArtifactsAgree` and `ServedAgrees` exclude it. A truncated
  dataset cache is used as it is. `evaluate.py` does not remove repeated prompts and
  splits by the default ratios; `HeldOut` does not cover its split.
- `patch_registry.py` does not recognise the entry it wrote and adds another each
  time it runs.

## Proofs

Eight modules, for all values of the constants that satisfy the named
assumptions:

- integer priorities (positive lengths in Go and C++), finitely many workers or callers, `WaitKeep <= WaitCap`
  (`PriosAssumption`, `WorkersAssumption`, `WaitAssumption`, repeated as
  `QueueAssumption`, `SchedulerAssumption`, `LockAssumption`); at least one worker
  in the gateway;
- finite losses below `Inf`, a `NaN` that is no number, at least one epoch and a
  patience of at least one (`LossAssumption`, `EpochAssumption`);
- a finite data set, a `permutation(n)` that is one, ratios that do not exceed the
  whole (`DataAssumption`, `PermutationAssumption`, `SizeAssumption`);
- configurations with positive sizes and a checkpoint that has every published
  name, `lm_head` only if it is not tied (`WellFormedAssumption`);
- an installed vLLM with texts that import and export the port at most once
  (`LayoutAssumption`);
- integer lengths and boosts and a hysteresis that is not negative (`Numbers`, a
  hypothesis of `AgingEnough`).

- `PriorityQueueProofs`. The inductive invariant `IInv` is `TypeOK`,
  `PendingIsHeld`, `NothingLost`, `LatestFirst` and that the heap is finite.
  `PendingIsHeld` is not inductive alone: when an outdated copy of a cancelled
  request is served, its mark must be consumed by the same call, and that is so
  because the request's item in `_pending` comes before its other copies
  (`LatestFirst`). From it follow `ShortestFirst` and, with `Returned` (what was
  returned is not pending), `OnlyStaleRepeats`. `NoLostWakeup` is by counting: a
  push adds one item and wakes one worker, if one sleeps.
  Until `update_priority()` is called, which under `OracleSJFScheduler` is never,
  the second part shows `AtMostOnce`, `OneFate`, `StatsBalance`, `CancelHonoured`
  and the refinement of `RequestQueue`. The invariant is `IInv` and, as long as
  `aged` is false, `OInv`, which adds the first three: heap and `_pending` hold the
  same items, and a request is waiting, cancelled or dispatched, never two of these.
- `SJFProofs`. The fallback first, on its own: `NoSleeperWhileQueued` by counting
  (a getter that was woken and times out hands its wake-up on, and that step is
  where the count would break), and the refinement of `RequestQueue` with arrival
  numbers as keys (`FCFSRefinement`). `QueueComponent` shows that every step of
  the scheduler is a step of its queue or leaves it alone, so the queue's theorems
  carry over. `SInv` adds the fallback's order and books (`FInv`) and that a
  request is in one queue only (`OneQueue`), without which `complete()`, which
  tells the fallback of all requests, could disturb `PendingTracks`, and
  `AgingSeesQueue` would not hold for a request in the fallback. `QSafe` collects
  what the rest needs of the queue. Inside the scheduler the fallback is still
  first-in first-out (`FallbackRefinement`), no worker sits in both queues
  (`OneSeat`), and every request seen waits, was acquired or was cancelled
  (`EveryRequestAccounted`); the switch strands requests, but loses none from the
  books. `HostInv` is all of it in one invariant that also survives the
  cancellation of the workers from outside (`HaltHostInv`).
- `GatewayProofs`. Only a request the scheduler has seen has a future
  (`FutKnown`), and the scheduler forgets none (`KnownGrows`). Each step of the gateway is one of the scheduler's, or none of
  its business, or `shutdown()`, which is a `Halt`; so `HostInv` is an invariant of
  the gateway (`HostInvariance`), and the scheduler's properties hold there
  (`SchedulerPromisesKept`), as does `QueueAttended`. `AnswersAgree` needs `Told`,
  what client, future, chunks and completions say of one request, which is
  inductive only with the scheduler's word that a request it has not seen has no
  completions (`Unseen`); that a waiting future's request is still to be answered
  comes from `EveryRequestAccounted`'s argument. `BooksClosed` needs `TInv`, the
  count of forward tasks: a request has as many as it was acquired and not yet
  completed. With the scheduler's `AgingSeesQueue` and `PendingTracks`, a request in
  either `_pending` that is not queued was acquired more often than completed
  (`TasksClose`).
- `AgingProofs`. The run `aging_starves` shows that aging does not always do what
  it is for; `AgingEnough` says when it does: if the boosts of all passes up to
  the time-out, those above the hysteresis, add up to the largest difference of
  two predictions. The sum is any function that satisfies its recursion
  (`IsTotal`), since what a recursive definition computes is out of the prover's
  reach. The invariant `Ages` says that the priority is a prediction minus the sum
  so far. With the values of `configs/scheduler.yaml` the linear policy's sum is
  180090 units, 90 tokens, and the bound is sharp: TLC finds no starvation for
  predictions that far apart, and finds it for one unit more.
- `RuntimesProofs`. `LInv`: types, `BooksAgree`, finiteness, and that C++ holds
  its mutex across no action. From it the refinement of `AgedQueue` by both
  queues as they are used: the heap's order is that of the lengths, so what is
  handed out is no longer than any other, and an aging pass only lowers
  (`AgingPassRefines`). `NoLostWakeup` for C++ is by counting again.
- `TrainingProofs`. `TrainInv` relates history, best epoch and patience at each
  stop of a job. `FilesInv` adds what a running job knows of the files:
  `best.pt` is its own once it has a best epoch (`BestKnown`), and an export has
  written equal weights so far (`ExportKnown`). `ResumeKnown` says the same of
  `resume_base.pt` in a resumed job. `LoadInv` adds that a file a
  server has read is still the one on disk as long as no export has begun.
  `HeldOut` rests on `DataInv`: past the loading, the samples of a training job
  are rows or generated prompts (`Source`) without repetition (`Distinct`), however
  torn the cache they came from. `SplitIs` then cuts a permutation of them in
  three. That de-duplication leaves no repetition is `KeepDistinct` of
  `PlacesProofs`.
- `PlacesProofs`, lemmas on what the programs do to sequences. No induction is
  needed, because `Places` says which places are kept: the k-th is the one with
  k - 1 of them before it (`Nth`), and counting shows there is exactly one
  (`NthOf`, `NthOnto`). Inserting is keeping, too: element i of a text goes to
  slot 2 i, what is put behind it to the slot after, and the slots in use are
  kept in order (`Insert`). What was kept twice, or moved without changing the
  order, is kept once (`KeepKept`, `KeepMoved`); from these follow what filtering
  and inserting leave alone (`KeepOthers`, `InsertOthers`) and how often an entry
  is there after (`KeepCount`, `InsertCount`, `InsertNew`).
- `VllmPortProofs`. `LoadInv`: what a parameter holds comes from its own source,
  and a weight that is not yet in place is still ahead in the checkpoint; it
  needs that `stacked_params_mapping` matches no name of a checkpoint
  (`NothingStacked`), which is the fault that `port_weights` shows. `StreamInv`
  says at each block which outputs are in `hidden_states` and which in `residual`,
  and that they are disjoint, so that adding the bags counts none twice.
  `PlanInv` counts the layers with rotary embedding so far, by division with
  remainder. `PatchInv` has both properties of the patch scripts, and says of a
  script that has emptied its file that what it is about to write has them:
  the entries of others as they were before any patch, a native entry if it is
  `patch_registry` or that has run before, no fallback of the form it matches, none
  of the other form unless vLLM shipped it, one import and one export. It rests on
  what the two functions do to any text (`PatchContentIs`, `AddExportIs`).
  `PortRunsModel` and `PortRunsPatches` show that the port is a run of the model
  and of the scripts, each as its own specification says, and `PortCorrect`
  carries the six properties over.

Proved and not checked by a run of their own: the types of the scheduler, the
gateway, the training jobs and the Go and C++ queues, `OneFate`, `OneSeat`,
`EveryRequestAccounted`, `NoLostWakeup` of the queue inside the scheduler, the
scheduler's properties inside the gateway, and the two refinements by the fallback
(their keys are all natural numbers, which TLC cannot enumerate).

Model-checked only: every liveness property (liveness under fairness and
`ENABLED` are out of the prover's reach). The violations are TLC's as well, among
them that aging with the configured numbers is not enough.

## Not modelled

- The benchmarks, plots, reports and audit scripts: offline statistics, I/O and
  formatting.
- Feature extraction, the network's arithmetic, the C++ predictor: numeric and
  stateless. The scheduler takes a prediction's outcome as an input.
- The pass-through proxy, health, readiness and metrics endpoints and the loading
  of configurations: no state of interest.
- `SJFScheduler.on_reload()` replaces aging parameters that `SJFScheduler` leaves
  open. Latency samples other than `_wait_times`.
- The counters that Go's `Complete()` and the C++ scheduler update without a
  lock: nothing in the program decides by them.
- `from_csv()` and `parallel_extract()`, which no script calls; random seeds and
  the experiment loggers of the trainer.
- Pipeline stages, sampling and quantisation of the port, which are vLLM's;
  `vllm_port/registry_patch.py`, which only holds text to be copied.
