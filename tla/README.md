# Verification of srtctl

`srtctl` (`src/src/srtctl`) submits a benchmark of an LLM serving stack to Slurm and, inside
the job, brings the stack up on the granted nodes, runs the benchmark, watches every process,
tears everything down and keeps a lock file of what ran. A dashboard (`src/analysis`) shows
the results. This directory holds TLA+ models of these programs, the TLC configurations that
check them and the TLAPS proofs about them.

`PROJECT.json` maps every definition to the source lines it models, names a mutant for every
checked property, and lists the hazards the properties were chosen for.

## 1. Inventory

| Component (source) | State it keeps | Operations | Talks to |
|---|---|---|---|
| Job submission (`cli/submit.py`) | temporary files, the job's output directory, a submissions log | `submit_single`, `submit_sweep`, `submit_directory`, `submit_override` | Slurm (`sbatch`), the file system, the status collector (POST) |
| Configuration (`core/config.py`, `core/sweep.py`, `core/yaml_utils.py`) | none of its own; the files of a user | load, resolve aliases, merge overrides, zip, select, expand sweeps, validate | submission, the job |
| Schema and validation (`core/schema.py`, `core/validation.py`) | frozen dataclasses | derived quantities, `validate_topology`, identity checks | submission, allocation |
| Job script (`templates/job_script_minimal.j2`) | none | set up, run `do_sweep` on the configuration in the output directory | Slurm, orchestrator |
| Sweep orchestrator (`cli/do_sweep.py`, `cli/mixins/*`) | `exit_code`, the stage, `stop_event`, started handles | `run` and its stages | registry, monitor thread, signal handler, status reporter |
| Process registry (`core/processes.py`) | `_processes`, `_failed_processes`, a lock | `add_process(es)`, `check_failures`, `cleanup`, `print_failure_details` | main thread, monitor thread, signal handler, operating system |
| Endpoint allocation (`core/topology.py`, `backends/*`) | the cursor `node_idx`/`gpu_offset`, port counters per node and global | `allocate_endpoints`, `endpoints_to_processes` | schema, worker stage |
| Stage launchers (`cli/mixins/worker_stage.py`, `frontend_stage.py`, `telemetry_stage.py`) | a dict of handles per stage | `start_all_workers`, `start_frontend`, `start_telemetry` | Slurm (`srun`), registry |
| Frontends (`frontends/*`, `core/telemetry.py`) | none; the addresses of the layer below | router and nginx command lines, scrape targets | workers, benchmark, profiler |
| Head infrastructure (`cli/setup_head.py`) | two child processes | start NATS and etcd, wait, supervise, stop | operating system, orchestrator |
| Health checks (`core/health.py`) | poll count, deadline | `wait_for_model`, `wait_for_port`, reading the answers of Dynamo and SGLang | frontend (HTTP), `stop_event` |
| Post-processing (`cli/mixins/postprocess_stage.py`) | extracted metrics, upload URL, a container, an analyzer | `run_postprocess` | S3, status reporter, lock file |
| Lock file and fingerprints (`core/lockfile.py`, `core/fingerprint.py`) | `recipe.lock.yaml`, fingerprint files | write, collect, verify, compare, strip, load | file system, worker nodes, orchestrator, the next job |
| Status reporting (`core/status.py`, `contract/`) | none of its own; the collector keeps the record | `report_started`, `report`, `report_completed`, `report_artifacts` | HTTP collector |
| Runtime context, Slurm wrappers (`core/runtime.py`, `core/slurm.py`, `core/ip_utils`) | frozen paths and node lists | computed once; command lines | orchestrator |
| Benchmark runners (`benchmarks/*`) | result files | loops over concurrencies | frontend |
| Log analysis and dashboard (`src/analysis`) | Parquet caches and their hashes, the run's record, memory of the process | load a run, parse, cache, check completeness, edit tags | result files, other dashboards |
| Mock mode, interactive CLI, MCP server, recipes | – | – | off the path of a run |

### What is hard here

* **Threads and a signal handler over one lock.** The main thread starts processes and
  registers them in two steps, the monitor thread polls and may clean up at any time in
  between, and a signal handler runs *on top of* the main thread, inside any call.
* **Processes exit at any time**, ignore SIGTERM, or outlive `wait()` with a timeout.
* **Partial failure**: every stage may raise after it has started some of its processes;
  so may every step after `sbatch` has accepted a job, and every step of post-processing.
* **Order of reports**: several stages report a status; the outcome must be the last one and
  must not be taken back.
* **Arithmetic at boundaries**: workers that do not divide nodes, nodes that do not divide
  workers, partly used nodes, port counters that grow into each other's ranges.
* **Ordering of files and jobs**: a job may start before its submitter has written what it
  reads, several processes write one fingerprint file, a job may be killed in the middle of
  its lock file, which may be the recipe of the next job.
* **Answers of others**: counts in a stale answer of one of several frontends decide that the
  stack is ready; a port that answers need not be that of the server just started.
* **Shared files without locks**: dashboards read results that are being written and rewrite
  caches, metadata and records as a whole.
* **Two paths to one result**: overrides are merged by two functions and expanded by five
  ways; each layer computes the address of the layer below for itself.

### What makes each component correct

* Registry: after `cleanup()` nothing registered runs undisturbed; a failure is never
  forgotten; no call blocks for ever.
* Orchestrator: exit code 0 means the benchmark passed; a critical failure or a signal ends
  the run; nothing that came up is left behind; what is called a failure is one; statuses go
  forward and end in the outcome.
* Allocation: no GPU is given to two workers; even splits are placed where they were asked
  for; the health check waits for what was started.
* Frontends: no two listeners of a node share a port; every request finds a frontend and every
  router its workers; what is scraped and profiled listens and is who it is said to be.
* Submission: a job that is submitted runs the configuration it was submitted with; "submitted"
  is said of exactly the jobs Slurm has accepted.
* Configuration: an override changes what it names and nothing else; all selectors agree;
  sweeps are complete; what is submitted is what was expanded and validated.
* Infrastructure and health: workers start behind listening servers; "ready" means that every
  worker is; if one server dies, the other is stopped and the run learns of it.
* Lock file and post-processing: a lock is a whole one of this run or is not taken for one;
  the recipe survives it; comparisons are exact; a URL is of a complete upload; it all ends.
* Dashboard: what is shown is real and all there is; "complete" means complete; tags stay.

## 2. Plan

All modules of the plan are written, in this order:

1. `ProcessRegistry`, `ProcessRegistryProofs` – the shared object of the run.
2. `JobLifecycle` – the abstract specification of the status a job shows to the outside.
3. `Sweep` (EXTENDS `ProcessRegistry`; `Lifecycle == INSTANCE JobLifecycle WITH job <- status`),
   `SweepProofs` – the run.
4. `Placement`, `PlacementProofs` – allocation, ports, names, expected counts.
5. `Frontends` (EXTENDS `Placement`) – who listens where and who is told which address;
   `WorkersProofs` – the processes of the endpoints and what the other layers are told of them.
6. `Submission`, `SubmissionProofs` – submitter, Slurm, user and job over the job's output
   directory, in all submission modes.
7. `Overrides` (operators) and `Configuration` (EXTENDS it) – merging, zipping, selecting,
   sweeping, defaults, and the commands and the job that use them.
8. `Fingerprint` (operators), `Artifacts` (EXTENDS it) and `ArtifactsProofs` – fingerprints, lock
   file, identity check, report, upload, and the next job that starts from the lock file.
9. `Infrastructure` and `Serving` (EXTENDS it), `ServingProofs` – the two servers, the workers,
   the frontends and the health wait, composed.
10. `Results`, `ResultsProofs` – the benchmark's files and the dashboards.

What would come next: mock mode as a second implementation of the calls that `Sweep` makes.

There is one passing run for each question, and one violation for a disagreement between the
code and what its own text says.

## 3. The modules

### ProcessRegistry

`proc` is what the operating system knows of each `Popen` handle: not created, running,
sent SIGTERM (`stopping`), sent SIGKILL (`killing`), exited with 0 (`ok`), with a non-zero code
by itself (`failed`) or after a signal (`stopped`). `reg` is `_processes`, `failed` is
`_failed_processes`, `lock` the `threading.Lock`. `call[t]` is the operation thread `t` is
inside and the point it has reached, so each lock acquisition, each visited process and each
timed `wait()` of `ManagedProcess.terminate` is a step, and processes exit between any two.
`cleanup()` visits the table in any order (the code's order is that of insertion; nothing
depends on it). `found[t]` is the result of the last `check_failures()`.

`CleanupInstead` is what the signal handler does to the frame it interrupts; the case in
which that frame holds the lock is in `Sweep`. `SignalUnregistered` lets the owner of a
handle it has not registered signal it (the benchmark, the pre-download).

A handle registered under a name that has one already replaces it (`reg` is a function of
names), as in the dict.

### JobLifecycle

The abstract specification: a status only moves forward, `completed` only follows
`benchmark`, and an outcome is final. `Sweep` is shown to implement it with its `status` for
`job`, by TLC (`sweep_script`) and by proof (`SweepFollowsLifecycle`).

### Sweep

`main` is where the main thread is in `run()`, from the start of the monitor to the return;
`mon` is the same for `monitor_loop`. `At(l)` says that the main thread runs its own code at
`l`: it is in no registry call and no handler runs on top of it. `batch` is the dict of
handles of the stage that is being started: they are registered after the stage returns,
and lost if it raises. `polls` counts health polls, `exitCode`, `stop`, `status` are the
variables of the code; `handling` says that the handler runs on the main thread. `hung` is
the main thread waiting for the lock its own interrupted frame holds. `escaped` says that an
exception has left `run()` from its `finally` block: post-processing that raises
(`PostprocessRaises`), or the `SystemExit` of the signal handler there (`HandlerExits`); then
`report_completed` is never called.

External answers are nondeterministic: ports open or not, the model is ready or not, a
process is started or starting it raises, the benchmark ends when and as it likes. `Serving`
models what stands behind the answers of the infrastructure and the health wait.

Stages: infrastructure (start, wait for ports, register), optional pre-download, workers,
frontend, telemetry, health wait, manual loop or scripted benchmark, `except`, `finally`
(set the event, clean up, print failures, post-process, report the outcome).

### Placement

`res` is a resources block that `validate_topology()` accepts; `stage` is the mode being
placed, then `ports`, `start`, `running`, or `failed` for the `IndexError` of an allocation
that runs out of nodes. `node_idx` and `gpu_offset` are the variables of
`allocate_endpoints()`, `endpoints` and `processes` its results and those of
`endpoints_to_processes()`, `http_ports` and `bootstrap_ports` the dicts of
`NodePortAllocator` (whose defaults are the initial values), `workers` the dict of
`start_all_workers()`. The global counters (system, KV events, NIXL) are functions of the
number of processes created so far and so need no variable. A block whose total is no
nodes is refused by `sbatch` and is not in `Init`.

`Slots` covers the generic expansion (one process for each node of an endpoint) and that of
the vLLM backend in data-parallel modes (one for each GPU); `mpi` is TRT-LLM's one `srun` for
an endpoint.

### Frontends

Operators over the final state of `Placement` and a layout `l` (the fields of the recipe beyond
resources that decide about the network). `Topology(l)` is `_compute_frontend_topology`:
the nodes of the frontends, their port, and whether nginx stands in front. `Sockets(l)` is
everything that listens: the HTTP, bootstrap, rendezvous, KV-events, NIXL, KVBM and system
ports of the workers, frontends, nginx, etcd, NATS, exporters. `Upstreams`, `Routes`,
`Profiled` and `Scraped` are the addresses that nginx, an SGLang router, the profiler and the
telemetry scraper are given; `GpuLabel` is the worker a GPU's metrics are attributed to. The
properties compare the two sides, which the code computes in different files.

### Submission

A command names files, a file holds batches: a plain file one `single`, a sweep file one
`sweep`, an override file one `variant` (or `sweep`) for each expansion. `file` and `batch` are
the two loops of `submit_directory()` and `submit_override()`, `pc` is the step reached in
`submit_with_orchestrator()`, or `next` between submissions. `job` is the id `sbatch` answered,
`submissions` is `_submissions`, `temp` and `script` say whether the temporary configuration
and script are on disk, and `kept` at which steps scripts were left there. Of a job the model
has what it was accepted for (`origin`), what became of it (`state`), the configuration file in its
output directory (`saved`: absent, opened and still empty, or a content), its metadata, and
what `do_sweep` has `loaded`.

Any step up to the record may raise (`Raise`): a directory goes on with the next file, a single
file ends the command. `SetupMissing` is the `SystemExit` of `validate_setup()`, which goes
through both handlers. Slurm starts a job at any time after `sbatch` has accepted it, so
`LoadConfig` and `NoConfig` race with the writing; the user may edit the file meanwhile
(`EditFile`), once for each batch. The same name stands for a configuration as text and as loaded.
An interrupted write leaves an empty file in the model; one cut in the middle, which YAML may
accept, is not modelled.

### Overrides and Configuration

`Overrides` is the algebra: a value is a scalar (a sequence of words), a list, a mapping or null.
`DeepMerge` and `CommentAwareMerge` are the two merges, `ZipSlice`/`ZipVariants` the zip groups,
`GenerateOverrideConfigs` the selectors, `Grid`/`SweepConfigs` the sweeps, `WithDefaults` and
`Alias` what a cluster's `srtslurm.yaml` does, `SchemaFill` the defaults that loading makes
explicit. It is recursive over data, as the code is, so nothing is proved about it.

`Configuration` runs the commands over it: `validate`, `resolve-override`, `apply` and the dry run
expand a file (`variants`), deal with the variants one after the other (`done`), collect `errors`,
`written` files or `submitted` texts, and jobs load (`loaded`) what was submitted. A glob is
represented by the keys it matches. `Validate` goes on after a variant that does not load, and ends
the command at one to which the defaults of the cluster do not apply.

### Fingerprint and Artifacts

`Fingerprint` is what the two captures (the worker's script and `srtctl check`) see of an
environment, with probes that fail, and the comparisons: `Diff`, `Check`, `Issues` (the
reproduction report), `VerifyIdentity`. An environment has the release and the build of CUDA, of
which a worker records the line of `nvcc` with both and `check` the build; and it has two
interpreters, that of the worker's container and that of `srtctl`, which may answer differently
about NCCL, Python and the frameworks. `Short` is what the report compares: of the CUDA line the
release, of the NCCL version its text.

In `Artifacts` `pc` is where the orchestrator is between submission and the end of
post-processing, `task` what each process of a worker does with the fingerprint file of its
worker (open, which truncates; write; fail), `file` these files (absent, half, whole), `lock`
the lock file: its text as a sequence of kinds of lines, the fingerprints and results in it, and
whether it is whole. `proc` is the container or the analyzer that is being waited for, `logs` and
`uploaded` what is in the log directory and in the upload, `told` the reports sent. `Post` is
`run_postprocess` step by step; result files that cannot be read and an analysis prompt that does
not format raise out of it (`Extract`, `StartAnalysis`). `Kill` ends
the job anywhere; a write that is cut leaves a prefix (`Cuts`). `Rerun` starts the next job
from the lock file, whole or not; `loaded` is what it reads from it and `origin` what that was:
whether it was whole, with which captures, and whether every lock file since the first job was
(`unbroken`). `author` is the recipe the first job was submitted with.
The stages between the launch of the workers and the end of the run are those of `Sweep`,
reduced to a step. The health check (`Healthy`) waits until `Expected` of the tasks that register
(`Serves`) are past their preamble; it does not ask the other tasks, and `settled` (history) is the
set of workers of which none was left to write when the identity check was made. At the end of
the run (`EndRun`) `cleanup()` stops what is registered: not a data-parallel rank whose handle
another has replaced (`Replaced`), and no worker if the stage that starts them raised. Such a task
may write its fingerprint at any point of post-processing (`Running`).

### Infrastructure and Serving

`Infrastructure` has `setup_head.py` (`setup` is its program position, from the start of NATS to
its exit with `code`), the two servers as processes that start, listen, die, or find their port
taken by something else (`foreign`), and the orchestrator (`run`) that waits for the same ports
from outside and goes on to the workers. A SIGINT (`interrupted`) may reach `setup_head.py`
at any point from the start of NATS on: the `try` block catches it; between `Popen` and the
assignment of its result (`nats_launched`, `etcd_launched`) it loses the handle, so `held` is the
set of servers whose handles `main()` has; from before the `try` block and from the `finally` block
it leaves `main()`. `terminated` says that the orchestrator has sent it SIGTERM.

`Serving` puts the stack on top: ranks come up and die, leaders (with data parallelism, all)
register, frontends learn of it later or not (`seen`), and `wait_for_model` polls one frontend,
counts, and is `ready` or `failed` (`wait`, `polls`). `DynamoCounts` and `RouterCounts` are the two
parsers. The monitor sets `stop` when a step it watches has failed. `everUp` and `everRegistered`
are history variables.

### Results

The benchmark writes the files of its concurrencies one after the other (`file`: absent, half,
whole) and may be killed. Each dashboard has a `pc` in the loading of the run, parsed `rows`, its
copy of the metadata file (`copy`), and the `view` it shows. `parquet` and `meta` are the two
files of the cache, written as a whole and unlocked; a missing, empty or garbled one is `{}`.
`record` is the run's record with its tags, `draft` the tags a dashboard is about to write.
`opened`, `raced`, `shown`, `intended`, `foreign`, `mixed` and `spoiled` are history that the
properties refer to: what was ready when a load began, what was finished between parsing and
hashing, whose edits were made from an old view.

## 4. The runs

| Run | Question | Bounds, and why they are enough |
|---|---|---|
| `registry` | Does `cleanup()` keep its promise, whatever two threads call? | two threads, three handles, two of one name: a registration can replace a live or a failed handle while the other thread walks or waits. A third thread does nothing the second cannot |
| `sweep_script` | Scripted run: exit code, fate of the benchmark, genuine failures, lifecycle, termination | one infrastructure process, one worker, pre-download and benchmark; one health poll (`MaxPolls`), which is already "ready", "not yet", "timeout" and "stopped" |
| `sweep_manual` | A manual run, which would go on for ever: does a signal end it? | one signal in the try block, any process ignoring SIGTERM |
| `sweep_signals` | Two signals anywhere: is anything left running but the stage that was coming up, and is the last status a true one? | two, so that one can interrupt the handler of another and one the `finally` block; a scripted run with an upload, which reports `benchmark` between failure and outcome, and whose post-processing may raise before or after it |
| `placement` | Every accepted block: GPUs, ports, names, expected counts; and every address a layer is given | up to three nodes for a mode and four workers, nodes of two or four GPUs, explicit sizes of one and three (a divisor, and neither a divisor nor a multiple); absent and zero fields included: a worker can span two nodes, share a node and be left over. One block of 104 processes, where the system ports reach that of the frontends. Five layouts, one for each way through the frontends and backends |
| `submission` | What does a job run, what is recorded, what is submitted after a failure, what stays on disk? | seven commands: a plain file, a sweep of two, two variants, an empty sweep, a directory of an override (with a sweep in it) and a plain file, the same dry, and a directory in which one file fails for certain and one is empty; three jobs, the most a command submits |
| `configuration` | Do both merges, all selectors, the sweeps and the commands mean the same? | three bases; every override and zip group that can be put together from a few values (scalars, lists of several lengths, mappings, nulls, nested) for three fields; sweeps of two parameters, one inside the text of the other; three clusters (none, aliases, aliases of aliases); eight selectors; four commands |
| `artifacts` | Is what the lock, the report and the upload say true, whatever is torn, killed or hangs? | a worker of two data-parallel ranks, the first of which has lost its handle to the second, and one of a single process; all three register and two are waited for (`Expected`), so that the check may come before the third has written; four environments that differ in one respect each (build of CUDA, packages, model), a failed probe, two interpreters with different NCCL versions; two jobs in a row (the second from the lock of the first), of which the first has S3 and an analyzer (`Configured`) and the second leaves tasks running (`LateJobs`), which write just before or just after the lock (`LateAt`); a recipe of two keys with a blank line between them and a banner at its end, a write cut in the lock section, before the hash. Tasks that write elsewhere, a re-run with an upload, longer rows of jobs and other recipes and cuts: section 5 |
| `serving` | What does "ready" mean, and who learns that a server has died? | five stacks: a prefill worker of two ranks and a decode worker, one TRT-LLM worker behind nginx with two frontends, two aggregated workers, the SGLang router, a data-parallel worker; two polls, so that one can be early; one process that dies or one SIGINT; the NATS port free or taken. A SIGINT after a first one or after a failure: section 5 |
| `results` | Do dashboards show what there is, whoever writes at the same time? | two results, two dashboards (symmetric), one tag with two edits, one killed dashboard; results beside the record or under `logs/` |
| `late_signal`, `sweep_jobs` | the disagreements of section 6 | the smallest instance that shows each |

What each property says is in the comment above it in its module. Those of the runs:

* `registry`: `CleanupStopsAll`.
* `sweep_*`: `SuccessMeansBenchmarkPassed`, `BenchmarkNotAbandoned`, `FailureBeforeStopIsGenuine`,
  `LifecycleSpec` (refinement of `JobLifecycle`), `OutcomeReported`, `NoRegisteredSurvivor`,
  `OnlyItsStageIsLeft`, and the liveness properties `FailureEndsRun` and `SignalEndsRun`.
* `placement`: `SharedGpuOnlyOnLastNode`, `EvenSplitPlaced`, `EveryWorkerAccountedFor`,
  `ListenersDistinct`, `EveryPathArrives`, `TelemetryIsFaithful`.
* `submission`: `RunsItsOwn`, `RecordedAreReady`, `FilesSubmitted`, `NothingTemporaryLeft`.
* `configuration`: `MergeByPath` (both merges against a definition by paths), `ZipColumns`,
  `SelectorsAgree`, `SubmittedAsExpanded`, `SweepCoversGrid`.
* `artifacts`: `LockIsOfThisJob`, `RecipeSurvives`, `IntegrityMeansWhole`, `PointerMeansUploaded`,
  `ComparisonsAreExact`, and `PostprocessEnds` (liveness).
* `serving`: `ReadyMeansEveryWorker`, `WorkersHaveInfra`, `EtcdAdvertisesReachable`,
  `ServersAskedToStop`, and `InfraDeathStopsRun` (liveness).
* `results`: `NoInventedRows`, `CompleteMeansComplete`, `ViewMissesOnlyRaced`, `TagsKept`.

The type invariants, `CleanupProgress` and `FailureIsSticky` are not in the runs: they are
proved (section 5). `Configuration` and `Artifacts` have no type invariant; a value of a wrong
shape makes TLC stop in their operators.

Deadlock is checked, with a stuttering `Ended` step when a run has returned, except in
`sweep_signals` and `late_signal`, where the main thread may wait for its own lock, and in
`artifacts`, where the last job is over or killed: there the program really stops.

### Fairness

`FairSpec` of `Sweep` assumes that both threads are scheduled (weak fairness of their own steps),
that a thread blocked in `acquire()` gets the lock if it is free again and again (strong fairness;
CPython wakes a waiter on release, and the holders sleep between their calls), and that
SIGKILL ends a process. Nothing makes a process end by itself, a port open or a model become
ready: a benchmark may run for ever, and a worker may ignore SIGTERM. Timed waits end because
the clock runs: their timeout is a step of the waiting thread.

`Artifacts` assumes that the orchestrator goes on and its clock runs; the container, the
analyzer and the workers may hang for ever. `FairSpec` of `Serving` assumes the loops of
`setup_head.py`, the orchestrator, the health wait and the monitor; nothing makes a server,
a rank or a frontend come up, register or die.

## 5. The proofs

All are for any sets of threads, handles, names, jobs, ranks and results, any bounds and any
resources blocks and stacks that satisfy the named assumptions.

* **Registry** (`NamesAssumption`: handles have names, the markers are no handle and no
  thread). `RInv` adds to the types and to `CleanupProgress` that the lock belongs to the one
  call past its wait (`LockOwner`), that only a cleanup waits for a process and always for one
  it has signalled, and that walks visit registered names (`CallShape`), and that what is
  registered was started. Without `LockOwner` another thread could register during a walk
  and `CleanupProgress` would not be preserved. From it: `RegistryTypeOK`,
  `RegistryCleanupProgress`, `RegistryCleanupStopsAll`; `RegistryFailureIsSticky` from the
  fact that `_failed_processes` only grows.
* **Run** (`SweepAssumption`: the two threads, the stages' handles are not the benchmark's or
  the pre-download's). `SInv` is `RInv` with which calls each thread makes where
  (`CallSites`), that only handles of the stages are registered, that the registry is quiet
  once the main thread's cleanup has returned (`QuietAfterCleanup`), that the event is set
  before anything is signalled (`StopFirst`), and where exit code 0 comes from
  (`ExitCodeOfBenchmark`). `StepIsRegistryStep` shows each step of the run to be a step of
  the registry, so `SweepImplementsRegistry` holds and the registry's lemmas are used in the
  rest. From `SInv`: `SweepNoRegisteredSurvivor`, `SweepSuccessMeansBenchmarkPassed`,
  `SweepFailureBeforeStopIsGenuine`. `StatusByPlace` ties the status to `main` and gives
  `SweepFollowsLifecycle` (without uploads): initial states map to initial states and every
  step to a step of `JobLifecycle` or a stutter. `BenchmarkWatched` gives
  `SweepBenchmarkNotAbandoned`. `LastReport` adds to it what the status can be when an
  exception has left the `finally` block, and gives `SweepOutcomeReported`, with signals at any
  point. `StagesHeld` gives `SweepOnlyItsStageIsLeft`: while stages are brought up, a
  started handle is in the batch, in the call that registers it, or in the table, and those of
  earlier stages are in the table. It needs that no handle replaces another, `NamesDiffer`, a
  hypothesis of the theorem and not an assumption of the module, because the data-parallel
  ranks of a vLLM worker on one node do not have it (`worker_stage.py:218`).
* **Placement** (`ResourcesAssumption`: fields are numbers or absent; one `srun` for an
  endpoint excludes data-parallel modes). `PInv` adds to the types that everything placed
  lies behind the cursor (`BehindCursor`), that workers of whole nodes have all GPUs of
  theirs and modes are placed in order (`PlacedByMode`), and when the cursor can be inside a
  node in front of a worker that takes whole nodes (`CursorOnBoundary`): only in decode, and
  only on the last node. From it: `PlacementTypeOK`, `PlacementSharesNoGpu`. `EvenlyPlaced` says
  where the cursor is in an even block: `index` times the size of a worker past the first
  node of the mode. That no node is missing is then a fact about products and remainders
  (`PlacementEvenSplitPlaced`).
* **Workers and frontends** (`LayoutAssumption`: the SGLang router is used with SGLang). `WInv`
  adds to `PInv` that endpoints have nodes without repetition and neighbouring GPUs
  (`EndpointsShaped`), as many for each mode as were placed (`EndpointsCounted`), that the
  processes are those of the endpoints dealt with, slot by slot, with ports behind the counters
  and different ones for the leaders of one node (`ProcessesAssigned`), and that each endpoint
  has one leader (`LeadersCounted`, a count of sets). With `WorkersKept`, that the dict of handles
  has lost none, it gives `WorkersAccountedFor`; with the names and sockets of the last state,
  `WorkersAreReached` and `TelemetryTargets`.
  `PortsCounted` says what each counter has given out: the HTTP counter of a node is at
  30000 + 1000 `j` and its bootstrap counter at most at 31000 + `j`, the system, KV-events and NIXL
  ports of a process follow from its number, and the prefill leaders of a node have different
  bootstrap ports. `WideIsWhole` says that a worker on several nodes has them whole, so that
  two workers do not bring one rendezvous port to a node. With them the port of every socket lies in
  the range of its use (`Bands`), and `WorkersListenersDistinct` compares only sockets of one
  use and the few pairs of uses whose ranges meet. It has two limits, both in
  `ListenersDistinct` itself, because without them it is false of some block or recipe:
  `WithinRanges` (the KV-events port of the 1001st process is the first NIXL port, 6550, and
  the HTTP port of the 28th worker led from a node, 57000, is among the ports of KVBM) and
  `ExportersApart` (a recipe may give the exporters any port, also one of the workers').
* **Submission** (`CommandsAssumption`: commands are well formed, the markers are no
  configuration and no record). `SubInv` adds to the types where the submitter can be
  (`AtStep`), that past `sbatch` it holds the job of the batch it is at (`HoldsItsJob`), that
  the record comes after everything on disk (`WrittenBeforeRecorded`), that nothing is known of
  a job that was not accepted (`UnusedJobs`), that what is saved for a job is its own
  (`SavedItsOwn`), and that the batches behind the submitter have one recorded job each and
  nothing else is recorded (`BehindAreRecorded`, `RecordedAreBehind`): the one without the
  other would not exclude a second job for a batch. From it: all four properties and the
  types, `SubmissionFilesSubmitted` with the cardinality of a singleton.
* **Serving** (`InfrastructureAssumption`, `ServingAssumption`: a leader is a
  rank of its own worker, prefill ranks and no others register as prefill, aggregated workers
  are not mixed with others, as `validate_topology()` has it). `IInv` says which servers can be in which
  state at each point of `setup_head.py` (`Startup`, `Shutdown`), that a server without a handle has
  not been started yet or was lost to a SIGINT (`Handles`), and what the orchestrator may
  have seen of them (`Awaited`); `Known` that what a frontend has seen was registered and
  what has registered was up with all its worker's ranks; `ReadyIsKnown` is the counting
  argument: the instances counted are a subset of the leaders of a kind (times the endpoints
  of an instance), so a count that reaches their number counts them all (`FS_Subset`,
  `FS_Product`). From it: `ServingTypeOK`, `ServingReadyMeansEveryWorker`,
  `ServingWorkersHaveInfra`, `ServingServersAskedToStop`, for any number of SIGINTs and failures. `ServingEtcdAdvertisesReachable` is about
  the answers `get_local_ip` may get and needs no invariant.
* **Artifacts** (`ArtifactsAssumption`: recipes are sequences of lines of a recipe, a task belongs
  to a numbered worker; `EnvironmentsAssumption`: an environment is one that the probes can find, in
  which all GPUs report one driver, the kernel's, and no framework has the version "?", which
  the report shows for an absent one). Four invariants, for any recipes, workers, environments,
  tasks that go on writing and places where they do, re-runs and cuts:
  - `LockInv`: the identity check was made on files (`CheckOf`) that are still what is on disk of the
    workers that had settled (`Verified`); only the second lock file has captures, what it has of a
    worker whose tasks are all stopped is on disk, and the files its results are about agree with its
    captures on the settled workers (`Locked`). The files checked are bound by an existential
    quantifier over all functions, so TLC cannot evaluate this invariant; it is proved only. It
    gives `ArtifactsLockIsOfThisJob`, since the identity check looks at the first worker alone
    (`SameFirst`).
  - `Texts`: a lock file and a configuration are, of whatever prefix, text in which no line of the
    section comes without its beginning and the hash comes last (`WellFormed`). Without it a torn
    section followed by the next job's could pass for one: stripping removes everything from the
    section's beginning, so there is never more than one. It gives `ArtifactsIntegrityMeansWhole`.
  - `Survives`: while no lock was torn a job reads the author's recipe or a whole lock file of it. It
    gives `ArtifactsRecipeSurvives`. An earlier form of that property, which asked only that the
    last lock file was whole, is false with three jobs: the first lock is torn inside the recipe,
    the second job writes a whole lock of what is left. `unbroken` says what is needed.
  - `UploadInv`: a container or analyzer runs only while it is waited for (`Waiting`), nothing but the
    log and the text of an analysis enters the log directory after a complete upload (`Delivered`), reports agree on the URL (`Reported`).
    It gives `ArtifactsPointerMeansUploaded`; its first part is the safety half of `PostprocessEnds`.
  - `ArtifactsComparisonsAreExact` needs of the state only that captures are of workers (`LockInv`,
    `LoadedOfWorkers`); the rest are lemmas about the comparisons: nothing is reported for a worker
    exactly if both captures show the same (`NoIssues`), `check` in place reports a version only if
    two interpreters differ on it (`AskedInPlace`), and a difference of packages is one in both
    directions (`DiffBothWays`). The dictionaries compared are parsed from lists of any length:
    `Parsed` is a recursive function, and `ParsedIs` (each name has the version of the last line
    that gives it) is shown by the least line for which it fails (`FirstOf`), since the library's
    induction theorems cannot be instantiated here.
* **Results** (`ResultsAssumption`). `RInv` says what whoever parses has read or has yet to
  read of what was ready (`ParseCovers`), what a usable cache covers (`CacheCovers`), what the
  hashes in hand stand for (`HashesCovered`), and what a view shows (`ViewCovers`): a result
  can be missing from the rows and present in the hashes only if it was finished between
  the two, which is what `raced` records. `TagsFollow` ties record, memory and intention of
  the tags. From them: `ResultsTypeOK`, `ResultsNoInventedRows`,
  `ResultsCompleteMeansComplete`, `ResultsViewMissesOnlyRaced`, `ResultsTagsKept`, for any
  number of dashboards and results.

Model-checked only:

* liveness (`FailureEndsRun`, `SignalEndsRun`, `InfraDeathStopsRun`, the second half of
  `PostprocessEnds`): the prover has no support for fairness;
* the five invariants of `Configuration` (`MergeByPath`, `ZipColumns`, `SelectorsAgree`,
  `SubmittedAsExpanded`, `SweepCoversGrid`). The operators of `Overrides` recurse over the nested
  values of a file, as the code does, and are declared RECURSIVE; the prover can neither expand
  such an operator nor do the induction over values that the properties need.

## 6. Where the code disagrees with its own text

Two runs show a disagreement:

* `late_signal`: a signal that comes while the main thread holds the registry lock makes it
  wait for itself (`processes.py:230`).
* `sweep_jobs`: a parameter sweep submits one job, for its last configuration, and prints that
  it submitted all (`submit.py:815` stands outside the loop of line 810).

Others are excluded by the properties, which say exactly how far they go, or stand beside the
models:

* **Allocation and ports.** Prefill workers whose computed size does not divide a node reach the
  decode nodes, and a decode worker of whole nodes is placed on their GPUs
  (`core/topology.py:355`; `PlacementSharesNoGpu` proves that this is the only way to share).
  With `decode_nodes` of 0 decode workers continue on the last prefill node only if no node is
  left, so that a sharing that would fit may run out of nodes. More workers than GPUs make
  workers of no GPU (`schema.py:518`). The second worker led from a node is to serve HTTP on port
  31000, the first bootstrap port of the node (`core/topology.py:69`), although the ranges are
  called non-overlapping and the second port is given as 30001 (`core/topology.py:37`, `:48`);
  `MeetByDesign` excludes this pair. The hundredth process has the frontends' port 8180 for its
  system port; data-parallel leaders on one node share the rendezvous port 13345
  (`backends/vllm.py:355`). Telemetry scrapes system ports behind an SGLang router, where
  nobody listens, and those of TRT-LLM's non-leader ranks. `docs/architecture.md:686` gives
  8080 for the frontends' port (the code: 8180); `docs/sglang-router.md:147` counts node 0
  among the routers, the code does not behind nginx.
* **Names.** Data-parallel ranks of one vLLM endpoint on one node have one name, and all but
  the last are neither watched nor terminated (`worker_stage.py:218`, against
  `processes.py:75`); they also share a log file.
* **Run.** A stage that raises loses the handles of what it has started (`do_sweep.py:151`,
  `:395`; they end when Slurm ends the job). In manual mode a failure that the loop sees itself
  returns 1 (`benchmark_stage.py:138`), one that the monitor sees first ends the loop through
  `stop_event` and returns 0, reported as `completed`. `report_artifacts` sends the status
  `benchmark`, also after `failed` has been reported, so with uploads a watcher sees `failed`,
  `benchmark`, `failed`: `LifecycleSpec` is stated for runs without uploads, `OutcomeReported`
  covers those with. When post-processing raises out of the `finally` block (a result file that
  cannot be read, `postprocess_stage.py:251`; an analysis prompt that does not format, `:444`) or a
  signal comes there, `report_completed` is skipped (`do_sweep.py:440`): the collector keeps a status
  that is not the outcome, of a run that passed that of a running benchmark. `OutcomeReported` says
  that it is never a wrong outcome.
* **Submission.** The record at the collectors is created after `sbatch` (`submit.py:637`), so the
  first update of a job that starts at once may find none. With `--json` an error after
  accepted submissions prints the error line only (`submit.py:1435`).
* **Configuration.** A zip variant is merged into the base a second time when it is submitted, so
  that what its group deleted with a null comes back (`config.py:435`, against
  `docs/overrides.md:97`). An override file is read three times for one command.
* **Lock file and fingerprints.** The author's own comment banner is taken for the lock section's
  when a recipe with one is run again (`lockfile.py:223`). A lock file cut inside the
  recipe can still be run, and the lock of that run is a whole one, of the shorter recipe. The
  lock file is not in the uploaded directory. What an analysis writes, its log and its text, comes
  into the log directory after the upload and stays there, and of the log of the container the
  upload has what was written before (`postprocess_stage.py:482`). Workers whose handles are lost or
  replaced may write a fingerprint while the lock is written or after it, and the health check does
  not wait for the other nodes of a worker: `LockIsOfThisJob` names both cases. The reproduction
  report compares the releases of CUDA and not the builds (`lockfile.py:296`), so it says "no
  issues" of captures that differ in the build. The NCCL version is asked of the container's
  virtual environment by a worker and of `python3` by `srtctl check` (`fingerprint.py:251`, `:891`). A pip probe that failed in `srtctl check` is reported as packages not installed,
  although `fingerprint.py:317` says that the sentinel tells the two apart; the CUDA version
  is captured in two forms. Only the first worker is checked against the declared identity.
* **Infrastructure and health.** Both waits accept anything that listens on the port. NATS that
  takes more than five seconds to stop makes the `finally` block raise before etcd is stopped.
  A SIGINT to `setup_head.py` gives exit code 0, which the monitor does not notice; one that comes
  between `Popen` and the assignment (`setup_head.py:288`) leaves a server without a handle, and one
  in the `finally` block ends it: the servers not yet asked to stop then end with the Slurm step. In
  data-parallel mode two ranks of one worker satisfy "two decodes". One frontend behind nginx is
  asked per poll; the router's `is_healthy` is not read.
* **Dashboard.** Hashes are taken when rows are saved, not when they were parsed
  (`cache_manager.py:145`). Results under `logs/`, where srtctl puts them, match no pattern, so
  their cache stays valid for ever, and a run first viewed in progress stays incomplete
  (against `cache_manager.py:95`). The parameter `_dir_fingerprint` is one that Streamlit does not
  hash (`components.py:63`), so new results show only after an edit or a restart. The records of
  `srtctl apply` name no concurrencies (`submit.py:606`), so the completeness check passes for
  every run. Tags are replaced from the dashboard's memory, in place (`run_loader.py:616`).

## 7. What is not modelled

* Text: command lines, environments, nginx and Prometheus files, log lines, tables; in the
  dashboard the regular expressions, derived metrics and plots.
* Loss of status updates: the reporter never raises and nothing waits for an answer. The POST
  of the submitting side.
* The deletion of stale lock files of the HuggingFace cache, which depends on what other jobs
  on the shared file system do.
* Real time: a timeout is a step that may come at any moment. A process that was sent SIGKILL and is
  not waited for (the container and the analyzer, `postprocess_stage.py:363`, `:511`) writes nothing
  more.
* A half-written configuration of a job: in `Submission` it is absent, empty or whole.
* What is not in the repository: Slurm, Dynamo, SGLang, etcd, NATS, nginx, Streamlit, S3. The
  models have of them what the code takes them to do.
* In submission: the files of a dry run, the lines of `--json`, KeyboardInterrupt. In `Artifacts`:
  the fallback for an output directory without `config.yaml`, legacy forms of fingerprints. In
  `Results`: one run only; the entries of the other caches in the shared metadata file; hashing
  is one step.
* `Serving` follows the stack until the health wait ends; from there on it is `Sweep`'s.
* Mock mode, interactive CLI, MCP server: they do not take part in a run. Mock mode replaces
  `srun` by local stubs, and so is a second implementation of calls that `Sweep` models.
