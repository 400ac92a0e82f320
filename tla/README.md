# A verification project for npu-exploration

TLA+ models of this repository, the TLC runs that check them on small instances, and
theorems about them that TLAPS checks for every value of the constants. `PROJECT.json` lists
the components, the runs, the source lines every definition stands for, the hazards with the
properties that cover them, and the theorems.

## 1. The system

npu-exploration compiles small PyTorch kernels for the MX Gemmini accelerator, runs them on
spike or on an RTL simulator, and compares the results with a reference. Its parts, and how
far each is modelled:

| Part | State it keeps | What is hard | Modelled |
|---|---|---|---|
| **simq: spool and daemon** (`sim/simq.py`) | `pending/`, `running/`, `done/`, `logs/`, the pidfile, the stop file; the daemon's lanes and batch | several processes and threads on one directory, no lock; crashes; files read in one step and acted on in another | partly: all but `daemon.log`, build logs and what is printed |
| **simq: elaboration** | simulator binaries and their mtimes, the Scala, an flock, the table of ready configs | decisions made before a lock and used after it, mtimes as versions, makes that take minutes | yes |
| **simq: foreground scheduler** | a run queue, a builder thread, runner threads, log files, verdicts | threads that die, sentinels, shared log files | yes |
| **spike build cache** (`models/spike/build_spike.py`) | `builds/<id>/`: a copy of the sources, `libgemmini.so`, `meta.json` | replaced in place, no lock, a fingerprint taken late | yes |
| **perplexity cache** (`models/mxquant/workload.py`) | one record per key, part files, a temporary file, copies of recipes | workers that fail, interruption, shared temporary names | partly: not `rules.py` or the perplexity itself |
| **grading pipeline and ELF runner** (`grade/pipeline.py`, `compiler/.../runner.py`) | build and result directories, `MX_LIBGEMMINI`, checked geometries | state that outlives a run of the process; two runs in one directory | yes |
| **npu command line** (`npu.py`) | threads, the exit status | which of many failures decides the exit status | yes |
| **recipes** (`config/recipe.py`) | JSON files | defaults and refusals | partly: parse and check |
| **kernels and lowering** (`kernels/spec.py`, `compiler/graph.py`, `lower.py`, `operands.py`, `formats.py`) | none | which program form a kernel gets, which side an operand is packed for | partly |
| **emitters** (`mxgemm_emit.py`, `mxgraph_emit.py`) | plans and programs | scratchpad regions that must not overlap, DMA that must be fenced | partly: not the C text, not the accumulation in shared memory |
| **reference walk** (`models/mxquant/kernel.py`) | none | agreement with what the program computes | partly: over symbolic values |
| **RTL-exact mesh** (`models/.../rtl_datapath.py`, `rtl_exact/mxmesh/`) | none | three implementations of one arithmetic | partly: on scaled widths |
| cost models, captured operands, simq's argument handling, bare-metal tests, scripts, docs | | tables, I/O, parsing, generated C | no |

The parts meet in few places: npu calls the pipeline; the pipeline calls the build cache and
sets the environment variable the ELF runner reads; the compiler's program runs in spike on
the model the cache built; simq and the runner start external simulators; everything is
keyed by `recipe.build_id()`. These compositions are in the models: `Npu` takes what the
pipeline's steps may answer, `Grade` has the pipeline, the compilation and the runner in one
module, `MxDevice` runs what `MxRecipe`, `MxKernel` and `MxEmit` compile on a model of the
accelerator and compares it with the reference walk, `Simq` composes the daemon with the
commands.

## 2. The modules

| Module | What it is |
|---|---|
| `JobQueue` | what the spool promises: a job is queued once, claimed by one worker, finished by that worker, dropped before a claim, or left visibly claimed |
| `SimqDaemon` | the spool files, `daemon_loop`'s main thread, its lanes (`_daemon_run`, `spool_finish`), crashes and pid reuse |
| `Simq` | EXTENDS `SimqDaemon` with the commands; the whole system; properties; the refinement of `JobQueue` |
| `SimqElaborate` | `elaborate()` by several processes while the Scala changes |
| `SimqSchedule` | `schedule()`, the blocking form (`--wait`), and the exit status |
| `SpikeBuild` | `build()` and `resolve()` by several processes while the sources are updated |
| `Workload` | `evaluate()` and `bf16` with their workers, parts, temporaries and caches |
| `Grade` | `run()` of the pipeline, again and again, in several processes, with compilation, ELF runner and the deployable directory |
| `Npu` | one command from its arguments to its exit status, with the model threads |
| `MxFormats`, `MxKernel`, `MxRecipe`, `MxEmit` | the compiler as functions: formats, kernels with their lowering and reference walk, recipes, the two emitters |
| `MxDevice` | the compilation of a case and the accelerator that runs it |
| `MxArith`, `MxReduce` | the arithmetic of one processing element; the three reduction paths and the requantizers |
| `MC*` | the instances for TLC, with the symmetry sets where they are sound (`Npu` has its constants in its cfg) |
| `*Proofs` | the theorems |

Line numbers in the simq sections are those of `sim/simq.py`.

### SimqDaemon and Simq

A job is a number. Its id is the time stamp `spool_add` gave it, so the order of the file
names is the order of the numbers; this assumes that the clock does not go back and that two
`add`s never stamp the same nanosecond. `pending`, `running` and `done` say what each
directory holds for a job: nothing, a readable record, or a *torn* one, which is what
`Path.write_text` leaves between its truncation and its write. `done` also says which
verdict. `pidfile` and `stopfile` are the two other files.

`pc[d]` is where the main thread of daemon `d` is: the points are those between file
operations others can see. `batch` is what its last glob listed and it has not tried yet,
`current` the job it holds, and `stage[d][j]` where the lane is that runs `j`. `starts` is a
history variable. A process id is used by one daemon only; `PidReuse` gives it to a
stranger.

Every file operation that another process can see is a step, with everything the process
does before it and after the previous one: `SpoolClaim` is the rename (661-664), `SpoolRead`
reads it back and retires it if it cannot be parsed (665-671), `StampOpen`/`StampWrite` are
the two halves of the rewrite with `started` (781-782),
`FinishOpen`/`FinishWrite`/`FinishUnlink` are `spool_finish` (674-680). `FinishFails` and
`StampFails` are the writes that raise, `ElaborateRaises` an exception in `elaborate`, which
leaves the loop through `finally`. `Crash` ends a daemon with its lanes and simulators at
any point.

A command is a terminal `c` with a program counter `cpc[c]`, the pid it read (`cpid`), and
the files it has listed and not yet unlinked (`files`). `stop --now` is probe, signal,
unlink of the pidfile; `clear` is probe and glob of `done/`, list of `running/` (`clive`),
list of `logs/`, orphans, and the unlinks one by one. `Requeue` is the user who does what
`status` says (837).

Abstractions: a glob is one step; writing the pidfile is one step (a torn one would read as
none); the `mv` of the advice is one step; the four verdicts `classify` can give are the one
verdict "RAN" here (they are told apart in `SimqSchedule`); how long a daemon was idle is
left open; whether `elaborate` makes a config ready is left open (`SimqElaborate` says
when); daemon.log and the build logs are not there.

The refinement `Abstract` maps a job to *finished* once its verdict is in `done/`, to
*queued* while its record is in `pending/`, to *claimed* while it is only in `running/`, and
to the daemon that holds it; `Die` of `JobQueue` is a crash, `Abandon` a claim that raised.

### SimqElaborate

A process is a one-shot simq or the daemon. It takes up jobs, each with the staleness option
of the command that queued it, and skips `elaborate` for a config that its `ConfigState`s
have as ready (753-758). `built[c]` is the mtime of the simulator of `c`, `scala` that of
the newest `.scala`; every write takes a fresh instant, so `scala` also names the version of
the sources. `source[c]` is the history of what the simulator was really elaborated from.
`Decide` and `Redecide` are `_decide` before and under the lock; `make` reads the sources
and links many steps later, or does nothing if its target is up to date (`MakeNothing`), or
fails. Processes may exit and be replaced, crash with their make, or crash alone and leave
the make running (`CrashAlone`, `OrphanLinks`).

Abstractions: the mtime has no granularity (an edit and a link are never at the same
instant); one `.scala` stands for all; a simulator is never removed.

### SimqSchedule

The threads of one blocking command: the builder (`BuildNext`, `MakeEnds`, `PutJob`,
`BuildersEnd`, `PutNone`), the runners (`Get`, `RunOpens`, `SimPrints`, `SimEnds`,
`RunClassifies`), and main, which joins them. Any command line is an initial state:
`--build-only` or not, any config for any job, any set of configs already built (`onDisk`),
and, with `SameName`, binaries with equal file names from different directories. `file` is
what each log file contains, as pairs of the job that wrote a mark and the mark; two runs
that share a file write at their own offsets, so a mark of the other may be lost. `said` is
the history of what a run really wrote. Threads may die of an exception (`Faults`).

### SpikeBuild

A source version is a number; the text of a file is the version it was copied from and whose
literals have been patched into it. A build directory `b` has the copied sources, the
library (`"none"`, torn, or the program it was compiled from) and `meta.json` (none, torn,
or a record). A process takes `build()` through the points at which others can interfere:
`ReadMeta`, the copies file by file (`CopyCc`, `CopyRest`), the patch (`ReadCopy`,
`WritePatched`), the compile and the two halves of the link, `CheckGlibcxx`, the two halves
of the record, `Finish`. `Update` changes the upstream sources, `Crash` ends a process.
`disturbed` and `tainted` are history: they tell that somebody else rewrote the directory
while this process was in it, or that nobody has rebuilt it since that happened.
`HitIsBuild` and `MetaDescribes` are stated for directories that are neither, because
nothing locks a build directory; `OwnLiterals` needs no such condition: whatever the
interleaving, nobody loads the literals of another recipe, at worst those of the shipped
model.

Abstractions: two files stand for all sources; g++ dies with its caller and reads in one
step; the two `program()` calls for a stock recipe are one step; `objdump` missing and
missing source files are not modelled.

### Workload

A call takes two measurements, of the recipe and of the bf16 model. `Look` reads the cache
file of the key; a miss tests for the content-addressed copy of the recipe and writes it
(`TestCopy`, `OpenCopy`, `WriteCopy`), starts one worker per device on its slice (`Slice`,
`Bound`, Python's round-half-to-even in `Round`), waits, merges the parts (`Merged` counts
how often each sample is in them), writes the temporary file (`OpenTmp`, `Fill`) and renames
it (`Replace`); what a process has open under a name that another renames goes with it
(`open`). A worker may break. `Interrupt` is Ctrl-C, whose handler kills the workers if the
call is inside the `try`; `Kill` runs no handler.

`CacheRight`: a cache file that can be read is a measurement of every sample once under its
own key. `ResultRight`: so is what a call returns. `FailsForReason`: a call fails only if it
was interrupted, asked for more samples than there are, a worker broke, the copy of its
recipe was being (or was left) half written, or somebody published the same key at the same
time. `excuse`, `raced` and `torn` are the history that says so.

Abstractions: the copies of the hardware and of the run recipe are one file; parts of a
failed or killed call are forgotten (their names carry the process id, and are written anew
before they are read); the workers are spawned in one step and write a part in one step;
sorting the merged samples and log files are not there.

### Grade

The contents of a file are the number of the run that made it. A process keeps `env`
(`MX_LIBGEMMINI`), `set` (whether the pipeline set it) and `checked` (the geometries
asserted so far) from one run to the next, which is where the interest lies: run 2 of a
process that grades another recipe must not be served the machine of run 1. `Begin`,
`Resolve` (the build cache, atomic here; `SpikeBuild` has its steps), `AssertGeometry`,
`WriteMain`, `Gcc`, `RunSpike`, `SpikeEnds`, `Report`, `CopyTiming`, `WriteExpected` and the
manifest are the steps. Result directories are named by the second; two runs may fall into
the same one. `Rebuild` replaces a library while somebody has it loaded. `UserDim` is the
geometry of a library the user exported.

`OwnMachine`: no stage is simulated on the library of another recipe, whatever the process
graded before; the user's own library serves only a recipe that the shipped one serves too.
`GeometryHeld`: no stage counts that ran on a mesh of another size, although the banner is
looked at once per library. `OwnRun`: what is graded and timed are this call's own ELFs and
runs, as long as no other call is in the same directories (`crossed`). `LibraryRecorded`:
the report names the library that ran, unless it was rebuilt meanwhile (`stale`).
`ReportOfOneRun`: a results directory with a `metrics.json` is of one run in all its files,
also when calls fail half-way. `Deployed`: a deployable directory with a manifest holds the
ELF and the expected bits of one compile.

Abstractions: writing `main.c` and reading it in gcc are one step each, the two unlinks of
the timing files one step; run numbers do not name the recipe; gcc and spike die with the
call.

### Npu

`Main` is the main thread: argument checks, `resolve_steps`, the functional check, spike,
the timing and energy models, metrics, the exit status. Each model that runs beside spike is
a thread with one action `Answer`. What a recipe, a kernel or a tool answers is chosen once
(`Facts`), so that two places that ask the same question hear the same answer. `ZeroIsPass`:
exit status 0 of a command that evaluates means that the device's bits are finite and those
of mxquant (of fp32, within its tolerance, where mxquant was skipped or has no answer).
`ZeroIsComplete`: every step that was asked for but the cost has come to its product; the
bits of mxquant may be missing only where it models no such kernel and the device has been
evaluated against fp32 instead. `OneIsFailure`: status 1 is said of a device that differs,
by the tools that build and run the ELF, and by a traceback of one of two lines of the
printing, never of a refused input or of another failure. `Ends`: every command ends with a
status.

The `try` of `main` ends with the return of `run()` (`Report`, which writes the results
directory). What is printed after it (`PrintResult`) is under no handler, so an exception there
leaves with Python's status 1. Two lines can raise: `mxquant.line` where the record has no
accuracy (`NoAccuracy`), always, and `perf.line` where the record has a measured window
without a utilization, which is left open for every run on spike with a perf record
(`Measured`).

Abstractions: argparse's own refusals (status 2, like a removed flag), imports that fail and
a standard output that is closed are left out.

### MxFormats, MxKernel, MxRecipe, MxEmit, MxDevice

Functions from a case (hardware recipe, run recipe, kernel) to a program, in the stages of
the code. `MxRecipe` parses and checks recipes; `MxKernel` has the stages of a kernel, the
step list, the command buffer and its edges, and the walk over the kernel that the device is
graded against. A value is symbolic: the term that computes it, so two values are equal only
if they were computed in the same way from the same operands, each packed for the side it is
used on, with the scales that go with it. `KernelType` is what the code's dataclasses can
hold; `validate` refuses a stage that refers to nothing before it, and shapes the array
cannot take. `MxEmit` plans (`plan_chain`, `_plan_stage`, `_validate`, `_assign_smem`),
holds the bundles to the plan, and emits a chain, a single matmul or a graph, with its
chunks and host steps. A refusal is a plan that says why.

In `MxDevice` every case that compiles (`Compile`: check, validate, lower, plan, emit) is an
initial state, and the steps are those of the ELF and the accelerator. Commands take effect
in order, except the two kinds of DMA a program has to fence: scale loads read host memory
and stores write it at any moment before the next fence. That race, scratchpad overlap,
buffers that are read before they are written and stale scales all give wrong terms.
`ComputesKernel`: the terms in the output buffer are those of the reference walk.
`ScalesLanded`: the mesh never multiplies under a scale window that a load in flight has
still to fill.

Abstractions: a mesh of 16; a scratchpad of 4 banks of 96 rows instead of 4096, with
`spad_dest` kept at 128 rows; the order between mvin and the loop is the accelerator's own;
a loop's results are committed at its end; accumulation in shared memory is left out; a
kernel that only has a per-stage program ends the model, as do mixed alternative formats and
rounding modes. `Drops` are command buffers that lack a command: the lowering never makes
one, they exercise the refusals of the backend. `Oversize = FALSE` leaves out programs whose
output is larger than the scratchpad or whose chunks are no whole number of tiles (`Fits`;
see section 3).

### MxArith, MxReduce

A float is sign, integer and exponent; tensors are functions. Every primitive exists twice
in the code, as a loop over Python floats and as tensor operations for large tensors, and it
is the size of the tensor that decides: both are modelled, with that switch. `MxReduce`
computes one row of a product in the three ways the code has, requantizes it, and compares
with the element-wise reference: `ComputesElementwise`.

Abstractions: scaled widths (significand 10, bfloat16 3, word 22, switch at 8 elements
instead of 24, 7, 62 and 1024, windows of 2, blocks of 4), so that operands can be
enumerated; the range of float32 is unbounded and the sign of zero ignored; requantizers see
finite, non-zero blocks (for others qtorch decides); a block that is no multiple of the
window, the other copies of these functions in `fp4.py`, and `torch.compile` are not
modelled.

## 3. The runs

| Run | Properties | Bounds |
|---|---|---|
| `SimqOneTerminal` | `TypeOK`, `ExclusiveClaim`, `OneDaemon`, `ClearSparesClaims`, `Fifo`, `NoJobLost` | 2 jobs, 2 daemons, 2 lanes, 1 terminal with every command but `cancel` and an explicit `daemon` (in the background or with `--foreground`); crashes, writes that fail, claims moved back by hand |
| `SimqTwoTerminals` | `RunsOnce`, `ClaimsFitLanes`, `VerdictFinal`, `ImplementsJobQueue` | 2 jobs, 2 daemons, 1 lane, 2 terminals with `add`, `daemon --foreground` and `cancel`; `elaborate` may raise, a slow start, crashes |
| `SimqLives` | `QueueDrains`, `ClaimFinishes`, `StopStops` | 2 jobs, 3 daemons, 1 lane, 1 terminal with `add`, `daemon` and `stop`, `--idle-exit=0`, reused pids |
| `ElaborateSafe` | `TypeOK`, `OneElaboration`, `ElaboratedOnce` | 2 processes, 2 configs, 3 jobs, 1 edit, all four options, failing makes, crashes |
| `ElaborateFresh` | `RunsWhatWasChecked`, `JobsEnd` | 2 processes, 1 config, 3 jobs, 2 edits, all four options, failing makes, makes that outlive their simq |
| `ScheduleSafe` | `ExitZeroIsPass`, `AllFinished`, `ReturnsUnlessBuilderDies` | 2 jobs, 2 configs, 2 lanes, with and without `--build-only`, distinct file names, any thread may die |
| `SpikeBuildSafe` | `HitIsBuild`, `MetaDescribes`, `OwnLiterals` | 2 processes, 5 recipes (two that run on the shipped library, two that share a directory, one with other literals and a directory of its own), 2 versions, 3 calls, 1 update, crashes |
| `GradeSafe` | `OwnMachine`, `GeometryHeld`, `OwnRun`, `LibraryRecorded`, `ReportOfOneRun`, `Deployed` | 2 processes, a stock recipe and one of another geometry, 2 runs, 2 seconds, 1 rebuild, a user's library of geometry 8 |
| `NpuSafe` | `ZeroIsPass`, `ZeroIsComplete`, `OneIsFailure`, `Ends` | every list of steps, one unknown name, every answer of every tool |
| `WorkloadSafe` | `CacheRight`, `ResultRight`, `FailsForReason` | 2 processes, 1 recipe and bf16, 0 (all 3), 1 or 4 samples on 2 devices, 3 calls, failures and interruptions anywhere |
| `CompileSafe` | `ComputesKernel`, `ScalesLanded` | chains of 1 to 3 matmuls with M of 16 to 64 and K of 32 to 64, 7 graphs, a kernel with an unresolved reference, 13 hardware recipes, the run recipes |
| `ReduceExact` | `ComputesElementwise` | 256 operand rows, 3 schedules, 4 paths, and the tiled path without a schedule |

Why the bounds are enough to be interesting: two jobs make an order, a batch and a job that
is queued while another runs; two daemons overlap, three make a successor beside a pair; one
lane makes claims wait, two let lanes overlap; two terminals make every pair of their
commands race; a second edit falls into a make that the first one caused. Three calls
with an update make a builder that reads old sources beside one that reads new ones, and a
hit before and after it; three recipes that are built, two of them under one `build_id`,
make two builders in one directory and two with different literals side by side. Two runs of one process make state that outlives a run, two processes in one
second make a shared directory. Four samples on two devices make two non-empty slices, one
sample an empty one, which gets no worker, four more than the split has. Three matmuls are
the shortest chain in which a region is reused, and with 96 rows a bank the B tiles meet the
regions.

Deadlock is checked in `CompileSafe`. In the others the system may stop: when nobody types,
every daemon has left and the pids and jobs of the instance are used up; when a command has
returned; when the bounded calls are made; a case of `ReduceExact` ends with its result.
That nothing stops too early is what the liveness properties say.

### What the code does that its text does not say

Some properties hold under the conditions of the runs and not beyond them. Each of the
following is one change of an instance away:

- **A job can wait for ever** behind a live pid: the daemon leaves idle after `add` saw it
  alive, and the job waits for the next command (`QueueDrains` with `IdleExit = TRUE`).
- **A job can run twice**: two daemons share one pidfile, the first to leave unlinks it, and
  the advice of `status` (837) requeues a job that is being run (`ExclusiveClaim` with two
  terminals and `requeue`).
- **Old RTL can look new**: an edit while make runs is older than the simulator that was
  elaborated without it (333, 344; `StaleRefused` of `SimqElaborate`), and the daemon's
  table of ready configs is never checked again (753).
- **`schedule` can hang**: an exception in the builder thread leaves the runners waiting for
  their sentinels. `ReturnsUnlessBuilderDies` says that nothing else does.
- **A failure can be reported PASS**: binaries with equal file names from different
  directories share a log file (`ExitZeroIsPass` with `SameName = TRUE`).
- **A reader can see a half-written temporary**: "a reader never sees a half-written cache
  file" (`models/mxquant/workload.py:273`) holds for one writer; two of one key share the
  temporary's name, and one renames what the other has just truncated (`ReaderSeesWhole` of
  `Workload`). A torn cache file then makes every later call fail, in `json.loads`, until
  `force`; a record that can be read is still right.
- **An output can exceed the scratchpad**: the bf16 output of a single matmul, or of the
  last stage of a chain, takes 2MN/16 rows at `spad_dest`, which `_validate` never compares
  with the scratchpad, although the header of `mxgemm_emit.py` (11-12) says what fits. A
  product of 256 x 32 by 32 x 512 needs rows up to 16512 of 16384 (`ComputesKernel` with
  `Oversize = TRUE`).
- **A chunk of a graph need not be a multiple of the tile**: the N chunk of
  `mxgraph_emit.py` (371-381) is computed from the scratchpad alone; M = 16, K = 4096, N =
  11008 gives chunks of 43 columns. `Fits` leaves such programs out, too.
- **Exit status 1 need not be a failure**: `npu.py:23` says "Exit 0 on PASS (or when nothing
  is graded), 1 on FAIL or a failed build, 2 on a refused input", but what is printed is
  outside the `try` (353-374). `--only quantize,cost`, which line 20 advertises as needing no
  toolchain, ends with a traceback and status 1 where mxquant is missing or models no such
  kernel: nothing is graded, and `mxquant.line` subscripts an accuracy that is None
  (`npu.py:361-363`, `pipeline.py:658-662`, `models/mxquant/kernel.py:137`). So does a run
  that passed, if spike's summary has no mesh busy cycles: the log line in `run` survives it
  (`pipeline.py:716`), `perf.line` formats None (`perf.py:355`, 396-397). `OneIsFailure`
  names both.
- `fp4.py` clamps a subnormal that rounds up to the largest subnormal where `fp8.py`
  promotes it to the smallest normal; only `fp8.py`'s copy is modelled.

The models of simq also reach the following, which its messages do not suggest:

- A stop file that nobody removed (its daemon left idle, or by an exception) ends the next
  daemon that starts (716-718, 1202); with several daemons, the first that looks takes the
  request.
- A claim can follow "it will claim no new jobs" (1203): the daemon looks for the stop file
  and renames the record in two steps (715, 661).
- A crash between the done record and the unlink of the claim (679-680) leaves a finished
  job among those that "did NOT finish" (836); one inside the rewrite of the running record
  (782) leaves a claim that `status` skips (826).
- `clear` reads the pid, `running/` and `logs/` at different moments (874-920): a job
  claimed in between can lose its log, and with `--all`, when a daemon started in between,
  its record.
- `stop --now` signals whatever process has the pid by now (1185), and unlinks the pidfile
  up to five seconds later, whichever daemon has written it meanwhile (1197).
- A make that outlives its simq is not locked out: the flock went with the Python process
  (398-399), and the next elaboration runs beside it.
- "Configs already built are enqueued up front" (568) is not so: the builder takes the
  configs in the order in which the jobs name them (582), and a built one waits behind the
  make of an earlier one.

### Fairness

`Simq!FairSpec`: the main thread of a daemon and each of its lanes are weakly fair (they are
threads that never block for ever: a simulator has a timeout, 531-535, and a poll sleeps one
second), and so is a command once it is typed. Nobody has to type one, no fault has to
happen, and no daemon has to leave idle, because `LeaveIdle` and `Sleep` are alternatives of
one thread and its fairness does not choose.

`SimqElaborate!FairSpec`: make ends and a process goes on. Weak fairness of each process is
enough for the waiters of the flock: the jobs of the instance are bounded, so the lock
cannot be taken for ever by others; for an unbounded supply the code relies on the kernel's
wake-up order, which is not modelled.

`SimqSchedule!FairSpec`: every thread that can go on does. `SimPrints` is not fair: a
simulator need not print anything.

`Npu!Spec`: the main thread and every model thread go on; each step of theirs is Python that
returns, or an external tool with a timeout.

The other specifications state no fairness: their properties are safety properties, and
`CompileSafe` checks that only a finished case stops.

## 4. The proofs

The theorems hold for any number of jobs, processes, recipes and so on, under the named
assumptions of the modules, which every run evaluates.

`SimqProofs`, for any number of jobs, daemons, lanes and terminals:

- `TypeCorrect`: `Spec => []TypeOK`, all commands and faults allowed. One step per action;
  `DaemonTyped` and `ClientTyped` split the work.
- `NoDoubleRun`: if `"requeue" \notin Commands`, then `Spec => [](ExclusiveClaim /\
  RunsOnce)`. Neither conjunct is inductive. What makes it so is a notion of *unclaimed* job
  (its stamp is not given yet, somebody is publishing it, or its record is in `pending/`)
  and three facts: a job that is published is stamped, has never been in `pending/`, and by
  one command only (`PublishInv`); nobody holds an unclaimed job, and its simulator never
  ran (`UnclaimedInv`); a lane that has not reached the start of the simulator is for a job
  that was never started (`StartInv`). `PublishStep` shows that nothing ever becomes
  unclaimed again, which is where `requeue` is excluded. Almost every step is *calm*
  (`Calm`: it adds no holder and starts nothing), and `CalmKeepsClaims` disposes of those;
  the claim, the hand-over to a lane and the start have a lemma each.
- `NoJobLostHolds`: `Spec => NoJobLost`, with all commands and faults, requeue included. No
  invariant is needed beyond types: each step of a daemon (`DaemonKeepsRecords`) and of a
  command (`ClientKeepsRecords`) leaves a recorded job recorded, a rename by taking the
  record with it, but for the two unlinks the property names.
- `OneDaemonHolds`, `ExclusiveClaimHolds`, `ClearSparesClaimsHolds`, `FifoHolds`: what one
  terminal can rely on. `Solo` says what that is: one client, no `daemon --foreground`, no
  slow start, no pid that comes back. Each condition is needed: without any one of them TLC
  finds two daemons. Requeue, crashes and failing writes are allowed. The invariant
  `SoloInv` has four parts beside the types. `UpInv`: the daemon is one, the pidfile names
  it from its first loop on, and before that the command that spawned it is still waiting.
  `TerminalInv`: what a command saw of the pidfile steps ago is still so when it acts on it.
  `HandInv`: a process that is gone holds nothing, and what is held has its record in
  `running/`. `OrderInv`: what is queued or held was published before the next stamp, and a
  batch leaves no older job behind. `Mover` is the lemma they share: only the one daemon
  that is up takes steps.
- `FitsLanes`: `Spec => []ClaimsFitLanes`, with no assumption on commands or faults. The
  strengthening is `HoldsOnlyInBatch`: the main thread has a job in hand only between the
  claim and the hand-over, so when it counts the free lanes nothing else is held.
  `OldestBound` is the fact about `sorted(...)[:n]`: it has at most `n` members, because the
  rank of each is between 1 and `n` and no two are equal.
- `VerdictStays`: if `"requeue" \notin Commands`, `Spec => VerdictFinal`. A job that has a
  verdict is *settled* (`Settled`): it is not unclaimed, and whoever still has it is between
  the verdict and the unlink of the claim. `DaemonSettled` and `ClientSettled` show that it
  stays settled, `DaemonDone` that nothing is written for it, `WrittenSettled` that it is
  settled as soon as the verdict is on disk.
- `QueueRefines`: if none of `requeue`, `clear`, `clear --logs` and `clear --all` is typed
  (`Kept`), `Spec => ImplementsJobQueue`: every step of the spool is a step of `JobQueue` or
  a stutter. (`requeue` gives a finished job back; `clear` removes the records that say how
  a job ended.) The invariant `QueueInv` adds to the ones above that a command only unlinks
  in `pending/` and publishes one file (`PathInv`), and how the three directories go
  together (`FileInv`): `pending/` is never torn, an unclaimed job has no other record, a
  claim keeps its record until its verdict is on disk, and the verdict is on disk between
  "writing" and "unlink". Then one lemma per kind of step: `ClaimMaps`, `FinishMaps`,
  `ReleaseMaps`, `DieMaps`, `PublishMaps`, `UnlinkMaps`, `KillMaps`; all others leave the
  four abstract variables alone (`QuietMain`, `QuietLane`, `QuietClient`).

`SimqElaborateProofs`, for any number of processes and configs, and any bounds:

- `TypeCorrect`: `Spec => []TypeOK`, which includes that a ready config has a simulator on
  disk (`OnDisk` strengthens it: so has one that was just made).
- `Serialized`: if `"orphan" \notin Faults`, `Spec => []OneElaboration`. The invariant: a
  process that is past `BuildLock` holds the lock, and there are no orphans.
- `Once`: if `"orphan" \notin Faults`, `Spec => ElaboratedOnce`. `OnceInv`: a simulator is
  newer than every Scala its config was elaborated from, and whoever makes without
  `--rebuild` found, under the lock, one older than the Scala that make then reads. Between
  that look and the link the sources can only get newer, so nobody did it before.
- `Fresh`: `Spec => RunsWhatWasChecked`. The invariant says that every ready config is at
  least as new as what was checked, and that the process that is about to have it ready will
  make it so (`FreshInv`); mtimes only grow; and a job that allows a stale simulator counts
  as unchecked for as long as it decides (`Unchecked`).

`SimqScheduleProofs`, for any command line, any number of lanes, and threads that may die:

- `TypeCorrect`: `Spec => []TypeOK`.
- `ZeroMeansPassed`: if `SameName = FALSE`, `Spec => []ExitZeroIsPass`. The run queue has
  every job at most once and its sentinels last (`OrderInv`), so a job has one runner; a log
  holds only marks of its own job (`RunInv`, where distinct names are used); and a verdict
  PASS means that the only mark is PASSED.
- `NoneForgotten`: `Spec => []AllFinished`. Every job that is to be run is still to be
  built, queued, run, or has its verdict (`KeptInv`).

`SpikeBuildProofs`, for any number of processes, recipes and versions:

- `TypeCorrect`, and `OwnLiteralsHold`: `Spec => []OwnLiterals`. The invariant `OwnedInv`
  follows the literals through the copy, the patch in a process's hand, the compile and the
  link: at each point they are those of some recipe of that directory, though nothing locks
  it.

- `HitIsBuildHolds` and `MetaDescribesHolds`: `Spec => []HitIsBuild`,
  `Spec => []MetaDescribes`. `CacheInv` follows a call that nobody disturbed from the copy of
  the sources to its record (`Holds`), and says that a call whose directory somebody else
  rewrites knows it (`Seen`), that a directory rewritten by a disturbed call is in doubt
  (`Doubted`), and that elsewhere a record that can be read describes the library beside it
  until the next link begins (`Described`).

`GradeProofs`, for any number of processes and recipes:

- `OwnMachineHolds` and `GeometryHolds`: `Spec => []OwnMachine`, `Spec => []GeometryHeld`.
  The invariant `MachineInv` says what `MX_LIBGEMMINI` means at each point of a run given
  who set it, which needs that a recipe is not called "shipped" or "user"
  (`NamesAssumption`), and that a geometry is in `checked` only if it was compared.
- `OwnRunHolds`: `Spec => []OwnRun`, from `FilesInv`: every file in a build directory is of
  a run of that directory's kernel and form. It rests on `ApartAssumption`, that the
  directories of two forms are not nested in each other.
- `TypeCorrect`, `LibraryRecordedHolds`, `ReportOfOneRunHolds` and `DeployedHolds`, from
  `GradeInv`: what a call can be at each of its points (`Shapes`); that without a rebuild
  all its stages ran on the library that is there now (`Libraries`); that the summaries and
  the files of a results directory are of the run that owns the second, as far as it has
  come (`Summaries`, `Reports`); and the same of the deployable directory (`Deploys`).

`NpuProofs`, for any further step names and every answer of every tool:

- `ZeroIsPassHolds`, `ZeroIsCompleteHolds`, `OneIsFailureHolds`, and `TypeCorrect`. The exit
  status is decided long after what it speaks of. `CommandInv` says at every point how far
  the command has come (`RunInv`), what status 1 can be put down to (`BlameInv`), and which
  three ways lead to status 0 (`ZeroInv`); what it says at "print" (`Graded`) is not undone
  by the threads that still run while the interpreter ends. `RaiseKeeps`, `ExitKeeps` and
  `MoveKeeps` are what a step of main can come to; `PrintKeeps` has the fourth, the
  traceback.

`WorkloadProofs`, for any number of processes, recipes, samples and devices:

- `CacheIsRight`, `ResultIsRight`: `Spec => []CacheRight`, `Spec => []ResultRight`. The
  arithmetic comes first: `Round` is monotonic and exact on whole numbers, so the bounds
  start at 0, end at the total and do not decrease (`BoundFacts`), and every sample is in
  exactly one slice (`OneSlice`, by the least bound above it: the well-foundedness of the
  naturals stands in for induction). Then `RecordInv`: what a call has merged is right until
  it is published, and so is every temporary file that is whole.
- `FailureHasReason`: `Spec => []FailsForReason`. `FailInv` says what each failing read
  relies on: a worker that is done has its part on disk and nobody else removes it
  (`WorkersInv`); a copy that is half written has a writer or was left so (`TornInv`); who
  publishes without a rival has the temporary file to itself (`TmpInv`), so only a race
  leaves a cache file that cannot be read (`CacheInv`).

`MxDeviceProofs`, for every kernel of `KernelType`, every recipe, scratchpad and command
buffer with commands missing:

- `ScalesLandedHolds`: `Spec => []ScalesLanded`. The compiler's side comes first: every
  program the emitters return is `Guarded`, that is, between a loop and the last scale load
  before it there is a fence (`CompileGuarded`, from `ChainGuarded` for the fused driver and
  `GraphGuarded` for the graph driver with its chunks). Programs are pieces put together, so
  `JoinGuarded` and `FlattenGuarded` carry the work: two guarded programs make a guarded
  one. The accelerator's side is `Waiting`: what is left of the program keeps waiting for
  what is in flight. A load that is issued has its fence still to come, and a fence is
  passed only when nothing flies (`Advances`, `Lands`).
- The shapes, the plan, the chunk width and the flattened program are recursive functions.
  Each is unfolded (`ShapesUnfold`, `PlanUnfold`, `ChunkUnfold`, `Unfold`) and what is
  claimed of it holds because there is no least argument at which it fails (`Least`, from
  the well-foundedness of the naturals).

And for chains of matmuls, of any length, shape, format and recipe, on any scratchpad:

- `ChainsComputeKernel`: `Spec => (ChainInit => []ComputesKernel)`. `ChainInit` says that
  what was loaded is a chain (`is_chain`) whose stages have names of their own, different
  from the input's, and no empty shape (`Plain`); that its command buffer lacks no command;
  and that its output fits the scratchpad (section 3 has the program for which the property
  fails otherwise). Names are taken to be distinct because the code keeps values and shapes
  in dicts by name and does not check them: `from_module` numbers its stages
  (`spec.py:274`), and torch.fx names its nodes apart. Nothing is assumed of what the
  compiler accepts: what it refuses never runs. All chains of `CompileSafe` are plain: 310
  of its initial states are of this kind, and 7452 of its 9944 states are theirs.
- `ComputesKernelHolds`: if `ChainsOnly`, `Spec => []ComputesKernel`, where `ChainsOnly` says
  that nothing else can be loaded.
- The invariant (`ChainInv`) is that what runs is some chain `c` that is `Sound`, `Steady`
  and `Located`. `c` is a record of what the compiler promised: plans, bundles, the value of
  every stage and the program that is left after it. `Sound` is about `c` alone: a stage
  reads its left operand where the one before it left its codes, no result lies over
  another or reaches the weights of any stage, the books a stage decodes with are those the
  one before it encoded with, and the program is the stages one after the other and then the
  reports. `Steady` is what no step changes: the operands in DRAM, the unit, what is wanted.
  `Located` is where the program is, one of fifteen points of a stage or a report, and what
  it will find there: which tiles are in which rows of the scratchpad, what is in the two
  scale windows or still in flight to them, which books and formats are set, and what is in
  the buffers it will report or on its way there. `ComputesKernel` alone says nothing before
  the end, so all of this is needed: each point follows from the one before it and none from
  less.
- The steps have one lemma for each point (`StepL0` to `StepM3`), and the two that matter are
  the product and the moves. `Multiplied` shows that the rows a loop reads are the tiles of
  the two operands it means, under the windows and the books of both; `CommittedTiles`,
  `CommittedFlat`, `DrainedTiles` and `DrainedFlat` that what is committed is what the next
  stage or the host reads; `KeptBelow` that a weight moved in lies over nothing that is still
  to be read. They rest on the arithmetic of a tile's address (`DivMod`, `Apart`, `Within`).
- The initial states are where the compiler comes in: `AcceptedCompiled` and `StartsChained`.
  `ChainPlanned` follows `plan_chain` through the four commands of every stage to its plan;
  `ChainAssigned` says where `_assign_smem` puts the results and what its two refusals are
  worth; `PlannedSound` and `PlannedSeams` that such plans are sound; `MatmulBefore` and
  `DriverUnrolled` that the driver is the program `c` names; `RecipeChecked` and
  `PlannedBooks` that a recipe that passes `check` has a unit that holds every book;
  `ChainWalked` what the reference walk computes for a stage; `CompileAccepted` that a chain
  that is not refused went that way.

Only model-checked: all liveness (fairness and ENABLED are beyond the prover);
`ComputesKernel` of graphs, whose programs mix host steps and chunks with the products, and
of command buffers with a command missing; and `ComputesElementwise`, which is about the
alignment of bit strings through `2 ^ n`, of which the provers know nothing, and about folds
over lanes, for which they have no induction.

## 5. Not modelled

- simq's command line (argument rewriting, binary lookup, simulator detection, printing):
  parsing without state. What it yields enters as the initial states of `SimqSchedule`.
- Captured operands: reading of recorded tensors.
- Cost models (`models/perf`, `models/ppa`): arithmetic over tables, no state and no second
  implementation to compare with.
- Bare-metal tests: C for the device and generators of its data.
- Tests, docs, scripts and hardware configs: read as evidence of what is intended.
- In the parts that are modelled in part: simq's `daemon.log`, build logs and output; the
  perplexity and the rules of `mxquant`; the emitters' C text, accumulation in shared memory
  (the graph emitter reuses one `spad_dest`), lists of precisions per stage, and scale
  factors beyond the first 512 of a single matmul; packing of single elements and the fit of
  a codebook; recipe reports and schemes of the perplexity path; torch.fx tracing; host
  arithmetic in floating point; the duplicates in `fp4.py`, the extraction script and
  `torch.compile`.
