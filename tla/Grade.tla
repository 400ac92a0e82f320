-------------------------------- MODULE Grade --------------------------------
(***************************************************************************)
(* run() of grade/pipeline.py with spike selected, over compile_command_   *)
(* buffer, run_elf and read_timing of the backend's runner.py, and the     *)
(* deployable directory of compile() in npu.py: several Python processes,  *)
(* each of which grades one kernel again and again on different recipes.   *)
(*                                                                         *)
(* All of them write out/build/<kernel>/ and results/<second>_<kernel>...  *)
(* without a lock.  The contents of a file are the number of the run that  *)
(* made it, 0 for a file that is not there.  What one process keeps from   *)
(* run to run is MX_LIBGEMMINI, _LIBGEMMINI_SET and _GEOMETRY_CHECKED.     *)
(***************************************************************************)
EXTENDS Integers, Sequences

CONSTANTS Procs,
          Recipes, Stock,  \* hardware recipes, and those that the shipped library serves
          Dim,             \* recipe -> dim
          ShippedDim,      \* the dim the shipped library reports
          UserDim,         \* the same of the user's own library, 0 when it prints no banner
          UserTimes,       \* does the user's own library hold a cycle model?
          Dirs,            \* lowering -> its directories, one for each ELF
          MaxRuns, MaxSeconds, MaxRebuilds  \* bounds: runs, seconds and rebuilt libraries in all

ASSUME RecipesAssumption == Recipes # {} /\ Stock \subseteq Recipes /\ Dim \in [Recipes -> Nat \ {0}]
ASSUME NamesAssumption   == Recipes \cap {"none", "shipped", "user"} = {}
ASSUME ShippedAssumption == \A r \in Stock : Dim[r] = ShippedDim
ASSUME UserAssumption    == UserDim \in Nat /\ UserTimes \in BOOLEAN
ASSUME DirsAssumption    == "deploy" \in DOMAIN Dirs /\ \A l \in DOMAIN Dirs : Dirs[l] \in Seq(STRING) \ {<<>>}
ASSUME ApartAssumption   == \A l, m \in DOMAIN Dirs : l # m =>
                              \A i \in DOMAIN Dirs[l], j \in DOMAIN Dirs[m] : Dirs[l][i] # Dirs[m][j]
ASSUME BoundsAssumption  == MaxRuns \in Nat /\ MaxSeconds \in Nat /\ MaxRebuilds \in Nat

Lowerings == DOMAIN Dirs                   \* "deploy" is npu.compile, the others grade
AllDirs   == UNION {{Dirs[l][i] : i \in DOMAIN Dirs[l]} : l \in Lowerings}
Runs      == 0..MaxRuns
Seconds   == 0..MaxSeconds
OwnLibs   == Recipes \ Stock               \* such a recipe has a library of its name
Libs      == OwnLibs \cup {"shipped", "user"}
Overrides == OwnLibs \cup {"none", "user"} \* values of MX_LIBGEMMINI
Versions  == 0..MaxRebuilds
Identity  == [lib : Libs, version : Versions]   \* what _libgemmini_fingerprint tells apart
Loaded    == [elf : Runs, id : Identity]
StageRun  == [spike : Loaded, summary : Runs, config : Runs]

VARIABLES env, set, checked,         \* per process: MX_LIBGEMMINI and the two globals of pipeline.py
          mainc, elf, summary, config,        \* per directory
          expected, manifest,        \* of the deploy directory
          results,                   \* per second: the files of results/<second>_...
          rebuilds, version,         \* rebuilds so far, the one that made each library
          runs, now, recipeOf,       \* runs begun, the clock, the recipe of each run
          users,                     \* the processes whose user has set MX_LIBGEMMINI
          pc, low, n, buildOnly,     \* per process: where it is, its lowering, its run
          stage, spike,              \* its stage, what spike has loaded
          ran, second,               \* the stages that ran, the second of its run_id
          crossed, stale,            \* history, per process: another call in its directories, a rebuild
          shared, spoiled            \* history: seconds two runs share; the deploy directory is mixed

memory  == <<env, set, checked>>
files   == <<mainc, elf, summary, config>>
deploy  == <<expected, manifest>>
clock   == <<now, rebuilds, version, users>>
call    == <<low, n, buildOnly>>
locals  == <<call, stage, spike, ran, second>>
marks   == <<crossed, stale>>
history == <<marks, shared, spoiled>>
vars    == <<memory, files, deploy, results, clock, runs, recipeOf, pc, locals, history>>

Building  == {"main", "gcc"}
Running   == {"spike", "spiking", "timing"}
Deploying == {"expected", "manifest"}
Reporting == {"report", "metrics", "copy"}
Points    == {"idle", "resolve"} \cup Building \cup Running \cup Deploying \cup Reporting

NoId       == [lib |-> "shipped", version |-> 0]
NotLoaded  == [elf |-> 0, id |-> NoId]
NoManifest == [elf |-> 0, expected |-> 0]
NoResult   == [config |-> 0, id |-> NoId, arrays |-> 0, metrics |-> 0, timing |-> {}]

recipe(p)   == recipeOf[n[p]]
Dir(p)      == Dirs[low[p]][stage[p]]
LastStage(p) == stage[p] = Len(Dirs[low[p]])

Init ==
  /\ users \in SUBSET Procs
  /\ env = [p \in Procs |-> IF p \in users THEN "user" ELSE "none"]
  /\ set = [p \in Procs |-> "none"] /\ checked = [p \in Procs |-> {}]
  /\ mainc = [d \in AllDirs |-> 0] /\ elf = mainc /\ summary = mainc /\ config = mainc
  /\ expected = 0 /\ manifest = NoManifest
  /\ results = [s \in Seconds |-> NoResult]
  /\ rebuilds = 0 /\ version = [l \in Libs |-> 0] /\ now = 0 /\ runs = 0
  /\ recipeOf = [i \in Runs |-> CHOOSE r \in Recipes : TRUE]
  /\ pc = [p \in Procs |-> "idle"]
  /\ low = [p \in Procs |-> "deploy"] /\ n = [p \in Procs |-> 0]
  /\ buildOnly = [p \in Procs |-> FALSE]
  /\ stage = [p \in Procs |-> 1] /\ spike = [p \in Procs |-> NotLoaded]
  /\ ran = [p \in Procs |-> {}] /\ second = [p \in Procs |-> 0]
  /\ crossed = [p \in Procs |-> FALSE] /\ stale = [p \in Procs |-> FALSE]
  /\ shared = {} /\ spoiled = FALSE

Goto(p, from, to) == pc[p] = from /\ pc' = [pc EXCEPT ![p] = to]
\* The call is over, with its return value or with an exception, and its locals are gone.
Leave(p) ==
  /\ pc' = [pc EXCEPT ![p] = "idle"]
  /\ low' = [low EXCEPT ![p] = "deploy"] /\ n' = [n EXCEPT ![p] = 0]
  /\ buildOnly' = [buildOnly EXCEPT ![p] = FALSE]
  /\ stage' = [stage EXCEPT ![p] = 1] /\ spike' = [spike EXCEPT ![p] = NotLoaded]
  /\ ran' = [ran EXCEPT ![p] = {}] /\ second' = [second EXCEPT ![p] = 0]
  /\ crossed' = [crossed EXCEPT ![p] = FALSE] /\ stale' = [stale EXCEPT ![p] = FALSE]

Guests(p, l) == {q \in Procs \ {p} : pc[q] # "idle" /\ low[q] = l}

-----------------------------------------------------------------------------
(***************************************************************************)
(* One call of run, or of compile.                                         *)
(***************************************************************************)
\* The recipes and the shapes are accepted and, for compile, the expected bits computed; nothing
\* is written by a call that is refused here.
Begin(p) ==
  /\ pc[p] = "idle" /\ runs < MaxRuns
  /\ runs' = runs + 1
  /\ \E r \in Recipes, l \in Lowerings, b \in BOOLEAN :
       /\ b => l # "deploy"
       /\ recipeOf' = [recipeOf EXCEPT ![runs'] = r]
       /\ low' = [low EXCEPT ![p] = l] /\ n' = [n EXCEPT ![p] = runs']
       /\ buildOnly' = [buildOnly EXCEPT ![p] = b]
       /\ pc' = [pc EXCEPT ![p] = IF b \/ l = "deploy" THEN "main" ELSE "resolve"]
       /\ crossed' = [q \in Procs |-> IF q = p THEN Guests(p, l) # {}
                                      ELSE crossed[q] \/ q \in Guests(p, l)]
       /\ spoiled' = (spoiled \/ (l = "deploy" /\ Guests(p, l) # {}))
  /\ UNCHANGED <<memory, files, deploy, results, clock, stage, spike, ran, second, stale, shared>>

\* Mutant of Resolve: a recipe that the shipped library serves leaves MX_LIBGEMMINI as it is.
ResolveKeeps(p) ==
  /\ Goto(p, "resolve", "main")
  /\ IF recipe(p) \notin Stock
       THEN env' = [env EXCEPT ![p] = recipe(p)] /\ set' = [set EXCEPT ![p] = recipe(p)]
       ELSE UNCHANGED <<env, set>>
  /\ UNCHANGED <<checked, files, deploy, results, clock, runs, recipeOf, locals, history>>

\* resolve() of build_spike.py has built the recipe's own library, or says that the shipped one
\* serves: then MX_LIBGEMMINI goes, if it still is what an earlier run set.
Resolve(p) ==
  /\ Goto(p, "resolve", "main")
  /\ IF recipe(p) \notin Stock
       THEN env' = [env EXCEPT ![p] = recipe(p)] /\ set' = [set EXCEPT ![p] = recipe(p)]
       ELSE /\ env' = [env EXCEPT ![p] = IF set[p] # "none" /\ @ = set[p] THEN "none" ELSE @]
            /\ set' = [set EXCEPT ![p] = "none"]
  /\ UNCHANGED <<checked, files, deploy, results, clock, runs, recipeOf, locals, history>>

\* Mutant of WriteMain: the expected bits are saved as soon as they are computed.
WriteMainAndExpected(p) ==
  /\ Goto(p, "main", "gcc")
  /\ mainc' = [mainc EXCEPT ![Dir(p)] = n[p]]
  /\ expected' = IF low[p] = "deploy" THEN n[p] ELSE expected
  /\ UNCHANGED <<memory, elf, summary, config, manifest, results, clock, runs, recipeOf, locals, history>>

\* compile_command_buffer: main.c is written.
WriteMain(p) ==
  /\ Goto(p, "main", "gcc")
  /\ mainc' = [mainc EXCEPT ![Dir(p)] = n[p]]
  /\ UNCHANGED <<memory, elf, summary, config, deploy, results, clock, runs, recipeOf, locals, history>>

\* Mutant of Gcc: its exit status is not looked at.
GccUnchecked(p) ==
  /\ pc[p] = "gcc"
  /\ \/ elf' = [elf EXCEPT ![Dir(p)] = mainc[Dir(p)]]
     \/ UNCHANGED elf
  /\ IF buildOnly[p]
       THEN Leave(p)
       ELSE /\ pc' = [pc EXCEPT ![p] = IF low[p] = "deploy" THEN "expected" ELSE "spike"]
            /\ UNCHANGED <<locals, marks>>
  /\ UNCHANGED <<memory, mainc, summary, config, deploy, results, clock, runs, recipeOf, shared, spoiled>>

\* gcc compiles the main.c it finds.  With build_only the call ends here, after the first stage.
Gcc(p) ==
  /\ pc[p] = "gcc"
  /\ elf' = [elf EXCEPT ![Dir(p)] = mainc[Dir(p)]]
  /\ IF buildOnly[p]
       THEN Leave(p)
       ELSE /\ pc' = [pc EXCEPT ![p] = IF low[p] = "deploy" THEN "expected" ELSE "spike"]
            /\ UNCHANGED <<locals, marks>>
  /\ UNCHANGED <<memory, mainc, summary, config, deploy, results, clock, runs, recipeOf, shared, spoiled>>

-----------------------------------------------------------------------------
\* libgemmini_so: MX_LIBGEMMINI if it is set.
Libgemmini(p) == IF env[p] = "none" THEN "shipped" ELSE env[p]
Id(p)       == [lib |-> Libgemmini(p), version |-> version[Libgemmini(p)]]
LibDim(l)   == CASE l = "shipped" -> ShippedDim [] l = "user" -> UserDim [] OTHER -> Dim[l]
LibTimes(l) == l = "user" => UserTimes

\* run_elf: the timing files of a previous run are unlinked, spike starts and loads its two files.
RunSpike(p) ==
  /\ Goto(p, "spike", "spiking")
  /\ summary' = [summary EXCEPT ![Dir(p)] = 0]
  /\ config' = [config EXCEPT ![Dir(p)] = 0]
  /\ spike' = [spike EXCEPT ![p] = [elf |-> elf[Dir(p)], id |-> Id(p)]]
  /\ UNCHANGED <<memory, mainc, elf, deploy, results, clock, runs, recipeOf, call, stage, ran, second, history>>

\* spike ends and its cycle model, if it has one, writes the summary; run_elf then writes what its
\* own spike said on stderr, and parse_output has found DONE.
SpikeEnds(p) ==
  /\ spike[p].elf # 0
  /\ Goto(p, "spiking", "timing")
  /\ summary' = IF LibTimes(spike[p].id.lib) THEN [summary EXCEPT ![Dir(p)] = spike[p].elf] ELSE summary
  /\ config' = [config EXCEPT ![Dir(p)] = n[p]]
  /\ UNCHANGED <<memory, mainc, elf, deploy, results, clock, runs, recipeOf, locals, history>>

\* read_timing refuses a run without a summary, a dump without the preset's line, which a library
\* without a cycle model leaves, and one of another geometry.
Timed(p) ==
  /\ summary[Dir(p)] # 0
  /\ config[Dir(p)] # 0 => /\ LibTimes(spike[p].id.lib)
                           /\ Dim[recipeOf[config[Dir(p)]]] = Dim[recipe(p)]

\* The stage is done: the next one, or the grade.
StageDone(p) ==
  /\ ran' = [ran EXCEPT ![p] = @ \cup {[spike |-> spike[p], summary |-> summary[Dir(p)], config |-> config[Dir(p)]]}]
  /\ spike' = [spike EXCEPT ![p] = NotLoaded]
  /\ IF LastStage(p)
       THEN pc' = [pc EXCEPT ![p] = "report"] /\ UNCHANGED stage
       ELSE pc' = [pc EXCEPT ![p] = "main"] /\ stage' = [stage EXCEPT ![p] = @ + 1]
  /\ UNCHANGED <<env, set, files, deploy, results, clock, runs, recipeOf, call, second, history>>

\* Mutant of AssertGeometry: the banner is not held to the recipe.
AssertNothing(p) == pc[p] = "timing" /\ Timed(p) /\ StageDone(p) /\ UNCHANGED checked

\* _assert_geometry, once per process and recipe: a library that prints no banner passes with a
\* warning, another dim is refused.
AssertGeometry(p) ==
  /\ pc[p] = "timing" /\ Timed(p)
  /\ LET dim == LibDim(spike[p].id.lib) IN
     /\ recipe(p) \in checked[p] \/ dim \in {0, Dim[recipe(p)]}
     /\ checked' = IF dim = 0 THEN checked ELSE [checked EXCEPT ![p] = @ \cup {recipe(p)}]
  /\ StageDone(p)

-----------------------------------------------------------------------------
\* The second has passed since the last report, or it has not.
Clock(p) ==
  /\ now' \in now..MaxSeconds
  /\ second' = [second EXCEPT ![p] = now']
  /\ shared' = IF results[now'].config # 0 THEN shared \cup {now'} ELSE shared

\* Mutant of Report: the override is forgotten.
ReportShipped(p) ==
  /\ Goto(p, "report", "metrics")
  /\ Clock(p)
  /\ results' = [results EXCEPT ![now'].config = n[p],
                                ![now'].id = [lib |-> "shipped", version |-> version["shipped"]]]
  /\ UNCHANGED <<memory, files, deploy, rebuilds, version, users, runs, recipeOf, call, stage, spike,
                 ran, marks, spoiled>>

\* make_run_id and the first file of write_report, which hashes the library of now.
Report(p) ==
  /\ Goto(p, "report", "metrics")
  /\ Clock(p)
  /\ results' = [results EXCEPT ![now'].config = n[p], ![now'].id = Id(p)]
  /\ UNCHANGED <<memory, files, deploy, rebuilds, version, users, runs, recipeOf, call, stage, spike,
                 ran, marks, spoiled>>

\* Mutant of ReportMetrics: a run_id of its own.
ReportMetricsLater(p) ==
  /\ Goto(p, "metrics", "copy")
  /\ now' \in now..MaxSeconds
  /\ results' = [results EXCEPT ![second[p]].arrays = n[p], ![now'].metrics = n[p]]
  /\ UNCHANGED <<memory, files, deploy, rebuilds, version, users, runs, recipeOf, locals, history>>

\* The arrays, then metrics.json.
ReportMetrics(p) ==
  /\ Goto(p, "metrics", "copy")
  /\ results' = [results EXCEPT ![second[p]].arrays = n[p], ![second[p]].metrics = n[p]]
  /\ UNCHANGED <<memory, files, deploy, clock, runs, recipeOf, locals, history>>

\* Last, the timing files that are in the work directories now are copied beside metrics.json.
CopyTiming(p) ==
  /\ pc[p] = "copy"
  /\ LET found == {summary[Dirs[low[p]][i]] : i \in DOMAIN Dirs[low[p]]}
     IN  results' = [results EXCEPT ![second[p]].timing = found \ {0}]
  /\ shared' = IF crossed[p] THEN shared \cup {second[p]} ELSE shared
  /\ Leave(p)
  /\ UNCHANGED <<memory, files, deploy, clock, runs, recipeOf, spoiled>>

-----------------------------------------------------------------------------
\* The rest of npu.compile: expected.npy, then the manifest over the files that are there.
WriteExpected(p) ==
  /\ Goto(p, "expected", "manifest")
  /\ expected' = n[p]
  /\ UNCHANGED <<memory, files, manifest, results, clock, runs, recipeOf, locals, history>>

\* The hash in the manifest is that of the ELF that is there now.
WriteManifest(p) ==
  /\ pc[p] = "manifest"
  /\ manifest' = [elf |-> elf[Dir(p)], expected |-> n[p]]
  /\ spoiled' = (spoiled /\ crossed[p])
  /\ Leave(p)
  /\ UNCHANGED <<memory, files, expected, results, clock, runs, recipeOf, shared>>

-----------------------------------------------------------------------------
\* An exception, a time limit or Ctrl-C: gcc and spike go with the call, and the ELF if it was
\* being linked.
Fail(p) ==
  /\ pc[p] # "idle"
  /\ \/ UNCHANGED elf
     \/ pc[p] = "gcc" /\ elf' = [elf EXCEPT ![Dir(p)] = 0]
  /\ spoiled' = (spoiled \/ pc[p] \in Deploying \/ (pc[p] = "gcc" /\ low[p] = "deploy"))
  /\ Leave(p)
  /\ UNCHANGED <<memory, mainc, summary, config, deploy, results, clock, runs, recipeOf, shared>>

\* Somebody rebuilds a library in place; a library that no call has loaded might as well have been
\* rebuilt before.
Rebuild ==
  /\ rebuilds < MaxRebuilds /\ rebuilds' = rebuilds + 1
  /\ \E p \in Procs : \E x \in {spike[p]} \cup {y.spike : y \in ran[p]} :
       /\ x # NotLoaded
       /\ version' = [version EXCEPT ![x.id.lib] = rebuilds']
  /\ stale' = [p \in Procs |-> stale[p] \/ pc[p] # "idle"]
  /\ UNCHANGED <<memory, files, deploy, results, now, users, runs, recipeOf, pc, locals,
                 crossed, shared, spoiled>>

Step(p) == \/ Begin(p) \/ Resolve(p) \/ WriteMain(p) \/ Gcc(p) \/ RunSpike(p) \/ SpikeEnds(p)
           \/ AssertGeometry(p) \/ Report(p) \/ ReportMetrics(p) \/ CopyTiming(p)
           \/ WriteExpected(p) \/ WriteManifest(p) \/ Fail(p)

Next == (\E p \in Procs : Step(p)) \/ Rebuild

Spec == Init /\ [][Next]_vars
-----------------------------------------------------------------------------
(***************************************************************************)
(* What should hold.                                                       *)
(***************************************************************************)
\* The variables hold values of their kind.
TypeOK ==
  /\ env \in [Procs -> Overrides] /\ set \in [Procs -> OwnLibs \cup {"none"}]
  /\ checked \in [Procs -> SUBSET Recipes] /\ users \subseteq Procs
  /\ {mainc, elf, summary, config} \subseteq [AllDirs -> Runs]
  /\ expected \in Runs /\ manifest \in [elf : Runs, expected : Runs]
  /\ results \in [Seconds -> [config : Runs, id : Identity, arrays : Runs, metrics : Runs,
                              timing : SUBSET Runs]]
  /\ rebuilds \in Versions /\ version \in [Libs -> Versions]
  /\ runs \in Runs /\ now \in Seconds /\ recipeOf \in [Runs -> Recipes]
  /\ pc \in [Procs -> Points] /\ low \in [Procs -> Lowerings]
  /\ n \in [Procs -> Runs] /\ buildOnly \in [Procs -> BOOLEAN]
  /\ \A p \in Procs : stage[p] \in DOMAIN Dirs[low[p]]
  /\ spike \in [Procs -> Loaded] /\ \A p \in Procs : ran[p] \subseteq StageRun
  /\ second \in [Procs -> Seconds]
  /\ {crossed, stale} \subseteq [Procs -> BOOLEAN]
  /\ shared \subseteq Seconds /\ spoiled \in BOOLEAN

\* No stage of a run is simulated on the library of another recipe, whatever was graded before in
\* this process; the user's own library serves only a recipe that the shipped one serves too.
OwnMachine ==
  \A p \in Procs : \A x \in ran[p] :
    x.spike.id.lib \in IF recipe(p) \notin Stock THEN {recipe(p)}
                      ELSE {"shipped"} \cup {l \in {"user"} : p \in users}

\* No stage counts that ran on a mesh of another size than the recipe's, although the banner is
\* looked at only once; a library that prints none is taken on trust.
GeometryHeld ==
  \A p \in Procs : \A x \in ran[p] : LibDim(x.spike.id.lib) \in {0, Dim[recipe(p)]}

\* What is graded is the output of the call's own ELFs, and the cycles are those of the same runs: no
\* file of an earlier call is taken for them, as long as no other call is in the same directories.
OwnRun ==
  \A p \in Procs : ~crossed[p] =>
    \A x \in ran[p] : {x.spike.elf, x.summary, x.config} = {n[p]}

\* The report names the library that ran, unless one was rebuilt during the call.
LibraryRecorded ==
  \A p \in Procs : pc[p] \in Reporting \ {"report"} /\ ~stale[p] /\ second[p] \notin shared =>
    \A x \in ran[p] : x.spike.id = results[second[p]].id

\* A results directory with a metrics.json is of one run in all its files, also when calls fail half-way,
\* unless two runs report in the same second or shared their work directories.
ReportOfOneRun ==
  \A s \in Seconds \ shared : results[s].metrics # 0 =>
    /\ {results[s].config, results[s].arrays} = {results[s].metrics}
    /\ results[s].timing \subseteq {results[s].metrics}

\* A deployable directory with a manifest holds the ELF and the expected bits of one and the same compile,
\* the ones the manifest names, unless two compiles overlapped in it or one broke off after its link began.
Deployed ==
  ~spoiled /\ manifest # NoManifest /\ (\A p \in Procs : pc[p] \notin Deploying) =>
    {elf[Dirs["deploy"][1]], expected, manifest.expected} = {manifest.elf}

=============================================================================
