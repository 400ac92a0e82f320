--------------------------------- MODULE Npu ---------------------------------
(***************************************************************************)
(* One npu.py command, from its arguments to its exit status: main,        *)
(* resolve_steps and compile in npu.py and the grading half of run() in    *)
(* grade/pipeline.py, with the model threads that run beside spike.        *)
(*                                                                         *)
(* What a recipe, a kernel, a tool or a model answers is not computed: it  *)
(* is chosen, once where two places must hear the same answer (facts).     *)
(***************************************************************************)
EXTENDS Integers, FiniteSets

CONSTANTS Bogus  \* what --skip and --only may name beside the steps

Steps   == {"quantize", "compile", "evaluate", "cost"}
Targets == {"spike", "mx_rocket"}
Models  == {"mxquant", "ppa", "perf"}        \* those that run in a thread
ASSUME BogusAssumption == Bogus \cap Steps = {}

Facts == [pair : BOOLEAN,       \* config.recipe.check accepts the two recipes
          shape : BOOLEAN,      \* KernelSpec.validate accepts the shapes
          kind : {"fused", "graph", "per_stage"}, lowers : BOOLEAN, \* lower and refuse_graph_dtype
          model : {"exact", "missing", "cannot"},  \* what mxquant says of this kernel
          emits : BOOLEAN]      \* the emitter can place the kernel
Argv  == [flag : {"none", "gone", "list"}, skip : SUBSET (Steps \cup Bogus),
          only : SUBSET (Steps \cup Bogus), target : Targets, out : BOOLEAN]
Bits  == SUBSET {"same", "finite", "close"}  \* same as mxquant's, finite, within fp32_tol of fp32

NoRecord == [tier |-> "none", pass |-> "none", cost |-> {}]

VARIABLES argv, facts,
          pc,       \* where main is
          steps,    \* what resolve_steps returned
          elf,      \* what holds an ELF of this kernel: the deployable directory, the work directory
          thread,   \* the model threads
          device,   \* "none", or the bits that spike returned
          record,   \* the metrics
          exc,      \* the exception that was raised last, and where
          exit      \* the exit status, -1 before it is decided

vars == <<argv, facts, pc, steps, elf, thread, device, record, exc, exit>>

Points == {"args", "steps", "configs", "kernel", "compile", "gcc", "run", "machine", "lower",
           "elfs", "grade", "cost", "report", "print", "handler", "exiting", "done"}

Init ==
  /\ argv \in Argv
  /\ facts = [pair |-> TRUE, shape |-> TRUE, kind |-> "fused", lowers |-> TRUE, model |-> "exact",
              emits |-> TRUE]
  /\ argv.flag # "none" => argv.skip = {} /\ argv.only = {} /\ argv.target = "spike" /\ ~argv.out
  /\ pc = "args" /\ steps = {} /\ elf = {}
  /\ thread = [m \in Models |-> "off"]
  /\ device = [ran |-> FALSE, bits |-> {}]
  /\ record = NoRecord
  /\ exc = [kind |-> "none", at |-> "args"] /\ exit = -1

Goto(from, to) == pc = from /\ pc' = to
Raise(kind)    == pc' = "handler" /\ exc' = [kind |-> kind, at |-> pc]
Still          == UNCHANGED <<argv, facts>>
Exit(status)   == pc' = "exiting" /\ exit' = status

-----------------------------------------------------------------------------
(***************************************************************************)
(* The command line.                                                       *)
(***************************************************************************)
\* A removed flag, --list, or a command to run.
Arguments ==
  /\ pc = "args"
  /\ CASE argv.flag = "gone" -> Exit(2)
       [] argv.flag = "list" -> Exit(0)
       [] OTHER -> pc' = "steps" /\ UNCHANGED exit
  /\ Still /\ UNCHANGED <<steps, elf, thread, device, record, exc>>

Chosen == IF argv.only # {} THEN argv.only ELSE Steps \ argv.skip
Accepted ==
  /\ argv.skip = {} \/ argv.only = {}
  /\ argv.skip \cup argv.only \subseteq Steps
  /\ "evaluate" \in Chosen => "compile" \in Chosen
  /\ Chosen # {}

\* Accepted, and its two arguments have served.
ResolveSteps ==
  /\ pc = "steps"
  /\ argv' = [argv EXCEPT !.skip = {}, !.only = {}]
  /\ IF Accepted THEN /\ steps' = Chosen /\ pc' = "configs" /\ UNCHANGED exc
                 ELSE Raise("ValueError") /\ UNCHANGED steps
  /\ UNCHANGED <<facts, elf, thread, device, record, exit>>

\* load_hardware and load_run; --input without --model is refused after them.
LoadConfigs ==
  /\ \/ Goto("configs", "kernel") /\ UNCHANGED exc
     \/ pc = "configs" /\ \E e \in {"RecipeError", "ValueError"} : Raise(e)
  /\ Still /\ UNCHANGED <<steps, elf, thread, device, record, exit>>

\* load_module or build: a TraceError is a ValueError, the user's file may raise anything.
\* Then compile, if its ELF is wanted for itself, then run, if a model is.
Deployed == "compile" \in steps /\ ("evaluate" \notin steps \/ argv.target # "spike" \/ argv.out)
LoadKernel ==
  /\ pc = "kernel"
  /\ \/ pc' = (IF Deployed THEN "compile" ELSE "run") /\ facts' \in Facts /\ UNCHANGED exc
     \/ UNCHANGED facts /\ \E e \in {"ValueError", "other"} : Raise(e)
  /\ UNCHANGED <<argv, steps, elf, thread, device, record, exit>>

-----------------------------------------------------------------------------
(***************************************************************************)
(* compile: everything that can be refused comes before the build.         *)
(***************************************************************************)
CompileRefuses ==
  CASE ~facts.pair                                   -> "RecipeError"
    [] facts.pair /\ (~facts.shape \/ ~facts.lowers) -> "ValueError"
    [] facts.kind = "per_stage" \/ facts.model # "exact" -> "ValueError"
    [] OTHER -> "none"

CompileLower ==
  /\ pc = "compile"
  /\ IF CompileRefuses = "none" THEN pc' = "gcc" /\ UNCHANGED exc ELSE Raise(CompileRefuses)
  /\ Still /\ UNCHANGED <<steps, elf, thread, device, record, exit>>

\* gcc_path, generate_driver, gcc, and the files beside the ELF.
CompileBuild ==
  /\ pc = "gcc"
  /\ \/ facts.emits /\ elf' = elf \cup {"deployed"} /\ pc' = "run" /\ UNCHANGED exc
     \/ UNCHANGED elf /\ \E e \in {"MxRunnerError", "other"} \cup {x \in {"MxEmitError"} : ~facts.emits} : Raise(e)
  /\ Still /\ UNCHANGED <<steps, thread, device, record, exit>>

-----------------------------------------------------------------------------
(***************************************************************************)
(* run of grade/pipeline.py.                                               *)
(***************************************************************************)
\* The models it is asked for: mxquant for quantize, spike for evaluate, ppa and perf for cost.
Asked == {m \in Models : CASE m = "mxquant" -> "quantize" \in steps [] OTHER -> "cost" \in steps}

RunChecks ==
  /\ pc = "run"
  /\ CASE steps \cap {"quantize", "evaluate", "cost"} = {} -> Exit(0) /\ UNCHANGED exc
       [] OTHER -> /\ CASE ~facts.pair                  -> Raise("RecipeError")
                        [] facts.pair /\ ~facts.shape   -> Raise("ValueError")
                        [] OTHER -> pc' = "machine" /\ UNCHANGED exc
                   /\ UNCHANGED exit
  /\ Still /\ UNCHANGED <<steps, elf, thread, device, record>>

\* With spike: the toolchain must be there and the recipe's library must build.
Machine ==
  /\ \/ Goto("machine", "lower") /\ UNCHANGED exc
     \/ pc = "machine" /\ "evaluate" \in steps /\ Raise("RuntimeError")
  /\ Still /\ UNCHANGED <<steps, elf, thread, device, record, exit>>

\* start_models: mxquant may not be there to start.
Started(m) == IF m \notin Asked THEN "off"
              ELSE IF m = "mxquant" /\ facts.model = "missing" THEN "missing" ELSE "running"

\* The lowering decides how values reach the mesh, and the threads begin; without spike there is
\* nothing to build.
Lower ==
  /\ pc = "lower"
  /\ IF facts.lowers
       THEN /\ thread' = [m \in Models |-> Started(m)]
            /\ pc' = IF "evaluate" \in steps THEN "elfs" ELSE "grade"
            /\ UNCHANGED exc
       ELSE Raise("ValueError") /\ UNCHANGED thread
  /\ Still /\ UNCHANGED <<steps, elf, device, record, exit>>

\* The ELFs are emitted, built and run; a banner of another mesh is a RuntimeError, a time limit or
\* an interrupted tool something else.
RunElfs ==
  /\ pc = "elfs"
  /\ \/ facts.emits /\ elf' = elf \cup {"work"} /\ pc' = "grade" /\ UNCHANGED exc
        /\ \E b \in Bits : device' = [ran |-> TRUE, bits |-> b]
     \/ /\ \E e \in {"MxRunnerError", "RuntimeError", "other"} \cup {x \in {"MxEmitError"} : ~facts.emits} : Raise(e)
        /\ UNCHANGED <<elf, device>>
  /\ Still /\ UNCHANGED <<steps, thread, record, exit>>

\* A model thread comes to its end; for mxquant that can be that it does not model the kernel.
Answer(m) ==
  /\ thread[m] = "running"
  /\ \E t \in {"raised", IF m = "mxquant" /\ facts.model = "cannot" THEN "cannot" ELSE "answered"} :
       thread' = [thread EXCEPT ![m] = t]
  /\ Still /\ UNCHANGED <<pc, steps, elf, device, record, exc, exit>>

\* Mutant of Verdict: the tolerance decides although there are bits to compare with.
EagerVerdict == "close" \in device.bits /\ "finite" \in device.bits

\* compare of grade/metrics.py: bit identity where mxquant has answered, a tolerance where it has not.
Verdict == /\ "finite" \in device.bits
           /\ IF thread["mxquant"] = "answered" THEN "same" \in device.bits ELSE "close" \in device.bits

\* The tiers: mxquant's, fp32's, mxquant's without hardware, and none.
Tier == IF device.ran THEN IF thread["mxquant"] = "answered" THEN "mxquant" ELSE "fp32"
        ELSE IF thread["mxquant"] = "answered" THEN "no hardware" ELSE "cost only"

\* Mutant of Grade: it waits for every model, also for one that was not asked for.
GradeJoinsAll ==
  /\ pc = "grade" /\ \A m \in Models : thread[m] \notin {"off", "running"}
  /\ CASE thread["mxquant"] = "raised" -> Raise("other") /\ UNCHANGED record
       [] OTHER -> /\ record' = [tier |-> Tier, cost |-> {},
                                 pass |-> IF ~device.ran THEN "none" ELSE IF Verdict THEN "yes" ELSE "no"]
                   /\ pc' = "cost" /\ UNCHANGED exc
  /\ Still /\ UNCHANGED <<steps, elf, thread, device, exit>>

\* The grade waits for mxquant.  An exception of its thread other than Unavailable and RecipeError
\* comes out here; without hardware, mxquant or cost there is nothing to say.
Grade ==
  /\ pc = "grade" /\ thread["mxquant"] # "running"
  /\ CASE thread["mxquant"] = "raised" -> Raise("other") /\ UNCHANGED record
       [] thread["mxquant"] # "raised" /\ Tier = "cost only" /\ "cost" \notin steps ->
            Raise("RuntimeError") /\ UNCHANGED record
       [] OTHER -> /\ record' = [tier |-> Tier, cost |-> {},
                                 pass |-> IF ~device.ran THEN "none" ELSE IF Verdict THEN "yes" ELSE "no"]
                   /\ pc' = "cost" /\ UNCHANGED exc
  /\ Still /\ UNCHANGED <<steps, elf, thread, device, exit>>

\* The cost models are joined; one that raised is left out of the record, and perf also if its answer
\* cannot be merged with what spike measured.
Cost ==
  /\ Goto("cost", "report")
  /\ \A m \in {"ppa", "perf"} : thread[m] # "running"
  /\ \E unmerged \in SUBSET {"perf"} :
       record' = [record EXCEPT !.cost = {m \in {"ppa", "perf"} \ unmerged : thread[m] = "answered"}]
  /\ Still /\ UNCHANGED <<steps, elf, thread, device, exc, exit>>

\* The results directory is written: the end of run, and of main's try.
Report ==
  /\ \/ Goto("report", "print") /\ UNCHANGED exc
     \/ pc = "report" /\ Raise("other")
  /\ Still /\ UNCHANGED <<steps, elf, thread, device, record, exit>>

\* main asks mxquant.line for numbers that the record of a cost-only tier does not have.
NoAccuracy == "quantize" \in steps /\ "evaluate" \notin steps /\ record.tier = "cost only"

\* perf.line formats a utilization that merge_measured leaves out if spike counted no busy cycles.
Measured == device.ran /\ "perf" \in record.cost

\* Mutant of PrintResult: a line that cannot be printed is left out.
PrintWhatThereIs ==
  /\ pc = "print" /\ Exit(IF record.pass = "no" THEN 1 ELSE 0)
  /\ Still /\ UNCHANGED <<steps, elf, thread, device, record, exc>>

\* What there is to say is printed and the verdict returned, outside the try: an exception here is a
\* traceback, and status 1.
PrintResult ==
  /\ pc = "print"
  /\ \/ ~NoAccuracy /\ Exit(IF record.pass = "no" THEN 1 ELSE 0) /\ UNCHANGED exc
     \/ (NoAccuracy \/ Measured) /\ Exit(1) /\ exc' = [kind |-> "other", at |-> "print"]
  /\ Still /\ UNCHANGED <<steps, elf, thread, device, record>>

-----------------------------------------------------------------------------
\* Mutant of Handlers: whatever went wrong is a failed build.
HandleAsBuild ==
  /\ pc = "handler" /\ Exit(IF exc.kind = "RecipeError" THEN 2 ELSE 1)
  /\ Still /\ UNCHANGED <<steps, elf, thread, device, record, exc>>

Handlers ==
  /\ pc = "handler" /\ Exit(IF exc.kind \in {"MxRunnerError", "MxEmitError"} THEN 1 ELSE 2)
  /\ Still /\ UNCHANGED <<steps, elf, thread, device, record, exc>>

\* The interpreter joins the threads of the pool before it ends.
End ==
  /\ Goto("exiting", "done")
  /\ \A m \in Models : thread[m] # "running"
  /\ Still /\ UNCHANGED <<steps, elf, thread, device, record, exc, exit>>

Main == \/ Arguments \/ ResolveSteps \/ LoadConfigs \/ LoadKernel \/ CompileLower \/ CompileBuild
        \/ RunChecks \/ Machine \/ Lower \/ RunElfs \/ Grade \/ Cost \/ Report \/ PrintResult
        \/ Handlers \/ End

Next == Main \/ \E m \in Models : Answer(m)

\* main goes on when it can, and a model thread computes to its end.
Spec == Init /\ [][Next]_vars /\ WF_vars(Main) /\ \A m \in Models : WF_vars(Answer(m))

-----------------------------------------------------------------------------
(***************************************************************************)
(* What should hold.                                                       *)
(***************************************************************************)
\* Exit status 0 of a command that evaluates means that the device's bits are finite and the same as
\* mxquant's; only if mxquant was skipped or has no answer for this kernel is it fp32's tolerance.
ZeroIsPass ==
  pc = "done" /\ exit = 0 /\ "evaluate" \in steps =>
    /\ device.ran /\ "finite" \in device.bits
    /\ IF "quantize" \in steps /\ facts.model = "exact" THEN "same" \in device.bits ELSE "close" \in device.bits

\* Exit status 0 means that every step that was asked for but the cost has come to its product; the bits
\* of mxquant may only be missing where it models no such kernel and fp32 has judged the device instead.
ZeroIsComplete ==
  pc = "done" /\ exit = 0 /\ argv.flag = "none" =>
    /\ "compile" \in steps => elf # {}
    /\ argv.target # "spike" /\ "compile" \in steps => "deployed" \in elf
    /\ "quantize" \in steps => \/ thread["mxquant"] = "answered"
                               \/ device.ran /\ record.tier = "fp32" /\ facts.model # "exact"

\* Status 1 is said of a device that differs, by the tools that build and run the ELF, and by a traceback
\* of the printing: of mxquant's line if it has no answer and nothing was evaluated, or of perf's line
\* after a run on spike, even one that passed.  No refused input and no other failure ends with it.
OneIsFailure ==
  pc = "done" /\ exit = 1 =>
    \/ record.pass = "no"
    \/ exc.at \in {"gcc", "elfs"}
    \/ exc.at = "print" /\ \/ "quantize" \in steps /\ ~device.ran /\ facts.model # "exact"
                           \/ device.ran /\ "perf" \in record.cost

\* Every command ends, with a status, whatever its threads do and whichever exception overtakes them.
Ends == <>(pc = "done" /\ exit # -1)

=============================================================================
