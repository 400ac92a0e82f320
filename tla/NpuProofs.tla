------------------------------- MODULE NpuProofs -------------------------------
(***************************************************************************)
(* What the exit status of npu.py says, for every set of further step      *)
(* names, every kernel and tool, and every moment at which a model thread  *)
(* comes to its end: 0 means that the device passed and that nothing asked *)
(* for is missing, 1 that the device differs, the build failed or the      *)
(* printing broke off.                                                     *)
(*                                                                         *)
(* The argument.  The status is decided long after what it speaks of: a    *)
(* grade compares bits that spike has returned with an answer that a       *)
(* thread gave at any time, and the status is taken from the record of     *)
(* it.  CommandInv says how far a command has come at every point, and     *)
(* what it says at "print" (Graded) is not undone by the threads that      *)
(* still run while the interpreter ends.                                   *)
(***************************************************************************)
EXTENDS Npu, TLAPS

Kinds == {"none", "RecipeError", "ValueError", "MxRunnerError", "MxEmitError", "RuntimeError", "other"}
Records == [tier : {"none", "mxquant", "fp32", "no hardware", "cost only"},
            pass : {"none", "yes", "no"}, cost : SUBSET Models]
ThreadStates == {"off", "missing", "running", "raised", "cannot", "answered"}

\* What the variables hold.
TypeOK ==
  /\ argv \in Argv
  /\ facts \in Facts
  /\ pc \in Points
  /\ steps \subseteq Steps
  /\ elf \subseteq {"deployed", "work"}
  /\ thread \in [Models -> ThreadStates]
  /\ device \in [ran : BOOLEAN, bits : Bits]
  /\ record \in Records
  /\ exc \in [kind : Kinds, at : Points]
  /\ exit \in {-1, 0, 1, 2}

\* From load_hardware to the last line printed, and from the start of the threads.
Resolved == {"configs", "kernel", "compile", "gcc", "run", "machine", "lower", "elfs", "grade", "cost",
             "report", "print"}
Running  == {"elfs", "grade", "cost", "report", "print"}

\* A status is decided once, on the way out; a command that got past its arguments has steps to do.
StatusInv ==
  /\ pc \in {"exiting", "done"} <=> exit # -1
  /\ pc \in {"handler"} \cup Resolved => argv.flag = "none"
  /\ pc \in Resolved => steps # {}
  /\ pc \in {"args", "steps"} => steps = {}
  /\ pc = "steps" => argv.flag = "none"

\* What status 1 may be put down to.  Only the build and the run of an ELF raise what main takes for a
\* failure of the tools, and only two lines cannot be printed.
Blamed ==
  \/ record.pass = "no"
  \/ exc.at \in {"gcc", "elfs"}
  \/ exc.at = "print" /\ \/ "quantize" \in steps /\ ~device.ran /\ facts.model # "exact"
                         \/ Measured
BlameInv ==
  /\ exc.kind \in {"MxRunnerError", "MxEmitError"} => exc.at \in {"gcc", "elfs"}
  /\ exit = 1 => Blamed

\* What has become of mxquant, by what was asked and by what it models.
ModelAnswers ==
  thread["mxquant"] \in
    IF "quantize" \notin steps THEN {"off"}
    ELSE IF facts.model = "missing" THEN {"missing"}
    ELSE {"running", "raised", IF facts.model = "cannot" THEN "cannot" ELSE "answered"}

\* The deployable ELF is there if it was wanted, and the device ran if it was to be evaluated.
DeployedHere == Deployed => "deployed" \in elf
DeviceHere ==
  /\ "evaluate" \in steps => device.ran /\ "work" \in elf
  /\ "evaluate" \notin steps => ~device.ran

\* The record is that of an answer that is in, and still the one to be given.
Recorded ==
  /\ thread["mxquant"] \notin {"running", "raised"}
  /\ record.tier = Tier
  /\ record.pass = IF ~device.ran THEN "none" ELSE IF Verdict THEN "yes" ELSE "no"
Graded == ModelAnswers /\ DeployedHere /\ DeviceHere /\ Recorded

\* How far the command has come, point by point.
RunInv ==
  /\ pc \in Resolved \ {"grade", "cost", "report", "print"} => ~device.ran
  /\ pc \in {"args", "steps"} => ~device.ran
  /\ pc = "elfs" => "evaluate" \in steps
  /\ pc \in Running => ModelAnswers
  /\ pc \in {"run", "machine", "lower"} \cup Running => DeployedHere
  /\ pc \in {"grade", "cost", "report", "print"} => DeviceHere
  /\ pc \in {"cost", "report", "print"} => Recorded

\* The three ways to status 0: --list, compile alone, and a grade that is not a failure and can be said.
ZeroInv ==
  exit = 0 =>
    \/ argv.flag = "list" /\ steps = {}
    \/ steps = {"compile"} /\ DeployedHere
    \/ Graded /\ record.pass # "no" /\ ~NoAccuracy

\* All that is known of a state.
CommandInv == TypeOK /\ StatusInv /\ BlameInv /\ RunInv /\ ZeroInv

-----------------------------------------------------------------------------
(***************************************************************************)
(* The start, and the three things a step of main can come to: an          *)
(* exception, an exit and a move to a later point.                         *)
(***************************************************************************)
LEMMA InitHolds == Init => CommandInv
<1> SUFFICES ASSUME Init PROVE CommandInv
  OBVIOUS
<1>1. TypeOK
  <2>1. argv \in Argv /\ pc \in Points /\ steps \subseteq Steps /\ elf \subseteq {"deployed", "work"}
        /\ exit \in {-1, 0, 1, 2}
    BY DEF Init, Points
  <2>2. facts \in Facts
    BY DEF Init, Facts
  <2>3. thread \in [Models -> ThreadStates] /\ device \in [ran : BOOLEAN, bits : Bits]
    BY DEF Init, ThreadStates, Bits
  <2>4. record \in Records
    BY DEF Init, NoRecord, Records
  <2>5. exc \in [kind : Kinds, at : Points]
    BY DEF Init, Kinds, Points
  <2> QED
    BY <2>1, <2>2, <2>3, <2>4, <2>5 DEF TypeOK
<1>2. StatusInv
  BY DEF Init, StatusInv, Resolved
<1>3. BlameInv
  BY DEF Init, BlameInv
<1>4. RunInv /\ ZeroInv
  BY DEF Init, RunInv, ZeroInv, Resolved, Running
<1> QED
  BY <1>1, <1>2, <1>3, <1>4 DEF CommandInv

\* An exception is known by its kind and the point that raised it; nothing else changes but the two
\* arguments that resolve_steps has used up.
LEMMA RaiseKeeps ==
  ASSUME CommandInv, pc \in {"steps"} \cup Resolved,
         NEW kind \in Kinds \ {"none"}, Raise(kind),
         kind \in {"MxRunnerError", "MxEmitError"} => pc \in {"gcc", "elfs"},
         argv' \in Argv, argv'.flag = argv.flag, UNCHANGED <<facts, steps, elf, thread, device, record, exit>>
  PROVE  CommandInv'
<1>1. /\ pc' = "handler"
      /\ exc' = [kind |-> kind, at |-> pc]
      /\ exc'.kind = kind /\ exc'.at = pc
  BY DEF Raise
<1>2. exit = -1 /\ argv.flag = "none" /\ pc \in Points
  BY DEF CommandInv, StatusInv, Resolved, Points
<1>3. TypeOK'
  <2>1. exc' \in [kind : Kinds, at : Points]
    BY <1>1, <1>2
  <2>2. pc' \in Points
    BY <1>1 DEF Points
  <2> QED
    BY <2>1, <2>2 DEF CommandInv, TypeOK
<1>4. StatusInv' /\ RunInv'
  BY <1>1, <1>2 DEF StatusInv, RunInv, Resolved, Running
<1>5. BlameInv' /\ ZeroInv'
  BY <1>1, <1>2 DEF BlameInv, ZeroInv
<1> QED
  BY <1>3, <1>4, <1>5 DEF CommandInv

\* An exit may be taken with the statuses that its point has grounds for.
LEMMA ExitKeeps ==
  ASSUME CommandInv, pc \notin {"exiting", "done"},
         NEW status \in {0, 1, 2}, Exit(status), UNCHANGED <<argv, facts, steps, elf, thread, device, record, exc>>,
         status = 1 => Blamed,
         status = 0 => \/ argv.flag = "list" /\ steps = {}
                       \/ steps = {"compile"} /\ DeployedHere
                       \/ Graded /\ record.pass # "no" /\ ~NoAccuracy
  PROVE  CommandInv'
<1>1. pc' = "exiting" /\ exit' = status
  BY DEF Exit
<1>3. TypeOK'
  <2>1. pc' \in Points /\ exit' \in {-1, 0, 1, 2}
    BY <1>1 DEF Points
  <2> QED
    BY <2>1 DEF CommandInv, TypeOK
<1>4. StatusInv' /\ RunInv'
  BY <1>1 DEF StatusInv, RunInv, Resolved, Running
<1>5. BlameInv'
  BY <1>1 DEF CommandInv, BlameInv, Blamed, Measured
<1>6. ZeroInv'
  BY <1>1 DEF ZeroInv, NoAccuracy, Graded, ModelAnswers, DeployedHere, DeviceHere, Recorded, Tier, Verdict, Deployed
<1> QED
  BY <1>3, <1>4, <1>5, <1>6 DEF CommandInv

\* On a move to another point no status is due, and what is left to see is RunInv.
LEMMA MoveKeeps ==
  ASSUME CommandInv, pc \notin {"exiting", "done"}, pc' \in {"steps"} \cup Resolved, UNCHANGED <<exc, exit>>,
         argv'.flag = "none", IF pc' = "steps" THEN steps' = {} ELSE steps' # {},
         argv' \in Argv, facts' \in Facts, steps' \subseteq Steps, elf' \subseteq {"deployed", "work"},
         thread' \in [Models -> ThreadStates], device' \in [ran : BOOLEAN, bits : Bits],
         record' \in Records,
         RunInv'
  PROVE  CommandInv'
<1>1. TypeOK'
  <2>1. pc' \in Points
    BY DEF Points, Resolved
  <2> QED
    BY <2>1 DEF CommandInv, TypeOK
<1>2. StatusInv'
  BY DEF CommandInv, StatusInv, Resolved
<1>3. exit = -1 /\ exit' = -1
  BY DEF CommandInv, StatusInv
<1>4. BlameInv' /\ ZeroInv'
  BY <1>3 DEF CommandInv, BlameInv, ZeroInv
<1> QED
  BY <1>1, <1>2, <1>4 DEF CommandInv

-----------------------------------------------------------------------------
(***************************************************************************)
(* The steps of main, and a thread that answers.                           *)
(***************************************************************************)
LEMMA ArgumentsKeeps == CommandInv /\ Arguments => CommandInv'
<1> SUFFICES ASSUME CommandInv, Arguments PROVE CommandInv'
  OBVIOUS
<1>1. pc = "args" /\ argv \in Argv /\ argv.flag \in {"none", "gone", "list"} /\ steps = {}
  BY DEF Arguments, CommandInv, TypeOK, Argv, StatusInv
<1>2. UNCHANGED <<argv, facts, steps, elf, thread, device, record, exc>>
  BY DEF Arguments, Still
<1>3. CASE argv.flag = "gone"
  BY <1>1, <1>2, <1>3, ExitKeeps DEF Arguments
<1>4. CASE argv.flag = "list"
  BY <1>1, <1>2, <1>4, ExitKeeps DEF Arguments
<1>5. CASE argv.flag = "none"
  <2>1. pc' = "steps" /\ exit' = exit
    BY <1>5 DEF Arguments
  <2>2. RunInv'
    BY <1>1, <1>2, <2>1 DEF RunInv, CommandInv, Resolved, Running
  <2> QED
    BY <1>1, <1>2, <1>5, <2>1, <2>2, MoveKeeps DEF CommandInv, TypeOK
<1> QED
  BY <1>1, <1>3, <1>4, <1>5

LEMMA ResolveStepsKeeps == CommandInv /\ ResolveSteps => CommandInv'
<1> SUFFICES ASSUME CommandInv, ResolveSteps PROVE CommandInv'
  OBVIOUS
<1>1. /\ pc = "steps" /\ argv \in Argv /\ steps = {} /\ argv.flag = "none" /\ ~device.ran
      /\ UNCHANGED <<facts, elf, thread, device, record, exit>>
  BY DEF ResolveSteps, CommandInv, TypeOK, StatusInv, RunInv
<1>2. argv' \in Argv /\ argv'.flag = argv.flag
  BY <1>1 DEF ResolveSteps, Argv
<1>3. CASE Accepted
  <2>1. pc' = "configs" /\ steps' = Chosen /\ exc' = exc
    BY <1>3 DEF ResolveSteps
  <2>2. Chosen # {} /\ Chosen \subseteq Steps
    BY <1>3 DEF Accepted, Chosen
  <2>3. RunInv'
    BY <1>1, <2>1 DEF RunInv, Resolved, Running
  <2> QED
    BY <1>1, <1>2, <2>1, <2>2, <2>3, MoveKeeps DEF CommandInv, TypeOK, Resolved
<1>4. CASE ~Accepted
  <2>1. Raise("ValueError") /\ steps' = steps
    BY <1>4 DEF ResolveSteps
  <2> QED
    BY <1>1, <1>2, <2>1, RaiseKeeps DEF Kinds
<1> QED
  BY <1>3, <1>4

LEMMA LoadConfigsKeeps == CommandInv /\ LoadConfigs => CommandInv'
<1> SUFFICES ASSUME CommandInv, LoadConfigs PROVE CommandInv'
  OBVIOUS
<1>1. pc = "configs" /\ UNCHANGED <<argv, facts, steps, elf, thread, device, record, exit>>
  BY DEF LoadConfigs, Still, Goto
<1>2. argv \in Argv /\ steps # {} /\ argv.flag = "none" /\ ~device.ran
  BY <1>1 DEF CommandInv, TypeOK, StatusInv, RunInv, Resolved
<1>3. CASE pc' = "kernel" /\ exc' = exc
  <2>1. RunInv'
    BY <1>1, <1>2, <1>3 DEF RunInv, Resolved, Running
  <2> QED
    BY <1>1, <1>2, <1>3, <2>1, MoveKeeps DEF CommandInv, TypeOK, Resolved
<1>4. ASSUME NEW e \in {"RecipeError", "ValueError"}, Raise(e) PROVE CommandInv'
  <2>1. e \in Kinds \ {"none"} /\ e \notin {"MxRunnerError", "MxEmitError"}
    BY DEF Kinds
  <2> QED
    BY <1>1, <1>2, <1>4, <2>1, RaiseKeeps DEF Resolved
<1> QED
  BY <1>3, <1>4 DEF LoadConfigs, Goto

LEMMA LoadKernelKeeps == CommandInv /\ LoadKernel => CommandInv'
<1> SUFFICES ASSUME CommandInv, LoadKernel PROVE CommandInv'
  OBVIOUS
<1>1. pc = "kernel" /\ UNCHANGED <<argv, steps, elf, thread, device, record, exit>>
  BY DEF LoadKernel
<1>2. argv \in Argv /\ steps # {} /\ argv.flag = "none" /\ ~device.ran
  BY <1>1 DEF CommandInv, TypeOK, StatusInv, RunInv, Resolved
<1>3. CASE pc' = (IF Deployed THEN "compile" ELSE "run") /\ facts' \in Facts /\ exc' = exc
  <2>1. RunInv'
    BY <1>1, <1>2, <1>3 DEF RunInv, Resolved, Running, DeployedHere, Deployed
  <2> QED
    BY <1>1, <1>2, <1>3, <2>1, MoveKeeps DEF CommandInv, TypeOK, Resolved
<1>4. ASSUME NEW e \in {"ValueError", "other"}, Raise(e), facts' = facts PROVE CommandInv'
  <2>1. e \in Kinds \ {"none"} /\ e \notin {"MxRunnerError", "MxEmitError"}
    BY DEF Kinds
  <2> QED
    BY <1>1, <1>2, <1>4, <2>1, RaiseKeeps DEF Resolved
<1> QED
  BY <1>3, <1>4 DEF LoadKernel

LEMMA CompileLowerKeeps == CommandInv /\ CompileLower => CommandInv'
<1> SUFFICES ASSUME CommandInv, CompileLower PROVE CommandInv'
  OBVIOUS
<1>1. pc = "compile" /\ UNCHANGED <<argv, facts, steps, elf, thread, device, record, exit>>
  BY DEF CompileLower, Still
<1>2. argv \in Argv /\ steps # {} /\ argv.flag = "none" /\ ~device.ran
  BY <1>1 DEF CommandInv, TypeOK, StatusInv, RunInv, Resolved
<1>3. CASE CompileRefuses = "none"
  <2>1. pc' = "gcc" /\ exc' = exc
    BY <1>3 DEF CompileLower
  <2>2. RunInv'
    BY <1>1, <1>2, <2>1 DEF RunInv, Resolved, Running
  <2> QED
    BY <1>1, <1>2, <2>1, <2>2, MoveKeeps DEF CommandInv, TypeOK, Resolved
<1>4. CASE CompileRefuses # "none"
  <2>1. CompileRefuses \in {"RecipeError", "ValueError"}
    BY <1>4 DEF CompileRefuses
  <2>2. CompileRefuses \in Kinds \ {"none"} /\ CompileRefuses \notin {"MxRunnerError", "MxEmitError"}
    BY <2>1 DEF Kinds
  <2>3. Raise(CompileRefuses)
    BY <1>4 DEF CompileLower
  <2> HIDE DEF CompileRefuses
  <2> QED
    BY <1>1, <1>2, <2>2, <2>3, RaiseKeeps DEF Resolved
<1> QED
  BY <1>3, <1>4

LEMMA CompileBuildKeeps == CommandInv /\ CompileBuild => CommandInv'
<1> SUFFICES ASSUME CommandInv, CompileBuild PROVE CommandInv'
  OBVIOUS
<1>1. pc = "gcc" /\ UNCHANGED <<argv, facts, steps, thread, device, record, exit>>
  BY DEF CompileBuild, Still
<1>2. argv \in Argv /\ steps # {} /\ argv.flag = "none" /\ ~device.ran
  BY <1>1 DEF CommandInv, TypeOK, StatusInv, RunInv, Resolved
<1>3. CASE elf' = elf \cup {"deployed"} /\ pc' = "run" /\ exc' = exc
  <2>1. RunInv'
    BY <1>1, <1>2, <1>3 DEF RunInv, Resolved, Running, DeployedHere
  <2> QED
    BY <1>1, <1>2, <1>3, <2>1, MoveKeeps DEF CommandInv, TypeOK, Resolved
<1>4. ASSUME NEW e \in {"MxRunnerError", "other", "MxEmitError"}, Raise(e), elf' = elf PROVE CommandInv'
  <2>1. e \in Kinds \ {"none"}
    BY DEF Kinds
  <2> QED
    BY <1>1, <1>2, <1>4, <2>1, RaiseKeeps DEF Resolved
<1> QED
  BY <1>3, <1>4 DEF CompileBuild

LEMMA RunChecksKeeps == CommandInv /\ RunChecks => CommandInv'
<1> SUFFICES ASSUME CommandInv, RunChecks PROVE CommandInv'
  OBVIOUS
<1>1. pc = "run" /\ UNCHANGED <<argv, facts, steps, elf, thread, device, record>>
  BY DEF RunChecks, Still
<1>2. argv \in Argv /\ steps # {} /\ steps \subseteq Steps /\ argv.flag = "none" /\ ~device.ran /\ DeployedHere
  BY <1>1 DEF CommandInv, TypeOK, StatusInv, RunInv, Resolved
<1>3. CASE steps \cap {"quantize", "evaluate", "cost"} = {}
  <2>1. steps = {"compile"}
    BY <1>2, <1>3 DEF Steps
  <2>2. Exit(0) /\ exc' = exc
    BY <1>3 DEF RunChecks
  <2> QED
    BY <1>1, <1>2, <2>1, <2>2, ExitKeeps
<1>4. CASE steps \cap {"quantize", "evaluate", "cost"} # {}
  <2>1. exit' = exit
    BY <1>4 DEF RunChecks
  <2>2. CASE pc' = "machine" /\ exc' = exc
    <3>1. RunInv'
      BY <1>1, <1>2, <2>2 DEF RunInv, Resolved, Running, DeployedHere, Deployed
    <3> QED
      BY <1>1, <1>2, <2>1, <2>2, <3>1, MoveKeeps DEF CommandInv, TypeOK, Resolved
  <2>3. ASSUME NEW e \in {"RecipeError", "ValueError"}, Raise(e) PROVE CommandInv'
    <3>1. e \in Kinds \ {"none"} /\ e \notin {"MxRunnerError", "MxEmitError"}
      BY DEF Kinds
    <3> QED
      BY <1>1, <1>2, <2>1, <2>3, <3>1, RaiseKeeps DEF Resolved
  <2> QED
    BY <1>4, <2>2, <2>3 DEF RunChecks
<1> QED
  BY <1>3, <1>4

LEMMA MachineKeeps == CommandInv /\ Machine => CommandInv'
<1> SUFFICES ASSUME CommandInv, Machine PROVE CommandInv'
  OBVIOUS
<1>1. pc = "machine" /\ UNCHANGED <<argv, facts, steps, elf, thread, device, record, exit>>
  BY DEF Machine, Still, Goto
<1>2. argv \in Argv /\ steps # {} /\ argv.flag = "none" /\ ~device.ran /\ DeployedHere
  BY <1>1 DEF CommandInv, TypeOK, StatusInv, RunInv, Resolved
<1>3. CASE pc' = "lower" /\ exc' = exc
  <2>1. RunInv'
    BY <1>1, <1>2, <1>3 DEF RunInv, Resolved, Running, DeployedHere, Deployed
  <2> QED
    BY <1>1, <1>2, <1>3, <2>1, MoveKeeps DEF CommandInv, TypeOK, Resolved
<1>4. CASE Raise("RuntimeError")
  BY <1>1, <1>2, <1>4, RaiseKeeps DEF Resolved, Kinds
<1> QED
  BY <1>3, <1>4 DEF Machine, Goto

LEMMA LowerKeeps == CommandInv /\ Lower => CommandInv'
<1> SUFFICES ASSUME CommandInv, Lower PROVE CommandInv'
  OBVIOUS
<1>1. pc = "lower" /\ UNCHANGED <<argv, facts, steps, elf, device, record, exit>>
  BY DEF Lower, Still
<1>2. argv \in Argv /\ steps # {} /\ argv.flag = "none" /\ ~device.ran /\ DeployedHere
  BY <1>1 DEF CommandInv, TypeOK, StatusInv, RunInv, Resolved
<1>3. CASE facts.lowers
  <2>1. /\ thread' = [m \in Models |-> Started(m)]
        /\ pc' = IF "evaluate" \in steps THEN "elfs" ELSE "grade"
        /\ exc' = exc
    BY <1>3 DEF Lower
  <2>2. thread' \in [Models -> ThreadStates]
    BY <2>1 DEF Started, ThreadStates
  <2>3. ModelAnswers'
    <3>1. thread'["mxquant"] = Started("mxquant")
      BY <2>1 DEF Models
    <3> QED
      BY <1>1, <3>1 DEF ModelAnswers, Started, Asked, Models
  <2>4. DeployedHere' /\ (pc' = "grade" => DeviceHere')
    BY <1>1, <1>2, <2>1 DEF DeployedHere, Deployed, DeviceHere
  <2>5. RunInv'
    BY <1>1, <1>2, <2>1, <2>3, <2>4 DEF RunInv, Resolved, Running
  <2>6. pc' \in Resolved /\ pc' # "steps"
    BY <2>1 DEF Resolved
  <2> QED
    BY <1>1, <1>2, <2>1, <2>2, <2>5, <2>6, MoveKeeps DEF CommandInv, TypeOK
<1>4. CASE ~facts.lowers
  <2>1. Raise("ValueError") /\ thread' = thread
    BY <1>4 DEF Lower
  <2> QED
    BY <1>1, <1>2, <2>1, RaiseKeeps DEF Resolved, Kinds
<1> QED
  BY <1>3, <1>4

LEMMA RunElfsKeeps == CommandInv /\ RunElfs => CommandInv'
<1> SUFFICES ASSUME CommandInv, RunElfs PROVE CommandInv'
  OBVIOUS
<1>1. pc = "elfs" /\ UNCHANGED <<argv, facts, steps, thread, record, exit>>
  BY DEF RunElfs, Still
<1>2. /\ argv \in Argv /\ steps # {} /\ argv.flag = "none" /\ ~device.ran
      /\ "evaluate" \in steps
      /\ DeployedHere /\ ModelAnswers
  BY <1>1 DEF CommandInv, TypeOK, StatusInv, RunInv, Resolved, Running
<1>3. ASSUME elf' = elf \cup {"work"}, pc' = "grade", exc' = exc,
             NEW b \in Bits, device' = [ran |-> TRUE, bits |-> b]
      PROVE  CommandInv'
  <2>1. device' \in [ran : BOOLEAN, bits : Bits] /\ device'.ran
    BY <1>3
  <2>2. ModelAnswers' /\ DeployedHere' /\ DeviceHere'
    BY <1>1, <1>2, <1>3, <2>1 DEF ModelAnswers, DeployedHere, Deployed, DeviceHere
  <2>3. RunInv'
    BY <1>3, <2>2 DEF RunInv, Resolved, Running
  <2> QED
    BY <1>1, <1>2, <1>3, <2>1, <2>3, MoveKeeps DEF CommandInv, TypeOK, Resolved
<1>4. ASSUME NEW e \in {"MxRunnerError", "RuntimeError", "other", "MxEmitError"}, Raise(e), UNCHANGED <<elf, device>>
      PROVE  CommandInv'
  <2>1. e \in Kinds \ {"none"}
    BY DEF Kinds
  <2> QED
    BY <1>1, <1>2, <1>4, <2>1, RaiseKeeps DEF Resolved
<1> QED
  BY <1>3, <1>4 DEF RunElfs

LEMMA GradeKeeps == CommandInv /\ Grade => CommandInv'
<1> SUFFICES ASSUME CommandInv, Grade PROVE CommandInv'
  OBVIOUS
<1>1. /\ pc = "grade" /\ thread["mxquant"] # "running"
      /\ UNCHANGED <<argv, facts, steps, elf, thread, device, exit>>
  BY DEF Grade, Still
<1>2. argv \in Argv /\ steps # {} /\ argv.flag = "none" /\ DeployedHere /\ ModelAnswers /\ DeviceHere
  BY <1>1 DEF CommandInv, TypeOK, StatusInv, RunInv, Resolved, Running
<1>3. ASSUME thread["mxquant"] # "raised", pc' = "cost", exc' = exc,
             record' = [tier |-> Tier, cost |-> {},
                        pass |-> IF ~device.ran THEN "none" ELSE IF Verdict THEN "yes" ELSE "no"]
      PROVE  CommandInv'
  <2>1. Tier' = Tier /\ Verdict' = Verdict
    BY <1>1 DEF Tier, Verdict
  <2>2. record' \in Records
    BY <1>3 DEF Records, Tier
  <2>3. Recorded'
    <3> HIDE DEF Tier, Verdict
    <3> QED
      BY <1>1, <1>3, <2>1 DEF Recorded
  <2>4. ModelAnswers' /\ DeployedHere' /\ DeviceHere'
    BY <1>1, <1>2 DEF ModelAnswers, DeployedHere, Deployed, DeviceHere
  <2>5. RunInv'
    BY <1>3, <2>3, <2>4 DEF RunInv, Resolved, Running
  <2> QED
    BY <1>1, <1>2, <1>3, <2>2, <2>5, MoveKeeps DEF CommandInv, TypeOK, Resolved
<1>4. ASSUME NEW e \in {"other", "RuntimeError"}, Raise(e), record' = record PROVE CommandInv'
  <2>1. e \in Kinds \ {"none"} /\ e \notin {"MxRunnerError", "MxEmitError"}
    BY DEF Kinds
  <2> QED
    BY <1>1, <1>2, <1>4, <2>1, RaiseKeeps DEF Resolved
<1> HIDE DEF Tier, Verdict
<1> QED
  BY <1>3, <1>4 DEF Grade

LEMMA CostKeeps == CommandInv /\ Cost => CommandInv'
<1> SUFFICES ASSUME CommandInv, Cost PROVE CommandInv'
  OBVIOUS
<1>1. /\ pc = "cost" /\ pc' = "report"
      /\ UNCHANGED <<argv, facts, steps, elf, thread, device, exc, exit>>
  BY DEF Cost, Still, Goto
<1>2. /\ argv \in Argv /\ steps # {} /\ argv.flag = "none" /\ record \in Records
      /\ DeployedHere /\ ModelAnswers /\ DeviceHere /\ Recorded
  BY <1>1 DEF CommandInv, TypeOK, StatusInv, RunInv, Resolved, Running
<1>3. record' \in Records /\ record'.tier = record.tier /\ record'.pass = record.pass
  <2> DEFINE c(u) == {m \in {"ppa", "perf"} \ u : thread[m] = "answered"}
  <2>1. PICK u \in SUBSET {"perf"} : record' = [record EXCEPT !.cost = c(u)]
    BY DEF Cost
  <2>2. c(u) \in SUBSET Models
    BY DEF Models
  <2> HIDE DEF c
  <2> QED
    BY <1>2, <2>1, <2>2 DEF Records
<1>4. ModelAnswers' /\ DeployedHere' /\ DeviceHere' /\ Recorded'
  BY <1>1, <1>2, <1>3 DEF ModelAnswers, DeployedHere, Deployed, DeviceHere, Recorded, Tier, Verdict
<1>5. RunInv'
  BY <1>1, <1>4 DEF RunInv, Resolved, Running
<1> QED
  BY <1>1, <1>2, <1>3, <1>5, MoveKeeps DEF CommandInv, TypeOK, Resolved

LEMMA ReportKeeps == CommandInv /\ Report => CommandInv'
<1> SUFFICES ASSUME CommandInv, Report PROVE CommandInv'
  OBVIOUS
<1>1. pc = "report" /\ UNCHANGED <<argv, facts, steps, elf, thread, device, record, exit>>
  BY DEF Report, Still, Goto
<1>2. /\ argv \in Argv /\ steps # {} /\ argv.flag = "none"
      /\ DeployedHere /\ ModelAnswers /\ DeviceHere /\ Recorded
  BY <1>1 DEF CommandInv, TypeOK, StatusInv, RunInv, Resolved, Running
<1>3. CASE pc' = "print" /\ exc' = exc
  <2>1. ModelAnswers' /\ DeployedHere' /\ DeviceHere' /\ Recorded'
    BY <1>1, <1>2 DEF ModelAnswers, DeployedHere, Deployed, DeviceHere, Recorded, Tier, Verdict
  <2>2. RunInv'
    BY <1>3, <2>1 DEF RunInv, Resolved, Running
  <2> QED
    BY <1>1, <1>2, <1>3, <2>2, MoveKeeps DEF CommandInv, TypeOK, Resolved
<1>4. CASE Raise("other")
  BY <1>1, <1>2, <1>4, RaiseKeeps DEF Resolved, Kinds
<1> QED
  BY <1>3, <1>4 DEF Report, Goto

\* No handler hears of an exception here.  Where mxquant.line has no numbers nothing was evaluated, so
\* mxquant, which was asked, has none to give.
LEMMA PrintKeeps == CommandInv /\ PrintResult => CommandInv'
<1> SUFFICES ASSUME CommandInv, PrintResult PROVE CommandInv'
  OBVIOUS
<1>1. pc = "print" /\ UNCHANGED <<argv, facts, steps, elf, thread, device, record>>
  BY DEF PrintResult, Still
<1>2. Graded
  BY <1>1 DEF CommandInv, RunInv, Running, Graded
<1>3. CASE ~NoAccuracy /\ Exit(IF record.pass = "no" THEN 1 ELSE 0) /\ exc' = exc
  <2>1. CASE record.pass = "no"
    BY <1>1, <1>3, <2>1, ExitKeeps DEF Blamed
  <2>2. CASE record.pass # "no"
    BY <1>1, <1>2, <1>3, <2>2, ExitKeeps
  <2> QED
    BY <2>1, <2>2
<1>4. CASE (NoAccuracy \/ Measured) /\ Exit(1) /\ exc' = [kind |-> "other", at |-> "print"]
  <2>1. pc' = "exiting" /\ exit' = 1 /\ exc'.kind = "other" /\ exc'.at = "print"
    BY <1>4 DEF Exit
  <2>2. NoAccuracy => "quantize" \in steps /\ ~device.ran /\ facts.model # "exact"
    <3> SUFFICES ASSUME NoAccuracy PROVE "quantize" \in steps /\ ~device.ran /\ facts.model # "exact"
      OBVIOUS
    <3>1. "quantize" \in steps /\ ~device.ran
      BY <1>2 DEF NoAccuracy, Graded, DeviceHere
    <3>2. thread["mxquant"] # "answered"
      BY <1>2, <3>1 DEF NoAccuracy, Graded, Recorded, Tier
    <3> QED
      BY <1>2, <3>1, <3>2 DEF Graded, ModelAnswers, Recorded
  <2>3. TypeOK'
    <3>1. pc' \in Points /\ exit' \in {-1, 0, 1, 2} /\ exc' \in [kind : Kinds, at : Points]
      BY <1>4, <2>1 DEF Points, Kinds
    <3> QED
      BY <1>1, <3>1 DEF CommandInv, TypeOK
  <2>4. StatusInv' /\ RunInv'
    BY <2>1 DEF StatusInv, RunInv, Resolved, Running
  <2>5. BlameInv' /\ ZeroInv'
    BY <1>1, <1>4, <2>1, <2>2 DEF BlameInv, Blamed, Measured, ZeroInv
  <2> QED
    BY <2>3, <2>4, <2>5 DEF CommandInv
<1> QED
  BY <1>3, <1>4 DEF PrintResult

LEMMA HandlersKeeps == CommandInv /\ Handlers => CommandInv'
<1> SUFFICES ASSUME CommandInv, Handlers PROVE CommandInv'
  OBVIOUS
<1>1. pc = "handler" /\ UNCHANGED <<argv, facts, steps, elf, thread, device, record, exc>>
  BY DEF Handlers, Still
<1>2. CASE exc.kind \in {"MxRunnerError", "MxEmitError"}
  <2>1. Exit(1)
    BY <1>2 DEF Handlers
  <2>2. exc.at \in {"gcc", "elfs"}
    BY <1>2 DEF CommandInv, BlameInv
  <2> QED
    BY <1>1, <2>1, <2>2, ExitKeeps DEF Blamed
<1>3. CASE exc.kind \notin {"MxRunnerError", "MxEmitError"}
  <2>1. Exit(2)
    BY <1>3 DEF Handlers
  <2> QED
    BY <1>1, <2>1, ExitKeeps
<1> QED
  BY <1>2, <1>3

LEMMA EndKeeps == CommandInv /\ End => CommandInv'
<1> SUFFICES ASSUME CommandInv, End PROVE CommandInv'
  OBVIOUS
<1>1. /\ pc = "exiting" /\ pc' = "done"
      /\ UNCHANGED <<argv, facts, steps, elf, thread, device, record, exc, exit>>
  BY DEF End, Still, Goto
<1>2. TypeOK'
  <2>1. pc' \in Points
    BY <1>1 DEF Points
  <2> QED
    BY <1>1, <2>1 DEF CommandInv, TypeOK
<1>3. StatusInv' /\ BlameInv' /\ RunInv'
  BY <1>1 DEF CommandInv, StatusInv, BlameInv, Blamed, Measured, RunInv, Resolved, Running
<1>4. ZeroInv'
  BY <1>1 DEF CommandInv, ZeroInv, NoAccuracy, Graded, ModelAnswers, DeployedHere, DeviceHere, Recorded, Tier, Verdict, Deployed
<1> QED
  BY <1>2, <1>3, <1>4 DEF CommandInv

\* mxquant ends in one of its own ways; once it is recorded, the threads left are the cost models.
LEMMA AnswerKeeps ==
  ASSUME CommandInv, NEW m \in Models, Answer(m)
  PROVE  CommandInv'
<1>1. UNCHANGED <<argv, facts, pc, steps, elf, device, record, exc, exit>>
  BY DEF Answer, Still
<1>2. PICK t \in {"raised", IF m = "mxquant" /\ facts.model = "cannot" THEN "cannot" ELSE "answered"} :
        thread' = [thread EXCEPT ![m] = t]
  BY DEF Answer
<1>3. thread \in [Models -> ThreadStates] /\ thread[m] = "running" /\ "mxquant" \in Models
  BY DEF CommandInv, TypeOK, Answer, Models
<1>4. TypeOK'
  <2>1. t \in ThreadStates
    BY DEF ThreadStates
  <2>2. thread' \in [Models -> ThreadStates]
    BY <1>2, <1>3, <2>1
  <2> QED
    BY <1>1, <2>2 DEF CommandInv, TypeOK
<1>5. ModelAnswers => ModelAnswers'
  <2>1. CASE m = "mxquant"
    <3>1. thread'["mxquant"] = t
      BY <1>2, <1>3, <2>1
    <3> QED
      BY <1>1, <1>2, <1>3, <2>1, <3>1 DEF ModelAnswers
  <2>2. CASE m # "mxquant"
    <3>1. thread'["mxquant"] = thread["mxquant"]
      BY <1>2, <1>3, <2>2
    <3> QED
      BY <1>1, <3>1 DEF ModelAnswers
  <2> QED
    BY <2>1, <2>2
<1>6. Recorded => Recorded'
  <2> SUFFICES ASSUME Recorded PROVE Recorded'
    OBVIOUS
  <2>1. m # "mxquant"
    BY <1>3 DEF Recorded
  <2>2. thread'["mxquant"] = thread["mxquant"]
    BY <1>2, <1>3, <2>1
  <2> QED
    BY <1>1, <2>2 DEF Recorded, Tier, Verdict
<1>7. (DeployedHere => DeployedHere') /\ (DeviceHere => DeviceHere')
  BY <1>1 DEF DeployedHere, Deployed, DeviceHere
<1>8. StatusInv' /\ BlameInv'
  BY <1>1 DEF CommandInv, StatusInv, BlameInv, Blamed, Measured
<1>9. RunInv' /\ ZeroInv'
  BY <1>1, <1>5, <1>6, <1>7 DEF CommandInv, RunInv, ZeroInv, Graded, NoAccuracy
<1> QED
  BY <1>4, <1>8, <1>9 DEF CommandInv

-----------------------------------------------------------------------------
(***************************************************************************)
(* The theorems.                                                           *)
(***************************************************************************)
LEMMA Correct == Spec => []CommandInv
<1>1. Init => CommandInv
  BY InitHolds
<1>2. CommandInv /\ [Next]_vars => CommandInv'
  <2> SUFFICES ASSUME CommandInv, [Next]_vars PROVE CommandInv'
    OBVIOUS
  <2>1. CASE Main
    BY <2>1, ArgumentsKeeps, ResolveStepsKeeps, LoadConfigsKeeps, LoadKernelKeeps, CompileLowerKeeps,
       CompileBuildKeeps, RunChecksKeeps, MachineKeeps, LowerKeeps, RunElfsKeeps, GradeKeeps, CostKeeps,
       ReportKeeps, PrintKeeps, HandlersKeeps, EndKeeps DEF Main
  <2>2. CASE \E m \in Models : Answer(m)
    BY <2>2, AnswerKeeps
  <2>3. CASE UNCHANGED vars
    <3>1. (ModelAnswers => ModelAnswers') /\ (DeployedHere => DeployedHere') /\ (DeviceHere => DeviceHere')
      BY <2>3 DEF vars, ModelAnswers, DeployedHere, Deployed, DeviceHere
    <3>2. Recorded => Recorded'
      BY <2>3 DEF vars, Recorded, Tier, Verdict
    <3>3. TypeOK' /\ StatusInv' /\ BlameInv'
      BY <2>3 DEF vars, CommandInv, TypeOK, StatusInv, BlameInv, Blamed, Measured
    <3>4. RunInv' /\ ZeroInv'
      BY <2>3, <3>1, <3>2 DEF vars, CommandInv, RunInv, ZeroInv, Graded, NoAccuracy
    <3> QED
      BY <3>3, <3>4 DEF CommandInv
  <2> QED
    BY <2>1, <2>2, <2>3 DEF Next
<1> QED
  BY <1>1, <1>2, PTL DEF Spec

\* Exit status 0 of a command that evaluates: the device ran, its bits are finite, and they are those of
\* mxquant, or within the tolerance of fp32 where mxquant was skipped or has no answer.
THEOREM ZeroIsPassHolds == Spec => []ZeroIsPass
<1>1. CommandInv => ZeroIsPass
  <2> SUFFICES ASSUME CommandInv, pc = "done", exit = 0, "evaluate" \in steps PROVE ZeroIsPass
    BY DEF ZeroIsPass
  <2>1. Graded /\ record.pass # "no"
    BY DEF CommandInv, ZeroInv
  <2>2. device.ran /\ Verdict
    BY <2>1 DEF Graded, DeviceHere, Recorded
  <2>3. thread["mxquant"] = "answered" <=> "quantize" \in steps /\ facts.model = "exact"
    BY <2>1 DEF Graded, ModelAnswers, Recorded, CommandInv, TypeOK, Facts
  <2> QED
    BY <2>2, <2>3 DEF ZeroIsPass, Verdict
<1> QED
  BY <1>1, Correct, PTL

\* Exit status 0: whatever was asked for but the cost is there, also the ELF of a target that is not run,
\* and mxquant's bits unless it models no such kernel and the device passed by fp32.
THEOREM ZeroIsCompleteHolds == Spec => []ZeroIsComplete
<1>1. CommandInv => ZeroIsComplete
  <2> SUFFICES ASSUME CommandInv, pc = "done", exit = 0, argv.flag = "none" PROVE ZeroIsComplete
    BY DEF ZeroIsComplete
  <2>1. CASE steps = {"compile"} /\ DeployedHere
    BY <2>1 DEF ZeroIsComplete, DeployedHere, Deployed
  <2>2. CASE Graded /\ ~NoAccuracy
    <3>1. "compile" \in steps => elf # {} /\ (argv.target # "spike" => "deployed" \in elf)
      BY <2>2 DEF Graded, DeployedHere, Deployed, DeviceHere
    <3>2. ASSUME "quantize" \in steps, thread["mxquant"] # "answered"
          PROVE  device.ran /\ record.tier = "fp32" /\ facts.model # "exact"
      <4>1. facts.model # "exact"
        BY <2>2, <3>2 DEF Graded, ModelAnswers, Recorded
      <4>2. "evaluate" \in steps
        BY <2>2, <3>2 DEF NoAccuracy, Graded, DeviceHere, Recorded, Tier
      <4>3. device.ran /\ record.tier = "fp32"
        BY <2>2, <3>2, <4>2 DEF Graded, DeviceHere, Recorded, Tier
      <4> QED
        BY <4>1, <4>3
    <3> QED
      BY <3>1, <3>2 DEF ZeroIsComplete
  <2> QED
    BY <2>1, <2>2 DEF CommandInv, ZeroInv
<1> QED
  BY <1>1, Correct, PTL

\* Exit status 1 is said of a device that differs, of an ELF that does not build or run, and by the two
\* lines that cannot be printed: never of a refused input or of another failure.
THEOREM OneIsFailureHolds == Spec => []OneIsFailure
<1>1. CommandInv => OneIsFailure
  BY DEF CommandInv, BlameInv, Blamed, Measured, OneIsFailure
<1> QED
  BY <1>1, Correct, PTL

\* The variables hold what they are declared to hold, the status among them.
THEOREM TypeCorrect == Spec => []TypeOK
<1>1. CommandInv => TypeOK
  BY DEF CommandInv
<1> QED
  BY <1>1, Correct, PTL

==============================================================================
