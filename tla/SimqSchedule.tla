---------------------------- MODULE SimqSchedule ----------------------------
(***************************************************************************)
(* schedule() of sim/simq.py, the blocking form of a run (--wait): one     *)
(* builder thread elaborates the configs in the order in which the jobs    *)
(* name them, and feeds a queue that the runner threads drain; main joins  *)
(* them all, and the exit status is drawn from the verdicts.               *)
(***************************************************************************)
EXTENDS Integers, Sequences, FiniteSets

CONSTANTS NumJobs,    \* how many jobs the command names
          NumConfigs, \* over how many configs
          Lanes,      \* the runner threads, --jobs of them
          SameName,   \* whether binaries of one file name may come from several directories
          Faults      \* which threads may die of an exception

ASSUME NumJobsAssumption   == NumJobs \in Nat \ {0}
ASSUME ConfigsAssumption   == NumConfigs \in Nat \ {0}
ASSUME LanesAssumption     == IsFiniteSet(Lanes) /\ Lanes # {}
ASSUME SameNameAssumption  == SameName \in BOOLEAN
ASSUME FaultsAssumption    == Faults \subseteq {"builder", "runner"}

Jobs    == 1 .. NumJobs
Configs == 1 .. NumConfigs
None    == 0   \* the sentinel, one for each lane

VARIABLES buildOnly, \* args.build_only
          configOf,  \* which config each job is for
          nameOf,    \* the file name of its binary
          onDisk,    \* the configs _decide says reuse for
          built,     \* the configs elaborate() returned for
          ready,     \* and those that have a simulator
          toPut,     \* the jobs of a ready config the builder still has to enqueue
          sentinels, \* how many sentinels it still has to enqueue
          builder,   \* where the builder thread is
          runq,      \* the run queue
          lane,      \* where each runner thread is
          job,       \* the job it runs
          file,      \* the log files: whose marks are in them
          verdict,   \* Job.verdict
          said,      \* history: the marks each job's run wrote
          runs,      \* history: how often it was run
          main       \* where main is

given   == <<buildOnly, configOf, nameOf, onDisk>>
build   == <<built, ready, toPut, sentinels, builder>>
outcome == <<file, verdict, said>>
vars    == <<given, build, runq, lane, job, outcome, runs, main>>

Marks    == {"PASSED", "FAILED", "TIMEOUT"}
Verdicts == {"PENDING", "NO-BUILD", "TIMEOUT", "FAIL", "PASS", "NO-VERDICT"}
Files    == Configs \X Jobs

\* Job.log, named after the config and the binary's file name.
LogOf(j) == <<configOf[j], nameOf[j]>>

\* The commands parse_jobs can make of NumJobs specs: any config for any job. Its key is the
\* binary's path, so that two jobs may have one file name; distinct names may as well be 1, 2, 3...
Init ==
  /\ buildOnly \in BOOLEAN
  /\ configOf \in [Jobs -> Configs]
  /\ nameOf \in IF SameName THEN [Jobs -> Jobs] ELSE {[j \in Jobs |-> j]}
  /\ onDisk \in SUBSET Configs
  /\ built = {} /\ ready = {}
  /\ toPut = {}
  /\ sentinels = 0
  /\ builder = "elaborate"
  /\ runq = <<>>
  /\ lane = [l \in Lanes |-> "get"]
  /\ job = [l \in Lanes |-> None]
  /\ file = [f \in Files |-> {}]
  /\ verdict = [j \in Jobs |-> "PENDING"]
  /\ said = [j \in Jobs |-> {}]
  /\ runs = [j \in Jobs |-> 0]
  /\ main = "builder"

First(S) == CHOOSE j \in S : \A k \in S : j <= k

-----------------------------------------------------------------------------
(***************************************************************************)
(* The builder.                                                            *)
(***************************************************************************)
Unbuilt == {j \in Jobs : configOf[j] \notin built}

\* The config the loop "for name in order" is at: order is that of first appearance.
Current == configOf[First(Unbuilt)]

\* by_config[name].
OfConfig(c) == {j \in Jobs : configOf[j] = c}

\* elaborate() returned with cfg.ready.
Ready(c) ==
  /\ built' = built \cup {c}
  /\ ready' = ready \cup {c}
  /\ toPut' = IF buildOnly THEN {} ELSE OfConfig(c)
  /\ builder' = IF buildOnly THEN "elaborate" ELSE "put"
  /\ UNCHANGED verdict

\* It returned without: the simulator is stale, or make failed.
NoBuild(c) ==
  /\ built' = built \cup {c}
  /\ verdict' = [j \in Jobs |-> IF configOf[j] = c THEN "NO-BUILD" ELSE verdict[j]]
  /\ builder' = "elaborate"
  /\ UNCHANGED <<ready, toPut>>

\* elaborate(): a simulator that is there is taken, one that is not is refused or made.
BuildNext ==
  /\ builder = "elaborate"
  /\ Unbuilt # {}
  /\ \/ Current \in onDisk /\ Ready(Current)
     \/ Current \notin onDisk /\ NoBuild(Current)
     \/ /\ Current \notin onDisk
        /\ builder' = "making"
        /\ UNCHANGED <<built, ready, toPut, verdict>>
  /\ UNCHANGED <<given, sentinels, runq, lane, job, file, said, runs, main>>

MakeEnds ==
  /\ builder = "making"
  /\ Ready(Current) \/ NoBuild(Current)
  /\ UNCHANGED <<given, sentinels, runq, lane, job, file, said, runs, main>>

\* runq.put(j).
PutJob ==
  /\ builder = "put"
  /\ IF toPut = {}
       THEN builder' = "elaborate" /\ UNCHANGED <<toPut, runq>>
       ELSE /\ runq' = Append(runq, First(toPut))
            /\ toPut' = toPut \ {First(toPut)}
            /\ UNCHANGED builder
  /\ UNCHANGED <<given, built, ready, sentinels, lane, job, outcome, runs, main>>

\* Mutant of BuildersEnd: one sentinel stops them all.
OneSentinel ==
  /\ builder = "elaborate"
  /\ Unbuilt = {}
  /\ builder' = "sentinels"
  /\ sentinels' = 1
  /\ UNCHANGED <<given, built, ready, toPut, runq, lane, job, outcome, runs, main>>

\* for _ in range(args.jobs): once every config was seen.
BuildersEnd ==
  /\ builder = "elaborate"
  /\ Unbuilt = {}
  /\ builder' = "sentinels"
  /\ sentinels' = Cardinality(Lanes)
  /\ UNCHANGED <<given, built, ready, toPut, runq, lane, job, outcome, runs, main>>

\* runq.put(None).
PutNone ==
  /\ builder = "sentinels"
  /\ IF sentinels = 0
       THEN builder' = "ended" /\ UNCHANGED <<sentinels, runq>>
       ELSE /\ runq' = Append(runq, None)
            /\ sentinels' = sentinels - 1
            /\ UNCHANGED builder
  /\ UNCHANGED <<given, built, ready, toPut, lane, job, outcome, runs, main>>

\* elaborate raises (no make on PATH, no room for the build log): the thread is gone.
BuilderRaises ==
  /\ "builder" \in Faults
  /\ builder \in {"elaborate", "making"}
  /\ Unbuilt # {}
  /\ builder' = "dead"
  /\ UNCHANGED <<given, built, ready, toPut, sentinels, runq, lane, job, outcome, runs, main>>

Builder == BuildNext \/ MakeEnds \/ PutJob \/ BuildersEnd \/ PutNone

-----------------------------------------------------------------------------
(***************************************************************************)
(* The runners.                                                            *)
(***************************************************************************)
\* Mutant of Classify: a summary line decides, whatever else the log says.
ClassifyPassFirst(marks) ==
  CASE "PASSED" \in marks -> "PASS"
    [] "PASSED" \notin marks /\ "TIMEOUT" \in marks -> "TIMEOUT"
    [] "PASSED" \notin marks /\ "TIMEOUT" \notin marks /\ "FAILED" \in marks -> "FAIL"
    [] OTHER -> "NO-VERDICT"

\* classify, of what the log contains below its first line.
Classify(marks) ==
  CASE "TIMEOUT" \in marks -> "TIMEOUT"
    [] "TIMEOUT" \notin marks /\ "FAILED" \in marks -> "FAIL"
    [] marks = {"PASSED"} -> "PASS"
    [] OTHER -> "NO-VERDICT"

\* runq.get(), which blocks on an empty queue; a lane leaves on a sentinel.
Get(l) ==
  /\ lane[l] = "get"
  /\ runq # <<>>
  /\ runq' = Tail(runq)
  /\ lane' = [lane EXCEPT ![l] = IF Head(runq) = None THEN "exited" ELSE "run"]
  /\ job' = [job EXCEPT ![l] = Head(runq)]
  /\ runs' = [j \in Jobs |-> IF j = Head(runq) THEN runs[j] + 1 ELSE runs[j]]
  /\ UNCHANGED <<given, build, outcome, main>>

\* run_job: open(log, "w").
RunOpens(l) ==
  /\ lane[l] = "run"
  /\ lane' = [lane EXCEPT ![l] = "sim"]
  /\ file' = [file EXCEPT ![LogOf(job[l])] = {}]
  /\ UNCHANGED <<given, build, runq, job, verdict, said, runs, main>>

\* A mark of job j goes to its log, at the offset of j's own descriptor: whatever a run that
\* shares the file has put there may be overwritten.
WriteMark(j, m) ==
  /\ said' = [said EXCEPT ![j] = @ \cup {m}]
  /\ \E lost \in SUBSET {w \in file[LogOf(j)] : w[1] # j} :
       file' = [file EXCEPT ![LogOf(j)] = (@ \ lost) \cup {<<j, m>>}]

\* The simulator prints a verdict; it may print both.
SimPrints(l) ==
  /\ lane[l] = "sim"
  /\ \E m \in {"PASSED", "FAILED"} \ said[job[l]] : WriteMark(job[l], m)
  /\ UNCHANGED <<given, build, runq, lane, job, verdict, runs, main>>

\* It ends, or is killed at its timeout, and run_job says so in the log.
SimEnds(l) ==
  /\ lane[l] = "sim"
  /\ lane' = [lane EXCEPT ![l] = "classify"]
  /\ \/ UNCHANGED <<file, said>>
     \/ WriteMark(job[l], "TIMEOUT")
  /\ UNCHANGED <<given, build, runq, job, verdict, runs, main>>

\* classify reads the log back by its name.
RunClassifies(l) ==
  /\ lane[l] = "classify"
  /\ lane' = [lane EXCEPT ![l] = "get"]
  /\ verdict' = [verdict EXCEPT ![job[l]] = Classify({w[2] : w \in file[LogOf(job[l])]})]
  /\ UNCHANGED <<given, build, runq, job, file, said, runs, main>>

\* run_job raises (the simulator was removed): finally: runq.task_done(), and the thread is gone.
RunRaises(l) ==
  /\ "runner" \in Faults
  /\ lane[l] = "run"
  /\ lane' = [lane EXCEPT ![l] = "dead"]
  /\ UNCHANGED <<given, build, runq, job, outcome, runs, main>>

Runner(l) == Get(l) \/ RunOpens(l) \/ SimEnds(l) \/ RunClassifies(l)

-----------------------------------------------------------------------------
(***************************************************************************)
(* main.                                                                   *)
(***************************************************************************)
\* Mutant of JoinRunners: it joins the builder only.
JoinNoRunner ==
  /\ main = "runners"
  /\ main' = "returned"
  /\ UNCHANGED <<given, build, runq, lane, job, outcome, runs>>

\* bt.join()
JoinBuilder ==
  /\ main = "builder"
  /\ builder \in {"ended", "dead"}
  /\ main' = "runners"
  /\ UNCHANGED <<given, build, runq, lane, job, outcome, runs>>

\* r.join(), for every runner
JoinRunners ==
  /\ main = "runners"
  /\ \A l \in Lanes : lane[l] \in {"exited", "dead"}
  /\ main' = "returned"
  /\ UNCHANGED <<given, build, runq, lane, job, outcome, runs>>

\* The summary: any verdict but PASS is a failure.
ExitStatus == IF \E j \in Jobs : verdict[j] # "PASS" THEN 1 ELSE 0

Next ==
  \/ Builder \/ BuilderRaises
  \/ \E l \in Lanes : Runner(l) \/ SimPrints(l) \/ RunRaises(l)
  \/ JoinBuilder \/ JoinRunners

Spec == Init /\ [][Next]_vars

\* Every thread that can go on does; a simulator ends or is killed at its timeout, make ends.
Fairness == /\ WF_vars(Builder)
            /\ \A l \in Lanes : WF_vars(Runner(l))
            /\ WF_vars(JoinBuilder \/ JoinRunners)

FairSpec == Spec /\ Fairness

-----------------------------------------------------------------------------
Queued == {runq[i] : i \in 1 .. Len(runq)}

\* Every variable holds what its thread can put there; a lane that runs has a job, and the
\* builder never owes more sentinels than there are lanes.
TypeOK ==
  /\ buildOnly \in BOOLEAN
  /\ configOf \in [Jobs -> Configs] /\ nameOf \in [Jobs -> Jobs] /\ onDisk \subseteq Configs
  /\ ready \subseteq built /\ built \subseteq Configs
  /\ toPut \subseteq Jobs
  /\ sentinels \in 0 .. Cardinality(Lanes)
  /\ builder \in {"elaborate", "making", "put", "sentinels", "ended", "dead"}
  /\ runq \in Seq(Jobs \cup {None})
  /\ lane \in [Lanes -> {"get", "run", "sim", "classify", "exited", "dead"}]
  /\ job \in [Lanes -> Jobs \cup {None}]
  /\ \A l \in Lanes : lane[l] \notin {"get", "exited"} => job[l] \in Jobs
  /\ file \in [Files -> SUBSET (Jobs \X Marks)]
  /\ verdict \in [Jobs -> Verdicts]
  /\ said \in [Jobs -> SUBSET Marks]
  /\ runs \in [Jobs -> Nat]
  /\ main \in {"builder", "runners", "returned"}

\* "Exit status is 0 only if every job reached a PASS verdict": then every job was run, once, and
\* what its own run wrote is PASSED and nothing worse, even if threads died on the way.
ExitZeroIsPass ==
  main = "returned" /\ ExitStatus = 0 => \A j \in Jobs : runs[j] = 1 /\ said[j] = {"PASSED"}

\* "Block until every job finishes": when schedule returns, every job has its outcome, but for those
\* whose lane died under them, or those of all the lanes that died.
AllFinished ==
  main = "returned" /\ ~buildOnly /\ builder = "ended" /\ (\E l \in Lanes : lane[l] = "exited")
    => \A j \in Jobs : \/ verdict[j] # "PENDING"
                       \/ \E l \in Lanes : lane[l] = "dead" /\ job[l] = j

\* schedule returns, however many of its runner threads died, unless its builder thread did.
ReturnsUnlessBuilderDies == <>(main = "returned" \/ builder = "dead")

=============================================================================
