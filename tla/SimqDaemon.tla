----------------------------- MODULE SimqDaemon -----------------------------
(***************************************************************************)
(* The spool of sim/simq.py and the daemons that drain it.                 *)
(*                                                                         *)
(* The spool is a directory: pending/, running/ and done/ hold one JSON    *)
(* record per job, beside a pidfile and a stop file.  daemon_loop polls    *)
(* it from its main thread; every claimed job runs on a lane of a thread   *)
(* pool (_daemon_run).  Every file operation that another process can see  *)
(* is a step of its own; the operations a process does between two of them *)
(* belong to the second one.                                               *)
(*                                                                         *)
(* A job is a number: its id carries the time stamp spool_add gave it, so  *)
(* the order of the file names is the order of the numbers.  A record is   *)
(* "torn" between the truncation and the write of Path.write_text.         *)
(***************************************************************************)
EXTENDS Integers, FiniteSets

CONSTANTS NumJobs,   \* how many jobs are ever submitted
          Pids,      \* the processes that may become daemons, each once
          NoPid,     \* the pidfile is absent or unreadable
          Lanes,     \* --jobs
          IdleExit,  \* --idle-exit is not 0
          Faults     \* which faults the environment may inject

FaultKinds == {"crash", "raise", "oserror", "pidreuse", "slow"}

ASSUME JobsAssumption   == NumJobs \in Nat \ {0}
ASSUME LanesAssumption  == Lanes \in Nat \ {0}
ASSUME PidsAssumption   == NoPid \notin Pids
ASSUME IdleAssumption   == IdleExit \in BOOLEAN
ASSUME FaultsAssumption == Faults \subseteq FaultKinds

Jobs == 1 .. NumJobs

VARIABLES pending, running, \* the job records of pending/ and running/
          done,             \* the records of done/, which carry the verdict
          logs,             \* the jobs that have a log in logs/
          pidfile,          \* the pid in daemon.pid
          stopfile,         \* the stop file exists
          pc,               \* where each daemon's main thread is
          batch,            \* the jobs it still has to claim from its last glob
          current,          \* the job its main thread holds, 0 for none
          stage,            \* where each lane (daemon, job) is
          starts            \* history: how often each job's simulator was started

spoolVars  == <<pending, running, done, logs, pidfile, stopfile>>
daemonVars == <<pc, batch, current, stage, starts>>

Records  == {"absent", "torn", "ok"}
RunVerdicts == {"RAN", "ERROR"}
Verdicts == RunVerdicts \cup {"NO-BUILD"}
Stages   == {"idle", "stamp", "stamping", "run", "sim", "finish", "writing", "unlink"}

(***************************************************************************)
(* "off": not started;  "boot": started, pidfile not written yet;          *)
(* "dead": gone;  "foreign": gone, and its pid now names a process that    *)
(* is no daemon.  The others are the points of daemon_loop's main thread.  *)
(***************************************************************************)
LoopPoints == {"top", "unstop", "scan", "idle", "loop", "claim", "read", "elab",
               "inline", "drain", "unpid"}
PCs == {"off", "boot", "dead", "foreign"} \cup LoopPoints

In(dir) == {j \in Jobs : dir[j] # "absent"}

\* run_job's verdicts (classify's four outcomes are one here) and the except branch of
\* _daemon_run; main's inline spool_finish only ever writes NO-BUILD.
VerdictsOf(d, j) == IF pc[d] = "inline" /\ current[d] = j THEN {"NO-BUILD"} ELSE RunVerdicts

\* daemon_alive: the pid in the pidfile, if some process has it.
Exists(p)   == pc[p] \notin {"off", "dead"}
DaemonAlive == IF pidfile \in Pids /\ Exists(pidfile) THEN pidfile ELSE NoPid

\* The futures not yet done.
InFlight(d) == {j \in Jobs : stage[d][j] # "idle"}

\* What the process d works on; it is the only one that may touch these records.
Holds(d, j) == current[d] = j \/ stage[d][j] # "idle"

\* sorted(...)[:n], as a set, and the order in which it is walked.
Oldest(S, n) == {j \in S : Cardinality({i \in S : i <= j}) <= n}

IsLast(j, S)  == \A i \in S : i <= j   \* Mutant of IsFirst: the newest first.
IsFirst(j, S) == \A i \in S : j <= i

\* Mutants of GlobPending: the lanes in use are not counted, or one lane too many is.
GlobForAllLanes(d) == Oldest(In(pending), Lanes)
GlobOneShort(d) ==
  LET free == Lanes - Cardinality(InFlight(d)) - 1
  IN  IF free > 0 THEN Oldest(In(pending), free) ELSE {}

\* sorted(PENDING.glob("*.json"))[:max(free, 0)]
GlobPending(d) ==
  LET free == Lanes - Cardinality(InFlight(d))
  IN  IF free > 0 THEN Oldest(In(pending), free) ELSE {}

\* Mutants of the two ends of a rename: a copy, and a file lost on the way.
SourceKept(dir, j) == dir
TargetLost(dir, from, j) == dir

\* What a rename of j's record from the directory from to the directory dir leaves in each.
RenameSource(from, j)      == [from EXCEPT ![j] = "absent"]
RenameTarget(dir, from, j) == [dir EXCEPT ![j] = from[j]]

Init ==
  /\ pending = [j \in Jobs |-> "absent"]
  /\ running = [j \in Jobs |-> "absent"]
  /\ done    = [j \in Jobs |-> "absent"]
  /\ logs = {}
  /\ pidfile = NoPid
  /\ stopfile = FALSE
  /\ pc      = [d \in Pids |-> "off"]
  /\ batch   = [d \in Pids |-> {}]
  /\ current = [d \in Pids |-> 0]
  /\ stage   = [d \in Pids |-> [j \in Jobs |-> "idle"]]
  /\ starts  = [j \in Jobs |-> 0]

Goto(d, from, to) == pc[d] = from /\ pc' = [pc EXCEPT ![d] = to]

-----------------------------------------------------------------------------
(***************************************************************************)
(* daemon_loop, the main thread.                                           *)
(***************************************************************************)
WritePidfile(d) ==
  /\ Goto(d, "boot", "top")
  /\ pidfile' = d
  /\ UNCHANGED <<pending, running, done, logs, stopfile, batch, current, stage, starts>>

\* The stop file is looked for at the head of the loop ...
CheckStop(d) ==
  /\ Goto(d, "top", IF stopfile THEN "unstop" ELSE "scan")
  /\ UNCHANGED <<spoolVars, batch, current, stage, starts>>

\* Mutant of TakeStop: the break is forgotten.
TakeStopAndGoOn(d) ==
  /\ Goto(d, "unstop", "top")
  /\ stopfile' = FALSE
  /\ UNCHANGED <<pending, running, done, logs, pidfile, batch, current, stage, starts>>

\* ... and unlinked by whoever saw it (missing_ok: another daemon may have been faster).
TakeStop(d) ==
  /\ Goto(d, "unstop", "drain")
  /\ stopfile' = FALSE
  /\ UNCHANGED <<pending, running, done, logs, pidfile, batch, current, stage, starts>>

\* Claim only what there is a free lane for; with nothing to claim, sleep or consider leaving.
Scan(d) ==
  LET glob == GlobPending(d) IN
  /\ Goto(d, "scan", IF glob # {} THEN "loop" ELSE IF InFlight(d) = {} THEN "idle" ELSE "top")
  /\ batch' = [batch EXCEPT ![d] = glob]
  /\ UNCHANGED <<spoolVars, current, stage, starts>>

\* idle_for > args.idle_exit (how long it was idle is left open) and a second glob is empty.
LeaveIdle(d) ==
  /\ IdleExit
  /\ In(pending) = {}
  /\ Goto(d, "idle", "drain")
  /\ UNCHANGED <<spoolVars, batch, current, stage, starts>>

Sleep(d) ==
  /\ Goto(d, "idle", "top")
  /\ UNCHANGED <<spoolVars, batch, current, stage, starts>>

\* for p in pend: the stop file is looked for again before each claim.
NextInBatch(d) ==
  LET over == batch[d] = {} \/ stopfile IN
  /\ Goto(d, "loop", IF over THEN "top" ELSE "claim")
  /\ batch' = [batch EXCEPT ![d] = IF over THEN {} ELSE batch[d]]
  /\ UNCHANGED <<spoolVars, current, stage, starts>>

\* spool_claim: one rename, which fails if the record is gone.
SpoolClaim(d) ==
  /\ pc[d] = "claim"
  /\ \E j \in batch[d] :
       /\ IsFirst(j, batch[d])
       /\ batch' = [batch EXCEPT ![d] = @ \ {j}]
       /\ IF pending[j] = "absent"
            THEN /\ pc' = [pc EXCEPT ![d] = "loop"]
                 /\ UNCHANGED <<pending, running, current>>
            ELSE /\ pc' = [pc EXCEPT ![d] = "read"]
                 /\ running' = RenameTarget(running, pending, j)
                 /\ pending' = RenameSource(pending, j)
                 /\ current' = [current EXCEPT ![d] = j]
  /\ UNCHANGED <<done, logs, pidfile, stopfile, stage, starts>>

\* The claimed record is read back.  Torn: it is retired to done/ as it is.  Gone (someone moved or
\* removed it meanwhile): the rename in the except branch raises, out of the loop.
SpoolRead(d) ==
  LET j == current[d] IN
  /\ pc[d] = "read"
  /\ CASE running[j] = "ok" ->
            pc' = [pc EXCEPT ![d] = "elab"] /\ UNCHANGED <<running, done, current>>
       [] running[j] = "torn" ->
            /\ pc' = [pc EXCEPT ![d] = "loop"]
            /\ current' = [current EXCEPT ![d] = 0]
            /\ running' = [running EXCEPT ![j] = "absent"]
            /\ done' = [done EXCEPT ![j] = "torn"]
       [] OTHER ->
            /\ pc' = [pc EXCEPT ![d] = "drain"]
            /\ current' = [current EXCEPT ![d] = 0]
            /\ UNCHANGED <<running, done>>
  /\ UNCHANGED <<pending, logs, pidfile, stopfile, batch, stage, starts>>

\* elaborate made the configuration ready: pool.submit(_daemon_run, ...).
ElaborateReady(d) ==
  /\ Goto(d, "elab", "loop")
  /\ stage' = [stage EXCEPT ![d][current[d]] = "stamp"]
  /\ current' = [current EXCEPT ![d] = 0]
  /\ UNCHANGED <<spoolVars, batch, starts>>

\* It did not: the main thread finishes the job itself, as NO-BUILD ...
ElaborateNotReady(d) ==
  /\ Goto(d, "elab", "inline")
  /\ stage' = [stage EXCEPT ![d][current[d]] = "finish"]
  /\ UNCHANGED <<spoolVars, batch, current, starts>>

\* ... and goes on with the batch.
InlineDone(d) ==
  /\ Goto(d, "inline", "loop")
  /\ stage[d][current[d]] = "idle"
  /\ current' = [current EXCEPT ![d] = 0]
  /\ UNCHANGED <<spoolVars, batch, stage, starts>>

\* An exception in elaborate leaves the loop with the claim in running/.
ElaborateRaises(d) ==
  /\ "raise" \in Faults
  /\ Goto(d, "elab", "drain")
  /\ current' = [current EXCEPT ![d] = 0]
  /\ UNCHANGED <<spoolVars, batch, stage, starts>>

\* Mutant of PoolShutdown: wait=False, and the lanes die with the process.
PoolShutdownNoWait(d) ==
  /\ Goto(d, "drain", "unpid")
  /\ stage' = [stage EXCEPT ![d] = [j \in Jobs |-> "idle"]]
  /\ batch' = [batch EXCEPT ![d] = {}]
  /\ UNCHANGED <<spoolVars, current, starts>>

\* finally: pool.shutdown(wait=True), then the pidfile goes, whoever's pid is in it.
PoolShutdown(d) ==
  /\ InFlight(d) = {}
  /\ Goto(d, "drain", "unpid")
  /\ batch' = [batch EXCEPT ![d] = {}]
  /\ UNCHANGED <<spoolVars, current, stage, starts>>

UnlinkPidfile(d) ==
  /\ Goto(d, "unpid", "dead")
  /\ pidfile' = NoPid
  /\ UNCHANGED <<pending, running, done, logs, stopfile, batch, current, stage, starts>>

MainThread(d) ==
  \/ WritePidfile(d) \/ CheckStop(d) \/ TakeStop(d) \/ Scan(d) \/ LeaveIdle(d) \/ Sleep(d)
  \/ NextInBatch(d) \/ SpoolClaim(d) \/ SpoolRead(d)
  \/ ElaborateReady(d) \/ ElaborateNotReady(d) \/ InlineDone(d)
  \/ PoolShutdown(d) \/ UnlinkPidfile(d)

-----------------------------------------------------------------------------
(***************************************************************************)
(* _daemon_run on a lane, and spool_finish wherever it runs.               *)
(***************************************************************************)
Advance(d, j, from, to) ==
  /\ stage[d][j] = from
  /\ stage' = [stage EXCEPT ![d][j] = to]

\* The running record is rewritten with "started": truncated, then written.
StampOpen(d, j) ==
  /\ Advance(d, j, "stamp", "stamping")
  /\ running' = [running EXCEPT ![j] = "torn"]
  /\ UNCHANGED <<pending, done, logs, pidfile, stopfile, pc, batch, current, starts>>

\* The write goes to the file that was opened, wherever it is now.
StampWrite(d, j) ==
  /\ Advance(d, j, "stamping", "run")
  /\ running' = [running EXCEPT ![j] = IF @ = "torn" THEN "ok" ELSE @]
  /\ pending' = [pending EXCEPT ![j] = IF @ = "torn" /\ running[j] # "torn" THEN "ok" ELSE @]
  /\ UNCHANGED <<done, logs, pidfile, stopfile, pc, batch, current, starts>>

\* except OSError: pass.
StampFails(d, j) ==
  /\ "oserror" \in Faults
  /\ Advance(d, j, "stamp", "run") \/ Advance(d, j, "stamping", "run")
  /\ UNCHANGED <<spoolVars, pc, batch, current, starts>>

\* run_job opens the log and starts the simulator.
RunJob(d, j) ==
  /\ Advance(d, j, "run", "sim")
  /\ logs' = logs \cup {j}
  /\ starts' = [starts EXCEPT ![j] = @ + 1]
  /\ UNCHANGED <<pending, running, done, pidfile, stopfile, pc, batch, current>>

\* It ends or is killed at its timeout; a raising run_job becomes the verdict ERROR.
SimEnds(d, j) ==
  /\ Advance(d, j, "sim", "finish")
  /\ UNCHANGED <<spoolVars, pc, batch, current, starts>>

\* Mutant of FinishOpen: the claim is unlinked before the verdict is on disk.
FinishUnlinksFirst(d, j) ==
  /\ Advance(d, j, "finish", "writing")
  /\ done' = [done EXCEPT ![j] = "torn"]
  /\ running' = [running EXCEPT ![j] = "absent"]
  /\ UNCHANGED <<pending, logs, pidfile, stopfile, pc, batch, current, starts>>

\* spool_finish: the done record is truncated, then written, then the claim is unlinked.
FinishOpen(d, j) ==
  /\ Advance(d, j, "finish", "writing")
  /\ done' = [done EXCEPT ![j] = "torn"]
  /\ UNCHANGED <<pending, running, logs, pidfile, stopfile, pc, batch, current, starts>>

\* Mutant of FinishWrite: the record as it was claimed, without the verdict.
FinishWithoutVerdict(d, j) ==
  /\ Advance(d, j, "writing", "unlink")
  /\ done' = [done EXCEPT ![j] = running[j]]
  /\ UNCHANGED <<pending, running, logs, pidfile, stopfile, pc, batch, current, starts>>

FinishWrite(d, j) ==
  /\ Advance(d, j, "writing", "unlink")
  /\ \E v \in VerdictsOf(d, j) : done' = [done EXCEPT ![j] = IF @ = "torn" THEN v ELSE @]
  /\ UNCHANGED <<pending, running, logs, pidfile, stopfile, pc, batch, current, starts>>

FinishUnlink(d, j) ==
  /\ Advance(d, j, "unlink", "idle")
  /\ running' = [running EXCEPT ![j] = "absent"]
  /\ UNCHANGED <<pending, done, logs, pidfile, stopfile, pc, batch, current, starts>>

\* An OSError in spool_finish: on a lane the future swallows it, in the main thread it leaves the loop.
FinishFails(d, j) ==
  /\ "oserror" \in Faults
  /\ Advance(d, j, "finish", "idle") \/ Advance(d, j, "writing", "idle")
  /\ IF pc[d] = "inline"  /\ current[d] = j
       THEN pc' = [pc EXCEPT ![d] = "drain"] /\ current' = [current EXCEPT ![d] = 0]
       ELSE UNCHANGED <<pc, current>>
  /\ UNCHANGED <<spoolVars, batch, starts>>

Lane(d, j) ==
  \/ StampOpen(d, j) \/ StampWrite(d, j) \/ RunJob(d, j) \/ SimEnds(d, j)
  \/ FinishOpen(d, j) \/ FinishWrite(d, j) \/ FinishUnlink(d, j)

LaneFault(d, j) == StampFails(d, j) \/ FinishFails(d, j)

-----------------------------------------------------------------------------
(***************************************************************************)
(* What can end a daemon from outside.                                     *)
(***************************************************************************)
Terminated(d) ==
  /\ pc' = [pc EXCEPT ![d] = "dead"]
  /\ batch' = [batch EXCEPT ![d] = {}]
  /\ current' = [current EXCEPT ![d] = 0]
  /\ stage' = [stage EXCEPT ![d] = [j \in Jobs |-> "idle"]]

\* The process and its simulators die at any point (the host goes down).
Crash(d) ==
  /\ "crash" \in Faults
  /\ pc[d] \in {"boot"} \cup LoopPoints
  /\ Terminated(d)
  /\ UNCHANGED <<spoolVars, starts>>

\* The system gives the pid of a dead daemon to another process.
PidReuse(d) ==
  /\ "pidreuse" \in Faults
  /\ Goto(d, "dead", "foreign")
  /\ UNCHANGED <<spoolVars, batch, current, stage, starts>>

DaemonNext == \E d \in Pids :
  \/ MainThread(d) \/ ElaborateRaises(d) \/ Crash(d) \/ PidReuse(d)
  \/ \E j \in Jobs : Lane(d, j) \/ LaneFault(d, j)
=============================================================================
