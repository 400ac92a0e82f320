-------------------------------- MODULE Simq --------------------------------
(***************************************************************************)
(* sim/simq.py: the daemons of SimqDaemon together with the commands users *)
(* type against the same spool.  A command is a short-lived process: it    *)
(* reads the spool and the pidfile, and acts on what it read while daemons *)
(* and other commands go on.                                               *)
(***************************************************************************)
EXTENDS SimqDaemon

CONSTANTS Clients,   \* the terminals commands are typed in
          Commands,  \* the commands the environment types
          NoStart    \* the values --no-start takes

CommandNames == {"add", "daemon", "foreground", "stop", "stop-now", "drain", "cancel",
                 "clear", "clear-logs", "clear-all", "requeue"}

ASSUME CommandsAssumption == Commands \subseteq CommandNames
ASSUME NoStartAssumption  == NoStart \subseteq BOOLEAN

VARIABLES nextId,   \* the next time stamp spool_add gives
          cpc,      \* where each command is
          cpid,     \* the pid its daemon_alive() returned
          clive,    \* clear: the ids found in running/
          files,    \* the <<directory, job>> pairs it still has to act on
          asked     \* history: the daemons a stop request was meant for

clientVars == <<nextId, cpc, cpid, clive, files, asked>>
vars == <<spoolVars, daemonVars, clientVars>>

Dirs == {"pending", "running", "done", "logs"}
ClientPCs == {"prompt", "publish", "added", "start", "spawn", "wait", "touch", "kill", "unpid",
              "live", "live-all", "logs", "logs-all", "orphans", "unlink", "mv"}

SimqInit ==
  /\ Init
  /\ nextId = 1
  /\ cpc   = [c \in Clients |-> "prompt"]
  /\ cpid  = [c \in Clients |-> NoPid]
  /\ clive = [c \in Clients |-> {}]
  /\ files = [c \in Clients |-> {}]
  /\ asked = {}

Step(c, from, to) == cpc[c] = from /\ cpc' = [cpc EXCEPT ![c] = to]
Type(c, command, to) == command \in Commands /\ Step(c, "prompt", to)

-----------------------------------------------------------------------------
(***************************************************************************)
(* add and daemon.                                                         *)
(***************************************************************************)
\* spool_add stamps one job after the other; a command queues one job or several.
SpoolStamp(c) ==
  /\ nextId \in Jobs
  /\ Type(c, "add", "publish") \/ Step(c, "added", "publish")
  /\ nextId' = nextId + 1
  /\ files' = [files EXCEPT ![c] = {<<"pending", nextId>>}]
  /\ UNCHANGED <<spoolVars, daemonVars, cpid, clive, asked>>

\* tmp.rename: the complete record appears at once.
SpoolPublish(c) ==
  /\ Step(c, "publish", "added")
  /\ \E j \in Jobs : /\ <<"pending", j>> \in files[c]
                     /\ pending' = [pending EXCEPT ![j] = "ok"]
  /\ files' = [files EXCEPT ![c] = {}]
  /\ UNCHANGED <<running, done, logs, pidfile, stopfile, daemonVars, nextId, cpid, clive, asked>>

\* if not daemon_alive() and not args.no_start: daemon_start(args)
AddStart(c) ==
  /\ \E noStart \in NoStart :
        Step(c, "added", IF DaemonAlive = NoPid /\ ~noStart THEN "start" ELSE "prompt")
  /\ UNCHANGED <<spoolVars, daemonVars, nextId, cpid, clive, files, asked>>

\* daemon_start, from add or typed as `daemon`, looks once more ...
DaemonStart(c) ==
  /\ \/ Type(c, "daemon", IF DaemonAlive = NoPid THEN "spawn" ELSE "prompt")
     \/ Step(c, "start",  IF DaemonAlive = NoPid THEN "spawn" ELSE "prompt")
  /\ UNCHANGED <<spoolVars, daemonVars, nextId, cpid, clive, files, asked>>

\* Mutant of DaemonSpawn: it does not wait for the pidfile.
DaemonSpawnNoWait(c) ==
  /\ Step(c, "spawn", "prompt")
  /\ \E d \in Pids : Goto(d, "off", "boot")
  /\ UNCHANGED <<spoolVars, batch, current, stage, starts, nextId, cpid, clive, files, asked>>

\* ... starts a process, and waits for its pidfile: for five seconds, which are over when the process
\* has died or left meanwhile, or (fault "slow") while it is still on its way.
DaemonSpawn(c) ==
  /\ Step(c, "spawn", "wait")
  /\ \E d \in Pids : Goto(d, "off", "boot")
  /\ UNCHANGED <<spoolVars, batch, current, stage, starts, nextId, cpid, clive, files, asked>>

DaemonWait(c) ==
  /\ DaemonAlive # NoPid \/ "slow" \in Faults \/ \A d \in Pids : pc[d] # "boot"
  /\ Step(c, "wait", "prompt")
  /\ UNCHANGED <<spoolVars, daemonVars, nextId, cpid, clive, files, asked>>

\* `daemon --foreground` runs daemon_loop without looking.
DaemonForeground(c) ==
  /\ Type(c, "foreground", "prompt")
  /\ \E d \in Pids : Goto(d, "off", "boot")
  /\ UNCHANGED <<spoolVars, batch, current, stage, starts, nextId, cpid, clive, files, asked>>

-----------------------------------------------------------------------------
(***************************************************************************)
(* stop and stop --now.                                                    *)
(***************************************************************************)
StopProbe(c) ==
  /\ DaemonAlive # NoPid
  /\ Type(c, "stop", "touch") \/ Type(c, "stop-now", "kill")
  /\ cpid' = [cpid EXCEPT ![c] = DaemonAlive]
  /\ UNCHANGED <<spoolVars, daemonVars, nextId, clive, files, asked>>

StopTouch(c) ==
  /\ Step(c, "touch", "prompt")
  /\ stopfile' = TRUE
  /\ asked' = asked \cup {cpid[c]}
  /\ cpid' = [cpid EXCEPT ![c] = NoPid]
  /\ UNCHANGED <<pending, running, done, logs, pidfile, daemonVars, nextId, clive, files>>

\* SIGTERM to the process group of that pid: Python dies without running its finally clause.
StopKill(c) ==
  /\ Step(c, "kill", "unpid")
  /\ IF Exists(cpid[c]) THEN Terminated(cpid[c]) ELSE UNCHANGED <<pc, batch, current, stage>>
  /\ UNCHANGED <<spoolVars, starts, nextId, cpid, clive, files, asked>>

\* After polling daemon_alive() for at most five seconds.
StopUnpid(c) ==
  /\ Step(c, "unpid", "prompt")
  /\ pidfile' = NoPid
  /\ cpid' = [cpid EXCEPT ![c] = NoPid]
  /\ UNCHANGED <<pending, running, done, logs, stopfile, daemonVars, nextId, clive, files, asked>>

-----------------------------------------------------------------------------
(***************************************************************************)
(* drain, cancel and clear: list files, then unlink what was listed.       *)
(***************************************************************************)
FilesIn(dir, S) == {dir} \X S

\* drain takes the whole of pending/, cancel the ids it was given.
DropList(c) ==
  /\ \/ /\ Type(c, "drain", "unlink")
        /\ files' = [files EXCEPT ![c] = FilesIn("pending", In(pending))]
     \/ /\ Type(c, "cancel", "unlink")
        /\ \E wanted \in SUBSET In(pending) :
             files' = [files EXCEPT ![c] = FilesIn("pending", wanted)]
  /\ UNCHANGED <<spoolVars, daemonVars, nextId, cpid, clive, asked>>

\* spool_clear: the pid is read first, then done/ is listed.
ClearProbe(c) ==
  /\ \/ Type(c, "clear", "unlink")
     \/ Type(c, "clear-logs", "live")
     \/ Type(c, "clear-all", "live-all")
  /\ cpid' = [cpid EXCEPT ![c] = DaemonAlive]
  /\ files' = [files EXCEPT ![c] = FilesIn("done", In(done))]
  /\ UNCHANGED <<spoolVars, daemonVars, nextId, clive, asked>>

\* --logs or --all: live is what running/ holds now ...
ClearLive(c) ==
  /\ Step(c, "live", "logs") \/ Step(c, "live-all", "logs-all")
  /\ clive' = [clive EXCEPT ![c] = In(running)]
  /\ UNCHANGED <<spoolVars, daemonVars, nextId, cpid, files, asked>>

\* ... and the logs are those found afterwards whose id is not in it.
ClearLogs(c) ==
  /\ Step(c, "logs", "unlink") \/ Step(c, "logs-all", "orphans")
  /\ files' = [files EXCEPT ![c] = @ \cup FilesIn("logs", logs \ clive[c])]
  /\ clive' = [clive EXCEPT ![c] = {}]
  /\ UNCHANGED <<spoolVars, daemonVars, nextId, cpid, asked>>

\* Mutant of ClearOrphans: every claim is taken for an orphan.
ClearEveryClaim(c) ==
  /\ Step(c, "orphans", "unlink")
  /\ files' = [files EXCEPT ![c] = @ \cup FilesIn("running", In(running))]
  /\ UNCHANGED <<spoolVars, daemonVars, nextId, cpid, clive, asked>>

\* --all: what running/ holds is orphaned if no daemon was alive at the beginning.
ClearOrphans(c) ==
  /\ Step(c, "orphans", "unlink")
  /\ files' = [files EXCEPT ![c] =
                 @ \cup (IF cpid[c] = NoPid THEN FilesIn("running", In(running)) ELSE {})]
  /\ UNCHANGED <<spoolVars, daemonVars, nextId, cpid, clive, asked>>

Without(dir, name, f) ==
  [j \in Jobs |-> IF f = <<name, j>> THEN "absent" ELSE dir[j]]

\* f.unlink(), whether or not the file is still there.
UnlinkOne(c) ==
  /\ cpc[c] = "unlink"
  /\ \E f \in files[c] :
       /\ files' = [files EXCEPT ![c] = @ \ {f}]
       /\ pending' = Without(pending, "pending", f)
       /\ running' = Without(running, "running", f)
       /\ done' = Without(done, "done", f)
       /\ logs' = {j \in logs : f # <<"logs", j>>}
  /\ UNCHANGED <<pidfile, stopfile, daemonVars, nextId, cpc, cpid, clive, asked>>

UnlinkDone(c) ==
  /\ files[c] = {}
  /\ Step(c, "unlink", "prompt")
  /\ cpid' = [cpid EXCEPT ![c] = NoPid]
  /\ UNCHANGED <<spoolVars, daemonVars, nextId, clive, files, asked>>

-----------------------------------------------------------------------------
(***************************************************************************)
(* status with no daemon alive tells the user to mv running/*.json back to *)
(* pending/, and the user does (one step for all the files).               *)
(***************************************************************************)
\* Mutant of StatusOrphans: the advice is given although a daemon is alive.
StatusAlwaysAdvises(c) ==
  /\ \E j \in Jobs : running[j] = "ok"
  /\ Type(c, "requeue", "mv")
  /\ UNCHANGED <<spoolVars, daemonVars, nextId, cpid, clive, files, asked>>

StatusOrphans(c) ==
  /\ DaemonAlive = NoPid
  /\ \E j \in Jobs : running[j] = "ok"
  /\ Type(c, "requeue", "mv")
  /\ UNCHANGED <<spoolVars, daemonVars, nextId, cpid, clive, files, asked>>

Requeue(c) ==
  /\ Step(c, "mv", "prompt")
  /\ pending' = [j \in Jobs |-> IF running[j] = "absent" THEN pending[j] ELSE running[j]]
  /\ running' = [j \in Jobs |-> "absent"]
  /\ UNCHANGED <<done, logs, pidfile, stopfile, daemonVars, nextId, cpid, clive, files, asked>>

Client(c) ==
  \/ SpoolStamp(c) \/ SpoolPublish(c) \/ AddStart(c) \/ DaemonStart(c) \/ DaemonSpawn(c)
  \/ DaemonWait(c) \/ DaemonForeground(c)
  \/ StopProbe(c) \/ StopTouch(c) \/ StopKill(c) \/ StopUnpid(c)
  \/ DropList(c) \/ ClearProbe(c) \/ ClearLive(c) \/ ClearLogs(c) \/ ClearOrphans(c)
  \/ UnlinkOne(c) \/ UnlinkDone(c)
  \/ StatusOrphans(c) \/ Requeue(c)

Next == \/ DaemonNext /\ UNCHANGED clientVars
        \/ \E c \in Clients : Client(c)

Spec == SimqInit /\ [][Next]_vars

(***************************************************************************)
(* The threads of a daemon keep running, a simulator ends (subprocess.run  *)
(* has a timeout), and a command that was typed runs to its end.  Nobody   *)
(* has to type one, faults need not happen, and idle_for need not ever     *)
(* exceed idle_exit (LeaveIdle and Sleep are alternatives of one thread).  *)
(***************************************************************************)
Fairness ==
  /\ \A d \in Pids : WF_vars(MainThread(d) /\ UNCHANGED clientVars)
  /\ \A d \in Pids, j \in Jobs : WF_vars(Lane(d, j) /\ UNCHANGED clientVars)
  /\ \A c \in Clients : WF_vars(cpc[c] # "prompt" /\ Client(c))

FairSpec == Spec /\ Fairness

-----------------------------------------------------------------------------
\* The files, threads and commands are where the code can leave them: a verdict is only ever in
\* done/, and a stop command that got past its probe has the pid of a daemon.
TypeOK ==
  /\ pending \in [Jobs -> Records]
  /\ running \in [Jobs -> Records]
  /\ done \in [Jobs -> {"absent", "torn"} \cup Verdicts]
  /\ logs \subseteq Jobs
  /\ pidfile \in Pids \cup {NoPid}
  /\ stopfile \in BOOLEAN
  /\ pc \in [Pids -> PCs]
  /\ batch \in [Pids -> SUBSET Jobs]
  /\ current \in [Pids -> Jobs \cup {0}]
  /\ stage \in [Pids -> [Jobs -> Stages]]
  /\ starts \in [Jobs -> Nat]
  /\ nextId \in 1 .. NumJobs + 1
  /\ cpc \in [Clients -> ClientPCs]
  /\ cpid \in [Clients -> Pids \cup {NoPid}]
  /\ clive \in [Clients -> SUBSET Jobs]
  /\ files \in [Clients -> SUBSET (Dirs \X Jobs)]
  /\ asked \subseteq Pids
  /\ \A c \in Clients : cpc[c] \in {"touch", "kill"} => cpid[c] \in Pids

(***************************************************************************)
(* "Two daemons cannot double-run a job" (the comment above JOB_OPTS): no  *)
(* job is worked on at two places, whoever they are.                       *)
(***************************************************************************)
ExclusiveClaim ==
  \A j \in Jobs :
    /\ \A d, e \in Pids : Holds(d, j) /\ Holds(e, j) => d = e
    /\ \A d \in Pids : current[d] = j /\ stage[d][j] # "idle" => pc[d] = "inline"

\* ... and its simulator is started at most once, however many daemons drain the spool.
RunsOnce == \A j \in Jobs : starts[j] <= 1

\* The jobs that have a record somewhere.
Recorded == In(pending) \cup In(running) \cup In(done)

(***************************************************************************)
(* "The spool directory IS the queue, so it has to hold everything not yet *)
(* running": what a daemon holds and what it is about to claim fit its     *)
(* lanes.                                                                  *)
(***************************************************************************)
ClaimsFitLanes ==
  \A d \in Pids : Cardinality({j \in Jobs : Holds(d, j)}) + Cardinality(batch[d]) <= Lanes

\* At most one daemon drains the spool.
OneDaemon == Cardinality({d \in Pids : pc[d] \notin {"off", "dead", "foreign"}}) <= 1

\* A job leaves pending/ only after every job queued before it ("so the queue is FIFO").
Fifo == [][\A i, j \in Jobs :
             i < j /\ running[j] = "absent" /\ running'[j] # "absent" /\ pending[j] # "absent"
               => pending[i] = "absent"]_vars

\* The last record of a job goes only where a command unlinks it, or where its lane does after the
\* verdict was written: no daemon, however it ends or fails, and no requeue loses a job.
NoJobLost ==
  [][\A j \in Jobs : j \in Recorded /\ j \notin Recorded'
       => \/ \E c \in Clients : cpc[c] = "unlink"
          \/ \E d \in Pids : stage[d][j] = "unlink"]_vars

\* A verdict is never overwritten.
VerdictFinal == [][\A j \in Jobs : done[j] \in Verdicts => done'[j] \in {done[j], "absent"}]_vars

\* What clear removes from running/ belongs to no daemon.
ClearSparesClaims ==
  [][\A c \in Clients, j \in Jobs :
       cpc[c] = "unlink" /\ <<"running", j>> \in files[c] \ files'[c]
         => \A d \in Pids : ~Holds(d, j)]_vars

\* "The daemon does the work": a queued job gets a verdict, unless somebody asks a daemon to stop.
QueueDrains == \A j \in Jobs : pending[j] = "ok" ~> done[j] \in Verdicts \/ asked # {}

\* A job that a lane runs gets its verdict, whatever happens to the queue.
ClaimFinishes == \A j \in Jobs : starts[j] = 1 ~> done[j] \in Verdicts

\* A daemon that was asked to stop exits.
StopStops == \A d \in Pids : d \in asked ~> pc[d] \in {"dead", "foreign"}

-----------------------------------------------------------------------------
(***************************************************************************)
(* The spool as an abstract job queue.                                     *)
(***************************************************************************)
Published(j) == j < nextId /\ \A c \in Clients : cpc[c] = "publish" => <<"pending", j>> \notin files[c]

StatusOf(j) ==
  CASE done[j] \in Verdicts -> "finished"
    [] done[j] \notin Verdicts /\ pending[j] # "absent" -> "queued"
    [] done[j] \notin Verdicts /\ pending[j] = "absent" /\ running[j] # "absent" -> "claimed"
    [] OTHER -> IF Published(j) THEN "dropped" ELSE "new"

WorkerOf(j) ==
  IF done[j] \notin Verdicts /\ \E d \in Pids : Holds(d, j)
    THEN CHOOSE d \in Pids : Holds(d, j) ELSE NoPid

Abstract == INSTANCE JobQueue WITH
  Workers <- Pids, NoWorker <- NoPid,
  status <- [j \in Jobs |-> StatusOf(j)],
  worker <- [j \in Jobs |-> WorkerOf(j)]

\* The files, the pidfile and the threads implement the abstract job queue.
ImplementsJobQueue == Abstract!Spec
=============================================================================
