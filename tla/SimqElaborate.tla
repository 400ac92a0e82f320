--------------------------- MODULE SimqElaborate ---------------------------
(***************************************************************************)
(* elaborate() of sim/simq.py: when a simulator is reused, refused or      *)
(* built, by several simq processes, while somebody edits the Scala.       *)
(*                                                                         *)
(* A process is a one-shot simq or the daemon; the jobs it takes up carry  *)
(* the options of the command that queued them.  The simulator binary on   *)
(* disk is the state: what is decided is decided from its mtime and the    *)
(* mtime of the newest .scala file.  Every write of either gets an mtime   *)
(* of its own from the clock now, so the mtime of the newest .scala file   *)
(* also names the version of the sources.                                  *)
(***************************************************************************)
EXTENDS Integers

CONSTANTS Procs,     \* simq processes
          NoProc,    \* nobody has the build lock
          Configs,   \* what a simulator is built for (a config, debug or not)
          Options,   \* the staleness options jobs are queued with
          MaxJobs,   \* bound: jobs taken up in all
          MaxEdits,  \* bound: edits of the Scala in all
          Faults     \* which faults the environment may inject

OptionNames == {"default",      \* --rebuild-if-stale
                "no-rebuild",   \* --no-rebuild-if-stale
                "allow",        \* --allow-stale
                "rebuild"}      \* --rebuild

ASSUME ProcsAssumption   == NoProc \notin Procs
ASSUME OptionsAssumption == Options \subseteq OptionNames
ASSUME BoundsAssumption  == MaxJobs \in Nat /\ MaxEdits \in Nat
ASSUME FaultsAssumption  == Faults \subseteq {"make", "crash", "orphan"}

VARIABLES now, jobs, edits,  \* the clock, and how many jobs and edits there were
          scala,       \* mtime of the newest .scala file
          built,       \* mtime of each config's simulator, 0 for none
          source,      \* history: the Scala it was elaborated from
          lock,        \* the holder of the flock on BUILD_LOCK
          pc, config, opt,  \* where each process is, and the job it has taken up
          ready,       \* the configs its ConfigStates say are ready
          reading,     \* the Scala its make has read
          orphans,     \* makes whose simq is gone: <<config, Scala read>>
          since,       \* history: the Scala when the job was taken up
          checked,     \* history: the Scala when elaborate last began to check a config, 0 if
                       \* its job did not ask for that
          elaborated   \* history: what was elaborated without --rebuild

files   == <<now, edits, scala, built, source>>
process == <<jobs, config, opt, since>>
vars    == <<files, process, lock, pc, ready, reading, orphans, checked, elaborated>>

Points == {"idle", "decide", "lock", "redecide", "make", "making", "made", "run"}

Init ==
  /\ now = 1 /\ jobs = 0 /\ edits = 0
  /\ scala = 1
  /\ built = [c \in Configs |-> 0]
  /\ source = [c \in Configs |-> 0]
  /\ lock = NoProc
  /\ pc = [p \in Procs |-> "idle"]
  /\ config \in [Procs -> Configs]
  /\ opt \in [Procs -> Options]
  /\ ready = [p \in Procs |-> {}]
  /\ reading = [p \in Procs |-> 0]
  /\ orphans = {}
  /\ since = [p \in Procs |-> 0]
  /\ checked = [p \in Procs |-> [c \in Configs |-> 0]]
  /\ elaborated = {}

Goto(p, from, to) == pc[p] = from /\ pc' = [pc EXCEPT ![p] = to]

-----------------------------------------------------------------------------
(***************************************************************************)
(* The decision.                                                           *)
(***************************************************************************)
\* Mutant of Stale: a simulator that exists is current.
NeverStale(p) == FALSE

\* check_staleness.
Stale(p) == opt[p] \notin {"allow", "rebuild"} /\ built[config[p]] < scala

\* _decide.
Decision(p) ==
  CASE built[config[p]] = 0 \/ opt[p] = "rebuild" -> "build"
    [] built[config[p]] # 0 /\ opt[p] # "rebuild" /\ Stale(p) ->
         IF opt[p] = "default" THEN "build" ELSE "refuse"
    [] OTHER -> "reuse"

\* The process takes up a job; a config that is ready in its table is not elaborated again.
TakeJob(p) ==
  /\ jobs < MaxJobs
  /\ jobs' = jobs + 1
  /\ \E c \in Configs, o \in Options :
       /\ config' = [config EXCEPT ![p] = c]
       /\ opt' = [opt EXCEPT ![p] = o]
       /\ since' = [since EXCEPT ![p] = scala]
       /\ IF c \in ready[p]
            THEN Goto(p, "idle", "run") /\ UNCHANGED checked
            ELSE /\ Goto(p, "idle", "decide")
                 /\ checked' = [checked EXCEPT ![p][c] = IF o = "allow" THEN 0 ELSE scala]
  /\ UNCHANGED <<files, lock, ready, reading, orphans, elaborated>>

\* elaborate, before it has the lock; a refused job is NO-BUILD.
Decide(p) ==
  /\ Goto(p, "decide", CASE Decision(p) = "reuse"  -> "run"
                         [] Decision(p) = "refuse" -> "idle"
                         [] Decision(p) = "build"  -> "lock")
  /\ ready' = [ready EXCEPT ![p] = IF Decision(p) = "reuse" THEN @ \cup {config[p]} ELSE @]
  /\ UNCHANGED <<files, process, lock, reading, orphans, checked, elaborated>>

-----------------------------------------------------------------------------
(***************************************************************************)
(* Under the build lock.                                                   *)
(***************************************************************************)
\* Mutant of BuildLock: it gives up waiting.
BuildLockNoWait(p) ==
  /\ lock' = p
  /\ Goto(p, "lock", IF opt[p] = "rebuild" THEN "make" ELSE "redecide")
  /\ UNCHANGED <<files, process, ready, reading, orphans, checked, elaborated>>

\* build_lock.__enter__: a blocking flock.
BuildLock(p) ==
  /\ lock = NoProc
  /\ lock' = p
  /\ Goto(p, "lock", IF opt[p] = "rebuild" THEN "make" ELSE "redecide")
  /\ UNCHANGED <<files, process, ready, reading, orphans, checked, elaborated>>

\* Mutant of Redecide: it does not look again.
RedecideNever(p) ==
  /\ Goto(p, "redecide", "make")
  /\ UNCHANGED <<files, process, lock, ready, reading, orphans, checked, elaborated>>

\* Another simq may have built it meanwhile.  "refuse" is no answer here: it falls through to _make.
Redecide(p) ==
  /\ \/ /\ Decision(p) = "reuse"
        /\ Goto(p, "redecide", "run")
        /\ ready' = [ready EXCEPT ![p] = @ \cup {config[p]}]
        /\ lock' = NoProc
     \/ /\ Decision(p) # "reuse"
        /\ Goto(p, "redecide", "make")
        /\ UNCHANGED <<ready, lock>>
  /\ UNCHANGED <<files, process, reading, orphans, checked, elaborated>>

\* make reads the sources ...
MakeReads(p) ==
  /\ Goto(p, "make", "making")
  /\ reading' = [reading EXCEPT ![p] = scala]
  /\ UNCHANGED <<files, process, lock, ready, orphans, checked, elaborated>>

\* ... or finds that the simulator is up to date (--rebuild) ...
MakeNothing(p) ==
  /\ built[config[p]] >= scala
  /\ Goto(p, "make", "made")
  /\ UNCHANGED <<files, process, lock, ready, reading, orphans, checked, elaborated>>

Link(c, v) ==
  /\ now' = now + 1
  /\ built' = [built EXCEPT ![c] = now + 1]
  /\ source' = [source EXCEPT ![c] = v]
  /\ UNCHANGED <<edits, scala>>

\* ... and many minutes later links the simulator.
MakeLinks(p) ==
  /\ Goto(p, "making", "made")
  /\ Link(config[p], reading[p])
  /\ elaborated' = IF opt[p] = "rebuild" THEN elaborated
                                         ELSE elaborated \cup {<<config[p], reading[p]>>}
  /\ UNCHANGED <<process, lock, ready, reading, orphans, checked>>

\* rc = 0 and the simulator is there.
Made(p) ==
  /\ Goto(p, "made", "run")
  /\ ready' = [ready EXCEPT ![p] = @ \cup {config[p]}]
  /\ lock' = NoProc
  /\ UNCHANGED <<files, process, reading, orphans, checked, elaborated>>

\* Mutant of MakeFails: build_lock.__exit__ does not unlock.
MakeFailsLocked(p) ==
  /\ "make" \in Faults
  /\ Goto(p, "making", "idle")
  /\ UNCHANGED <<files, process, lock, ready, reading, orphans, checked, elaborated>>

\* Mutant of MakeFails: its return code is not looked at.
MakeFailsReady(p) ==
  /\ "make" \in Faults
  /\ Goto(p, "making", "run")
  /\ ready' = [ready EXCEPT ![p] = @ \cup {config[p]}]
  /\ lock' = NoProc
  /\ UNCHANGED <<files, process, reading, orphans, checked, elaborated>>

\* rc # 0: an old simulator may still be there, but the job is NO-BUILD.
MakeFails(p) ==
  /\ "make" \in Faults
  /\ Goto(p, "making", "idle")
  /\ lock' = NoProc
  /\ UNCHANGED <<files, process, ready, reading, orphans, checked, elaborated>>

\* run_job executes whatever file has the simulator's name by now.
RunJob(p) ==
  /\ Goto(p, "run", "idle")
  /\ UNCHANGED <<files, process, lock, ready, reading, orphans, checked, elaborated>>

Elaborate(p) ==
  \/ Decide(p) \/ BuildLock(p) \/ Redecide(p) \/ MakeReads(p) \/ MakeNothing(p) \/ MakeLinks(p)
  \/ Made(p) \/ RunJob(p)

-----------------------------------------------------------------------------
(***************************************************************************)
(* The environment.                                                        *)
(***************************************************************************)
Gone(p) ==
  /\ pc' = [pc EXCEPT ![p] = "idle"]
  /\ ready' = [ready EXCEPT ![p] = {}]
  /\ lock' = IF lock = p THEN NoProc ELSE lock
  /\ UNCHANGED <<files, process, reading, checked, elaborated>>

\* A process ends, and another one, with an empty table, takes its place; the kernel drops its flock.
Exit(p) == pc[p] = "idle" /\ ready[p] # {} /\ Gone(p) /\ UNCHANGED orphans

Crash(p) == "crash" \in Faults /\ pc[p] # "idle" /\ Gone(p) /\ UNCHANGED orphans

\* Only the Python process ends (kill -9, an exception between Popen and the end of make).
CrashAlone(p) ==
  /\ "orphan" \in Faults
  /\ pc[p] = "making"
  /\ Gone(p)
  /\ orphans' = orphans \cup {<<config[p], reading[p]>>}

OrphanLinks ==
  /\ \E o \in orphans : Link(o[1], o[2]) /\ orphans' = orphans \ {o}
  /\ UNCHANGED <<process, lock, pc, ready, reading, checked, elaborated>>

Edit ==
  /\ edits < MaxEdits
  /\ edits' = edits + 1
  /\ now' = now + 1
  /\ scala' = now + 1
  /\ UNCHANGED <<built, source, process, lock, pc, ready, reading, orphans, checked, elaborated>>

Next ==
  \/ \E p \in Procs : TakeJob(p) \/ Elaborate(p) \/ MakeFails(p) \/ Exit(p) \/ Crash(p) \/ CrashAlone(p)
  \/ OrphanLinks
  \/ Edit

Spec == Init /\ [][Next]_vars

\* make ends, and a process goes on with what it has taken up; flock wakes a waiter.
Fairness == \A p \in Procs : WF_vars(Elaborate(p))

FairSpec == Spec /\ Fairness

-----------------------------------------------------------------------------
\* Every variable holds what the code can put there; what a process has as ready is on disk, and it
\* runs nothing else.
TypeOK ==
  /\ now \in Nat /\ jobs \in Nat /\ edits \in Nat /\ scala \in Nat \ {0}
  /\ built \in [Configs -> Nat] /\ source \in [Configs -> Nat]
  /\ lock \in Procs \cup {NoProc}
  /\ pc \in [Procs -> Points]
  /\ config \in [Procs -> Configs] /\ opt \in [Procs -> Options]
  /\ ready \in [Procs -> SUBSET Configs]
  /\ reading \in [Procs -> Nat] /\ since \in [Procs -> Nat]
  /\ orphans \subseteq Configs \X Nat
  /\ checked \in [Procs -> [Configs -> Nat]]
  /\ elaborated \subseteq Configs \X Nat
  /\ scala <= now /\ \A c \in Configs : built[c] <= now
  /\ \A p \in Procs : /\ \A c \in ready[p] : built[c] # 0
                      /\ pc[p] = "run" => config[p] \in ready[p]

\* "Elaboration is serialized ACROSS PROCESSES too": no two makes run at the same time.
OneElaboration ==
  /\ \A p, q \in Procs : pc[p] = "making" /\ pc[q] = "making" => p = q
  /\ \A p \in Procs : pc[p] = "making" => orphans = {}
  /\ \A o1, o2 \in orphans : o1 = o2

\* "elaborates each config ONCE": the same Scala is elaborated a second time only under --rebuild.
ElaboratedOnce ==
  [][\A p \in Procs : pc[p] = "making" /\ pc'[p] = "made" /\ opt[p] # "rebuild"
       => <<config[p], reading[p]>> \notin elaborated]_vars

\* A job runs on a simulator at least as new as the Scala was when its process last began to
\* elaborate the config with a check, whatever other processes and editors did in between.
RunsWhatWasChecked ==
  [][\A p \in Procs : pc[p] = "run" /\ pc'[p] = "idle"
       => built[config[p]] >= checked[p][config[p]]]_vars

\* Every job that was taken up is run, refused or failed: nobody waits for the lock for ever.
JobsEnd == \A p \in Procs : pc[p] = "decide" ~> pc[p] = "idle"
-----------------------------------------------------------------------------
(***************************************************************************)
(* What a comment of simq.py says and the code does not do.  No run of the *)
(* project checks it; given to TLC as a property, it is violated.          *)
(***************************************************************************)
\* "Refuse to run RTL older than the Scala it came from": what is reused was elaborated from the
\* Scala as it is.
StaleRefused ==
  [][\A p \in Procs : pc[p] = "decide" /\ pc'[p] = "run" /\ opt[p] # "allow"
       => source[config[p]] = scala]_vars

=============================================================================
