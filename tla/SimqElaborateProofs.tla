------------------------ MODULE SimqElaborateProofs ------------------------
(***************************************************************************)
(* Proofs about SimqElaborate, for every number of processes, configs,     *)
(* jobs and edits.                                                         *)
(***************************************************************************)
EXTENDS SimqElaborate, TLAPS

-----------------------------------------------------------------------------
(***************************************************************************)
(* Whoever is between the flock and its release holds the lock, so one     *)
(* process at a time is there, and no make outlives its simq.              *)
(***************************************************************************)
LockInv ==
  /\ \A p \in Procs : pc[p] \in {"redecide", "make", "making", "made"} => lock = p
  /\ orphans = {}

PcType == pc \in [Procs -> Points]

\* Every process stays at a point of elaborate.
LEMMA PcStep == PcType /\ [Next]_vars => PcType'
<1> SUFFICES ASSUME PcType, [Next]_vars PROVE PcType'
  OBVIOUS
<1> USE DEF PcType, Points, Goto
<1>1. ASSUME NEW p \in Procs, TakeJob(p) PROVE PcType'
  BY <1>1 DEF TakeJob
<1>2. ASSUME NEW p \in Procs, Decide(p) PROVE PcType'
  <2>1. PICK to \in {"run", "idle", "lock"} : pc' = [pc EXCEPT ![p] = to]
    BY <1>2 DEF Decide, Decision
  <2> QED
    BY <2>1
<1>3. ASSUME NEW p \in Procs, BuildLock(p) PROVE PcType'
  BY <1>3 DEF BuildLock
<1>4. ASSUME NEW p \in Procs, Redecide(p) PROVE PcType'
  BY <1>4 DEF Redecide
<1>5. ASSUME NEW p \in Procs,
             MakeReads(p) \/ MakeNothing(p) \/ MakeLinks(p) \/ Made(p) \/ RunJob(p) \/ MakeFails(p)
      PROVE  PcType'
  BY <1>5 DEF MakeReads, MakeNothing, MakeLinks, Made, RunJob, MakeFails
<1>6. ASSUME NEW p \in Procs, Exit(p) \/ Crash(p) \/ CrashAlone(p) PROVE PcType'
  BY <1>6 DEF Exit, Crash, CrashAlone, Gone
<1>7. CASE OrphanLinks \/ Edit \/ UNCHANGED vars
  BY <1>7 DEF OrphanLinks, Edit, vars
<1> QED
  BY <1>1, <1>2, <1>3, <1>4, <1>5, <1>6, <1>7 DEF Next, Elaborate

\* The lock changes hands only through its release.
LEMMA LockStep ==
  ASSUME "orphan" \notin Faults, PcType, LockInv, [Next]_vars
  PROVE  LockInv'
<1> USE DEF PcType, LockInv, Goto
<1>1. ASSUME NEW p \in Procs, TakeJob(p) PROVE LockInv'
  BY <1>1 DEF TakeJob
<1>2. ASSUME NEW p \in Procs, Decide(p) PROVE LockInv'
  <2>1. PICK to \in {"run", "idle", "lock"} : pc' = [pc EXCEPT ![p] = to]
    BY <1>2 DEF Decide, Decision
  <2> QED
    BY <1>2, <2>1 DEF Decide
<1>3. ASSUME NEW p \in Procs, BuildLock(p) PROVE LockInv'
  BY <1>3, ProcsAssumption DEF BuildLock
<1>4. ASSUME NEW p \in Procs, Redecide(p) PROVE LockInv'
  BY <1>4 DEF Redecide
<1>5. ASSUME NEW p \in Procs, MakeReads(p) \/ MakeNothing(p) \/ MakeLinks(p) \/ RunJob(p)
      PROVE  LockInv'
  BY <1>5 DEF MakeReads, MakeNothing, MakeLinks, RunJob
<1>6. ASSUME NEW p \in Procs, Made(p) \/ MakeFails(p) PROVE LockInv'
  BY <1>6 DEF Made, MakeFails
<1>7. ASSUME NEW p \in Procs, Exit(p) \/ Crash(p) PROVE LockInv'
  BY <1>7 DEF Exit, Crash, Gone
<1>8. ASSUME NEW p \in Procs, CrashAlone(p) PROVE LockInv'
  BY <1>8 DEF CrashAlone
<1>9. CASE OrphanLinks
  BY <1>9 DEF OrphanLinks
<1>10. CASE Edit \/ UNCHANGED vars
  BY <1>10 DEF Edit, vars
<1> QED
  BY <1>1, <1>2, <1>3, <1>4, <1>5, <1>6, <1>7, <1>8, <1>9, <1>10 DEF Next, Elaborate

\* Elaboration is serialized across processes: as long as no make outlives its simq, two makes never
\* run at the same time, whatever crashes while it holds the lock or waits for it.
THEOREM Serialized ==
  ASSUME "orphan" \notin Faults
  PROVE  Spec => []OneElaboration
<1>1. Init => PcType /\ LockInv
  BY DEF Init, PcType, Points, LockInv
<1>2. PcType /\ LockInv /\ [Next]_vars => PcType' /\ LockInv'
  BY PcStep, LockStep
<1>3. LockInv => OneElaboration
  BY DEF LockInv, OneElaboration
<1> QED
  BY <1>1, <1>2, <1>3, PTL DEF Spec

-----------------------------------------------------------------------------
(***************************************************************************)
(* Type correctness: a simulator that was linked is never unlinked.        *)
(***************************************************************************)
DataType ==
  /\ now \in Nat /\ jobs \in Nat /\ edits \in Nat /\ scala \in Nat \ {0}
  /\ built \in [Configs -> Nat] /\ source \in [Configs -> Nat]
  /\ config \in [Procs -> Configs] /\ opt \in [Procs -> Options]
  /\ reading \in [Procs -> Nat] /\ since \in [Procs -> Nat]
  /\ orphans \subseteq Configs \X Nat
  /\ checked \in [Procs -> [Configs -> Nat]]
  /\ elaborated \subseteq Configs \X Nat
  /\ scala <= now /\ \A c \in Configs : built[c] <= now

ControlType ==
  /\ lock \in Procs \cup {NoProc}
  /\ pc \in [Procs -> Points]
  /\ ready \in [Procs -> SUBSET Configs]

OnDisk ==
  \A p \in Procs : /\ \A c \in ready[p] : built[c] # 0
                   /\ pc[p] = "run" => config[p] \in ready[p]
                   /\ pc[p] = "made" => built[config[p]] # 0

\* A linked simulator is newer than everything before it, and no other simulator changes.
LEMMA Linked ==
  ASSUME DataType, NEW c \in Configs, NEW v \in Nat, Link(c, v)
  PROVE  /\ now' \in Nat /\ edits' \in Nat /\ scala' \in Nat \ {0} /\ scala' = scala
         /\ built' \in [Configs -> Nat] /\ source' \in [Configs -> Nat]
         /\ scala' <= now' /\ \A b \in Configs : built'[b] <= now' /\ built'[b] >= built[b]
         /\ built'[c] # 0 /\ built'[c] >= scala
<1> USE DEF DataType, Link
<1>1. /\ now \in Nat /\ now' = now + 1 /\ scala' = scala /\ edits' = edits
      /\ scala <= now /\ scala \in Nat
  OBVIOUS
<1>2. \A b \in Configs : built'[b] = IF b = c THEN now + 1 ELSE built[b]
  OBVIOUS
<1>3. \A b \in Configs : built[b] \in Nat /\ built[b] <= now
  OBVIOUS
<1> QED
  BY <1>1, <1>2, <1>3

\* What the steps do to the data.
LEMMA DataStep == DataType /\ [Next]_vars => DataType'
<1> SUFFICES ASSUME DataType, [Next]_vars PROVE DataType'
  OBVIOUS
<1>1. ASSUME NEW p \in Procs, TakeJob(p) PROVE DataType'
  <2>1. PICK c \in Configs, o \in Options :
          /\ config' = [config EXCEPT ![p] = c] /\ opt' = [opt EXCEPT ![p] = o]
          /\ since' = [since EXCEPT ![p] = scala] /\ jobs' = jobs + 1
          /\ \/ checked' = checked
             \/ checked' = [checked EXCEPT ![p][c] = IF o = "allow" THEN 0 ELSE scala]
    BY <1>1 DEF TakeJob
  <2>2. checked' \in [Procs -> [Configs -> Nat]]
    BY <2>1 DEF DataType
  <2>3. UNCHANGED <<now, edits, scala, built, source, reading, orphans, elaborated>>
    BY <1>1 DEF TakeJob, files
  <2>4. /\ jobs' \in Nat /\ config' \in [Procs -> Configs] /\ opt' \in [Procs -> Options]
        /\ since' \in [Procs -> Nat]
    BY <2>1 DEF DataType
  <2> QED
    BY <2>2, <2>3, <2>4 DEF DataType
<1>2. ASSUME UNCHANGED <<files, process, reading, orphans, checked, elaborated>> PROVE DataType'
  BY <1>2 DEF DataType, files, process
<1>3. ASSUME NEW p \in Procs, MakeReads(p) PROVE DataType'
  BY <1>3 DEF MakeReads, DataType, files, process
<1>4. ASSUME NEW p \in Procs, MakeLinks(p) PROVE DataType'
  <2>1. Link(config[p], reading[p]) /\ config[p] \in Configs /\ reading[p] \in Nat
        /\ UNCHANGED <<process, reading, orphans, checked>>
        /\ elaborated' \subseteq elaborated \cup {<<config[p], reading[p]>>}
    BY <1>4 DEF MakeLinks, DataType
  <2>2. /\ now' \in Nat /\ edits' \in Nat /\ scala' \in Nat \ {0}
        /\ built' \in [Configs -> Nat] /\ source' \in [Configs -> Nat]
        /\ scala' <= now' /\ \A b \in Configs : built'[b] <= now'
    BY <2>1, Linked
  <2>3. elaborated' \subseteq Configs \X Nat
    BY <2>1 DEF DataType
  <2>4. /\ jobs' \in Nat /\ config' \in [Procs -> Configs] /\ opt' \in [Procs -> Options]
        /\ reading' \in [Procs -> Nat] /\ since' \in [Procs -> Nat]
        /\ orphans' \subseteq Configs \X Nat /\ checked' \in [Procs -> [Configs -> Nat]]
    BY <2>1 DEF DataType, process
  <2> QED
    BY <2>2, <2>3, <2>4 DEF DataType
<1>5. ASSUME NEW p \in Procs, CrashAlone(p) PROVE DataType'
  BY <1>5 DEF CrashAlone, Gone, DataType, files, process
<1>6. CASE OrphanLinks
  <2>1. PICK o \in orphans : Link(o[1], o[2]) /\ orphans' = orphans \ {o}
    BY <1>6 DEF OrphanLinks
  <2>2. o[1] \in Configs /\ o[2] \in Nat
    BY DEF DataType
  <2>3. /\ now' \in Nat /\ edits' \in Nat /\ scala' \in Nat \ {0}
        /\ built' \in [Configs -> Nat] /\ source' \in [Configs -> Nat]
        /\ scala' <= now' /\ \A b \in Configs : built'[b] <= now'
    BY <2>1, <2>2, Linked
  <2> QED
    BY <1>6, <2>1, <2>3 DEF OrphanLinks, DataType, process
<1>7. CASE Edit
  BY <1>7 DEF Edit, DataType, process
<1>8. CASE UNCHANGED vars
  BY <1>8, <1>2 DEF vars
<1> QED
  BY <1>1, <1>2, <1>3, <1>4, <1>5, <1>6, <1>7, <1>8
  DEF Next, Elaborate, Decide, BuildLock, Redecide, MakeNothing, Made, RunJob, MakeFails, Exit, Crash, Gone

\* What they do to the lock, the points and the tables of ready configurations.
LEMMA ControlStep == DataType /\ ControlType /\ [Next]_vars => ControlType'
<1> SUFFICES ASSUME DataType, ControlType, [Next]_vars PROVE ControlType'
  OBVIOUS
<1> USE DEF ControlType
<1>1. pc' \in [Procs -> Points]
  BY PcStep DEF PcType
<1>2. ASSUME NEW p \in Procs, Elaborate(p) \/ MakeFails(p) PROVE ControlType'
  <2>1. ready' \in {ready, [ready EXCEPT ![p] = @ \cup {config[p]}]} /\ lock' \in {lock, p, NoProc}
    BY <1>2 DEF Elaborate, Decide, BuildLock, Redecide, MakeReads, MakeNothing, MakeLinks, Made, RunJob, MakeFails
  <2>2. config[p] \in Configs
    BY DEF DataType
  <2> QED
    BY <1>1, <2>1, <2>2
<1>3. ASSUME NEW p \in Procs, Exit(p) \/ Crash(p) \/ CrashAlone(p) PROVE ControlType'
  BY <1>1, <1>3 DEF Exit, Crash, CrashAlone, Gone
<1>4. CASE OrphanLinks \/ Edit \/ UNCHANGED vars \/ \E p \in Procs : TakeJob(p)
  BY <1>1, <1>4 DEF OrphanLinks, Edit, vars, TakeJob
<1> QED
  BY <1>2, <1>3, <1>4 DEF Next

\* A simulator never disappears, so what is ready, or just made, stays on disk.
LEMMA OnDiskStep == DataType /\ ControlType /\ OnDisk /\ [Next]_vars => OnDisk'
<1> SUFFICES ASSUME DataType, ControlType, OnDisk, [Next]_vars PROVE OnDisk'
  OBVIOUS
<1> USE DEF ControlType, OnDisk, Goto
<1>1. ASSUME NEW p \in Procs, TakeJob(p) PROVE OnDisk'
  BY <1>1 DEF TakeJob, files, DataType
<1>2. ASSUME NEW p \in Procs, Decide(p) PROVE OnDisk'
  <2>1. PICK to \in {"run", "idle", "lock"} :
          pc' = [pc EXCEPT ![p] = to] /\ (to = "run" <=> Decision(p) = "reuse")
    BY <1>2 DEF Decide, Decision
  <2>2. Decision(p) = "reuse" => built[config[p]] # 0
    BY DEF Decision
  <2>3. ready' = [ready EXCEPT ![p] = IF Decision(p) = "reuse" THEN ready[p] \cup {config[p]} ELSE ready[p]]
        /\ UNCHANGED <<built, config>>
    BY <1>2 DEF Decide, files, process
  <2> QED
    BY <2>1, <2>2, <2>3
<1>3. ASSUME NEW p \in Procs, BuildLock(p) PROVE OnDisk'
  <2>1. pc'[p] \in {"make", "redecide"} /\ \A q \in Procs : q # p => pc'[q] = pc[q]
    BY <1>3 DEF BuildLock
  <2> QED
    BY <1>3, <2>1 DEF BuildLock, files, process
<1>4. ASSUME NEW p \in Procs, Redecide(p) PROVE OnDisk'
  <2>1. Decision(p) = "reuse" => built[config[p]] # 0
    BY DEF Decision
  <2>2. UNCHANGED <<built, config>> /\ \A q \in Procs : q # p => pc'[q] = pc[q] /\ ready'[q] = ready[q]
    BY <1>4 DEF Redecide, files, process
  <2>3. \/ Decision(p) = "reuse" /\ pc'[p] = "run" /\ ready'[p] = ready[p] \cup {config[p]}
        \/ pc'[p] = "make" /\ ready'[p] = ready[p]
    BY <1>4 DEF Redecide
  <2> QED
    BY <2>1, <2>2, <2>3
<1>5. ASSUME NEW p \in Procs, MakeReads(p) \/ RunJob(p) \/ MakeFails(p) PROVE OnDisk'
  BY <1>5 DEF MakeReads, RunJob, MakeFails, files, process
<1>6. ASSUME NEW p \in Procs, MakeNothing(p) PROVE OnDisk'
  BY <1>6 DEF MakeNothing, files, process, DataType
<1>7. ASSUME NEW p \in Procs, MakeLinks(p) PROVE OnDisk'
  <2>1. Link(config[p], reading[p]) /\ config[p] \in Configs /\ reading[p] \in Nat
        /\ ready' = ready /\ config' = config /\ pc' = [pc EXCEPT ![p] = "made"]
    BY <1>7 DEF MakeLinks, DataType, process
  <2>2. built'[config[p]] # 0 /\ \A b \in Configs : built'[b] >= built[b] /\ built'[b] \in Nat
    BY <2>1, Linked
  <2>3. \A b \in Configs : built[b] # 0 => built'[b] # 0
    BY <2>2 DEF DataType
  <2> QED
    BY <2>1, <2>2, <2>3 DEF DataType
<1>8. ASSUME NEW p \in Procs, Made(p) PROVE OnDisk'
  BY <1>8 DEF Made, files, process, DataType
<1>9. ASSUME NEW p \in Procs, Exit(p) \/ Crash(p) \/ CrashAlone(p) PROVE OnDisk'
  BY <1>9 DEF Exit, Crash, CrashAlone, Gone, files, process
<1>10. CASE OrphanLinks
  <2>1. PICK o \in orphans : Link(o[1], o[2])
    BY <1>10 DEF OrphanLinks
  <2>2. o[1] \in Configs /\ o[2] \in Nat
    BY DEF DataType
  <2>3. \A b \in Configs : built'[b] >= built[b] /\ built'[b] \in Nat
    BY <2>1, <2>2, Linked
  <2>4. \A b \in Configs : built[b] # 0 => built'[b] # 0
    BY <2>3 DEF DataType
  <2> QED
    BY <1>10, <2>4 DEF OrphanLinks, process, DataType
<1>11. CASE Edit \/ UNCHANGED vars
  BY <1>11 DEF Edit, vars, files, process
<1> QED
  BY <1>1, <1>2, <1>3, <1>4, <1>5, <1>6, <1>7, <1>8, <1>9, <1>10, <1>11 DEF Next, Elaborate

\* Every reachable state is typed, and a config that a process has as ready has a simulator on disk.
THEOREM TypeCorrect == Spec => []TypeOK
<1>1. Init => DataType /\ ControlType /\ OnDisk
  BY DEF Init, DataType, ControlType, OnDisk, Points
<1>2. DataType /\ ControlType /\ OnDisk /\ [Next]_vars => DataType' /\ ControlType' /\ OnDisk'
  BY DataStep, ControlStep, OnDiskStep
<1>3. DataType /\ ControlType /\ OnDisk => TypeOK
  BY DEF DataType, ControlType, OnDisk, TypeOK
<1> QED
  BY <1>1, <1>2, <1>3, PTL DEF Spec

-----------------------------------------------------------------------------
(***************************************************************************)
(* Freshness.  A job that asks for the check makes a config ready only     *)
(* with a simulator no older than the newest .scala file at that moment,   *)
(* which is no older than when elaborate began; one that allows a stale    *)
(* simulator checked nothing; and simulators are only replaced by newer    *)
(* ones.                                                                   *)
(***************************************************************************)
FreshInv ==
  /\ \A p \in Procs, c \in Configs : checked[p][c] <= scala
  /\ \A p \in Procs, c \in Configs : c \in ready[p] => built[c] >= checked[p][c]
  /\ \A p \in Procs : pc[p] = "made" => built[config[p]] >= checked[p][config[p]]

\* A job that allows a stale simulator counts as not checked for as long as it decides.
Unchecked ==
  \A p \in Procs : pc[p] \in {"decide", "lock", "redecide"} /\ opt[p] = "allow"
                     => checked[p][config[p]] = 0

\* What is reused is no older than the Scala, for a job that asks.
LEMMA ReuseFresh ==
  ASSUME TypeOK, NEW p \in Procs, Decision(p) = "reuse", opt[p] # "allow"
  PROVE  built[config[p]] >= scala
<1>1. config[p] \in Configs /\ opt[p] \in Options /\ scala \in Nat /\ built[config[p]] \in Nat
  BY DEF TypeOK
<1>2. opt[p] # "rebuild" /\ ~Stale(p)
  BY DEF Decision
<1> QED
  BY <1>1, <1>2 DEF Stale

\* A link only makes simulators newer, and leaves the Scala alone.
LEMMA LinkFresh ==
  ASSUME TypeOK, FreshInv, NEW c \in Configs, NEW v \in Nat, Link(c, v),
         checked' = checked, ready' = ready, config' = config,
         \A q \in Procs : pc'[q] = "made" => pc[q] = "made" \/ config[q] = c
  PROVE  FreshInv'
<1>1. DataType
  BY DEF TypeOK, DataType
<1>2. /\ scala' = scala /\ \A b \in Configs : built'[b] >= built[b] /\ built'[b] \in Nat
      /\ built'[c] >= scala
  BY <1>1, Linked DEF DataType
<1>3. \A p \in Procs, b \in Configs : checked[p][b] \in Nat /\ built[b] \in Nat /\ scala \in Nat
  BY <1>1 DEF DataType
<1>4. \A p \in Procs, b \in Configs : built[b] >= checked[p][b] => built'[b] >= checked[p][b]
  BY <1>2, <1>3
<1>5. \A p \in Procs : built'[c] >= checked[p][c]
  BY <1>2, <1>3 DEF FreshInv
<1>6. \A p \in Procs : config[p] \in Configs
  BY <1>1 DEF DataType
<1> QED
  BY <1>2, <1>4, <1>5, <1>6 DEF FreshInv

\* The job and its options stay as they are until the next one is taken up.
LEMMA UncheckedStep == TypeOK /\ Unchecked /\ [Next]_vars => Unchecked'
<1> SUFFICES ASSUME TypeOK, Unchecked, [Next]_vars PROVE Unchecked'
  OBVIOUS
<1> USE DEF Unchecked, Goto
<1>1. ASSUME NEW p \in Procs, TakeJob(p) PROVE Unchecked'
  <2>1. PICK c \in Configs, o \in Options :
          /\ config' = [config EXCEPT ![p] = c] /\ opt' = [opt EXCEPT ![p] = o]
          /\ \/ checked' = checked /\ pc' = [pc EXCEPT ![p] = "run"]
             \/ /\ checked' = [checked EXCEPT ![p][c] = IF o = "allow" THEN 0 ELSE scala]
                /\ pc' = [pc EXCEPT ![p] = "decide"]
    BY <1>1 DEF TakeJob
  <2>2. \A q \in Procs : q # p => /\ pc'[q] = pc[q] /\ opt'[q] = opt[q] /\ config'[q] = config[q]
                                  /\ checked'[q] = checked[q]
    BY <2>1 DEF TypeOK
  <2>3. config'[p] = c /\ opt'[p] = o
        /\ (pc'[p] = "run" \/ (o = "allow" => checked'[p][c] = 0))
    BY <2>1 DEF TypeOK
  <2> QED
    BY <2>2, <2>3
<1>2. ASSUME UNCHANGED <<process, checked>>,
             \A p \in Procs : pc'[p] \in {"decide", "lock", "redecide"}
                               => pc[p] \in {"decide", "lock", "redecide"}
      PROVE  Unchecked'
  BY <1>2 DEF process
<1>3. ASSUME NEW p \in Procs, Elaborate(p) \/ MakeFails(p) PROVE Unchecked'
  <2>1. \A q \in Procs : pc'[q] \in {"decide", "lock", "redecide"}
                          => pc[q] \in {"decide", "lock", "redecide"}
    BY <1>3 DEF Elaborate, Decide, BuildLock, Redecide, MakeReads, MakeNothing, MakeLinks, Made,
                RunJob, MakeFails, TypeOK
  <2>2. UNCHANGED <<process, checked>>
    BY <1>3 DEF Elaborate, Decide, BuildLock, Redecide, MakeReads, MakeNothing, MakeLinks, Made,
                RunJob, MakeFails
  <2> QED
    BY <1>2, <2>1, <2>2
<1>4. ASSUME NEW p \in Procs, Exit(p) \/ Crash(p) \/ CrashAlone(p) PROVE Unchecked'
  BY <1>2, <1>4 DEF Exit, Crash, CrashAlone, Gone, TypeOK
<1>5. CASE OrphanLinks \/ Edit \/ UNCHANGED vars
  BY <1>2, <1>5 DEF OrphanLinks, Edit, vars
<1> QED
  BY <1>1, <1>3, <1>4, <1>5 DEF Next

\* Every step keeps what is ready at least as new as what was checked.
LEMMA FreshStep ==
  ASSUME TypeOK, FreshInv, Unchecked, [Next]_vars
  PROVE  FreshInv'
<1> USE DEF FreshInv, Goto
<1>0. /\ \A p \in Procs : config[p] \in Configs
      /\ scala \in Nat /\ \A b \in Configs : built[b] \in Nat
      /\ \A p \in Procs, b \in Configs : checked[p][b] \in Nat
  BY DEF TypeOK
<1>1. ASSUME NEW p \in Procs, TakeJob(p) PROVE FreshInv'
  <2>1. PICK c \in Configs, v \in {0, scala} :
          \/ checked' = checked /\ pc' = [pc EXCEPT ![p] = "run"]
          \/ /\ c \notin ready[p]
             /\ checked' = [checked EXCEPT ![p][c] = v]
             /\ pc' = [pc EXCEPT ![p] = "decide"]
    BY <1>1 DEF TakeJob
  <2>2. UNCHANGED <<scala, built, ready>> /\ \A q \in Procs : q # p => config'[q] = config[q]
    BY <1>1 DEF TakeJob, files, TypeOK
  <2>3. \A q \in Procs : pc'[q] = "made" => q # p /\ pc[q] = "made"
    BY <2>1 DEF TypeOK
  <2>4. CASE checked' = checked
    BY <2>2, <2>3, <2>4
  <2>5. CASE c \notin ready[p] /\ checked' = [checked EXCEPT ![p][c] = v]
    <3>1. \A q \in Procs, b \in Configs :
            checked'[q][b] = IF q = p /\ b = c THEN v ELSE checked[q][b]
      BY <2>5 DEF TypeOK
    <3>2. \A q \in Procs : q # p => checked'[q] = checked[q]
      BY <2>5 DEF TypeOK
    <3> QED
      BY <1>0, <2>2, <2>3, <2>5, <3>1, <3>2
  <2> QED
    BY <2>1, <2>4, <2>5
<1>2. ASSUME NEW p \in Procs, UNCHANGED <<files, process, checked>>,
             ready' \in {ready, [ready EXCEPT ![p] = @ \cup {config[p]}]},
             ready' # ready => built[config[p]] >= checked[p][config[p]],
             \A q \in Procs : pc'[q] = "made" => pc[q] = "made"
      PROVE  FreshInv'
  <2>1. UNCHANGED <<scala, built, config, checked>>
    BY <1>2 DEF files, process
  <2>2. \A q \in Procs, b \in Configs : b \in ready'[q] =>
          b \in ready[q] \/ (q = p /\ b = config[p] /\ ready' # ready)
    BY <1>2 DEF TypeOK
  <2> QED
    BY <1>2, <2>1, <2>2, <1>0
<1>3. ASSUME NEW p \in Procs, Decide(p) \/ Redecide(p) PROVE FreshInv'
  <2>1. Decision(p) = "reuse" => built[config[p]] >= checked[p][config[p]]
    <3>1. CASE opt[p] = "allow"
      BY <1>0, <1>3, <3>1 DEF Decide, Redecide, Unchecked
    <3>2. CASE opt[p] # "allow"
      BY <1>0, <3>2, ReuseFresh
    <3> QED
      BY <3>1, <3>2
  <2>2. \A q \in Procs : pc'[q] = "made" => pc[q] = "made"
    BY <1>3 DEF Decide, Redecide, Decision, TypeOK
  <2>3. UNCHANGED <<files, process, checked>>
        /\ ready' = IF Decision(p) = "reuse" THEN [ready EXCEPT ![p] = @ \cup {config[p]}] ELSE ready
    BY <1>3 DEF Decide, Redecide, TypeOK
  <2> QED
    BY <1>2, <2>1, <2>2, <2>3
<1>4. ASSUME NEW p \in Procs, BuildLock(p) \/ MakeReads(p) \/ RunJob(p) \/ MakeFails(p) PROVE FreshInv'
  BY <1>4, <1>2 DEF BuildLock, MakeReads, RunJob, MakeFails, TypeOK
<1>5. ASSUME NEW p \in Procs, MakeNothing(p) PROVE FreshInv'
  BY <1>0, <1>5 DEF MakeNothing, files, process, TypeOK
<1>6. ASSUME NEW p \in Procs, MakeLinks(p) PROVE FreshInv'
  <2>1. Link(config[p], reading[p]) /\ reading[p] \in Nat /\ UNCHANGED <<checked, ready, config>>
        /\ \A q \in Procs : pc'[q] = "made" => pc[q] = "made" \/ config[q] = config[p]
    BY <1>6 DEF MakeLinks, TypeOK, process
  <2> HIDE DEF FreshInv
  <2> QED
    BY <1>0, <2>1, LinkFresh
<1>7. ASSUME NEW p \in Procs, Made(p) PROVE FreshInv'
  <2>1. ready' = [ready EXCEPT ![p] = @ \cup {config[p]}] /\ pc[p] = "made"
        /\ UNCHANGED <<files, process, checked>> /\ \A q \in Procs : pc'[q] = "made" => pc[q] = "made"
    BY <1>7 DEF Made, TypeOK
  <2> QED
    BY <1>2, <2>1
<1>8. ASSUME NEW p \in Procs, Exit(p) \/ Crash(p) \/ CrashAlone(p) PROVE FreshInv'
  <2>1. /\ UNCHANGED <<scala, built, config, checked>>
        /\ \A q \in Procs : ready'[q] \subseteq ready[q] /\ (pc'[q] = "made" => pc[q] = "made")
    BY <1>8 DEF Exit, Crash, CrashAlone, Gone, files, process, TypeOK
  <2> QED
    BY <2>1
<1>9. CASE OrphanLinks
  <2>1. PICK o \in orphans : Link(o[1], o[2])
    BY <1>9 DEF OrphanLinks
  <2>2. o[1] \in Configs /\ o[2] \in Nat
    BY DEF TypeOK
  <2>3. UNCHANGED <<checked, ready, config, pc>>
    BY <1>9 DEF OrphanLinks, process
  <2> HIDE DEF FreshInv
  <2> QED
    BY <2>1, <2>2, <2>3, LinkFresh
<1>10. CASE Edit
  <2>1. UNCHANGED <<built, checked, ready, config, pc>> /\ scala' \in Nat /\ scala' >= scala
    BY <1>10 DEF Edit, process, TypeOK
  <2> QED
    BY <1>0, <2>1
<1>11. CASE UNCHANGED vars
  BY <1>11 DEF vars, files, process
<1> QED
  BY <1>1, <1>3, <1>4, <1>5, <1>6, <1>7, <1>8, <1>9, <1>10, <1>11 DEF Next, Elaborate

\* A job runs on a simulator at least as new as the Scala was when its process last began to
\* elaborate the config with a check, whatever the other processes, their options and the editors do.
THEOREM Fresh == Spec => RunsWhatWasChecked
<1>1. Init => FreshInv /\ Unchecked
  BY DEF Init, FreshInv, Unchecked
<1>2. TypeOK /\ FreshInv /\ Unchecked /\ [Next]_vars => FreshInv' /\ Unchecked'
  BY FreshStep, UncheckedStep
<1>3. TypeOK /\ FreshInv /\ [Next]_vars
        => [\A p \in Procs : pc[p] = "run" /\ pc'[p] = "idle"
              => built[config[p]] >= checked[p][config[p]]]_vars
  BY DEF TypeOK, FreshInv
<1> QED
  BY <1>1, <1>2, <1>3, TypeCorrect, PTL DEF Spec, RunsWhatWasChecked
-----------------------------------------------------------------------------
(***************************************************************************)
(* Elaborated once.  A make links with an mtime of its own, newer than the *)
(* Scala it read, so what was elaborated from the Scala of some moment is  *)
(* newer than it; and whoever makes without --rebuild found, under the     *)
(* lock, a simulator older than the Scala that make then reads.  Between   *)
(* that look and the link only the Scala changes, and it only gets newer.  *)
(***************************************************************************)
OnceInv ==
  /\ \A e \in elaborated : e[2] < built[e[1]]
  /\ \A p \in Procs : reading[p] <= now
  /\ \A p \in Procs : pc[p] = "make" /\ opt[p] # "rebuild" => built[config[p]] < scala
  /\ \A p \in Procs : pc[p] = "making" /\ opt[p] # "rebuild" => built[config[p]] < reading[p]

\* Simulators do not change, the Scala gets no older, and whoever makes did so before.
LEMMA OnceKeeps ==
  ASSUME TypeOK, OnceInv, UNCHANGED <<built, elaborated, reading>>,
         now' \in Nat, scala' \in Nat, now <= now', scala <= scala',
         \A q \in Procs : pc'[q] \in {"make", "making"} =>
           pc'[q] = pc[q] /\ opt'[q] = opt[q] /\ config'[q] = config[q]
  PROVE  OnceInv'
<1>1. /\ now \in Nat /\ scala \in Nat /\ \A q \in Procs : reading[q] \in Nat /\ config[q] \in Configs
      /\ \A b \in Configs : built[b] \in Nat
  BY DEF TypeOK
<1>2. \A q \in Procs : reading'[q] <= now'
  BY <1>1 DEF OnceInv
<1>3. \A q \in Procs : pc'[q] = "make" /\ opt'[q] # "rebuild" => built'[config'[q]] < scala'
  BY <1>1 DEF OnceInv
<1>4. \A q \in Procs : pc'[q] = "making" /\ opt'[q] # "rebuild" => built'[config'[q]] < reading'[q]
  BY <1>1 DEF OnceInv
<1> QED
  BY <1>2, <1>3, <1>4 DEF OnceInv

\* The holder of the lock did not reuse: its simulator is missing or older than the Scala.
LEMMA RedecideOnce ==
  ASSUME TypeOK, OnceInv, NEW p \in Procs, Redecide(p)
  PROVE  OnceInv'
<1>1. UNCHANGED <<now, scala, built, elaborated, reading, opt, config>>
      /\ pc' = [pc EXCEPT ![p] = IF Decision(p) = "reuse" THEN "run" ELSE "make"]
  BY DEF Redecide, Goto, files, process
<1>2. config[p] \in Configs /\ opt[p] \in Options /\ scala \in Nat \ {0} /\ built[config[p]] \in Nat
  BY DEF TypeOK
<1>3. Decision(p) # "reuse" /\ opt[p] # "rebuild" => built[config[p]] < scala
  BY <1>2 DEF Decision, Stale
<1>4. \A q \in Procs : q # p => pc'[q] = pc[q]
  BY <1>1 DEF TypeOK
<1>5. pc'[p] \in {"run", "make"} /\ (pc'[p] = "make" => Decision(p) # "reuse")
  BY <1>1 DEF TypeOK
<1> QED
  BY <1>1, <1>3, <1>4, <1>5 DEF OnceInv

\* Nobody else is between the lock and its release while a simulator is linked.
LEMMA LinkOnce ==
  ASSUME TypeOK, LockInv, OnceInv, NEW p \in Procs, MakeLinks(p)
  PROVE  OnceInv'
<1>1. /\ Link(config[p], reading[p]) /\ UNCHANGED <<reading, config, opt>>
      /\ elaborated' \subseteq elaborated \cup {<<config[p], reading[p]>>}
      /\ pc[p] = "making" /\ pc' = [pc EXCEPT ![p] = "made"]
  BY DEF MakeLinks, Goto, process
<1>2. /\ now \in Nat /\ config[p] \in Configs /\ elaborated \subseteq Configs \X Nat
      /\ \A q \in Procs : reading[q] \in Nat
      /\ \A b \in Configs : built[b] \in Nat /\ built[b] <= now
  BY DEF TypeOK
<1>3. now' = now + 1 /\ \A b \in Configs : built'[b] = IF b = config[p] THEN now + 1 ELSE built[b]
  BY <1>1 DEF Link, TypeOK
<1>4. ASSUME NEW e \in elaborated' PROVE e[2] < built'[e[1]]
  <2>1. CASE e \in elaborated
    <3>1. e[1] \in Configs /\ e[2] \in Nat /\ e[2] < built[e[1]]
      BY <1>2, <2>1 DEF OnceInv
    <3> QED
      BY <1>2, <1>3, <3>1
  <2>2. CASE e = <<config[p], reading[p]>>
    <3>1. reading[p] <= now /\ reading[p] \in Nat
      BY <1>2 DEF OnceInv
    <3> QED
      BY <1>2, <1>3, <2>2, <3>1
  <2> QED
    BY <1>1, <2>1, <2>2
<1>5. \A q \in Procs : reading'[q] <= now'
  BY <1>1, <1>2, <1>3 DEF OnceInv
<1>6. \A q \in Procs : pc'[q] \notin {"make", "making"}
  <2>1. \A q \in Procs : pc[q] \in {"make", "making"} => q = p
    BY <1>1 DEF LockInv
  <2> QED
    BY <1>1, <2>1 DEF TypeOK
<1> QED
  BY <1>4, <1>5, <1>6 DEF OnceInv

\* Every step keeps it, as long as no make outlives its simq.
LEMMA OnceStep ==
  ASSUME TypeOK, LockInv, OnceInv, [Next]_vars
  PROVE  OnceInv'
<1> USE DEF Goto
<1>0. now \in Nat /\ scala \in Nat /\ scala <= now
  BY DEF TypeOK
<1>1. ASSUME NEW p \in Procs, TakeJob(p) PROVE OnceInv'
  <2>1. UNCHANGED <<now, scala, built, reading, elaborated>>
    BY <1>1 DEF TakeJob, files
  <2>2. /\ pc'[p] \in {"run", "decide"}
        /\ \A q \in Procs : q # p => pc'[q] = pc[q] /\ opt'[q] = opt[q] /\ config'[q] = config[q]
    BY <1>1 DEF TakeJob, TypeOK
  <2> QED
    BY <1>0, <2>1, <2>2, OnceKeeps
<1>2. ASSUME NEW p \in Procs, Decide(p) PROVE OnceInv'
  <2>1. UNCHANGED <<now, scala, built, reading, elaborated, opt, config>>
    BY <1>2 DEF Decide, files, process
  <2>2. pc'[p] \in {"run", "idle", "lock"} /\ \A q \in Procs : q # p => pc'[q] = pc[q]
    BY <1>2 DEF Decide, Decision, TypeOK
  <2> QED
    BY <1>0, <2>1, <2>2, OnceKeeps
<1>3. ASSUME NEW p \in Procs, BuildLock(p) PROVE OnceInv'
  <2>1. UNCHANGED <<now, scala, built, reading, elaborated, opt, config>>
    BY <1>3 DEF BuildLock, files, process
  <2>2. /\ pc'[p] \in {"make", "redecide"} /\ (pc'[p] = "make" => opt[p] = "rebuild")
        /\ \A q \in Procs : q # p => pc'[q] = pc[q]
    BY <1>3 DEF BuildLock, TypeOK
  <2> QED
    BY <2>1, <2>2 DEF OnceInv
<1>4. ASSUME NEW p \in Procs, MakeReads(p) PROVE OnceInv'
  <2>1. /\ UNCHANGED <<now, scala, built, elaborated, opt, config>>
        /\ pc[p] = "make" /\ pc' = [pc EXCEPT ![p] = "making"] /\ reading' = [reading EXCEPT ![p] = scala]
    BY <1>4 DEF MakeReads, files, process
  <2>2. /\ pc'[p] = "making" /\ reading'[p] = scala
        /\ \A q \in Procs : q # p => pc'[q] = pc[q] /\ reading'[q] = reading[q]
    BY <2>1 DEF TypeOK
  <2> QED
    BY <1>0, <2>1, <2>2 DEF OnceInv
<1>5. ASSUME NEW p \in Procs, MakeNothing(p) \/ Made(p) \/ RunJob(p) \/ MakeFails(p) PROVE OnceInv'
  <2>1. UNCHANGED <<now, scala, built, reading, elaborated, opt, config>>
    BY <1>5 DEF MakeNothing, Made, RunJob, MakeFails, files, process
  <2>2. pc'[p] \in {"made", "run", "idle"} /\ \A q \in Procs : q # p => pc'[q] = pc[q]
    BY <1>5 DEF MakeNothing, Made, RunJob, MakeFails, TypeOK
  <2> QED
    BY <1>0, <2>1, <2>2, OnceKeeps
<1>6. ASSUME NEW p \in Procs, Exit(p) \/ Crash(p) \/ CrashAlone(p) PROVE OnceInv'
  <2>1. UNCHANGED <<now, scala, built, reading, elaborated, opt, config>>
    BY <1>6 DEF Exit, Crash, CrashAlone, Gone, files, process
  <2>2. pc'[p] = "idle" /\ \A q \in Procs : q # p => pc'[q] = pc[q]
    BY <1>6 DEF Exit, Crash, CrashAlone, Gone, TypeOK
  <2> QED
    BY <1>0, <2>1, <2>2, OnceKeeps
<1>7. CASE OrphanLinks
  BY <1>7 DEF OrphanLinks, LockInv
<1>8. CASE Edit
  BY <1>0, <1>8, OnceKeeps DEF Edit, process
<1>9. CASE UNCHANGED vars
  BY <1>0, <1>9, OnceKeeps DEF vars, files, process
<1> QED
  BY <1>1, <1>2, <1>3, <1>4, <1>5, <1>6, <1>7, <1>8, <1>9, RedecideOnce, LinkOnce DEF Next, Elaborate

\* "elaborates each config ONCE": as long as no make outlives its simq, no two processes elaborate a
\* config from the same Scala without --rebuild, whoever waits for the lock, crashes under it, fails to
\* make or edits the Scala in between.
THEOREM Once ==
  ASSUME "orphan" \notin Faults
  PROVE  Spec => ElaboratedOnce
<1>1. Init => PcType /\ LockInv /\ OnceInv
  BY DEF Init, PcType, Points, LockInv, OnceInv
<1>2. TypeOK /\ PcType /\ LockInv /\ OnceInv /\ [Next]_vars => PcType' /\ LockInv' /\ OnceInv'
  BY PcStep, LockStep, OnceStep
<1>3. TypeOK /\ OnceInv
        => \A p \in Procs : pc[p] = "making" /\ opt[p] # "rebuild"
             => <<config[p], reading[p]>> \notin elaborated
  <2> SUFFICES ASSUME TypeOK, OnceInv, NEW p \in Procs, pc[p] = "making", opt[p] # "rebuild",
                      <<config[p], reading[p]>> \in elaborated
               PROVE  FALSE
    OBVIOUS
  <2>1. config[p] \in Configs /\ reading[p] \in Nat /\ built[config[p]] \in Nat
    BY DEF TypeOK
  <2>2. reading[p] < built[config[p]] /\ built[config[p]] < reading[p]
    BY DEF OnceInv
  <2> QED
    BY <2>1, <2>2
<1>4. TypeOK /\ OnceInv
        => [\A p \in Procs : pc[p] = "making" /\ pc'[p] = "made" /\ opt[p] # "rebuild"
              => <<config[p], reading[p]>> \notin elaborated]_vars
  BY <1>3
<1> QED
  BY <1>1, <1>2, <1>4, TypeCorrect, PTL DEF Spec, ElaboratedOnce
=============================================================================
