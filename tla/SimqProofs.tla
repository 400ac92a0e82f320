----------------------------- MODULE SimqProofs -----------------------------
(***************************************************************************)
(* Proofs about Simq, for every number of jobs, daemons, terminals and     *)
(* lanes, every fault and every choice of commands.                        *)
(***************************************************************************)
EXTENDS Simq, FiniteSetTheorems, TLAPS

-----------------------------------------------------------------------------
(***************************************************************************)
(* Type correctness.                                                       *)
(***************************************************************************)
\* Every step of a daemon's threads, and every fault, leaves the state typed.
LEMMA DaemonTyped == TypeOK /\ DaemonNext /\ UNCHANGED clientVars => TypeOK'
<1> SUFFICES ASSUME TypeOK, UNCHANGED clientVars, NEW d \in Pids,
                    \/ MainThread(d) \/ ElaborateRaises(d) \/ Crash(d) \/ PidReuse(d)
                    \/ \E j \in Jobs : Lane(d, j) \/ LaneFault(d, j)
             PROVE  TypeOK'
  BY DEF DaemonNext
<1> USE DEF TypeOK, clientVars, spoolVars, Goto, Records, PCs, LoopPoints
<1>1. CASE WritePidfile(d)
  BY <1>1 DEF WritePidfile
<1>2. CASE CheckStop(d)
  BY <1>2 DEF CheckStop
<1>3. CASE TakeStop(d)
  BY <1>3 DEF TakeStop
<1>4. CASE Scan(d)
  BY <1>4 DEF Scan, GlobPending, Oldest, In
<1>5. CASE LeaveIdle(d)
  BY <1>5 DEF LeaveIdle
<1>6. CASE Sleep(d)
  BY <1>6 DEF Sleep
<1>7. CASE NextInBatch(d)
  BY <1>7 DEF NextInBatch
<1>8. CASE SpoolClaim(d)
  <2>1. PICK j \in batch[d] : /\ pc' \in [Pids -> PCs]
                              /\ batch' = [batch EXCEPT ![d] = @ \ {j}]
                              /\ \/ UNCHANGED <<pending, running, current>>
                                 \/ /\ running' = RenameTarget(running, pending, j)
                                    /\ pending' = RenameSource(pending, j)
                                    /\ current' = [current EXCEPT ![d] = j]
    BY <1>8 DEF SpoolClaim
  <2>2. j \in Jobs
    BY <2>1
  <2>3. batch' \in [Pids -> SUBSET Jobs] /\ pending' \in [Jobs -> Records]
    BY <2>1, <2>2 DEF RenameSource
  <2>4. running' \in [Jobs -> Records] /\ current' \in [Pids -> Jobs \cup {0}]
    <3>1. CASE UNCHANGED <<pending, running, current>>
      BY <3>1
    <3>2. CASE /\ running' = [running EXCEPT ![j] = pending[j]]
               /\ current' = [current EXCEPT ![d] = j]
      <4>1. pending[j] \in Records
        BY <2>2
      <4> QED
        BY <3>2, <4>1, <2>2
    <3> QED
      BY <2>1, <3>1, <3>2 DEF RenameTarget
  <2> QED
    BY <1>8, <2>1, <2>3, <2>4 DEF SpoolClaim
<1>9. CASE SpoolRead(d)
  BY <1>9 DEF SpoolRead
<1>10. CASE ElaborateReady(d)
  BY <1>10 DEF ElaborateReady, Stages
<1>11. CASE ElaborateNotReady(d)
  BY <1>11 DEF ElaborateNotReady, Stages
<1>12. CASE InlineDone(d)
  BY <1>12 DEF InlineDone
<1>13. CASE PoolShutdown(d)
  BY <1>13 DEF PoolShutdown
<1>14. CASE UnlinkPidfile(d)
  BY <1>14 DEF UnlinkPidfile
<1>15. CASE ElaborateRaises(d)
  BY <1>15 DEF ElaborateRaises
<1>16. CASE Crash(d)
  BY <1>16 DEF Crash, Terminated, Stages
<1>17. CASE PidReuse(d)
  BY <1>17 DEF PidReuse
<1>18. ASSUME NEW j \in Jobs, StampOpen(d, j) PROVE TypeOK'
  BY <1>18 DEF StampOpen, Advance, Stages
<1>19. ASSUME NEW j \in Jobs, StampWrite(d, j) PROVE TypeOK'
  BY <1>19 DEF StampWrite, Advance, Stages
<1>20. ASSUME NEW j \in Jobs, RunJob(d, j) PROVE TypeOK'
  BY <1>20 DEF RunJob, Advance, Stages
<1>21. ASSUME NEW j \in Jobs, SimEnds(d, j) PROVE TypeOK'
  BY <1>21 DEF SimEnds, Advance, Stages
<1>22. ASSUME NEW j \in Jobs, FinishOpen(d, j) PROVE TypeOK'
  BY <1>22 DEF FinishOpen, Advance, Stages
<1>23. ASSUME NEW j \in Jobs, FinishWrite(d, j) PROVE TypeOK'
  BY <1>23 DEF FinishWrite, Advance, Stages, VerdictsOf, Verdicts, RunVerdicts
<1>24. ASSUME NEW j \in Jobs, FinishUnlink(d, j) PROVE TypeOK'
  BY <1>24 DEF FinishUnlink, Advance, Stages
<1>25. ASSUME NEW j \in Jobs, StampFails(d, j) PROVE TypeOK'
  <2>1. stage' \in [Pids -> [Jobs -> Stages]]
    BY <1>25 DEF StampFails, Advance, Stages
  <2> QED
    BY <1>25, <2>1 DEF StampFails
<1>26. ASSUME NEW j \in Jobs, FinishFails(d, j) PROVE TypeOK'
  <2>1. stage' = [stage EXCEPT ![d][j] = "idle"]
    BY <1>26 DEF FinishFails, Advance
  <2>3. stage' \in [Pids -> [Jobs -> Stages]]
    BY <2>1 DEF Stages
  <2>2. pc' \in [Pids -> PCs] /\ current' \in [Pids -> Jobs \cup {0}]
    BY <1>26 DEF FinishFails
  <2> QED
    BY <1>26, <2>3, <2>2 DEF FinishFails
<1> QED
  BY <1>1, <1>2, <1>3, <1>4, <1>5, <1>6, <1>7, <1>8, <1>9, <1>10, <1>11, <1>12, <1>13, <1>14, <1>15, <1>16, <1>17, <1>18, <1>19, <1>20, <1>21, <1>22, <1>23, <1>24, <1>25, <1>26 DEF MainThread, Lane, LaneFault

\* So does every step of a command.
LEMMA ClientTyped == ASSUME TypeOK, NEW c \in Clients, Client(c) PROVE TypeOK'
<1> USE DEF TypeOK, spoolVars, daemonVars, ClientPCs, Step, Type
<1>1. CASE SpoolStamp(c)
  <2>1. cpc' \in [Clients -> ClientPCs] /\ cpc'[c] = "publish"
        /\ \A e \in Clients : e # c => cpc'[e] = cpc[e]
    BY <1>1 DEF SpoolStamp
  <2>2. nextId \in Jobs /\ nextId' \in 1 .. NumJobs + 1
    BY <1>1, JobsAssumption DEF SpoolStamp, Jobs
  <2>3. files' \in [Clients -> SUBSET (Dirs \X Jobs)]
    BY <1>1, <2>2 DEF SpoolStamp, Dirs
  <2> QED
    BY <1>1, <2>1, <2>2, <2>3 DEF SpoolStamp
<1>2. CASE SpoolPublish(c)
  BY <1>2 DEF SpoolPublish, Records
<1>3. CASE AddStart(c)
  BY <1>3 DEF AddStart
<1>4. CASE DaemonStart(c)
  BY <1>4 DEF DaemonStart
<1>5. CASE DaemonSpawn(c)
  BY <1>5 DEF DaemonSpawn, Goto, PCs
<1>6. CASE DaemonWait(c)
  BY <1>6 DEF DaemonWait
<1>7. CASE DaemonForeground(c)
  BY <1>7 DEF DaemonForeground, Goto, PCs
<1>8. CASE StopProbe(c)
  BY <1>8 DEF StopProbe, DaemonAlive
<1>9. CASE StopTouch(c)
  BY <1>9 DEF StopTouch
<1>10. CASE StopKill(c)
  <2>1. cpc' = [cpc EXCEPT ![c] = "unpid"] /\ cpid[c] \in Pids
    BY <1>10 DEF StopKill
  <2>2. CASE Terminated(cpid[c])
    <3>1. /\ pc' \in [Pids -> PCs] /\ batch' \in [Pids -> SUBSET Jobs]
          /\ current' \in [Pids -> Jobs \cup {0}] /\ stage' \in [Pids -> [Jobs -> Stages]]
      BY <2>2, <2>1 DEF Terminated, PCs, Stages
    <3> QED
      BY <1>10, <2>1, <3>1 DEF StopKill
  <2>3. CASE UNCHANGED <<pc, batch, current, stage>>
    BY <1>10, <2>1, <2>3 DEF StopKill
  <2> QED
    BY <1>10, <2>2, <2>3 DEF StopKill
<1>11. CASE StopUnpid(c)
  BY <1>11 DEF StopUnpid
<1>12. CASE DropList(c)
  <2>1. cpc' \in [Clients -> ClientPCs] /\ cpc'[c] = "unlink"
        /\ \A e \in Clients : e # c => cpc'[e] = cpc[e]
    BY <1>12 DEF DropList
  <2>2. \A wanted \in SUBSET In(pending) : FilesIn("pending", wanted) \in SUBSET (Dirs \X Jobs)
    BY DEF FilesIn, Dirs, In
  <2>3. files' \in [Clients -> SUBSET (Dirs \X Jobs)]
    <3>1. CASE files' = [files EXCEPT ![c] = FilesIn("pending", In(pending))]
      BY <3>1, <2>2
    <3>2. ASSUME NEW wanted \in SUBSET In(pending),
                 files' = [files EXCEPT ![c] = FilesIn("pending", wanted)]
          PROVE  files' \in [Clients -> SUBSET (Dirs \X Jobs)]
      BY <3>2, <2>2
    <3> QED
      BY <1>12, <3>1, <3>2 DEF DropList
  <2> QED
    BY <1>12, <2>1, <2>3 DEF DropList
<1>13. CASE ClearProbe(c)
  BY <1>13 DEF ClearProbe, DaemonAlive, FilesIn, Dirs, In
<1>14. CASE ClearLive(c)
  BY <1>14 DEF ClearLive, In
<1>15. CASE ClearLogs(c)
  BY <1>15 DEF ClearLogs, FilesIn, Dirs
<1>16. CASE ClearOrphans(c)
  BY <1>16 DEF ClearOrphans, FilesIn, Dirs, In
<1>17. CASE UnlinkOne(c)
  BY <1>17 DEF UnlinkOne, Without, Records
<1>18. CASE UnlinkDone(c)
  BY <1>18 DEF UnlinkDone
<1>19. CASE StatusOrphans(c)
  BY <1>19 DEF StatusOrphans
<1>20. CASE Requeue(c)
  BY <1>20 DEF Requeue, Records
<1> QED
  BY <1>1, <1>2, <1>3, <1>4, <1>5, <1>6, <1>7, <1>8, <1>9, <1>10, <1>11, <1>12, <1>13, <1>14, <1>15, <1>16, <1>17, <1>18, <1>19, <1>20, Client(c) DEF Client

\* Every reachable state is typed: records are whole, torn or absent, ids never pass NumJobs + 1,
\* every process is at a point of its program.
THEOREM TypeCorrect == Spec => []TypeOK
<1>1. SimqInit => TypeOK
  <2> SUFFICES ASSUME SimqInit PROVE TypeOK
    OBVIOUS
  <2>1. /\ pending \in [Jobs -> Records] /\ running \in [Jobs -> Records]
        /\ done \in [Jobs -> {"absent", "torn"} \cup Verdicts]
        /\ starts \in [Jobs -> Nat] /\ stage \in [Pids -> [Jobs -> Stages]]
    BY DEF SimqInit, Init, Records, Stages
  <2>2. /\ pc \in [Pids -> PCs] /\ batch \in [Pids -> SUBSET Jobs]
        /\ current \in [Pids -> Jobs \cup {0}]
    BY DEF SimqInit, Init, PCs
  <2>3. nextId \in 1 .. NumJobs + 1
    BY JobsAssumption DEF SimqInit
  <2>4. /\ cpc \in [Clients -> ClientPCs] /\ cpid \in [Clients -> Pids \cup {NoPid}]
        /\ \A c \in Clients : cpc[c] = "prompt"
    BY DEF SimqInit, ClientPCs
  <2>5. clive \in [Clients -> SUBSET Jobs] /\ files \in [Clients -> SUBSET (Dirs \X Jobs)]
    BY DEF SimqInit
  <2> QED
    BY <2>1, <2>2, <2>3, <2>4, <2>5 DEF SimqInit, Init, TypeOK
<1>2. TypeOK /\ [Next]_vars => TypeOK'
  <2> SUFFICES ASSUME TypeOK, [Next]_vars PROVE TypeOK'
    OBVIOUS
  <2>1. CASE DaemonNext /\ UNCHANGED clientVars
    BY <2>1, DaemonTyped
  <2>2. ASSUME NEW c \in Clients, Client(c) PROVE TypeOK'
    BY <2>2, ClientTyped
  <2>3. CASE UNCHANGED vars
    BY <2>3 DEF vars, spoolVars, daemonVars, clientVars, TypeOK
  <2> QED
    BY <2>1, <2>2, <2>3 DEF Next
<1> QED
  BY <1>1, <1>2, PTL DEF Spec

-----------------------------------------------------------------------------
(***************************************************************************)
(* No double run.  A job is at one place at a time: not yet published (its *)
(* stamp not given, or its publisher about to rename it), or in pending/,  *)
(* or past its one claim.  Until it is claimed nobody holds it and its     *)
(* simulator never ran; the claim is a rename, so one daemon wins it.      *)
(***************************************************************************)
Publishing(c, j) == cpc[c] = "publish" /\ <<"pending", j>> \in files[c]

Unclaimed(j) == j >= nextId \/ pending[j] # "absent" \/ \E c \in Clients : Publishing(c, j)

\* A stamp is given to one publisher, which has not published it yet.
PublishInv ==
  /\ \A j \in Jobs : j >= nextId => pending[j] = "absent"
  /\ \A c \in Clients, j \in Jobs : Publishing(c, j) => j < nextId /\ pending[j] = "absent"
  /\ \A c, e \in Clients, j \in Jobs : Publishing(c, j) /\ Publishing(e, j) => c = e
  /\ \A c \in Clients : cpc[c] # "mv"

UnclaimedInv == \A j \in Jobs : Unclaimed(j) => starts[j] = 0 /\ \A d \in Pids : ~Holds(d, j)

\* Where a job is before its simulator starts, it was never started; the main thread starts none.
BeforeStart == {"stamp", "stamping", "run"}
StartInv ==
  \A d \in Pids, j \in Jobs :
    /\ current[d] = j \/ stage[d][j] \in BeforeStart => starts[j] = 0
    /\ current[d] = j => stage[d][j] \notin BeforeStart

ClaimInv == UnclaimedInv /\ StartInv /\ ExclusiveClaim /\ RunsOnce

\* A daemon publishes nothing.
LEMMA DaemonPending ==
  TypeOK /\ DaemonNext => \A j \in Jobs : pending[j] = "absent" => pending'[j] = "absent"
<1> SUFFICES ASSUME TypeOK, NEW d \in Pids,
                    \/ MainThread(d) \/ ElaborateRaises(d) \/ Crash(d) \/ PidReuse(d)
                    \/ \E j \in Jobs : Lane(d, j) \/ LaneFault(d, j),
                    NEW k \in Jobs, pending[k] = "absent"
             PROVE  pending'[k] = "absent"
  BY DEF DaemonNext
<1>1. CASE SpoolClaim(d)
  BY <1>1 DEF SpoolClaim, RenameSource, TypeOK
<1>2. ASSUME NEW j \in Jobs, StampWrite(d, j) PROVE pending'[k] = "absent"
  BY <1>2 DEF StampWrite, TypeOK
<1>3. CASE pending' = pending
  BY <1>3
<1> QED
  BY <1>1, <1>2, <1>3
  DEF MainThread, Lane, LaneFault, spoolVars, WritePidfile, CheckStop, TakeStop, Scan, LeaveIdle, Sleep, NextInBatch, SpoolRead, InlineDone, ElaborateRaises, PoolShutdown, UnlinkPidfile, Crash, PidReuse, ElaborateReady, ElaborateNotReady, RunJob, StampOpen, StampFails, SimEnds, FinishOpen, FinishWrite, FinishUnlink, FinishFails

\* A command that neither stamps nor publishes leaves the publishers as they are.
Plain(c) ==
  /\ nextId' = nextId /\ cpc'[c] \notin {"publish", "mv"}
  /\ \A e \in Clients : e # c => cpc'[e] = cpc[e] /\ files'[e] = files[e]
  /\ \A j \in Jobs : pending[j] = "absent" => pending'[j] = "absent"

\* A command that is neither add nor the advised mv puts nothing into pending/.
LEMMA ClientPlain ==
  ASSUME TypeOK, "requeue" \notin Commands, NEW c \in Clients, Client(c), cpc[c] # "mv"
  PROVE  SpoolStamp(c) \/ SpoolPublish(c) \/ Plain(c)
<1> USE DEF TypeOK, Plain, Step, Type, spoolVars
<1>1. CASE AddStart(c)
  BY <1>1 DEF AddStart
<1>2. CASE DaemonStart(c)
  BY <1>2 DEF DaemonStart
<1>3. CASE DaemonSpawn(c)
  BY <1>3 DEF DaemonSpawn
<1>4. CASE DaemonWait(c)
  BY <1>4 DEF DaemonWait
<1>5. CASE DaemonForeground(c)
  BY <1>5 DEF DaemonForeground
<1>6. CASE StopProbe(c)
  BY <1>6 DEF StopProbe
<1>7. CASE StopTouch(c)
  BY <1>7 DEF StopTouch
<1>8. CASE StopKill(c)
  BY <1>8 DEF StopKill
<1>9. CASE StopUnpid(c)
  BY <1>9 DEF StopUnpid
<1>10. CASE DropList(c)
  BY <1>10 DEF DropList
<1>11. CASE ClearProbe(c)
  BY <1>11 DEF ClearProbe
<1>12. CASE ClearLive(c)
  BY <1>12 DEF ClearLive
<1>13. CASE ClearLogs(c)
  BY <1>13 DEF ClearLogs
<1>14. CASE ClearOrphans(c)
  BY <1>14 DEF ClearOrphans
<1>15. CASE UnlinkOne(c)
  BY <1>15 DEF UnlinkOne, Without
<1>16. CASE UnlinkDone(c)
  BY <1>16 DEF UnlinkDone
<1>17. CASE StatusOrphans(c)
  BY <1>17 DEF StatusOrphans
<1>18. CASE Requeue(c)
  BY <1>18 DEF Requeue
<1> QED
  BY <1>1, <1>2, <1>3, <1>4, <1>5, <1>6, <1>7, <1>8, <1>9, <1>10, <1>11, <1>12, <1>13, <1>14, <1>15, <1>16, <1>17, <1>18 DEF Client

\* Stamps and publications keep to their order, and nothing becomes unclaimed again.
LEMMA PublishStep ==
  ASSUME TypeOK, PublishInv, "requeue" \notin Commands, Next
  PROVE  PublishInv' /\ \A j \in Jobs : Unclaimed(j)' => Unclaimed(j)
<1> USE DEF PublishInv, Unclaimed, Publishing
<1>1. CASE DaemonNext /\ UNCHANGED clientVars
  BY <1>1, DaemonPending DEF clientVars
<1>2. ASSUME NEW c \in Clients, Client(c)
      PROVE  PublishInv' /\ \A j \in Jobs : Unclaimed(j)' => Unclaimed(j)
  <2>1. CASE SpoolStamp(c)
    <3>1. /\ nextId \in Jobs /\ nextId' = nextId + 1 /\ pending' = pending
          /\ cpc'[c] = "publish" /\ \A e \in Clients : e # c => cpc'[e] = cpc[e]
          /\ files' = [files EXCEPT ![c] = {<<"pending", nextId>>}]
      <4>1. nextId \in Jobs /\ nextId' = nextId + 1 /\ pending' = pending
            /\ files' = [files EXCEPT ![c] = {<<"pending", nextId>>}]
        BY <2>1 DEF SpoolStamp, spoolVars
      <4>2. cpc' = [cpc EXCEPT ![c] = "publish"]
        BY <2>1 DEF SpoolStamp, Step, Type
      <4> QED
        BY <4>1, <4>2 DEF TypeOK
    <3>2. \A j \in Jobs : j >= nextId' => j >= nextId /\ j # nextId
      <4>1. nextId \in Int /\ nextId' = nextId + 1
        BY <3>1 DEF Jobs
      <4>2. \A j \in Jobs : j \in Int
        BY DEF Jobs
      <4> HIDE DEF PublishInv
      <4> QED
        BY ONLY <4>1, <4>2, SMT
    <3>3. \A e \in Clients, j \in Jobs :
            Publishing(e, j)' => IF e = c THEN j = nextId ELSE Publishing(e, j)
      BY <3>1 DEF TypeOK
    <3>4. \A j \in Jobs : j < nextId => j < nextId'
      BY <3>1 DEF Jobs
    <3>5. nextId < nextId' /\ ~(nextId < nextId) /\ nextId >= nextId
      BY <3>1 DEF Jobs
    <3> QED
      BY <3>1, <3>2, <3>3, <3>4, <3>5
  <2>2. CASE SpoolPublish(c)
    <3>1. PICK j \in Jobs : <<"pending", j>> \in files[c] /\ pending' = [pending EXCEPT ![j] = "ok"]
      BY <2>2 DEF SpoolPublish
    <3>2. /\ nextId' = nextId /\ cpc[c] = "publish" /\ cpc'[c] = "added"
          /\ \A e \in Clients : e # c => cpc'[e] = cpc[e] /\ files'[e] = files[e]
      BY <2>2 DEF SpoolPublish, Step, TypeOK
    <3>3. \A k \in Jobs : k # j => pending'[k] = pending[k]
      BY <3>1 DEF TypeOK
    <3>4. Publishing(c, j)
      BY <3>1, <3>2
    <3>5. \A e \in Clients, k \in Jobs : Publishing(e, k)' => e # c /\ Publishing(e, k)
      BY <3>2
    <3>6. \A e \in Clients : e # c => ~Publishing(e, j)
      <4>1. \A e, b \in Clients, k \in Jobs : Publishing(e, k) /\ Publishing(b, k) => e = b
        OBVIOUS
      <4> HIDE DEF Publishing
      <4> QED
        BY <3>4, <4>1
    <3>7. \A e \in Clients, k \in Jobs : Publishing(e, k)' => k # j
      BY <3>5, <3>6
    <3>8. PublishInv'
      <4>1. \A k \in Jobs : k >= nextId' => pending'[k] = "absent"
        <5>1. j < nextId /\ j \in Int /\ nextId \in Int
          BY <3>4 DEF TypeOK, Jobs
        <5>2. ~(j >= nextId)
          BY ONLY <5>1
        <5> QED
          BY <3>2, <3>3, <5>2
      <4>2. \A e \in Clients, k \in Jobs : Publishing(e, k)' => k < nextId' /\ pending'[k] = "absent"
        BY <3>2, <3>3, <3>5, <3>7
      <4>3. \A e, b \in Clients, k \in Jobs : Publishing(e, k)' /\ Publishing(b, k)' => e = b
        BY <3>5
      <4>4. \A e \in Clients : cpc'[e] # "mv"
        BY <3>2
      <4> QED
        BY <4>1, <4>2, <4>3, <4>4
    <3>9. \A k \in Jobs : Unclaimed(k)' => Unclaimed(k)
      BY <3>2, <3>3, <3>4, <3>5
    <3> QED
      BY <3>8, <3>9
  <2>3. CASE Plain(c)
    BY <2>3 DEF Plain
  <2> QED
    BY <1>2, <2>1, <2>2, <2>3, ClientPlain
<1> QED
  BY <1>1, <1>2 DEF Next

\* A step that claims nothing and starts no simulator: what is held was held before.
Calm ==
  /\ starts' = starts
  /\ \A d \in Pids :
       /\ current'[d] \in {current[d], 0}
       /\ pc[d] = "inline" => pc'[d] = "inline" \/ current'[d] = 0
       /\ \A j \in Jobs : /\ stage'[d][j] # "idle" => stage[d][j] # "idle"
                          /\ stage'[d][j] \in BeforeStart => stage[d][j] \in BeforeStart

\* A calm step keeps every claim exclusive and every start unique.
LEMMA CalmKeepsClaims ==
  ASSUME TypeOK, ClaimInv, Calm, \A j \in Jobs : Unclaimed(j)' => Unclaimed(j)
  PROVE  ClaimInv'
<1>1. \A d \in Pids, j \in Jobs : Holds(d, j)' => Holds(d, j)
  BY DEF Calm, Holds, Jobs
<1>2. UnclaimedInv' /\ RunsOnce'
  BY <1>1 DEF ClaimInv, UnclaimedInv, RunsOnce, Calm
<1>3. StartInv'
  BY DEF ClaimInv, StartInv, Calm, Jobs
<1>4. ExclusiveClaim'
  BY <1>1 DEF ClaimInv, ExclusiveClaim, Calm, Jobs
<1> QED
  BY <1>2, <1>3, <1>4 DEF ClaimInv

\* All the steps of a daemon are calm but the claim, the two outcomes of elaborate and the start.
LEMMA DaemonCalm ==
  ASSUME TypeOK, NEW d \in Pids,
         \/ MainThread(d) \/ ElaborateRaises(d) \/ Crash(d) \/ PidReuse(d)
         \/ \E j \in Jobs : Lane(d, j) \/ LaneFault(d, j)
  PROVE  \/ Calm \/ SpoolClaim(d) \/ ElaborateReady(d) \/ ElaborateNotReady(d)
         \/ \E j \in Jobs : RunJob(d, j)
<1> USE DEF TypeOK, Calm, Goto, BeforeStart
<1>1. CASE WritePidfile(d)
  BY <1>1 DEF WritePidfile
<1>2. CASE CheckStop(d)
  BY <1>2 DEF CheckStop
<1>3. CASE TakeStop(d)
  BY <1>3 DEF TakeStop
<1>4. CASE Scan(d)
  BY <1>4 DEF Scan
<1>5. CASE LeaveIdle(d)
  BY <1>5 DEF LeaveIdle
<1>6. CASE Sleep(d)
  BY <1>6 DEF Sleep
<1>7. CASE NextInBatch(d)
  BY <1>7 DEF NextInBatch
<1>8. CASE SpoolRead(d)
  BY <1>8 DEF SpoolRead
<1>9. CASE InlineDone(d)
  BY <1>9 DEF InlineDone
<1>10. CASE ElaborateRaises(d)
  BY <1>10 DEF ElaborateRaises
<1>11. CASE PoolShutdown(d)
  BY <1>11 DEF PoolShutdown
<1>12. CASE UnlinkPidfile(d)
  BY <1>12 DEF UnlinkPidfile
<1>13. CASE PidReuse(d)
  BY <1>13 DEF PidReuse
<1>14. CASE Crash(d)
  BY <1>14 DEF Crash, Terminated
<1>15. ASSUME NEW j \in Jobs, StampOpen(d, j) PROVE Calm
  BY <1>15 DEF StampOpen, Advance
<1>16. ASSUME NEW j \in Jobs, StampWrite(d, j) PROVE Calm
  BY <1>16 DEF StampWrite, Advance
<1>17. ASSUME NEW j \in Jobs, StampFails(d, j) PROVE Calm
  BY <1>17 DEF StampFails, Advance
<1>18. ASSUME NEW j \in Jobs, SimEnds(d, j) PROVE Calm
  BY <1>18 DEF SimEnds, Advance
<1>19. ASSUME NEW j \in Jobs, FinishOpen(d, j) PROVE Calm
  BY <1>19 DEF FinishOpen, Advance
<1>20. ASSUME NEW j \in Jobs, FinishWrite(d, j) PROVE Calm
  BY <1>20 DEF FinishWrite, Advance
<1>21. ASSUME NEW j \in Jobs, FinishUnlink(d, j) PROVE Calm
  BY <1>21 DEF FinishUnlink, Advance
<1>22. ASSUME NEW j \in Jobs, FinishFails(d, j) PROVE Calm
  <2>1. stage' = [stage EXCEPT ![d][j] = "idle"] /\ starts' = starts
    BY <1>22 DEF FinishFails, Advance
  <2>2. \A e \in Pids : /\ current'[e] \in {current[e], 0}
                        /\ pc[e] = "inline" => pc'[e] = "inline" \/ current'[e] = 0
    BY <1>22 DEF FinishFails
  <2> QED
    BY <2>1, <2>2
<1> QED
  BY <1>1, <1>2, <1>3, <1>4, <1>5, <1>6, <1>7, <1>8, <1>9, <1>10, <1>11, <1>12, <1>13, <1>14, <1>15, <1>16, <1>17, <1>18, <1>19, <1>20, <1>21, <1>22 DEF MainThread, Lane, LaneFault

\* Commands hold nothing and start no simulator; stop --now only ends a daemon.
LEMMA ClientCalm == ASSUME TypeOK, NEW c \in Clients, Client(c) PROVE Calm
<1> USE DEF TypeOK, Calm, BeforeStart
<1>1. CASE DaemonSpawn(c) \/ DaemonForeground(c)
  BY <1>1 DEF DaemonSpawn, DaemonForeground, Goto
<1>2. CASE StopKill(c)
  <2>1. cpid[c] \in Pids /\ starts' = starts
    BY <1>2 DEF StopKill, Step
  <2>2. CASE Terminated(cpid[c])
    BY <2>1, <2>2 DEF Terminated
  <2>3. CASE UNCHANGED <<pc, batch, current, stage>>
    BY <2>1, <2>3
  <2> QED
    BY <1>2, <2>2, <2>3 DEF StopKill
<1>3. CASE UNCHANGED daemonVars
  BY <1>3 DEF daemonVars
<1> QED
  BY <1>1, <1>2, <1>3
  DEF Client, daemonVars, SpoolStamp, SpoolPublish, AddStart, DaemonStart, DaemonWait, StopProbe, StopTouch, StopUnpid, DropList, ClearProbe, ClearLive, ClearLogs, ClearOrphans, UnlinkOne, UnlinkDone, StatusOrphans, Requeue


\* The claim: the record was in pending/, so nobody held the job, and it is unclaimed no more.
LEMMA SpoolClaimKeeps ==
  ASSUME TypeOK, PublishInv, ClaimInv, PublishInv', UNCHANGED clientVars, NEW d \in Pids, SpoolClaim(d),
         \A j \in Jobs : Unclaimed(j)' => Unclaimed(j)
  PROVE  ClaimInv'
<1>1. PICK j \in Jobs : \/ UNCHANGED <<pending, running, current>>
                        \/ /\ pending[j] # "absent"
                           /\ pending' = RenameSource(pending, j)
                           /\ current' = [current EXCEPT ![d] = j]
  BY DEF SpoolClaim, TypeOK
<1>2. starts' = starts /\ stage' = stage /\ pc[d] = "claim" /\ \A e \in Pids : e # d => pc'[e] = pc[e]
  BY DEF SpoolClaim, TypeOK
<1>3. CASE UNCHANGED <<pending, running, current>>
  <2>1. Calm
    BY <1>2, <1>3 DEF Calm, TypeOK
  <2> QED
    BY <2>1, CalmKeepsClaims
<1>4. CASE /\ pending[j] # "absent"
           /\ pending' = RenameSource(pending, j)
           /\ current' = [current EXCEPT ![d] = j]
  <2>1. starts[j] = 0 /\ \A e \in Pids : ~Holds(e, j)
    BY <1>4 DEF ClaimInv, UnclaimedInv, Unclaimed
  <2>2. ~Unclaimed(j)'
    <3>1. pending'[j] = "absent"
      BY <1>4 DEF RenameSource, TypeOK
    <3>2. ~(j >= nextId')
      BY <1>4 DEF PublishInv, clientVars
    <3>3. \A c \in Clients : ~Publishing(c, j)'
      BY <1>4 DEF PublishInv, Publishing, clientVars
    <3> QED
      BY <3>1, <3>2, <3>3 DEF Unclaimed
  <2>3. \A e \in Pids, k \in Jobs : Holds(e, k)' => Holds(e, k) \/ (e = d /\ k = j)
    BY <1>2, <1>4 DEF Holds, TypeOK
  <2>4. UnclaimedInv'
    BY <1>2, <2>2, <2>3 DEF ClaimInv, UnclaimedInv
  <2>5. StartInv'
    <3> SUFFICES ASSUME NEW e \in Pids, NEW k \in Jobs
                 PROVE  /\ current'[e] = k \/ stage'[e][k] \in BeforeStart => starts'[k] = 0
                        /\ current'[e] = k => stage'[e][k] \notin BeforeStart
      BY DEF StartInv
    <3>1. current'[e] = k => current[e] = k \/ (e = d /\ k = j)
      BY <1>4 DEF TypeOK
    <3>2. stage[d][j] = "idle"
      BY <2>1 DEF Holds
    <3> QED
      BY <1>2, <2>1, <3>1, <3>2 DEF ClaimInv, StartInv, BeforeStart
  <2>6. ExclusiveClaim'
    <3>1. \A k \in Jobs, e, f \in Pids : Holds(e, k)' /\ Holds(f, k)' => e = f
      BY <2>1, <2>3 DEF ClaimInv, ExclusiveClaim
    <3>2. ASSUME NEW k \in Jobs, NEW e \in Pids, current'[e] = k, stage'[e][k] # "idle"
          PROVE  pc'[e] = "inline"
      <4>1. e # d
        BY <3>2, <1>2, <1>4, <2>1 DEF Holds, TypeOK
      <4> QED
        BY <3>2, <4>1, <1>2, <1>4 DEF ClaimInv, ExclusiveClaim, TypeOK
    <3> QED
      BY <3>1, <3>2 DEF ExclusiveClaim
  <2>7. RunsOnce'
    BY <1>2 DEF ClaimInv, RunsOnce
  <2> QED
    BY <2>4, <2>5, <2>6, <2>7 DEF ClaimInv
<1> QED
  BY <1>1, <1>3, <1>4

\* elaborate hands the job from the main thread to a lane, or starts to finish it inline.
LEMMA ElaborateKeeps ==
  ASSUME TypeOK, ClaimInv, NEW d \in Pids, ElaborateReady(d) \/ ElaborateNotReady(d),
         \A j \in Jobs : Unclaimed(j)' => Unclaimed(j)
  PROVE  ClaimInv'
<1> DEFINE j == current[d]
<1>1. pc[d] = "elab" /\ starts' = starts /\ \A e \in Pids : e # d => pc'[e] = pc[e]
  BY DEF ElaborateReady, ElaborateNotReady, Goto, TypeOK
<1>2. \/ /\ current' = [current EXCEPT ![d] = 0]
         /\ stage' = [stage EXCEPT ![d][j] = "stamp"]
      \/ /\ current' = current /\ pc'[d] = "inline"
         /\ stage' = [stage EXCEPT ![d][j] = "finish"]
  <2>1. CASE ElaborateReady(d)
    BY <2>1 DEF ElaborateReady
  <2>2. CASE ElaborateNotReady(d)
    BY <2>2 DEF ElaborateNotReady, Goto, TypeOK
  <2> QED
    BY <2>1, <2>2
<1>3. \A e \in Pids, k \in Jobs : Holds(e, k)' => Holds(e, k)
  <2> SUFFICES ASSUME NEW e \in Pids, NEW k \in Jobs, Holds(e, k)' PROVE Holds(e, k)
    OBVIOUS
  <2>1. stage'[e][k] = stage[e][k] \/ (e = d /\ k = j)
    BY <1>2 DEF TypeOK
  <2>2. current'[e] = k => current[e] = k
    BY <1>2 DEF TypeOK, Jobs
  <2> QED
    BY <2>1, <2>2 DEF Holds
<1>4. UnclaimedInv' /\ RunsOnce'
  BY <1>1, <1>3 DEF ClaimInv, UnclaimedInv, RunsOnce
<1>5. StartInv'
  <2> SUFFICES ASSUME NEW e \in Pids, NEW k \in Jobs
               PROVE  /\ current'[e] = k \/ stage'[e][k] \in BeforeStart => starts'[k] = 0
                      /\ current'[e] = k => stage'[e][k] \notin BeforeStart
    BY DEF StartInv
  <2>1. current'[e] = k => current[e] = k
    BY <1>2 DEF TypeOK, Jobs
  <2>2. CASE e = d /\ k = j
    <3>1. starts[k] = 0
      BY <2>2 DEF ClaimInv, StartInv
    <3>2. current'[e] = k => stage'[e][k] = "finish"
      <4>1. CASE current' = [current EXCEPT ![d] = 0]
        BY <4>1, <2>2 DEF TypeOK, Jobs
      <4>2. CASE stage' = [stage EXCEPT ![d][j] = "finish"]
        <5>1. stage'[d][j] = "finish"
          BY <4>2, <2>2 DEF TypeOK
        <5> QED
          BY <5>1, <2>2
      <4> QED
        BY <1>2, <4>1, <4>2
    <3> QED
      BY <1>1, <3>1, <3>2 DEF BeforeStart
  <2>3. CASE ~(e = d /\ k = j)
    <3>1. stage'[e][k] = stage[e][k]
      BY <1>2, <2>3 DEF TypeOK
    <3> QED
      BY <1>1, <2>1, <3>1 DEF ClaimInv, StartInv
  <2> QED
    BY <2>2, <2>3
<1>6. ASSUME NEW k \in Jobs, NEW e \in Pids, current'[e] = k, stage'[e][k] # "idle"
      PROVE  pc'[e] = "inline"
  <2>1. CASE e = d
    BY <1>1, <1>2, <1>6, <2>1 DEF ClaimInv, ExclusiveClaim, TypeOK, Jobs
  <2>2. CASE e # d
    BY <1>1, <1>2, <1>6, <2>2 DEF ClaimInv, ExclusiveClaim, TypeOK
  <2> QED
    BY <2>1, <2>2
<1>7. ExclusiveClaim'
  BY <1>3, <1>6 DEF ClaimInv, ExclusiveClaim
<1> QED
  BY <1>4, <1>5, <1>7 DEF ClaimInv

\* The start: the lane was before it, so the simulator never ran, and only this lane has the job.
LEMMA RunJobKeeps ==
  ASSUME TypeOK, ClaimInv, NEW d \in Pids, NEW j \in Jobs, RunJob(d, j),
         \A k \in Jobs : Unclaimed(k)' => Unclaimed(k)
  PROVE  ClaimInv'
<1>1. /\ stage[d][j] = "run" /\ stage' = [stage EXCEPT ![d][j] = "sim"]
      /\ starts' = [starts EXCEPT ![j] = @ + 1] /\ UNCHANGED <<pc, current>>
  BY DEF RunJob, Advance
<1>2. \A e \in Pids, k \in Jobs : Holds(e, k)' <=> Holds(e, k)
  BY <1>1 DEF Holds, TypeOK
<1>3. Holds(d, j) /\ starts[j] = 0
  BY <1>1 DEF Holds, ClaimInv, StartInv, BeforeStart
<1>4. \A k \in Jobs : starts'[k] = IF k = j THEN 1 ELSE starts[k]
  BY <1>1, <1>3 DEF TypeOK
<1>5. RunsOnce'
  BY <1>4 DEF ClaimInv, RunsOnce
<1>6. UnclaimedInv'
  BY <1>2, <1>3, <1>4 DEF ClaimInv, UnclaimedInv
<1>7. ExclusiveClaim'
  BY <1>1, <1>2 DEF ClaimInv, ExclusiveClaim, TypeOK
<1>9. ASSUME NEW e \in Pids, NEW k \in Jobs, current'[e] = k PROVE stage'[e][k] \notin BeforeStart
  BY <1>1, <1>9 DEF ClaimInv, StartInv, BeforeStart, TypeOK
<1>8. ASSUME NEW e \in Pids, NEW k \in Jobs, current'[e] = k \/ stage'[e][k] \in BeforeStart
      PROVE  starts'[k] = 0
  <2>1. (current[e] = k \/ stage[e][k] \in BeforeStart) /\ ~(e = d /\ stage'[e][j] \in BeforeStart)
    BY <1>1, <1>8 DEF BeforeStart, TypeOK
  <2>2. k # j
    <3>1. SUFFICES ASSUME k = j PROVE FALSE
      OBVIOUS
    <3>2. e = d
      BY <1>3, <2>1, <3>1 DEF Holds, BeforeStart, ClaimInv, ExclusiveClaim
    <3>3. current[d] = j
      BY <1>1, <1>8, <2>1, <3>1, <3>2
    <3> QED
      BY <1>1, <3>3 DEF ClaimInv, StartInv, BeforeStart
  <2> QED
    BY <1>4, <2>1, <2>2 DEF ClaimInv, StartInv
<1> QED
  BY <1>5, <1>6, <1>7, <1>8, <1>9 DEF ClaimInv, StartInv

\* Every step of the system keeps the claims.
LEMMA ClaimStep ==
  ASSUME TypeOK, PublishInv, ClaimInv, "requeue" \notin Commands, Next
  PROVE  ClaimInv'
<1>1. PublishInv' /\ \A j \in Jobs : Unclaimed(j)' => Unclaimed(j)
  BY PublishStep
<1>2. ASSUME NEW c \in Clients, Client(c) PROVE ClaimInv'
  BY <1>1, <1>2, ClientCalm, CalmKeepsClaims
<1>3. CASE DaemonNext /\ UNCHANGED clientVars
  <2>1. PICK d \in Pids : \/ MainThread(d) \/ ElaborateRaises(d) \/ Crash(d) \/ PidReuse(d)
                          \/ \E j \in Jobs : Lane(d, j) \/ LaneFault(d, j)
    BY <1>3 DEF DaemonNext
  <2>2. CASE Calm
    BY <1>1, <2>2, CalmKeepsClaims
  <2>3. CASE SpoolClaim(d)
    BY <1>1, <1>3, <2>3, SpoolClaimKeeps
  <2>4. CASE ElaborateReady(d) \/ ElaborateNotReady(d)
    BY <1>1, <2>4, ElaborateKeeps
  <2>5. ASSUME NEW j \in Jobs, RunJob(d, j) PROVE ClaimInv'
    BY <1>1, <2>5, RunJobKeeps
  <2> QED
    BY <2>1, <2>2, <2>3, <2>4, <2>5, DaemonCalm
<1> QED
  BY <1>2, <1>3 DEF Next

\* At the beginning nothing is queued, claimed or started.
LEMMA ClaimInit == SimqInit => PublishInv /\ ClaimInv
<1> SUFFICES ASSUME SimqInit PROVE PublishInv /\ ClaimInv
  OBVIOUS
<1> USE DEF SimqInit, Init
<1>1. PublishInv
  BY DEF PublishInv, Publishing
<1>2. /\ \A d \in Pids, j \in Jobs : ~Holds(d, j) /\ current[d] # j /\ stage[d][j] \notin BeforeStart
      /\ \A j \in Jobs : starts[j] = 0
  BY DEF Holds, Jobs, BeforeStart
<1>3. UnclaimedInv /\ ExclusiveClaim /\ RunsOnce
  BY <1>2 DEF UnclaimedInv, ExclusiveClaim, RunsOnce
<1>4. StartInv
  BY <1>2 DEF StartInv
<1> QED
  BY <1>1, <1>3, <1>4 DEF ClaimInv

\* The invariant, of every reachable state.
LEMMA ClaimsInvariant ==
  ASSUME "requeue" \notin Commands
  PROVE  Spec => [](PublishInv /\ ClaimInv)
<1>1. SimqInit => PublishInv /\ ClaimInv
  BY ClaimInit
<1>2. TypeOK /\ PublishInv /\ ClaimInv /\ [Next]_vars => (PublishInv /\ ClaimInv)'
  <2> SUFFICES ASSUME TypeOK, PublishInv, ClaimInv, [Next]_vars PROVE PublishInv' /\ ClaimInv'
    OBVIOUS
  <2>1. CASE Next
    BY <2>1, PublishStep, ClaimStep
  <2>2. CASE UNCHANGED vars
    <3> USE <2>2 DEF vars, spoolVars, daemonVars, clientVars
    <3>1. PublishInv'
      BY DEF PublishInv, Publishing
    <3>2. ClaimInv'
      BY DEF ClaimInv, UnclaimedInv, Unclaimed, Publishing, StartInv, ExclusiveClaim, RunsOnce, Holds
    <3> QED
      BY <3>1, <3>2
  <2> QED
    BY <2>1, <2>2
<1> QED
  BY <1>1, <1>2, TypeCorrect, PTL DEF Spec

\* As long as nobody moves a claim back by hand, however many daemons drain the spool, whichever
\* crash and whoever stops, clears or cancels: no job is worked on at two places, and no job's
\* simulator is started twice.
THEOREM NoDoubleRun ==
  ASSUME "requeue" \notin Commands
  PROVE  Spec => [](ExclusiveClaim /\ RunsOnce)
<1>1. ClaimInv => ExclusiveClaim /\ RunsOnce
  BY DEF ClaimInv
<1> QED
  BY <1>1, ClaimsInvariant, PTL

-----------------------------------------------------------------------------
(***************************************************************************)
(* No job is lost: a job is somewhere, in pending/, running/ or done/.     *)
(***************************************************************************)
\* A daemon moves records from one directory to the next; only the end of spool_finish unlinks one.
LEMMA DaemonKeepsRecords ==
  ASSUME TypeOK, DaemonNext, NEW j \in Jobs, j \in Recorded, \A d \in Pids : stage[d][j] # "unlink"
  PROVE  j \in Recorded'
<1> USE DEF TypeOK, Goto, spoolVars, Recorded, In
<1>1. PICK d \in Pids : \/ MainThread(d) \/ ElaborateRaises(d) \/ Crash(d) \/ PidReuse(d)
                        \/ \E k \in Jobs : Lane(d, k) \/ LaneFault(d, k)
  BY DEF DaemonNext
<1>2. CASE SpoolClaim(d)
  <2>1. PICK k \in batch[d] :
         \/ UNCHANGED <<pending, running>>
         \/ /\ pending[k] # "absent" /\ running' = RenameTarget(running, pending, k)
            /\ pending' = RenameSource(pending, k)
    BY <1>2 DEF SpoolClaim
  <2>2. k \in Jobs /\ done' = done
    BY <1>2 DEF SpoolClaim
  <2>3. CASE pending[k] # "absent" /\ running' = RenameTarget(running, pending, k)
             /\ pending' = RenameSource(pending, k)
    BY <2>2, <2>3 DEF RenameTarget, RenameSource
  <2> QED
    BY <2>1, <2>2, <2>3
<1>3. CASE SpoolRead(d)
  BY <1>3 DEF SpoolRead
<1>4. ASSUME NEW k \in Jobs, Lane(d, k) \/ LaneFault(d, k) PROVE j \in Recorded'
  <2>1. CASE StampOpen(d, k) \/ StampWrite(d, k) \/ StampFails(d, k) \/ RunJob(d, k) \/ SimEnds(d, k)
    BY <2>1 DEF StampOpen, StampWrite, StampFails, RunJob, SimEnds
  <2>2. CASE FinishOpen(d, k) \/ FinishFails(d, k)
    BY <2>2 DEF FinishOpen, FinishFails
  <2>3. CASE FinishWrite(d, k)
    BY <2>3 DEF FinishWrite, VerdictsOf, RunVerdicts
  <2>4. CASE FinishUnlink(d, k)
    BY <2>4 DEF FinishUnlink, Advance
  <2> QED
    BY <1>4, <2>1, <2>2, <2>3, <2>4 DEF Lane, LaneFault
<1>5. CASE UNCHANGED <<pending, running, done>>
  BY <1>5
<1> QED
  BY <1>1, <1>2, <1>3, <1>4, <1>5
  DEF MainThread, WritePidfile, CheckStop, TakeStop, Scan, LeaveIdle, Sleep, NextInBatch, ElaborateReady,
      ElaborateNotReady, InlineDone, PoolShutdown, UnlinkPidfile, ElaborateRaises, Crash, PidReuse

\* Apart from the unlinks, a command publishes or moves records back.
LEMMA ClientKeepsRecords ==
  ASSUME TypeOK, NEW c \in Clients, Client(c), cpc[c] # "unlink", NEW j \in Jobs, j \in Recorded
  PROVE  j \in Recorded'
<1> USE DEF TypeOK, spoolVars, Recorded, In
<1>1. CASE SpoolPublish(c)
  BY <1>1 DEF SpoolPublish
<1>2. CASE Requeue(c)
  BY <1>2 DEF Requeue
<1>3. CASE UNCHANGED <<pending, running, done>>
  BY <1>3
<1> QED
  BY <1>1, <1>2, <1>3
  DEF Client, Step, SpoolStamp, AddStart, DaemonStart, DaemonSpawn, DaemonWait, DaemonForeground, StopProbe,
      StopTouch, StopKill, StopUnpid, DropList, ClearProbe, ClearLive, ClearLogs, ClearOrphans, UnlinkOne, UnlinkDone,
      StatusOrphans

\* However daemons end or fail, with however many terminals and whatever is typed, requeue included: the
\* last record of a job goes only where a command unlinks it, or in the last step of spool_finish.
THEOREM NoJobLostHolds == Spec => NoJobLost
<1>1. TypeOK /\ [Next]_vars
        => [\A j \in Jobs : j \in Recorded /\ j \notin Recorded'
              => \/ \E c \in Clients : cpc[c] = "unlink"
                 \/ \E d \in Pids : stage[d][j] = "unlink"]_vars
  <2> SUFFICES ASSUME TypeOK, Next, NEW j \in Jobs, j \in Recorded, j \notin Recorded',
                      \A d \in Pids : stage[d][j] # "unlink"
               PROVE  \E c \in Clients : cpc[c] = "unlink"
    OBVIOUS
  <2> QED
    BY DaemonKeepsRecords, ClientKeepsRecords DEF Next
<1> QED
  BY <1>1, TypeCorrect, PTL DEF Spec, NoJobLost

-----------------------------------------------------------------------------
(***************************************************************************)
(* One terminal (Solo): commands are typed one after the other, a daemon   *)
(* is started by daemon_start only, comes up in the five seconds it is     *)
(* given, and no stranger gets the pid of a dead one.  Then the pidfile is *)
(* enough of a lock, for every number of jobs, lanes and daemons one after *)
(* the other, and clear and requeue, which trust it, are safe; with two    *)
(* terminals, or without one of these conditions, it is not.               *)
(***************************************************************************)
Solo ==
  /\ \A c, e \in Clients : c = e
  /\ "foreground" \notin Commands
  /\ Faults \cap {"slow", "pidreuse"} = {}

\* A daemon process is there, from its start to its end.
Up(d)    == pc[d] \notin {"off", "dead", "foreign"}
NobodyUp == \A d \in Pids : ~Up(d)

\* The daemon is one, the pidfile names it as soon as it runs its loop, and until then the command that
\* started it waits.
UpInv ==
  /\ \A d \in Pids : pc[d] # "foreign"
  /\ \A d, e \in Pids : Up(d) /\ Up(e) => d = e
  /\ \A d \in Pids : pc[d] \in {"off", "boot"} => pidfile # d
  /\ \A d \in Pids : Up(d) /\ pc[d] # "boot" => pidfile = d
  /\ \A d \in Pids : pc[d] = "boot" => \E c \in Clients : cpc[c] = "wait"

\* What a command saw of the daemon is still so when it acts on it: nobody is up when it starts one, takes
\* the pidfile away, moves claims back or unlinks them.
TerminalInv ==
  \A c \in Clients :
    /\ cpc[c] \in {"spawn", "unpid", "mv"} => NobodyUp
    /\ cpc[c] = "kill" => \A d \in Pids : Up(d) => d = cpid[c]
    /\ cpc[c] \in {"live-all", "logs-all", "orphans"} /\ cpid[c] = NoPid => NobodyUp
    /\ \A j \in Jobs : <<"running", j>> \in files[c] => cpc[c] = "unlink" /\ NobodyUp

\* What a process holds.  It holds nothing when it is gone; what it has in hand or on a lane has its record
\* in running/, and is on a lane and in hand at once only while the main thread finishes it itself.
Empty(d) == current[d] = 0 /\ batch[d] = {} /\ \A j \in Jobs : stage[d][j] = "idle"
HandOf(d) ==
  /\ ~Up(d) \/ pc[d] \in {"boot", "unpid"} => Empty(d)
  /\ current[d] # 0 => pc[d] \in {"read", "elab", "inline"}
  /\ pc[d] \in {"read", "elab"} => current[d] # 0 /\ running[current[d]] # "absent"
  /\ \A j \in Jobs : stage[d][j] # "idle" => running[j] # "absent" /\ (current[d] = j => pc[d] = "inline")
HandInv == \A d \in Pids : HandOf(d)

\* The order.  The one publisher has the newest stamp; what is queued or held was published before, what
\* is held is no longer queued, and a batch leaves no older job behind.
Past(j) == j < nextId /\ \A c \in Clients : ~Publishing(c, j)
Queued(j) == pending[j] # "absent" \/ running[j] # "absent" \/ \E d \in Pids : Holds(d, j) \/ j \in batch[d]
OrderInv ==
  /\ \A c \in Clients, j \in Jobs : Publishing(c, j) => j = nextId - 1
  /\ \A j \in Jobs : Queued(j) => Past(j)
  /\ \A d \in Pids, j \in Jobs : Holds(d, j) => pending[j] = "absent"
  /\ \A d \in Pids : \A i \in Jobs, j \in batch[d] : i < j /\ pending[i] # "absent" => i \in batch[d]

\* All that is known of a state in one terminal.
SoloInv == TypeOK /\ UpInv /\ TerminalInv /\ HandInv /\ OrderInv

\* Only the one daemon that is up takes steps, and the other processes hold nothing.
LEMMA Mover ==
  ASSUME TypeOK, UpInv, HandInv, Solo, NEW d \in Pids,
         \/ MainThread(d) \/ ElaborateRaises(d) \/ Crash(d) \/ PidReuse(d)
         \/ \E j \in Jobs : Lane(d, j) \/ LaneFault(d, j)
  PROVE  /\ Up(d)
         /\ \A e \in Pids : e # d => ~Up(e) /\ Empty(e)
         /\ \A e \in Pids : e # d => pc'[e] = pc[e] /\ current'[e] = current[e] /\ batch'[e] = batch[e]
                                     /\ stage'[e] = stage[e]
         /\ ~PidReuse(d)
<1>1. ~PidReuse(d)
  BY DEF PidReuse, Solo
<1>2. Up(d)
  <2>1. CASE MainThread(d) \/ ElaborateRaises(d) \/ Crash(d)
    BY <2>1 DEF MainThread, WritePidfile, CheckStop, TakeStop, Scan, LeaveIdle, Sleep, NextInBatch, SpoolClaim,
       SpoolRead, ElaborateReady, ElaborateNotReady, InlineDone, PoolShutdown, UnlinkPidfile, ElaborateRaises,
       Crash, Goto, Up, LoopPoints
  <2>2. ASSUME NEW j \in Jobs, Lane(d, j) \/ LaneFault(d, j) PROVE Up(d)
    <3>1. stage[d][j] # "idle"
      BY <2>2 DEF Lane, LaneFault, StampOpen, StampWrite, StampFails, RunJob, SimEnds, FinishOpen, FinishWrite,
         FinishUnlink, FinishFails, Advance
    <3> QED
      BY <3>1 DEF HandInv, HandOf, Empty
  <2> QED
    BY <1>1, <2>1, <2>2
<1>3. \A e \in Pids : e # d => ~Up(e) /\ Empty(e)
  BY <1>2 DEF UpInv, HandInv, HandOf
<1>4. \A e \in Pids : e # d => pc'[e] = pc[e] /\ current'[e] = current[e] /\ batch'[e] = batch[e]
                               /\ stage'[e] = stage[e]
  <2> USE DEF TypeOK, Goto
  <2>1. CASE MainThread(d)
    BY <2>1 DEF MainThread, WritePidfile, CheckStop, TakeStop, Scan, LeaveIdle, Sleep, NextInBatch, SpoolClaim,
       SpoolRead, ElaborateReady, ElaborateNotReady, InlineDone, PoolShutdown, UnlinkPidfile
  <2>2. CASE ElaborateRaises(d) \/ Crash(d)
    BY <2>2 DEF ElaborateRaises, Crash, Terminated
  <2>3. ASSUME NEW j \in Jobs, Lane(d, j) \/ LaneFault(d, j)
        PROVE \A e \in Pids : e # d => pc'[e] = pc[e] /\ current'[e] = current[e] /\ batch'[e] = batch[e]
                                       /\ stage'[e] = stage[e]
    BY <2>3 DEF Lane, LaneFault, StampOpen, StampWrite, StampFails, RunJob, SimEnds, FinishOpen, FinishWrite,
         FinishUnlink, FinishFails, Advance
  <2> QED
    BY <1>1, <2>1, <2>2, <2>3
<1> QED
  BY <1>1, <1>2, <1>3, <1>4

\* A step of a daemon, as the pidfile sees it.
LEMMA DaemonPoint ==
  ASSUME TypeOK, UpInv, HandInv, Solo, NEW d \in Pids,
         \/ MainThread(d) \/ ElaborateRaises(d) \/ Crash(d) \/ PidReuse(d)
         \/ \E j \in Jobs : Lane(d, j) \/ LaneFault(d, j)
  PROVE  \/ pc[d] = "boot" /\ pc'[d] = "top" /\ pidfile' = d
         \/ pc[d] \in LoopPoints /\ pc'[d] \in LoopPoints /\ pidfile' = pidfile
         \/ pc[d] = "unpid" /\ pc'[d] = "dead" /\ pidfile' = NoPid
         \/ pc'[d] = "dead" /\ pidfile' = pidfile
         \/ pc'[d] = pc[d] /\ pidfile' = pidfile
<1> USE DEF TypeOK, Goto, spoolVars, LoopPoints
<1>1. CASE WritePidfile(d) \/ UnlinkPidfile(d)
  BY <1>1 DEF WritePidfile, UnlinkPidfile
<1>2. CASE CheckStop(d) \/ TakeStop(d) \/ Scan(d) \/ LeaveIdle(d) \/ Sleep(d) \/ NextInBatch(d)
           \/ ElaborateReady(d) \/ ElaborateNotReady(d) \/ InlineDone(d) \/ PoolShutdown(d) \/ ElaborateRaises(d)
  BY <1>2 DEF CheckStop, TakeStop, Scan, LeaveIdle, Sleep, NextInBatch, ElaborateReady, ElaborateNotReady,
     InlineDone, PoolShutdown, ElaborateRaises
<1>3. CASE SpoolClaim(d)
  BY <1>3 DEF SpoolClaim
<1>4. CASE SpoolRead(d)
  BY <1>4 DEF SpoolRead
<1>5. CASE Crash(d)
  BY <1>5 DEF Crash, Terminated
<1>6. ASSUME NEW j \in Jobs, Lane(d, j) \/ StampFails(d, j) PROVE pc'[d] = pc[d] /\ pidfile' = pidfile
  BY <1>6 DEF Lane, StampOpen, StampWrite, StampFails, RunJob, SimEnds, FinishOpen, FinishWrite, FinishUnlink
<1>7. ASSUME NEW j \in Jobs, FinishFails(d, j)
      PROVE pidfile' = pidfile /\ (pc'[d] = pc[d] \/ (pc[d] \in LoopPoints /\ pc'[d] \in LoopPoints))
  BY <1>7 DEF FinishFails
<1>8. ~PidReuse(d)
  BY Mover
<1> QED
  BY <1>1, <1>2, <1>3, <1>4, <1>5, <1>6, <1>7, <1>8 DEF MainThread, LaneFault

\* So a daemon leaves both invariants of the commands as they are.
LEMMA DaemonUp ==
  ASSUME TypeOK, UpInv, TerminalInv, HandInv, Solo, DaemonNext, UNCHANGED clientVars
  PROVE  UpInv' /\ TerminalInv'
<1>1. PICK d \in Pids : \/ MainThread(d) \/ ElaborateRaises(d) \/ Crash(d) \/ PidReuse(d)
                        \/ \E j \in Jobs : Lane(d, j) \/ LaneFault(d, j)
  BY DEF DaemonNext
<1>2. Up(d) /\ \A e \in Pids : e # d => ~Up(e) /\ pc'[e] = pc[e]
  BY <1>1, Mover
<1>3. \/ pc[d] = "boot" /\ pc'[d] = "top" /\ pidfile' = d
      \/ pc[d] \in LoopPoints /\ pc'[d] \in LoopPoints /\ pidfile' = pidfile
      \/ pc[d] = "unpid" /\ pc'[d] = "dead" /\ pidfile' = NoPid
      \/ pc'[d] = "dead" /\ pidfile' = pidfile
      \/ pc'[d] = pc[d] /\ pidfile' = pidfile
  BY <1>1, DaemonPoint
<1>4. \A e \in Pids : Up(e)' => Up(e)
  BY <1>2 DEF Up
<1>5. UpInv'
  BY <1>2, <1>3, PidsAssumption DEF UpInv, Up, LoopPoints, clientVars
<1>6. TerminalInv'
  BY <1>4 DEF TerminalInv, NobodyUp, clientVars
<1> QED
  BY <1>5, <1>6

\* daemon_alive() says no only if nobody is up, unless a start is being waited for.
LEMMA Silent ==
  ASSUME UpInv, Solo, NEW c \in Clients, cpc[c] # "wait", DaemonAlive = NoPid
  PROVE  NobodyUp
BY PidsAssumption DEF UpInv, Solo, DaemonAlive, Exists, Up, NobodyUp

\* A command starts a daemon only when nobody is up, and takes the pidfile only from nobody.
LEMMA ClientUp ==
  ASSUME TypeOK, UpInv, TerminalInv, Solo, NEW c \in Clients, Client(c)
  PROVE  UpInv'
<1>1. \A e \in Clients : e = c
  BY DEF Solo
<1> USE DEF Step, Type, TypeOK
<1>2. CASE DaemonSpawn(c)
  <2>1. PICK d \in Pids : pc[d] = "off" /\ pc' = [pc EXCEPT ![d] = "boot"]
    BY <1>2 DEF DaemonSpawn, Goto
  <2>2. NobodyUp /\ cpc'[c] = "wait" /\ pidfile' = pidfile
    BY <1>2 DEF DaemonSpawn, TerminalInv, spoolVars
  <2>3. pc'[d] = "boot" /\ \A e \in Pids : e # d => pc'[e] = pc[e]
    BY <2>1
  <2> QED
    BY <2>1, <2>2, <2>3 DEF UpInv, Up, NobodyUp
<1>3. CASE DaemonWait(c)
  <2>1. \A d \in Pids : pc[d] # "boot"
    <3>1. CASE DaemonAlive # NoPid
      BY <3>1 DEF DaemonAlive, Exists, UpInv, Up
    <3> QED
      BY <1>3, <3>1 DEF DaemonWait, Solo
  <2>2. pc' = pc /\ pidfile' = pidfile
    BY <1>3 DEF DaemonWait, spoolVars, daemonVars
  <2> QED
    BY <2>1, <2>2 DEF UpInv, Up
<1>4. CASE StopKill(c)
  <2>1. cpc[c] = "kill" /\ pidfile' = pidfile /\ cpid[c] \in Pids
    BY <1>4 DEF StopKill, spoolVars
  <2>2. \A d \in Pids : ~Up(d)'
    <3>1. CASE Exists(cpid[c])
      <4>1. pc' = [pc EXCEPT ![cpid[c]] = "dead"]
        BY <1>4, <3>1 DEF StopKill, Terminated
      <4>2. pc'[cpid[c]] = "dead" /\ \A e \in Pids : e # cpid[c] => pc'[e] = pc[e]
        BY <2>1, <4>1
      <4> QED
        BY <2>1, <4>2 DEF TerminalInv, Up
    <3>2. CASE ~Exists(cpid[c])
      BY <1>4, <2>1, <3>2 DEF StopKill, TerminalInv, Up, Exists
    <3> QED
      BY <3>1, <3>2
  <2>3. \A d \in Pids : pc'[d] = pc[d] \/ pc'[d] = "dead"
    BY <1>4, <2>1 DEF StopKill, Terminated
  <2> QED
    BY <2>1, <2>2, <2>3 DEF UpInv, Up
<1>5. CASE StopUnpid(c)
  <2>1. pidfile' = NoPid /\ pc' = pc /\ NobodyUp
    BY <1>5 DEF StopUnpid, daemonVars, TerminalInv
  <2> QED
    BY <2>1, PidsAssumption DEF UpInv, Up, NobodyUp
<1>6. CASE cpc[c] # "wait" /\ UNCHANGED <<pc, pidfile>>
  <2>1. \A d \in Pids : pc[d] # "boot"
    BY <1>1, <1>6 DEF UpInv
  <2> QED
    BY <1>6, <2>1 DEF UpInv, Up
<1> QED
  BY <1>2, <1>3, <1>4, <1>5, <1>6
  DEF Client, Solo, spoolVars, daemonVars, SpoolStamp, SpoolPublish, AddStart, DaemonStart, DaemonForeground, StopProbe,
      StopTouch, DropList, ClearProbe, ClearLive, ClearLogs, ClearOrphans, UnlinkOne, UnlinkDone, StatusOrphans,
      Requeue

\* Each command carries over what it has seen to the point where it acts.
LEMMA ClientTerminal ==
  ASSUME TypeOK, UpInv, UpInv', TerminalInv, Solo, NEW c \in Clients, Client(c)
  PROVE  TerminalInv'
<1>1. \A e \in Clients : e = c
  BY DEF Solo
<1> DEFINE clean == \A j \in Jobs : <<"running", j>> \notin files[c]
           cleanly == \A j \in Jobs : <<"running", j>> \notin files'[c]
<1>2. cpc[c] # "unlink" => clean
  BY DEF TerminalInv
<1> USE DEF Step, Type, TypeOK
<1>3. CASE \/ SpoolStamp(c) \/ SpoolPublish(c) \/ AddStart(c) \/ DaemonSpawn(c) \/ DaemonWait(c) \/ StopTouch(c)
           \/ StopUnpid(c) \/ DropList(c) \/ UnlinkDone(c) \/ Requeue(c)
  <2>1. cpc'[c] \in {"prompt", "publish", "added", "start", "wait", "unlink"}
    BY <1>3 DEF SpoolStamp, SpoolPublish, AddStart, DaemonSpawn, DaemonWait, StopTouch, StopUnpid, DropList,
       UnlinkDone, Requeue
  <2>2. cleanly
    <3>1. CASE SpoolStamp(c) \/ SpoolPublish(c) \/ UnlinkDone(c)
      BY <3>1 DEF SpoolStamp, SpoolPublish, UnlinkDone
    <3>2. CASE DropList(c)
      <4>1. \E S \in SUBSET Jobs : files'[c] = FilesIn("pending", S)
        BY <3>2 DEF DropList, In
      <4> QED
        BY <4>1 DEF FilesIn
    <3>3. CASE files' = files /\ cpc[c] # "unlink"
      BY <1>2, <3>3
    <3> QED
      BY <1>3, <3>1, <3>2, <3>3 DEF AddStart, DaemonSpawn, DaemonWait, StopTouch, StopUnpid, Requeue
  <2> QED
    BY <1>1, <2>1, <2>2 DEF TerminalInv
<1>4. CASE DaemonStart(c) \/ StatusOrphans(c)
  <2>1. UNCHANGED <<pc, files>> /\ cpc[c] # "wait" /\ cpc[c] # "unlink"
        /\ cpc'[c] \in {"spawn", "prompt", "mv"} /\ (cpc'[c] # "prompt" => DaemonAlive = NoPid)
    BY <1>4 DEF DaemonStart, StatusOrphans, daemonVars
  <2>2. cpc'[c] # "prompt" => NobodyUp
    BY <2>1, Silent
  <2> QED
    BY <1>1, <1>2, <2>1, <2>2 DEF TerminalInv, NobodyUp, Up
<1>5. CASE StopProbe(c)
  <2>1. UNCHANGED <<pc, files>> /\ cpc[c] = "prompt" /\ cpc'[c] \in {"touch", "kill"}
        /\ cpid'[c] = DaemonAlive /\ DaemonAlive # NoPid
    BY <1>5 DEF StopProbe, daemonVars
  <2>2. \A d \in Pids : Up(d) => d = DaemonAlive
    BY <1>1, <2>1 DEF UpInv, DaemonAlive
  <2> QED
    BY <1>1, <1>2, <2>1, <2>2 DEF TerminalInv, Up
<1>6. CASE StopKill(c)
  <2>1. cpc[c] = "kill" /\ cpc'[c] = "unpid" /\ cpid[c] \in Pids /\ files' = files
    BY <1>6 DEF StopKill
  <2>2. \A d \in Pids : ~Up(d)'
    <3>1. CASE Exists(cpid[c])
      <4>1. pc' = [pc EXCEPT ![cpid[c]] = "dead"]
        BY <1>6, <3>1 DEF StopKill, Terminated
      <4>2. pc'[cpid[c]] = "dead" /\ \A e \in Pids : e # cpid[c] => pc'[e] = pc[e]
        BY <2>1, <4>1
      <4> QED
        BY <2>1, <4>2 DEF TerminalInv, Up
    <3>2. CASE ~Exists(cpid[c])
      BY <1>6, <2>1, <3>2 DEF StopKill, TerminalInv, Up, Exists
    <3> QED
      BY <3>1, <3>2
  <2> QED
    BY <1>1, <1>2, <2>1, <2>2 DEF TerminalInv, NobodyUp
<1>7. CASE ClearProbe(c)
  <2>1. UNCHANGED pc /\ cpc[c] = "prompt" /\ cpc'[c] \in {"unlink", "live", "live-all"}
        /\ cpid'[c] = DaemonAlive /\ cleanly
    BY <1>7 DEF ClearProbe, daemonVars, FilesIn
  <2>2. DaemonAlive = NoPid => NobodyUp
    BY <2>1, Silent
  <2> QED
    BY <1>1, <2>1, <2>2 DEF TerminalInv, NobodyUp, Up
<1>8. CASE ClearLive(c) \/ ClearLogs(c)
  <2>1. UNCHANGED <<pc, cpid>> /\ cleanly
        /\ \/ cpc[c] \in {"live-all", "logs-all"} /\ cpc'[c] \in {"logs-all", "orphans"}
           \/ cpc'[c] \in {"logs", "unlink"}
    BY <1>2, <1>8 DEF ClearLive, ClearLogs, daemonVars, FilesIn
  <2> QED
    BY <1>1, <2>1 DEF TerminalInv, NobodyUp, Up
<1>9. CASE ClearOrphans(c)
  <2>1. UNCHANGED <<pc, cpid>> /\ cpc[c] = "orphans" /\ cpc'[c] = "unlink" /\ (cpid[c] # NoPid => cleanly)
    BY <1>2, <1>9 DEF ClearOrphans, daemonVars
  <2> QED
    BY <1>1, <2>1 DEF TerminalInv, NobodyUp, Up
<1>10. CASE UnlinkOne(c)
  <2>1. UNCHANGED <<pc, cpid, cpc>> /\ files'[c] \subseteq files[c]
    BY <1>10 DEF UnlinkOne, daemonVars
  <2> QED
    BY <1>1, <2>1 DEF TerminalInv, NobodyUp, Up
<1> QED
  BY <1>3, <1>4, <1>5, <1>6, <1>7, <1>8, <1>9, <1>10 DEF Client, DaemonForeground, Solo

\* The main thread: a claim brings its record along, and leaves the hand for a lane or for good.
LEMMA MainHand ==
  ASSUME TypeOK, HandInv, OrderInv, NEW d \in Pids, Up(d), MainThread(d) \/ ElaborateRaises(d) \/ Crash(d)
  PROVE  HandOf(d)'
<1> USE DEF TypeOK, Goto, spoolVars
<1>1. HandOf(d) /\ 0 \notin Jobs
  BY DEF HandInv, Jobs
<1>2. CASE WritePidfile(d)
  BY <1>1, <1>2 DEF WritePidfile, HandOf, Empty, Up
<1>3. CASE CheckStop(d) \/ TakeStop(d) \/ Scan(d) \/ LeaveIdle(d) \/ Sleep(d) \/ NextInBatch(d)
  BY <1>1, <1>3 DEF CheckStop, TakeStop, Scan, LeaveIdle, Sleep, NextInBatch, HandOf, Empty, Up
<1>4. CASE SpoolClaim(d)
  <2>1. pc[d] = "claim" /\ current[d] = 0 /\ stage' = stage
    BY <1>1, <1>4 DEF SpoolClaim, HandOf
  <2>2. PICK j \in batch[d] :
         \/ pc'[d] = "loop" /\ running' = running /\ current' = current
         \/ /\ pending[j] # "absent" /\ pc'[d] = "read" /\ current'[d] = j
            /\ running' = RenameTarget(running, pending, j)
    BY <1>4 DEF SpoolClaim
  <2>3. j \in Jobs
    OBVIOUS
  <2>4. CASE pc'[d] = "loop" /\ running' = running /\ current' = current
    BY ONLY <1>1, <2>1, <2>4 DEF HandOf, Up
  <2>5. CASE /\ pending[j] # "absent" /\ pc'[d] = "read" /\ current'[d] = j
             /\ running' = RenameTarget(running, pending, j)
    <3>1. running'[j] # "absent" /\ \A k \in Jobs : k # j => running'[k] = running[k]
      BY <2>3, <2>5 DEF RenameTarget
    <3>2. stage[d][j] = "idle"
      BY <2>3, <2>5 DEF OrderInv, Holds
    <3> QED
      BY ONLY <1>1, <2>1, <2>3, <2>5, <3>1, <3>2 DEF HandOf, Up
  <2> QED
    BY <2>2, <2>4, <2>5
<1>5. CASE SpoolRead(d)
  <2> DEFINE k == current[d]
  <2>1. pc[d] = "read" /\ k \in Jobs /\ running[k] # "absent" /\ stage' = stage /\ batch' = batch
        /\ stage[d][k] = "idle"
    BY <1>1, <1>5 DEF SpoolRead, HandOf
  <2>2. \/ pc'[d] = "elab" /\ running' = running /\ current' = current
        \/ /\ pc'[d] \in {"loop", "drain"} /\ current'[d] = 0
           /\ running'[k] \in Records /\ \A j \in Jobs : j # k => running'[j] = running[j]
    <3> HIDE DEF k
    <3> QED
      BY <1>5, <2>1 DEF SpoolRead, Records, k
  <2> HIDE DEF k
  <2> QED
    BY ONLY <1>1, <2>1, <2>2 DEF HandOf, Up, k
<1>6. CASE ElaborateReady(d) \/ ElaborateNotReady(d)
  <2> DEFINE k == current[d]
  <2>1. pc[d] = "elab" /\ k \in Jobs /\ running[k] # "absent" /\ running' = running
    BY <1>1, <1>6 DEF ElaborateReady, ElaborateNotReady, HandOf
  <2>2. \A j \in Jobs : j # k => stage'[d][j] = stage[d][j]
    BY <1>6, <2>1 DEF ElaborateReady, ElaborateNotReady
  <2>3. \/ pc'[d] = "loop" /\ current'[d] = 0
        \/ pc'[d] = "inline" /\ current'[d] = k
    BY <1>6 DEF ElaborateReady, ElaborateNotReady
  <2> HIDE DEF k
  <2> QED
    BY ONLY <1>1, <2>1, <2>2, <2>3 DEF HandOf, Up
<1>7. CASE InlineDone(d) \/ ElaborateRaises(d)
  <2>1. pc'[d] \in {"loop", "drain"} /\ current'[d] = 0 /\ running' = running /\ stage' = stage
    BY <1>7 DEF InlineDone, ElaborateRaises
  <2> QED
    BY ONLY <1>1, <2>1 DEF HandOf, Up
<1>8. CASE PoolShutdown(d)
  <2>1. pc[d] = "drain" /\ pc'[d] = "unpid" /\ batch'[d] = {} /\ current' = current /\ stage' = stage
    BY <1>8 DEF PoolShutdown
  <2>2. \A j \in Jobs : stage[d][j] = "idle"
    BY <1>8 DEF PoolShutdown, InFlight
  <2> QED
    BY ONLY <1>1, <2>1, <2>2 DEF HandOf, Empty, Up
<1>9. CASE UnlinkPidfile(d)
  BY <1>1, <1>9 DEF UnlinkPidfile, HandOf, Empty, Up
<1>10. CASE Crash(d)
  BY <1>1, <1>10 DEF Crash, Terminated, HandOf, Empty, Up
<1> QED
  BY <1>2, <1>3, <1>4, <1>5, <1>6, <1>7, <1>8, <1>9, <1>10 DEF MainThread

\* A lane has its record until it is idle again.
LEMMA LaneHand ==
  ASSUME TypeOK, HandInv, NEW d \in Pids, Up(d), NEW j \in Jobs, Lane(d, j) \/ LaneFault(d, j)
  PROVE  HandOf(d)'
<1>1. HandOf(d) /\ 0 \notin Jobs
  BY DEF HandInv, Jobs
<1>2. /\ stage[d][j] # "idle" /\ batch' = batch
      /\ \A k \in Jobs : k # j => stage'[d][k] = stage[d][k] /\ running'[k] = running[k]
  BY DEF TypeOK, Lane, LaneFault, StampOpen, StampWrite, StampFails, RunJob, SimEnds, FinishOpen, FinishWrite,
         FinishUnlink, FinishFails, Advance, spoolVars
<1>3. ~Empty(d)
  BY <1>2 DEF Empty
<1>4. running'[j] # "absent" \/ stage'[d][j] = "idle"
  BY <1>1, <1>2 DEF HandOf, TypeOK, Lane, LaneFault, StampOpen, StampWrite, StampFails, RunJob, SimEnds, FinishOpen,
         FinishWrite, FinishUnlink, FinishFails, Advance, spoolVars, Records
<1>5. \/ pc' = pc /\ current' = current
      \/ pc[d] = "inline" /\ pc'[d] = "drain" /\ current'[d] = 0
  BY DEF TypeOK, Lane, LaneFault, StampOpen, StampWrite, StampFails, RunJob, SimEnds, FinishOpen, FinishWrite,
         FinishUnlink, FinishFails
<1>6. pc[d] \in {"read", "elab"} => current[d] # j
  BY <1>1, <1>2 DEF HandOf
<1>7. current[d] \in Jobs \cup {0}
  BY DEF TypeOK
<1> QED
  BY ONLY <1>1, <1>2, <1>3, <1>4, <1>5, <1>6, <1>7, Up(d) DEF HandOf, Up, Empty

\* The others are idle, so what the one daemon does to running/ is none of theirs.
LEMMA DaemonHand ==
  ASSUME TypeOK, UpInv, HandInv, OrderInv, Solo, DaemonNext
  PROVE  HandInv'
<1>1. PICK d \in Pids : \/ MainThread(d) \/ ElaborateRaises(d) \/ Crash(d) \/ PidReuse(d)
                        \/ \E j \in Jobs : Lane(d, j) \/ LaneFault(d, j)
  BY DEF DaemonNext
<1>2. Up(d) /\ ~PidReuse(d)
  BY <1>1, Mover
<1>3. HandOf(d)'
  BY <1>1, <1>2, MainHand, LaneHand
<1>4. ASSUME NEW e \in Pids, e # d PROVE HandOf(e)'
  <2>1. /\ ~Up(e) /\ Empty(e) /\ pc'[e] = pc[e]
        /\ current'[e] = current[e] /\ batch'[e] = batch[e] /\ stage'[e] = stage[e]
    BY <1>1, <1>4, Mover
  <2> QED
    BY ONLY <2>1 DEF HandOf, Empty, Up
<1> QED
  BY <1>3, <1>4 DEF HandInv

\* A command takes records out of running/ only while nobody holds one.
LEMMA ClientHand ==
  ASSUME TypeOK, UpInv, TerminalInv, HandInv, Solo, NEW c \in Clients, Client(c)
  PROVE  HandInv'
<1> USE DEF Step, Type
<1>1. CASE DaemonSpawn(c)
  <2>1. PICK d \in Pids : pc[d] = "off" /\ pc' = [pc EXCEPT ![d] = "boot"]
    BY <1>1 DEF DaemonSpawn, Goto
  <2>2. pc'[d] = "boot" /\ (\A e \in Pids : e # d => pc'[e] = pc[e])
        /\ UNCHANGED <<current, batch, stage, running>>
    BY <1>1, <2>1 DEF DaemonSpawn, spoolVars, TypeOK
  <2>3. ASSUME NEW e \in Pids PROVE HandOf(e)'
    BY ONLY HandInv, <2>1, <2>2, e \in Pids DEF HandInv, HandOf, Empty, Up
  <2> QED
    BY <2>3 DEF HandInv
<1>2. CASE StopKill(c)
  <2>1. PICK p \in Pids : p = cpid[c] /\ running' = running
    BY <1>2 DEF StopKill, spoolVars, TypeOK
  <2>2. CASE UNCHANGED <<pc, batch, current, stage>>
    BY <2>1, <2>2 DEF HandInv, HandOf, Empty, Up
  <2>3. CASE Terminated(p)
    <3>1. pc'[p] = "dead" /\ Empty(p)'
      BY <2>1, <2>3 DEF Terminated, Empty, TypeOK
    <3>2. \A e \in Pids : e # p => /\ pc'[e] = pc[e] /\ batch'[e] = batch[e]
                                         /\ current'[e] = current[e] /\ stage'[e] = stage[e]
      BY <2>1, <2>3 DEF Terminated, TypeOK
    <3>3. ASSUME NEW e \in Pids PROVE HandOf(e)'
      <4>1. CASE e = p
        BY ONLY <3>1, <4>1 DEF HandOf, Empty, Up
      <4>2. CASE e # p
        BY ONLY HandInv, <2>1, <3>2, <4>2, e \in Pids DEF HandInv, HandOf, Empty, Up
      <4> QED
        BY <4>1, <4>2
    <3> QED
      BY <3>3 DEF HandInv
  <2> QED
    BY <1>2, <2>1, <2>2, <2>3 DEF StopKill
<1>3. CASE /\ UNCHANGED daemonVars
           /\ NobodyUp \/ running' = running
  BY <1>3 DEF HandInv, HandOf, Empty, Up, NobodyUp, daemonVars
<1>4. CASE UnlinkOne(c)
  <2>1. PICK f \in files[c] : running' = Without(running, "running", f)
    BY <1>4 DEF UnlinkOne
  <2>2. NobodyUp \/ \A j \in Jobs : f # <<"running", j>>
    BY <2>1 DEF TerminalInv
  <2>3. (\A j \in Jobs : f # <<"running", j>>) => running' = running
    BY <2>1 DEF Without, TypeOK
  <2> QED
    BY <1>3, <1>4, <2>2, <2>3 DEF UnlinkOne
<1>5. CASE Requeue(c)
  BY <1>3, <1>5 DEF Requeue, TerminalInv
<1> QED
  BY <1>1, <1>2, <1>3, <1>4, <1>5
  DEF Client, Solo, spoolVars, SpoolStamp, SpoolPublish, AddStart, DaemonStart, DaemonWait, DaemonForeground,
      StopProbe, StopTouch, StopUnpid, DropList, ClearProbe, ClearLive, ClearLogs, ClearOrphans, UnlinkDone,
      StatusOrphans

\* sorted(...)[:n] leaves no smaller member out.
LEMMA OldestDown ==
  ASSUME NEW N \in Nat, NEW S \in SUBSET (1 .. N), NEW n \in Nat, NEW i \in S, NEW j \in Oldest(S, n), i < j
  PROVE  i \in Oldest(S, n)
<1> DEFINE upTo(k) == {m \in S : m <= k}
<1>1. j \in S /\ Cardinality(upTo(j)) <= n /\ \A k \in S : k \in Int
  BY DEF Oldest
<1>2. IsFiniteSet(upTo(j))
  <2>1. IsFiniteSet(1 .. N)
    BY FS_Interval
  <2>2. upTo(j) \subseteq 1 .. N
    OBVIOUS
  <2> QED
    BY <2>1, <2>2, FS_Subset
<1>3. upTo(i) \subseteq upTo(j)
  <2> SUFFICES ASSUME NEW m \in S, m <= i PROVE m <= j
    OBVIOUS
  <2>1. i \in Int /\ j \in Int /\ m \in Int
    BY <1>1
  <2> QED
    BY <2>1
<1>4. IsFiniteSet(upTo(i)) /\ Cardinality(upTo(i)) <= Cardinality(upTo(j))
  BY <1>2, <1>3, FS_Subset
<1>5. Cardinality(upTo(i)) \in Nat /\ Cardinality(upTo(j)) \in Nat
  BY <1>2, <1>4, FS_CardinalityType
<1>6. Cardinality(upTo(i)) <= n
  <2> HIDE DEF upTo
  <2> QED
    BY <1>1, <1>4, <1>5
<1> QED
  BY <1>6 DEF Oldest

\* A daemon works on what it finds in the spool.
LEMMA QueuedShrinks ==
  ASSUME TypeOK, NEW d \in Pids,
         \/ MainThread(d) \/ ElaborateRaises(d) \/ Crash(d)
         \/ \E j \in Jobs : Lane(d, j) \/ LaneFault(d, j),
         NEW k \in Jobs, Queued(k)'
  PROVE  Queued(k)
<1> USE DEF TypeOK, Goto, spoolVars, Queued, Holds
<1>0. k # 0
  BY DEF Jobs
<1>1. CASE WritePidfile(d) \/ CheckStop(d) \/ TakeStop(d) \/ LeaveIdle(d) \/ Sleep(d) \/ NextInBatch(d)
           \/ PoolShutdown(d) \/ UnlinkPidfile(d)
  BY <1>1 DEF WritePidfile, CheckStop, TakeStop, LeaveIdle, Sleep, NextInBatch, PoolShutdown, UnlinkPidfile
<1>2. CASE Scan(d)
  <2>1. batch' = [batch EXCEPT ![d] = GlobPending(d)] /\ UNCHANGED <<pending, running, current, stage>>
    BY <1>2 DEF Scan
  <2>2. \A j \in GlobPending(d) : pending[j] # "absent"
    BY DEF GlobPending, Oldest, In
  <2> HIDE DEF Goto, spoolVars
  <2> QED
    BY <2>1, <2>2
<1>3. CASE SpoolClaim(d)
  <2>1. PICK j \in batch[d] :
         /\ batch' = [batch EXCEPT ![d] = @ \ {j}]
         /\ \/ UNCHANGED <<pending, running, current>>
            \/ /\ running' = RenameTarget(running, pending, j) /\ pending' = RenameSource(pending, j)
               /\ current' = [current EXCEPT ![d] = j]
    BY <1>3 DEF SpoolClaim
  <2>2. j \in Jobs /\ stage' = stage
    BY <1>3 DEF SpoolClaim
  <2>3. CASE k = j
    BY <2>3
  <2>4. CASE k # j
    <3>1. pending'[k] = pending[k] /\ running'[k] = running[k]
      BY <2>1, <2>2, <2>4 DEF RenameTarget, RenameSource
    <3>2. \A e \in Pids : (current'[e] = k => current[e] = k) /\ (k \in batch'[e] => k \in batch[e])
      BY <2>1, <2>2, <2>4
    <3> QED
      BY ONLY <2>2, <3>1, <3>2, Queued(k)' DEF Queued, Holds
  <2> QED
    BY <2>3, <2>4
<1>4. CASE SpoolRead(d)
  <2>1. UNCHANGED <<pending, batch, stage>> /\ (running'[k] # "absent" => running[k] # "absent")
    BY <1>4 DEF SpoolRead
  <2>2. \A e \in Pids : current'[e] = k => current[e] = k
    <3>1. current' = current \/ current' = [current EXCEPT ![d] = 0]
      BY <1>4 DEF SpoolRead
    <3> QED
      BY <1>0, <3>1
  <2> QED
    BY ONLY <2>1, <2>2, Queued(k)' DEF Queued, Holds
<1>5. CASE ElaborateReady(d) \/ ElaborateNotReady(d)
  <2>1. UNCHANGED <<pending, running, batch>> /\ (current' = current \/ current' = [current EXCEPT ![d] = 0])
    BY <1>5 DEF ElaborateReady, ElaborateNotReady
  <2>2. \A e \in Pids : current'[e] = k => current[e] = k
    BY <1>0, <2>1
  <2>3. \A e \in Pids : stage'[e][k] # "idle" => stage[e][k] # "idle" \/ current[e] = k
    <3>1. \E to \in Stages : stage' = [stage EXCEPT ![d][current[d]] = to]
      BY <1>5 DEF ElaborateReady, ElaborateNotReady, Stages
    <3> QED
      BY <3>1
  <2> QED
    BY ONLY <2>1, <2>2, <2>3, Queued(k)' DEF Queued, Holds
<1>6. CASE InlineDone(d) \/ ElaborateRaises(d)
  <2>1. UNCHANGED <<pending, running, batch, stage>> /\ \A e \in Pids : current'[e] = k => current[e] = k
    BY <1>6 DEF InlineDone, ElaborateRaises, Jobs
  <2> QED
    BY ONLY <2>1, Queued(k)' DEF Queued, Holds
<1>7. CASE Crash(d)
  <2>1. UNCHANGED <<pending, running>>
        /\ \A e \in Pids : /\ current'[e] = k => current[e] = k
                           /\ k \in batch'[e] => k \in batch[e]
                           /\ stage'[e][k] # "idle" => stage[e][k] # "idle"
    BY <1>7 DEF Crash, Terminated, Jobs
  <2> QED
    BY ONLY <2>1, Queued(k)' DEF Queued, Holds
<1>8. ASSUME NEW j \in Jobs, Lane(d, j) \/ LaneFault(d, j) PROVE Queued(k)
  <2>1. stage[d][j] # "idle" /\ batch' = batch /\ \E to \in Stages : stage' = [stage EXCEPT ![d][j] = to]
    BY <1>8 DEF Lane, LaneFault, StampOpen, StampWrite, StampFails, RunJob, SimEnds, FinishOpen,
         FinishWrite, FinishUnlink, FinishFails, Advance, Stages
  <2>3. current' = current \/ current' = [current EXCEPT ![d] = 0]
    BY <1>8 DEF Lane, LaneFault, StampOpen, StampWrite, StampFails, RunJob, SimEnds, FinishOpen,
         FinishWrite, FinishUnlink, FinishFails
  <2>4. \A e \in Pids : current'[e] = k => current[e] = k
    BY <1>0, <2>3
  <2>5. \A e \in Pids : stage'[e][k] # "idle" => stage[e][k] # "idle"
    BY <2>1
  <2>2. k # j => running'[k] = running[k] /\ pending'[k] = pending[k]
    BY <1>8 DEF Lane, LaneFault, StampOpen, StampWrite, StampFails, RunJob, SimEnds, FinishOpen,
         FinishWrite, FinishUnlink, FinishFails
  <2> QED
    BY ONLY <2>1, <2>2, <2>4, <2>5, Queued(k)', d \in Pids DEF Queued, Holds
<1> QED
  BY <1>1, <1>2, <1>3, <1>4, <1>5, <1>6, <1>7, <1>8 DEF MainThread

\* A daemon holds a job anew only by claiming it, which takes it out of pending/.
LEMMA NewHold ==
  ASSUME TypeOK, NEW d \in Pids,
         \/ MainThread(d) \/ ElaborateRaises(d) \/ Crash(d)
         \/ \E j \in Jobs : Lane(d, j) \/ LaneFault(d, j),
         NEW k \in Jobs, Holds(d, k)', ~Holds(d, k)
  PROVE  pending'[k] = "absent"
<1> USE DEF TypeOK, Goto, Holds
<1>0. k # 0
  BY DEF Jobs
<1>1. CASE SpoolClaim(d)
  BY <1>1 DEF SpoolClaim, RenameSource
<1>2. CASE UNCHANGED <<current, stage>>
  BY <1>2
<1>3. CASE SpoolRead(d) \/ InlineDone(d) \/ ElaborateRaises(d)
  <2>1. stage' = stage /\ (current' = current \/ current' = [current EXCEPT ![d] = 0])
    BY <1>3 DEF SpoolRead, InlineDone, ElaborateRaises
  <2> QED
    BY <1>0, <2>1
<1>4. CASE ElaborateReady(d) \/ ElaborateNotReady(d)
  <2>1. \E to \in Stages : stage' = [stage EXCEPT ![d][current[d]] = to]
    BY <1>4 DEF ElaborateReady, ElaborateNotReady, Stages
  <2>2. current' = current \/ current' = [current EXCEPT ![d] = 0]
    BY <1>4 DEF ElaborateReady, ElaborateNotReady
  <2> QED
    BY <1>0, <2>1, <2>2
<1>5. CASE Crash(d)
  BY <1>0, <1>5 DEF Crash, Terminated
<1>6. ASSUME NEW j \in Jobs, Lane(d, j) \/ LaneFault(d, j) PROVE FALSE
  <2>1. stage[d][j] # "idle" /\ \E to \in Stages : stage' = [stage EXCEPT ![d][j] = to]
    BY <1>6 DEF Lane, LaneFault, StampOpen, StampWrite, StampFails, RunJob, SimEnds, FinishOpen,
         FinishWrite, FinishUnlink, FinishFails, Advance, Stages
  <2>2. current' = current \/ current' = [current EXCEPT ![d] = 0]
    BY <1>6 DEF Lane, LaneFault, StampOpen, StampWrite, StampFails, RunJob, SimEnds, FinishOpen,
         FinishWrite, FinishUnlink, FinishFails
  <2> QED
    BY <1>0, <2>1, <2>2
<1> QED
  BY <1>1, <1>2, <1>3, <1>4, <1>5, <1>6
  DEF MainThread, WritePidfile, CheckStop, TakeStop, Scan, LeaveIdle, Sleep, NextInBatch, PoolShutdown, UnlinkPidfile

\* Its batch is the scan's until it is used up.
LEMMA BatchSteps ==
  ASSUME TypeOK, NEW d \in Pids,
         \/ MainThread(d) \/ ElaborateRaises(d) \/ Crash(d)
         \/ \E j \in Jobs : Lane(d, j) \/ LaneFault(d, j)
  PROVE  Scan(d) \/ SpoolClaim(d) \/ batch'[d] \in {batch[d], {}}
<1>1. CASE NextInBatch(d) \/ PoolShutdown(d) \/ Crash(d)
  BY <1>1 DEF NextInBatch, PoolShutdown, Crash, Terminated, TypeOK
<1>2. CASE batch' = batch
  BY <1>2
<1> QED
  BY <1>1, <1>2
  DEF MainThread, WritePidfile, CheckStop, TakeStop, LeaveIdle, Sleep, SpoolRead, ElaborateReady, ElaborateNotReady,
      InlineDone, UnlinkPidfile, ElaborateRaises, Lane, LaneFault, StampOpen, StampWrite, StampFails, RunJob,
      SimEnds, FinishOpen, FinishWrite, FinishUnlink, FinishFails

\* The scan leaves no older job behind.
LEMMA ScanDown ==
  ASSUME TypeOK, NEW d \in Pids, Scan(d), NEW i \in Jobs, NEW j \in batch'[d], i < j, pending[i] # "absent"
  PROVE  i \in batch'[d]
<1> DEFINE free == Lanes - Cardinality(InFlight(d))
<1>1. batch'[d] = GlobPending(d)
  BY DEF Scan, TypeOK
<1>2. free \in Int
  <2>1. IsFiniteSet(Jobs)
    <3>1. 1 \in Int /\ NumJobs \in Int
      BY JobsAssumption
    <3> QED
      BY <3>1, FS_Interval DEF Jobs
  <2>2. IsFiniteSet(InFlight(d))
    BY <2>1, FS_Subset DEF InFlight
  <2> QED
    BY <2>2, FS_CardinalityType, LanesAssumption
<1>3. GlobPending(d) = IF free > 0 THEN Oldest(In(pending), free) ELSE {}
  BY DEF GlobPending
<1>4. In(pending) \in SUBSET (1 .. NumJobs) /\ i \in In(pending)
  BY DEF In, Jobs
<1> HIDE DEF free
<1>5. free > 0 /\ free \in Nat /\ j \in Oldest(In(pending), free)
  BY <1>1, <1>2, <1>3
<1>6. i \in Oldest(In(pending), free)
  BY <1>4, <1>5, OldestDown, JobsAssumption
<1> QED
  BY <1>1, <1>3, <1>5, <1>6

\* A daemon keeps the order: what it scans is closed downwards, and what it claims was the oldest.
LEMMA DaemonOrder ==
  ASSUME TypeOK, UpInv, HandInv, OrderInv, Solo, DaemonNext, UNCHANGED clientVars
  PROVE  OrderInv'
<1>1. PICK d \in Pids : \/ MainThread(d) \/ ElaborateRaises(d) \/ Crash(d) \/ PidReuse(d)
                        \/ \E j \in Jobs : Lane(d, j) \/ LaneFault(d, j)
  BY DEF DaemonNext
<1>2. \/ MainThread(d) \/ ElaborateRaises(d) \/ Crash(d)
      \/ \E j \in Jobs : Lane(d, j) \/ LaneFault(d, j)
  BY <1>1, Mover
<1>3. \A e \in Pids : e # d => Empty(e) /\ current'[e] = current[e] /\ batch'[e] = batch[e] /\ stage'[e] = stage[e]
  BY <1>1, Mover
<1>4. \A j \in Jobs : pending[j] = "absent" => pending'[j] = "absent"
  BY DaemonPending
<1>5. \A c \in Clients, j \in Jobs : Publishing(c, j)' => j = nextId' - 1
  BY DEF OrderInv, Publishing, clientVars
<1>6. ASSUME NEW j \in Jobs, Queued(j)' PROVE Past(j)'
  <2>1. Queued(j)
    BY <1>2, <1>6, QueuedShrinks
  <2> QED
    BY <2>1 DEF OrderInv, Past, Publishing, clientVars
<1>7. ASSUME NEW e \in Pids, NEW j \in Jobs, Holds(e, j)' PROVE pending'[j] = "absent"
  <2>1. e = d
    BY <1>3, <1>7 DEF Holds, Empty, Jobs
  <2>2. CASE Holds(d, j)
    BY <1>4, <2>2 DEF OrderInv
  <2>3. CASE ~Holds(d, j)
    BY <1>2, <1>7, <2>1, <2>3, NewHold
  <2> QED
    BY <2>2, <2>3
<1>8. ASSUME NEW e \in Pids, NEW i \in Jobs, NEW j \in batch'[e], i < j, pending'[i] # "absent"
      PROVE  i \in batch'[e]
  <2>1. e = d /\ pending[i] # "absent"
    BY <1>3, <1>4, <1>8 DEF Empty
  <2>2. CASE Scan(d)
    BY <1>8, <2>1, <2>2, ScanDown
  <2>3. CASE SpoolClaim(d)
    <3>1. PICK k \in batch[d] : batch'[d] = batch[d] \ {k} /\ pending'[k] = "absent"
      BY <2>3 DEF SpoolClaim, RenameSource, TypeOK
    <3> QED
      BY <1>8, <2>1, <3>1 DEF OrderInv
  <2>4. CASE batch'[d] \in {batch[d], {}}
    BY <1>8, <2>1, <2>4 DEF OrderInv
  <2> QED
    BY <1>2, <2>2, <2>3, <2>4, BatchSteps
<1> QED
  BY <1>5, <1>6, <1>7, <1>8 DEF OrderInv

\* A command queues the jobs in the order of their stamps, and moves claims only while nobody is up.
LEMMA ClientOrder ==
  ASSUME TypeOK, UpInv, TerminalInv, HandInv, OrderInv, Solo, NEW c \in Clients, Client(c)
  PROVE  OrderInv'
<1>1. \A e \in Clients : e = c
  BY DEF Solo
<1>2. nextId \in Nat /\ \A j \in Jobs : j \in Nat /\ j # 0
  BY JobsAssumption DEF TypeOK, Jobs
<1>3. \A e \in Pids : batch'[e] \subseteq batch[e] /\ \A j \in Jobs : Holds(e, j)' => Holds(e, j)
  <2>1. CASE DaemonSpawn(c) \/ UNCHANGED <<batch, current, stage>>
    BY <2>1 DEF DaemonSpawn, Holds
  <2>2. CASE StopKill(c)
    <3>1. PICK p \in Pids : p = cpid[c]
      BY <2>2 DEF StopKill, Step, TypeOK
    <3>2. CASE Terminated(p)
      <4>1. /\ \A e \in Pids : e # p => batch'[e] = batch[e] /\ current'[e] = current[e] /\ stage'[e] = stage[e]
            /\ batch'[p] = {} /\ current'[p] = 0 /\ \A j \in Jobs : stage'[p][j] = "idle"
        BY <3>2 DEF Terminated, TypeOK
      <4> QED
        BY <1>2, <4>1 DEF Holds
    <3> QED
      BY <2>1, <2>2, <3>1, <3>2 DEF StopKill
  <2> QED
    BY <2>1, <2>2
    DEF Client, Solo, daemonVars, SpoolStamp, SpoolPublish, AddStart, DaemonStart, DaemonWait, DaemonForeground, Type,
        StopProbe, StopTouch, StopUnpid, DropList, ClearProbe, ClearLive, ClearLogs, ClearOrphans, UnlinkOne,
        UnlinkDone, StatusOrphans, Requeue
<1> USE DEF Step, Type
<1>4. CASE SpoolStamp(c)
  <2>1. /\ nextId' = nextId + 1 /\ nextId \in Jobs /\ cpc[c] # "publish"
        /\ files'[c] = {<<"pending", nextId>>} /\ pending' = pending /\ running' = running
    BY <1>4 DEF SpoolStamp, TypeOK, spoolVars
  <2>2. \A j \in Jobs : Publishing(c, j)' => j = nextId
    BY <2>1 DEF Publishing
  <2>3. \A j \in Jobs : Past(j) => Past(j)'
    <3> SUFFICES ASSUME NEW j \in Jobs, j < nextId PROVE j < nextId' /\ ~Publishing(c, j)'
      BY <1>1 DEF Past
    <3>1. j < nextId' /\ j # nextId
      BY <1>2, <2>1
    <3> QED
      BY <2>2, <3>1
  <2>4. \A j \in Jobs : Queued(j)' => Queued(j)
    BY <1>3, <2>1 DEF Queued
  <2>5. ASSUME NEW e \in Clients, NEW j \in Jobs, Publishing(e, j)' PROVE j = nextId' - 1
    BY <1>1, <1>2, <2>1, <2>2, <2>5
  <2>6. \A j \in Jobs : Queued(j)' => Past(j)'
    BY <2>3, <2>4 DEF OrderInv
  <2>7. \A e \in Pids, j \in Jobs : Holds(e, j)' => pending'[j] = "absent"
    BY <1>3, <2>1 DEF OrderInv
  <2>8. batch' = batch
    BY <1>4 DEF SpoolStamp, daemonVars
  <2>9. \A e \in Pids : \A i \in Jobs, j \in batch'[e] : i < j /\ pending'[i] # "absent" => i \in batch'[e]
    BY <2>1, <2>8 DEF OrderInv
  <2> QED
    BY <2>5, <2>6, <2>7, <2>9 DEF OrderInv
<1>5. CASE SpoolPublish(c)
  <2>1. PICK k \in Jobs : Publishing(c, k) /\ pending' = [pending EXCEPT ![k] = "ok"]
    BY <1>5 DEF SpoolPublish, Publishing
  <2>2. nextId' = nextId /\ running' = running /\ \A j \in Jobs : ~Publishing(c, j)'
    BY <1>5 DEF SpoolPublish, Publishing, TypeOK
  <2>3. k = nextId - 1 /\ ~Queued(k)
    BY <2>1 DEF OrderInv, Past
  <2>4. pending'[k] = "ok" /\ \A j \in Jobs : j # k => pending'[j] = pending[j]
    BY <2>1 DEF TypeOK
  <2>5. ASSUME NEW j \in Jobs, Queued(j)' PROVE Past(j)'
    <3>1. j = k \/ Queued(j)
      BY <1>3, <2>2, <2>4, <2>5 DEF Queued
    <3>2. j < nextId
      BY <1>2, <2>3, <3>1 DEF OrderInv, Past
    <3> QED
      BY <1>1, <2>2, <3>2 DEF Past
  <2>6. \A d \in Pids, j \in Jobs : Holds(d, j)' => pending'[j] = "absent"
    BY <1>3, <2>3, <2>4 DEF OrderInv, Queued
  <2>7. ASSUME NEW d \in Pids, NEW i \in Jobs, NEW j \in batch'[d], i < j, pending'[i] # "absent"
        PROVE  i \in batch'[d]
    <3>1. j \in batch[d] /\ j \in Jobs /\ batch'[d] = batch[d]
      BY <1>3, <1>5 DEF TypeOK, SpoolPublish, daemonVars
    <3>2. j < nextId /\ ~Publishing(c, j)
      BY <3>1 DEF OrderInv, Queued, Past
    <3>3. j < k
      BY <1>2, <2>1, <2>3, <3>1, <3>2
    <3> QED
      BY <1>2, <2>4, <2>7, <3>1, <3>3 DEF OrderInv
  <2> QED
    BY <1>1, <2>2, <2>5, <2>6, <2>7 DEF OrderInv
<1>6. CASE Requeue(c)
  <2>1. /\ nextId' = nextId /\ files' = files /\ cpc'[c] = "prompt"
        /\ \A j \in Jobs : pending'[j] \in {pending[j], running[j]} /\ running'[j] = "absent"
    BY <1>6 DEF Requeue, TypeOK
  <2>2. NobodyUp
    BY <1>6 DEF Requeue, TerminalInv
  <2>3. \A e \in Pids : Empty(e)
    BY <2>2 DEF HandInv, HandOf, NobodyUp
  <2>4. \A e \in Pids : batch'[e] = {} /\ \A j \in Jobs : ~Holds(e, j)'
    BY <1>2, <1>3, <2>3 DEF Empty, Holds
  <2>5. \A j \in Jobs : Queued(j)' => Queued(j)
    BY <2>1, <2>4 DEF Queued
  <2>6. \A j \in Jobs : ~Publishing(c, j)' /\ (Past(j) => Past(j)')
    BY <1>1, <2>1 DEF Publishing, Past
  <2> QED
    BY <1>1, <2>4, <2>5, <2>6 DEF OrderInv
<1>7. CASE /\ nextId' = nextId /\ cpc'[c] # "publish"
           /\ \A j \in Jobs : (pending'[j] = "absent" \/ pending'[j] = pending[j])
                              /\ (running'[j] = "absent" \/ running'[j] = running[j])
           /\ \A e \in Pids : batch'[e] \in {batch[e], {}}
  <2>1. \A j \in Jobs : ~Publishing(c, j)' /\ (Past(j) => Past(j)')
    BY <1>1, <1>7 DEF Publishing, Past
  <2>2. \A j \in Jobs : Queued(j)' => Queued(j)
    BY <1>3, <1>7 DEF Queued
  <2>3. ASSUME NEW d \in Pids, NEW i \in Jobs, NEW j \in batch'[d], i < j, pending'[i] # "absent"
        PROVE  i \in batch'[d]
    BY <1>7, <2>3 DEF OrderInv
  <2> QED
    BY <1>1, <1>3, <1>7, <2>1, <2>2, <2>3 DEF OrderInv
<1>8. CASE UnlinkOne(c)
  <2>1. PICK f \in files[c] : pending' = Without(pending, "pending", f) /\ running' = Without(running, "running", f)
    BY <1>8 DEF UnlinkOne
  <2> QED
    BY <1>7, <1>8, <2>1 DEF UnlinkOne, Without, daemonVars
<1>9. CASE StopKill(c)
  <2>1. \A e \in Pids : batch'[e] \in {batch[e], {}}
    BY <1>9 DEF StopKill, Terminated, TypeOK
  <2> QED
    BY <1>7, <1>9, <2>1 DEF StopKill, spoolVars, TypeOK
<1> QED
  BY <1>4, <1>5, <1>6, <1>7, <1>8, <1>9
  DEF Client, Solo, TypeOK, spoolVars, daemonVars, AddStart, DaemonStart, DaemonSpawn, DaemonWait, DaemonForeground,
      StopProbe, StopTouch, StopUnpid, DropList, ClearProbe, ClearLive, ClearLogs, ClearOrphans, UnlinkDone,
      StatusOrphans

\* The spool is empty and nobody is up.
LEMMA SoloInit == SimqInit => UpInv /\ TerminalInv /\ HandInv /\ OrderInv
<1> SUFFICES ASSUME SimqInit PROVE UpInv /\ TerminalInv /\ HandInv /\ OrderInv
  OBVIOUS
<1> USE DEF SimqInit, Init
<1>1. \A d \in Pids : ~Up(d) /\ Empty(d)
  BY DEF Up, Empty
<1>2. UpInv
  BY <1>1, PidsAssumption DEF UpInv, Up
<1>3. TerminalInv
  BY DEF TerminalInv
<1>4. HandInv
  BY <1>1 DEF HandInv, HandOf, Empty, Up
<1>5. \A j \in Jobs : ~Queued(j)
  BY DEF Queued, Holds, Jobs
<1>6. OrderInv
  BY <1>1, <1>5 DEF OrderInv, Publishing, Queued, Empty
<1> QED
  BY <1>2, <1>3, <1>4, <1>6

\* The invariant of one terminal.
LEMMA SoloAlways ==
  ASSUME Solo
  PROVE  Spec => []SoloInv
<1>1. SimqInit => UpInv /\ TerminalInv /\ HandInv /\ OrderInv
  BY SoloInit
<1> DEFINE Rest == UpInv /\ TerminalInv /\ HandInv /\ OrderInv
<1>2. TypeOK /\ Rest /\ [Next]_vars => Rest'
  <2> SUFFICES ASSUME TypeOK, Rest, [Next]_vars PROVE Rest'
    OBVIOUS
  <2>1. CASE DaemonNext /\ UNCHANGED clientVars
    BY <2>1, DaemonUp, DaemonHand, DaemonOrder
  <2>2. ASSUME NEW c \in Clients, Client(c) PROVE Rest'
    <3>1. UpInv'
      BY <2>2, ClientUp
    <3>2. TerminalInv'
      BY <2>2, <3>1, ClientTerminal
    <3>3. HandInv' /\ OrderInv'
      BY <2>2, ClientHand, ClientOrder
    <3> QED
      BY <3>1, <3>2, <3>3
  <2>3. CASE UNCHANGED vars
    <3> USE <2>3 DEF vars, spoolVars, daemonVars, clientVars
    <3>1. UpInv' /\ TerminalInv'
      BY DEF UpInv, TerminalInv, NobodyUp, Up
    <3>2. HandInv'
      BY DEF HandInv, HandOf, Empty, Up
    <3>3. OrderInv'
      BY DEF OrderInv, Publishing, Queued, Past, Holds
    <3> QED
      BY <3>1, <3>2, <3>3
  <2> QED
    BY <2>1, <2>2, <2>3 DEF Next
<1>3. TypeOK /\ Rest => SoloInv
  BY DEF SoloInv
<1> QED
  BY <1>1, <1>2, <1>3, TypeCorrect, PTL DEF Spec

-----------------------------------------------------------------------------
(***************************************************************************)
(* The theorems about one terminal.                                        *)
(***************************************************************************)
\* At most one daemon drains the spool, whatever is typed but `daemon --foreground`, whenever daemons
\* crash, idle out, are stopped or killed: daemon_start's two looks at the pidfile are enough.
THEOREM OneDaemonHolds ==
  ASSUME Solo
  PROVE  Spec => []OneDaemon
<1>1. SoloInv => OneDaemon
  <2> SUFFICES ASSUME UpInv PROVE OneDaemon
    BY DEF SoloInv
  <2> DEFINE S == {d \in Pids : pc[d] \notin {"off", "dead", "foreign"}}
  <2>1. CASE S = {}
    <3>1. Cardinality({}) = 0
      BY FS_EmptySet
    <3> QED
      BY <2>1, <3>1 DEF OneDaemon
  <2>2. CASE S # {}
    <3>1. PICK d \in S : S = {d}
      BY <2>2 DEF UpInv, Up
    <3>2. Cardinality({d}) = 1
      BY FS_Singleton
    <3> QED
      BY <3>1, <3>2 DEF OneDaemon
  <2> QED
    BY <2>1, <2>2
<1> QED
  BY <1>1, SoloAlways, PTL

\* No job is worked on at two places, also when claims are moved back by hand as status advises.
THEOREM ExclusiveClaimHolds ==
  ASSUME Solo
  PROVE  Spec => []ExclusiveClaim
<1>1. SoloInv => ExclusiveClaim
  <2> SUFFICES ASSUME UpInv, HandInv, NEW j \in Jobs
               PROVE  /\ \A d, e \in Pids : Holds(d, j) /\ Holds(e, j) => d = e
                      /\ \A d \in Pids : current[d] = j /\ stage[d][j] # "idle" => pc[d] = "inline"
    BY DEF SoloInv, ExclusiveClaim
  <2>1. \A d \in Pids : Holds(d, j) => Up(d)
    BY DEF HandInv, HandOf, Empty, Holds, Jobs
  <2> QED
    BY <2>1 DEF UpInv, HandInv, HandOf
<1> QED
  BY <1>1, SoloAlways, PTL

\* What clear --all removes from running/ belongs to no daemon, although it looked at the pidfile first.
THEOREM ClearSparesClaimsHolds ==
  ASSUME Solo
  PROVE  Spec => ClearSparesClaims
<1>1. SoloInv /\ [Next]_vars
        => [\A c \in Clients, j \in Jobs :
              cpc[c] = "unlink" /\ <<"running", j>> \in files[c] \ files'[c]
                => \A d \in Pids : ~Holds(d, j)]_vars
  <2> SUFFICES ASSUME TerminalInv, HandInv, NEW c \in Clients, NEW j \in Jobs, <<"running", j>> \in files[c]
               PROVE  \A d \in Pids : ~Holds(d, j)
    BY DEF SoloInv
  <2>1. NobodyUp
    BY DEF TerminalInv
  <2> QED
    BY <2>1 DEF NobodyUp, HandInv, HandOf, Empty, Holds, Jobs
<1> QED
  BY <1>1, SoloAlways, PTL DEF Spec, ClearSparesClaims

\* A record comes to running/ only by a claim: a stamp finds its record there.
LEMMA RunningGrows ==
  ASSUME SoloInv, Next, NEW j \in Jobs, running[j] = "absent", running'[j] # "absent"
  PROVE  \E d \in Pids : SpoolClaim(d) /\ j \in batch[d] /\ IsFirst(j, batch[d])
<1> USE DEF SoloInv, TypeOK, spoolVars
<1>1. ASSUME NEW c \in Clients, Client(c) PROVE FALSE
  BY <1>1 DEF Client, Step, Type, SpoolStamp, SpoolPublish, AddStart, DaemonStart, DaemonSpawn, DaemonWait,
     DaemonForeground, StopProbe, StopTouch, StopKill, StopUnpid, DropList, ClearProbe, ClearLive, ClearLogs,
     ClearOrphans, UnlinkOne, UnlinkDone, StatusOrphans, Requeue, Without
<1>2. PICK d \in Pids : \/ MainThread(d) \/ ElaborateRaises(d) \/ Crash(d) \/ PidReuse(d)
                        \/ \E k \in Jobs : Lane(d, k) \/ LaneFault(d, k)
  BY <1>1 DEF Next, DaemonNext
<1>3. ASSUME NEW k \in Jobs, Lane(d, k) \/ LaneFault(d, k) PROVE FALSE
  <2>1. stage[d][k] # "idle" /\ (k # j => running'[j] = running[j])
    BY <1>3 DEF Lane, LaneFault, StampOpen, StampWrite, StampFails, RunJob, SimEnds, FinishOpen,
         FinishWrite, FinishUnlink, FinishFails, Advance
  <2> QED
    BY <2>1 DEF HandInv, HandOf
<1>4. CASE SpoolClaim(d)
  BY <1>4 DEF SpoolClaim, RenameTarget
<1>5. CASE SpoolRead(d)
  BY <1>5 DEF SpoolRead
<1>6. CASE running' = running
  BY <1>6
<1> QED
  BY <1>2, <1>3, <1>4, <1>5, <1>6
  DEF MainThread, WritePidfile, CheckStop, TakeStop, Scan, LeaveIdle, Sleep, NextInBatch, ElaborateReady,
      ElaborateNotReady, InlineDone, PoolShutdown, UnlinkPidfile, ElaborateRaises, Crash, PidReuse

\* "so the queue is FIFO": a job leaves pending/ only after every job queued before it, also across
\* crashes, kills and requeues.
THEOREM FifoHolds ==
  ASSUME Solo
  PROVE  Spec => Fifo
<1>1. SoloInv /\ [Next]_vars
        => [\A i, j \in Jobs :
              i < j /\ running[j] = "absent" /\ running'[j] # "absent" /\ pending[j] # "absent"
                => pending[i] = "absent"]_vars
  <2> SUFFICES ASSUME SoloInv, Next, NEW i \in Jobs, NEW j \in Jobs, i < j,
                      running[j] = "absent", running'[j] # "absent"
               PROVE  pending[i] = "absent"
    BY DEF vars, spoolVars
  <2>1. PICK d \in Pids : SpoolClaim(d) /\ j \in batch[d] /\ IsFirst(j, batch[d])
    BY RunningGrows
  <2>2. CASE pending[i] # "absent"
    <3>1. i \in batch[d]
      BY <2>1, <2>2 DEF SoloInv, OrderInv
    <3>2. j <= i
      BY <2>1, <3>1 DEF IsFirst
    <3> QED
      BY <3>2 DEF Jobs
  <2> QED
    BY <2>2
<1> QED
  BY <1>1, SoloAlways, PTL DEF Spec, Fifo

-----------------------------------------------------------------------------
(***************************************************************************)
(* daemon_loop claims only what it has a free lane for; a verdict, once    *)
(* written, stays; and the spool implements JobQueue, for every number of  *)
(* jobs, daemons, lanes and terminals and every fault, as long as nobody   *)
(* clears records or moves claims back by hand.                            *)
(***************************************************************************)
-----------------------------------------------------------------------------
(***************************************************************************)
(* sorted(...)[:n] has at most n members: the rank of a member in the set  *)
(* is between 1 and n, and no two members have the same.                   *)
(***************************************************************************)
LEMMA OldestBound ==
  ASSUME NEW N \in Nat, NEW S \in SUBSET (1 .. N), NEW n \in Nat
  PROVE  Cardinality(Oldest(S, n)) <= n
<1> DEFINE upTo(j) == {i \in S : i <= j}
           T == Oldest(S, n)
           rank == [j \in T |-> Cardinality(upTo(j))]
<1>1. S \subseteq Int
  OBVIOUS
<1>2. IsFiniteSet(S) /\ IsFiniteSet(T) /\ T \subseteq S
  <2>1. IsFiniteSet(1 .. N)
    BY FS_Interval
  <2>2. IsFiniteSet(S)
    BY <2>1, FS_Subset
  <2> QED
    BY <2>2, FS_Subset DEF Oldest
<1>3. \A j \in S : IsFiniteSet(upTo(j)) /\ j \in upTo(j) /\ Cardinality(upTo(j)) \in Nat \ {0}
  <2> SUFFICES ASSUME NEW j \in S
               PROVE  IsFiniteSet(upTo(j)) /\ j \in upTo(j) /\ Cardinality(upTo(j)) \in Nat \ {0}
    OBVIOUS
  <2>1. IsFiniteSet(upTo(j)) /\ j \in upTo(j)
    BY <1>2, FS_Subset
  <2> HIDE DEF upTo
  <2> QED
    BY <2>1, FS_EmptySet, FS_CardinalityType
<1>4. IsFiniteSet(1 .. n) /\ Cardinality(1 .. n) = n
  BY FS_Interval
<1>5. rank \in [T -> 1 .. n]
  <2> SUFFICES ASSUME NEW j \in T PROVE Cardinality(upTo(j)) \in 1 .. n
    OBVIOUS
  <2>1. Cardinality(upTo(j)) <= n /\ j \in S
    BY DEF Oldest
  <2> QED
    BY <1>3, <2>1
<1>6. ASSUME Cardinality(T) > n PROVE FALSE
  <2>1. PICK x, y \in T : x # y /\ rank[x] = rank[y]
    <3> HIDE DEF rank, T
    <3> QED
      BY <1>2, <1>4, <1>5, <1>6, FS_PigeonHole
  <2>2. PICK a, b \in S : a < b /\ Cardinality(upTo(a)) = Cardinality(upTo(b))
    <3>1. Cardinality(upTo(x)) = Cardinality(upTo(y))
      BY <2>1
    <3> HIDE DEF T
    <3>2. x \in S /\ y \in S /\ x \in Int /\ y \in Int
      BY <1>1, <1>2
    <3> HIDE DEF upTo
    <3> QED
      BY <2>1, <3>1, <3>2
  <2>3. upTo(a) \subseteq upTo(b)
    <3>1. \A i \in S : i <= a => i <= b
      BY <1>1, <2>2
    <3> QED
      BY <3>1
  <2>4. upTo(a) = upTo(b)
    BY <1>3, <2>2, <2>3, FS_Subset
  <2>5. b \in upTo(b) /\ b \notin upTo(a)
    BY <1>1, <2>2
  <2> QED
    BY <2>4, <2>5
<1>7. Cardinality(T) \in Nat
  BY <1>2, FS_CardinalityType
<1> QED
  BY <1>6, <1>7

-----------------------------------------------------------------------------
(***************************************************************************)
(* The invariant.  When the daemon counts its lanes, its main thread holds *)
(* nothing, so that what it holds is what its lanes run; between two       *)
(* counts the batch only shrinks, and a claim takes its job from there.    *)
(***************************************************************************)
Claimed(d) == {j \in Jobs : Holds(d, j)}

HoldsOnlyInBatch == \A d \in Pids : current[d] # 0 => pc[d] \in {"read", "elab", "inline"}

Fits(d) == Cardinality(Claimed(d)) + Cardinality(batch[d]) <= Lanes

\* All the sets of jobs there are, are finite.
LEMMA JobsFinite == \A S \in SUBSET Jobs : IsFiniteSet(S) /\ Cardinality(S) \in Nat
<1>1. IsFiniteSet(Jobs)
  BY JobsAssumption, FS_Interval DEF Jobs
<1> QED
  BY <1>1, FS_Subset, FS_CardinalityType

\* A process that holds no more than before, and has no more left to claim, still fits.
LEMMA FewerFits ==
  ASSUME TypeOK, NEW d \in Pids, Fits(d), Claimed(d)' \subseteq Claimed(d), batch'[d] \subseteq batch[d]
  PROVE  Fits(d)'
<1>1. Claimed(d) \in SUBSET Jobs /\ Claimed(d)' \in SUBSET Jobs
      /\ batch[d] \in SUBSET Jobs /\ batch'[d] \in SUBSET Jobs
  BY DEF Claimed, Jobs, TypeOK
<1>2. Cardinality(Claimed(d)') <= Cardinality(Claimed(d)) /\ Cardinality(batch'[d]) <= Cardinality(batch[d])
  BY <1>1, JobsFinite, FS_Subset
<1>3. /\ Cardinality(Claimed(d)) \in Nat /\ Cardinality(Claimed(d)') \in Nat
      /\ Cardinality(batch[d]) \in Nat /\ Cardinality(batch'[d]) \in Nat /\ Lanes \in Nat
  BY <1>1, JobsFinite, LanesAssumption
<1> QED
  BY <1>2, <1>3 DEF Fits

\* Only the scan refills a batch.
LEMMA BatchShrinks ==
  ASSUME TypeOK, NEW d \in Pids,
         \/ MainThread(d) \/ ElaborateRaises(d) \/ Crash(d) \/ PidReuse(d)
         \/ \E j \in Jobs : Lane(d, j) \/ LaneFault(d, j)
  PROVE  Scan(d) \/ \A e \in Pids : batch'[e] \subseteq batch[e]
<1>1. batch' = batch \/ Scan(d) \/ batch' = [batch EXCEPT ![d] = {}]
      \/ \E j \in Jobs : batch' = [batch EXCEPT ![d] = @ \ {j}]
  BY DEF TypeOK, MainThread, Lane, LaneFault, WritePidfile, CheckStop, TakeStop, LeaveIdle, Sleep,
         NextInBatch, SpoolClaim, SpoolRead, ElaborateReady, ElaborateNotReady, InlineDone, PoolShutdown,
         UnlinkPidfile, ElaborateRaises, Crash, Terminated, PidReuse, StampOpen, StampWrite, StampFails,
         RunJob, SimEnds, FinishOpen, FinishWrite, FinishUnlink, FinishFails
<1> QED
  BY <1>1 DEF TypeOK

\* The main thread has a job in hand only between the claim and the hand-over.
LEMMA HoldsStep ==
  ASSUME TypeOK, HoldsOnlyInBatch, NEW d \in Pids,
         \/ MainThread(d) \/ ElaborateRaises(d) \/ Crash(d) \/ PidReuse(d)
         \/ \E j \in Jobs : Lane(d, j) \/ LaneFault(d, j)
  PROVE  HoldsOnlyInBatch'
<1> USE DEF TypeOK, HoldsOnlyInBatch, Goto
<1>1. CASE WritePidfile(d) \/ CheckStop(d) \/ TakeStop(d) \/ Scan(d) \/ LeaveIdle(d) \/ Sleep(d)
           \/ NextInBatch(d) \/ PoolShutdown(d) \/ UnlinkPidfile(d) \/ PidReuse(d)
  BY <1>1 DEF WritePidfile, CheckStop, TakeStop, Scan, LeaveIdle, Sleep, NextInBatch, PoolShutdown,
              UnlinkPidfile, PidReuse
<1>2. CASE SpoolClaim(d)
  BY <1>2 DEF SpoolClaim
<1>3. CASE SpoolRead(d)
  BY <1>3 DEF SpoolRead
<1>4. CASE ElaborateReady(d) \/ ElaborateNotReady(d) \/ InlineDone(d) \/ ElaborateRaises(d)
  BY <1>4 DEF ElaborateReady, ElaborateNotReady, InlineDone, ElaborateRaises
<1>5. CASE Crash(d)
  BY <1>5 DEF Crash, Terminated
<1>6. ASSUME NEW j \in Jobs, Lane(d, j) \/ StampFails(d, j) PROVE HoldsOnlyInBatch'
  BY <1>6 DEF Lane, StampOpen, StampWrite, StampFails, RunJob, SimEnds, FinishOpen, FinishWrite, FinishUnlink
<1>7. ASSUME NEW j \in Jobs, FinishFails(d, j) PROVE HoldsOnlyInBatch'
  BY <1>7 DEF FinishFails
<1> QED
  BY <1>1, <1>2, <1>3, <1>4, <1>5, <1>6, <1>7 DEF MainThread, LaneFault

\* The scan takes at most as many as lanes are free.
LEMMA ScanFits ==
  ASSUME TypeOK, HoldsOnlyInBatch, NEW d \in Pids, Fits(d), Scan(d)
  PROVE  Fits(d)'
<1>1. current[d] = 0 /\ current' = current /\ stage' = stage /\ batch'[d] = GlobPending(d)
  BY DEF Scan, Goto, HoldsOnlyInBatch, TypeOK
<1>2. Claimed(d)' = InFlight(d) /\ Claimed(d) = InFlight(d)
  BY <1>1 DEF Claimed, Holds, InFlight, Jobs
<1>3. InFlight(d) \in SUBSET Jobs /\ In(pending) \in SUBSET Jobs
  BY DEF InFlight, In
<1>4. Cardinality(InFlight(d)) \in Nat /\ Lanes \in Nat /\ Cardinality(batch[d]) \in Nat
  BY <1>3, JobsFinite, LanesAssumption DEF TypeOK
<1>5. Cardinality(InFlight(d)) <= Lanes
  BY <1>2, <1>4 DEF Fits
<1>6. CASE Lanes - Cardinality(InFlight(d)) > 0
  <2> DEFINE free == Lanes - Cardinality(InFlight(d))
  <2>1. free \in Nat /\ GlobPending(d) = Oldest(In(pending), free)
    BY <1>4, <1>6 DEF GlobPending
  <2>2. Oldest(In(pending), free) \in SUBSET Jobs
    BY <1>3 DEF Oldest
  <2>3. Cardinality(Oldest(In(pending), free)) <= free
    BY <1>3, <2>1, OldestBound, JobsAssumption DEF Jobs
  <2>4. Cardinality(Oldest(In(pending), free)) \in Nat
    BY <2>2, JobsFinite
  <2>5. Cardinality(InFlight(d)) + Cardinality(Oldest(In(pending), free)) <= Lanes
    BY <1>4, <2>3, <2>4
  <2> QED
    BY <1>1, <1>2, <2>1, <2>5 DEF Fits
<1>7. CASE ~(Lanes - Cardinality(InFlight(d)) > 0)
  <2>1. batch'[d] = {}
    BY <1>1, <1>7 DEF GlobPending
  <2> QED
    BY <1>2, <1>4, <1>5, <2>1, FS_EmptySet DEF Fits
<1> QED
  BY <1>6, <1>7

\* The claim moves a job from the batch to the hand of the main thread.
LEMMA SpoolClaimFits ==
  ASSUME TypeOK, NEW d \in Pids, Fits(d), SpoolClaim(d)
  PROVE  Fits(d)'
<1>1. PICK j \in batch[d] : /\ batch' = [batch EXCEPT ![d] = @ \ {j}]
                            /\ current' = current \/ current' = [current EXCEPT ![d] = j]
                            /\ stage' = stage
  BY DEF SpoolClaim
<1>2. batch'[d] = batch[d] \ {j} /\ Claimed(d)' \subseteq Claimed(d) \cup {j}
  <2>1. batch'[d] = batch[d] \ {j} /\ current'[d] \in {current[d], j}
    BY <1>1 DEF TypeOK
  <2> QED
    BY <1>1, <2>1 DEF Claimed, Holds
<1>3. Claimed(d) \in SUBSET Jobs /\ Claimed(d)' \in SUBSET Jobs /\ batch[d] \in SUBSET Jobs /\ j \in Jobs
  BY DEF Claimed, Jobs, TypeOK
<1>4. /\ IsFiniteSet(Claimed(d)) /\ IsFiniteSet(batch[d])
      /\ Cardinality(Claimed(d)) \in Nat /\ Cardinality(Claimed(d)') \in Nat
      /\ Cardinality(batch[d]) \in Nat /\ Lanes \in Nat
  BY <1>3, JobsFinite, LanesAssumption
<1>5. Cardinality(batch'[d]) = Cardinality(batch[d]) - 1
  BY <1>2, <1>4, FS_RemoveElement
<1>6. IsFiniteSet(Claimed(d) \cup {j}) /\ Cardinality(Claimed(d) \cup {j}) <= Cardinality(Claimed(d)) + 1
  <2>1. /\ IsFiniteSet(Claimed(d) \cup {j})
        /\ Cardinality(Claimed(d) \cup {j}) =
             IF j \in Claimed(d) THEN Cardinality(Claimed(d)) ELSE Cardinality(Claimed(d)) + 1
    BY <1>4, FS_AddElement
  <2> QED
    BY <1>4, <2>1
<1>7. Cardinality(Claimed(d)') <= Cardinality(Claimed(d) \cup {j})
  BY <1>2, <1>6, FS_Subset
<1>8. Cardinality(Claimed(d) \cup {j}) \in Nat
  BY <1>6, FS_CardinalityType
<1> QED
  BY <1>4, <1>5, <1>6, <1>7, <1>8 DEF Fits

\* The other steps add no claim to a process, and none to another process at all.
LEMMA ClaimedStep ==
  ASSUME TypeOK, NEW d \in Pids,
         Calm \/ SpoolClaim(d) \/ ElaborateReady(d) \/ ElaborateNotReady(d) \/ \E j \in Jobs : RunJob(d, j)
  PROVE  \A e \in Pids : (e = d /\ SpoolClaim(d)) \/ Claimed(e)' \subseteq Claimed(e)
<1> USE DEF TypeOK, Claimed, Holds, Jobs
<1>1. CASE Calm
  BY <1>1 DEF Calm
<1>2. CASE SpoolClaim(d)
  <2>1. stage' = stage /\ \A e \in Pids : e # d => current'[e] = current[e]
    BY <1>2 DEF SpoolClaim
  <2> QED
    BY <1>2, <2>1
<1>3. CASE ElaborateReady(d)
  BY <1>3 DEF ElaborateReady
<1>4. CASE ElaborateNotReady(d)
  BY <1>4 DEF ElaborateNotReady
<1>5. ASSUME NEW j \in Jobs, RunJob(d, j) PROVE \A e \in Pids : Claimed(e)' \subseteq Claimed(e)
  BY <1>5 DEF RunJob, Advance
<1> QED
  BY <1>1, <1>2, <1>3, <1>4, <1>5

\* Every step keeps the claims within the lanes.
LEMMA LanesStep ==
  TypeOK /\ HoldsOnlyInBatch /\ ClaimsFitLanes /\ [Next]_vars => HoldsOnlyInBatch' /\ ClaimsFitLanes'
<1> SUFFICES ASSUME TypeOK, HoldsOnlyInBatch, ClaimsFitLanes, [Next]_vars
             PROVE  HoldsOnlyInBatch' /\ ClaimsFitLanes'
  OBVIOUS
<1>1. \A e \in Pids : Fits(e)
  BY DEF ClaimsFitLanes, Fits, Claimed
<1>2. ASSUME \A e \in Pids : Fits(e)' PROVE ClaimsFitLanes'
  BY <1>2 DEF ClaimsFitLanes, Fits, Claimed
<1>3. CASE DaemonNext /\ UNCHANGED clientVars
  <2>1. PICK d \in Pids : \/ MainThread(d) \/ ElaborateRaises(d) \/ Crash(d) \/ PidReuse(d)
                          \/ \E j \in Jobs : Lane(d, j) \/ LaneFault(d, j)
    BY <1>3 DEF DaemonNext
  <2>2. HoldsOnlyInBatch'
    BY <2>1, HoldsStep
  <2>3. \A e \in Pids : (e = d /\ SpoolClaim(d)) \/ Claimed(e)' \subseteq Claimed(e)
    BY <2>1, DaemonCalm, ClaimedStep
  <2>4. \A e \in Pids : (e = d /\ Scan(d)) \/ batch'[e] \subseteq batch[e]
    BY <2>1, BatchShrinks DEF Scan, TypeOK
  <2>5. ASSUME NEW e \in Pids PROVE Fits(e)'
    <3>1. CASE e = d /\ SpoolClaim(d)
      BY <1>1, <3>1, SpoolClaimFits
    <3>2. CASE e = d /\ Scan(d)
      BY <1>1, <3>2, ScanFits
    <3>3. CASE Claimed(e)' \subseteq Claimed(e) /\ batch'[e] \subseteq batch[e]
      BY <1>1, <3>3, FewerFits
    <3> QED
      BY <2>3, <2>4, <3>1, <3>2, <3>3
  <2> QED
    BY <1>2, <2>2, <2>5
<1>4. ASSUME NEW c \in Clients, Client(c) PROVE HoldsOnlyInBatch' /\ ClaimsFitLanes'
  <2>1. Calm
    BY <1>4, ClientCalm
  <2>2. /\ \A e \in Pids : batch'[e] \subseteq batch[e]
        /\ \A e \in Pids : current'[e] = 0 \/ (current'[e] = current[e] /\ pc'[e] = pc[e])
                           \/ (current'[e] = current[e] /\ pc[e] = "off")
    <3>1. CASE DaemonSpawn(c) \/ DaemonForeground(c)
      BY <3>1 DEF DaemonSpawn, DaemonForeground, Goto, TypeOK
    <3>2. CASE StopKill(c)
      BY <3>2 DEF StopKill, Step, Terminated, TypeOK
    <3>3. CASE UNCHANGED daemonVars
      BY <3>3 DEF daemonVars
    <3> QED
      BY <1>4, <3>1, <3>2, <3>3
      DEF Client, daemonVars, SpoolStamp, SpoolPublish, AddStart, DaemonStart, DaemonWait, StopProbe,
          StopTouch, StopUnpid, DropList, ClearProbe, ClearLive, ClearLogs, ClearOrphans, UnlinkOne,
          UnlinkDone, StatusOrphans, Requeue
  <2>3. HoldsOnlyInBatch'
    BY <2>2 DEF HoldsOnlyInBatch
  <2>4. \A e \in Pids : Claimed(e)' \subseteq Claimed(e)
    BY <2>1 DEF Calm, Claimed, Holds, Jobs
  <2>5. \A e \in Pids : Fits(e)'
    BY <1>1, <2>2, <2>4, FewerFits
  <2> QED
    BY <1>2, <2>3, <2>5
<1>5. CASE UNCHANGED vars
  BY <1>5 DEF vars, daemonVars, HoldsOnlyInBatch, ClaimsFitLanes, Holds
<1> QED
  BY <1>3, <1>4, <1>5 DEF Next

\* However many daemons share the spool, none ever holds and is about to claim more jobs than it has
\* lanes: what waits, waits in pending/, where drain, cancel and stop reach it.
THEOREM FitsLanes == Spec => []ClaimsFitLanes
<1>1. SimqInit => HoldsOnlyInBatch /\ ClaimsFitLanes
  <2> SUFFICES ASSUME SimqInit PROVE HoldsOnlyInBatch /\ ClaimsFitLanes
    OBVIOUS
  <2>1. HoldsOnlyInBatch
    BY DEF SimqInit, Init, HoldsOnlyInBatch
  <2>2. \A d \in Pids : {j \in Jobs : Holds(d, j)} = {} /\ batch[d] = {}
    BY DEF SimqInit, Init, Holds, Jobs
  <2>3. ClaimsFitLanes
    BY <2>2, FS_EmptySet, LanesAssumption DEF ClaimsFitLanes
  <2> QED
    BY <2>1, <2>3
<1>2. TypeOK /\ HoldsOnlyInBatch /\ ClaimsFitLanes /\ [Next]_vars => HoldsOnlyInBatch' /\ ClaimsFitLanes'
  BY LanesStep
<1> QED
  BY <1>1, <1>2, TypeCorrect, PTL DEF Spec

-----------------------------------------------------------------------------
(***************************************************************************)
(* Verdicts.  A job that has one is settled: it is not in pending/ and     *)
(* never will be, and whoever still has it in hand is about to unlink the  *)
(* claim and writes nothing more.                                          *)
(***************************************************************************)
Settled(j) ==
  /\ ~Unclaimed(j)
  /\ \A d \in Pids : stage[d][j] \in {"idle", "unlink"} /\ (current[d] = j => pc[d] = "inline")

VerdictInv == \A j \in Jobs : done[j] \in Verdicts => Settled(j)

\* The threads of a daemon leave a settled job alone.
LEMMA DaemonSettled ==
  ASSUME TypeOK, NEW j \in Jobs, Settled(j), NEW d \in Pids,
         \/ MainThread(d) \/ ElaborateRaises(d) \/ Crash(d) \/ PidReuse(d)
         \/ \E k \in Jobs : Lane(d, k) \/ LaneFault(d, k)
  PROVE  \A e \in Pids : stage'[e][j] \in {"idle", "unlink"} /\ (current'[e] = j => pc'[e] = "inline")
<1> DEFINE Goal == \A e \in Pids : stage'[e][j] \in {"idle", "unlink"} /\ (current'[e] = j => pc'[e] = "inline")
<1> USE DEF TypeOK, Settled, Goto, Jobs
<1>1. CASE WritePidfile(d) \/ CheckStop(d) \/ TakeStop(d) \/ Scan(d) \/ LeaveIdle(d) \/ Sleep(d)
           \/ NextInBatch(d) \/ PoolShutdown(d) \/ UnlinkPidfile(d) \/ PidReuse(d)
  BY <1>1 DEF WritePidfile, CheckStop, TakeStop, Scan, LeaveIdle, Sleep, NextInBatch, PoolShutdown,
              UnlinkPidfile, PidReuse
<1>2. CASE SpoolClaim(d)
  <2>1. pending[j] = "absent"
    BY DEF Unclaimed
  <2>2. stage' = stage /\ pc[d] = "claim" /\ \A e \in Pids : e # d => pc'[e] = pc[e] /\ current'[e] = current[e]
    BY <1>2 DEF SpoolClaim
  <2>3. current'[d] = j => current[d] = j
    BY <1>2, <2>1 DEF SpoolClaim
  <2> QED
    BY <2>2, <2>3
<1>3. CASE SpoolRead(d)
  BY <1>3 DEF SpoolRead
<1>4. CASE ElaborateReady(d) \/ ElaborateNotReady(d)
  <2>1. pc[d] = "elab" /\ current[d] # j
    BY <1>4 DEF ElaborateReady, ElaborateNotReady
  <2>2. \A e \in Pids : stage'[e][j] = stage[e][j]
    <3>1. \E to \in Stages : stage' = [stage EXCEPT ![d][current[d]] = to]
      BY <1>4 DEF ElaborateReady, ElaborateNotReady, Stages
    <3> QED
      BY <2>1, <3>1
  <2>3. \A e \in Pids : current'[e] = j => e # d /\ current[e] = j /\ pc'[e] = pc[e]
    BY <1>4, <2>1 DEF ElaborateReady, ElaborateNotReady
  <2> QED
    BY <2>2, <2>3
<1>5. CASE InlineDone(d) \/ ElaborateRaises(d)
  BY <1>5 DEF InlineDone, ElaborateRaises
<1>6. CASE Crash(d)
  BY <1>6 DEF Crash, Terminated
<1>7. ASSUME NEW k \in Jobs, Lane(d, k) \/ StampFails(d, k) PROVE Goal
  <2>1. UNCHANGED <<pc, current>>
    BY <1>7 DEF Lane, StampOpen, StampWrite, StampFails, RunJob, SimEnds, FinishOpen, FinishWrite, FinishUnlink
  <2>2. \E from \in Stages \ {"idle"}, to \in Stages :
           Advance(d, k, from, to) /\ (from = "unlink" => to = "idle")
    BY <1>7 DEF Lane, StampOpen, StampWrite, StampFails, RunJob, SimEnds, FinishOpen, FinishWrite, FinishUnlink,
                Stages
  <2> QED
    BY <2>1, <2>2 DEF Advance
<1>8. ASSUME NEW k \in Jobs, FinishFails(d, k) PROVE Goal
  <2>1. stage' = [stage EXCEPT ![d][k] = "idle"]
    BY <1>8 DEF FinishFails, Advance
  <2>2. \A e \in Pids : current'[e] = j => current[e] = j /\ pc'[e] = pc[e]
    BY <1>8 DEF FinishFails
  <2> QED
    BY <2>1, <2>2
<1> QED
  BY <1>1, <1>2, <1>3, <1>4, <1>5, <1>6, <1>7, <1>8 DEF MainThread, LaneFault

\* So do the commands, stop --now included.
LEMMA ClientSettled ==
  ASSUME TypeOK, NEW j \in Jobs, Settled(j), NEW c \in Clients, Client(c)
  PROVE  \A e \in Pids : stage'[e][j] \in {"idle", "unlink"} /\ (current'[e] = j => pc'[e] = "inline")
<1> USE DEF TypeOK, Settled
<1>1. CASE DaemonSpawn(c) \/ DaemonForeground(c)
  BY <1>1 DEF DaemonSpawn, DaemonForeground, Goto
<1>2. CASE StopKill(c)
  <2>1. CASE Terminated(cpid[c])
    <3>1. cpid[c] \in Pids
      BY <1>2 DEF StopKill, Step
    <3>2. /\ \A e \in Pids : e # cpid[c] => stage'[e] = stage[e] /\ current'[e] = current[e] /\ pc'[e] = pc[e]
          /\ current'[cpid[c]] = 0 /\ stage'[cpid[c]] = [k \in Jobs |-> "idle"]
      BY <2>1, <3>1 DEF Terminated
    <3>3. stage'[cpid[c]][j] = "idle" /\ current'[cpid[c]] # j
      BY <3>2 DEF Jobs
    <3> QED
      BY ONLY <3>1, <3>2, <3>3, Settled(j) DEF Settled
  <2>2. CASE UNCHANGED <<pc, batch, current, stage>>
    BY <2>2
  <2> QED
    BY <1>2, <2>1, <2>2 DEF StopKill
<1>3. CASE UNCHANGED daemonVars
  BY <1>3 DEF daemonVars
<1> QED
  BY <1>1, <1>2, <1>3
  DEF Client, daemonVars, SpoolStamp, SpoolPublish, AddStart, DaemonStart, DaemonWait, StopProbe, StopTouch,
      StopUnpid, DropList, ClearProbe, ClearLive, ClearLogs, ClearOrphans, UnlinkOne, UnlinkDone,
      StatusOrphans, Requeue

\* What a daemon writes to done/: a verdict, of a job that it holds and is then done with; or a record
\* of a job that is not settled.
LEMMA DaemonDone ==
  ASSUME TypeOK, NEW j \in Jobs, NEW d \in Pids,
         \/ MainThread(d) \/ ElaborateRaises(d) \/ Crash(d) \/ PidReuse(d)
         \/ \E k \in Jobs : Lane(d, k) \/ LaneFault(d, k)
  PROVE  \/ done'[j] = done[j]
         \/ ~Settled(j) /\ (done'[j] \in Verdicts => FinishWrite(d, j))
<1> USE DEF TypeOK, Settled, Goto
<1>1. CASE SpoolRead(d)
  <2>1. CASE running[current[d]] = "torn"
    <3>1. pc[d] = "read" /\ done' = [done EXCEPT ![current[d]] = "torn"]
      BY <1>1, <2>1 DEF SpoolRead
    <3>2. "torn" \notin Verdicts
      BY DEF Verdicts, RunVerdicts
    <3> QED
      BY <3>1, <3>2
  <2>2. CASE running[current[d]] # "torn"
    BY <1>1, <2>2 DEF SpoolRead
  <2> QED
    BY <2>1, <2>2
<1>2. ASSUME NEW k \in Jobs, FinishOpen(d, k)
      PROVE  done'[j] = done[j] \/ (~Settled(j) /\ done'[j] \notin Verdicts)
  BY <1>2 DEF FinishOpen, Advance, Verdicts, RunVerdicts
<1>3. ASSUME NEW k \in Jobs, FinishWrite(d, k)
      PROVE  done'[j] = done[j] \/ (~Settled(j) /\ FinishWrite(d, j))
  <2>1. CASE k = j
    <3>1. stage[d][j] = "writing"
      BY <1>3, <2>1 DEF FinishWrite, Advance
    <3> QED
      BY <1>3, <2>1, <3>1
  <2>2. CASE k # j
    BY <1>3, <2>2 DEF FinishWrite
  <2> QED
    BY <2>1, <2>2
<1>4. CASE done' = done
  BY <1>4
<1> QED
  BY <1>1, <1>2, <1>3, <1>4
  DEF spoolVars, MainThread, Lane, LaneFault, WritePidfile, CheckStop, TakeStop, Scan, LeaveIdle, Sleep,
      NextInBatch, SpoolClaim, ElaborateReady, ElaborateNotReady, InlineDone, PoolShutdown, UnlinkPidfile,
      ElaborateRaises, Crash, PidReuse, StampOpen, StampWrite, StampFails, RunJob, SimEnds, FinishUnlink,
      FinishFails

\* The commands only unlink there.
LEMMA ClientDone ==
  ASSUME TypeOK, NEW j \in Jobs, NEW c \in Clients, Client(c)
  PROVE  done'[j] \in {done[j], "absent"}
<1>1. CASE UnlinkOne(c)
  BY <1>1 DEF UnlinkOne, Without
<1>2. CASE done' = done
  BY <1>2
<1> QED
  BY <1>1, <1>2
  DEF Client, spoolVars, SpoolStamp, SpoolPublish, AddStart, DaemonStart, DaemonSpawn, DaemonForeground,
      DaemonWait, StopProbe, StopTouch, StopKill, StopUnpid, DropList, ClearProbe, ClearLive, ClearLogs,
      ClearOrphans, UnlinkDone, StatusOrphans, Requeue

\* The lane that writes the verdict is the only one that holds the job, and unlinks next.
LEMMA WrittenSettled ==
  ASSUME TypeOK, ClaimInv, NEW j \in Jobs, NEW d \in Pids, FinishWrite(d, j), Unclaimed(j)' => Unclaimed(j)
  PROVE  Settled(j)'
<1>1. /\ stage[d][j] = "writing" /\ stage' = [stage EXCEPT ![d][j] = "unlink"]
      /\ UNCHANGED <<pc, current>>
  BY DEF FinishWrite, Advance
<1>2. Holds(d, j) /\ \A e \in Pids : Holds(e, j) => e = d
  BY <1>1 DEF Holds, ClaimInv, ExclusiveClaim
<1>3. ~Unclaimed(j)
  BY <1>2 DEF ClaimInv, UnclaimedInv
<1>4. \A e \in Pids : e # d => stage[e][j] = "idle" /\ current[e] # j
  BY <1>2 DEF Holds
<1>5. current[d] = j => pc[d] = "inline"
  BY <1>1 DEF ClaimInv, ExclusiveClaim
<1>6. stage'[d][j] = "unlink" /\ \A e \in Pids : e # d => stage'[e] = stage[e]
  BY <1>1 DEF TypeOK
<1> QED
  BY <1>1, <1>3, <1>4, <1>5, <1>6 DEF Settled

\* A step keeps what is settled so, writes a verdict only where the job is settled then, and changes
\* the record of a settled job only by unlinking it.
LEMMA VerdictStep ==
  ASSUME TypeOK, PublishInv, ClaimInv, VerdictInv, "requeue" \notin Commands, Next
  PROVE  /\ VerdictInv'
         /\ \A j \in Jobs : done[j] \in Verdicts => done'[j] \in {done[j], "absent"}
<1> SUFFICES ASSUME NEW j \in Jobs
             PROVE  /\ done'[j] \in Verdicts => Settled(j)'
                    /\ done[j] \in Verdicts => done'[j] \in {done[j], "absent"}
  BY DEF VerdictInv
<1>1. Unclaimed(j)' => Unclaimed(j)
  BY PublishStep
<1>2. "absent" \notin Verdicts
  BY DEF Verdicts, RunVerdicts
<1>3. CASE DaemonNext /\ UNCHANGED clientVars
  <2>1. PICK d \in Pids : \/ MainThread(d) \/ ElaborateRaises(d) \/ Crash(d) \/ PidReuse(d)
                          \/ \E k \in Jobs : Lane(d, k) \/ LaneFault(d, k)
    BY <1>3 DEF DaemonNext
  <2>2. Settled(j) => Settled(j)'
    BY <1>1, <2>1, DaemonSettled DEF Settled
  <2>3. \/ done'[j] = done[j]
        \/ ~Settled(j) /\ (done'[j] \in Verdicts => FinishWrite(d, j))
    BY <2>1, DaemonDone
  <2>4. FinishWrite(d, j) => Settled(j)'
    BY <1>1, WrittenSettled
  <2> QED
    BY <2>2, <2>3, <2>4 DEF VerdictInv
<1>4. ASSUME NEW c \in Clients, Client(c)
      PROVE  /\ done'[j] \in Verdicts => Settled(j)'
             /\ done[j] \in Verdicts => done'[j] \in {done[j], "absent"}
  <2>1. done'[j] \in {done[j], "absent"}
    BY <1>4, ClientDone
  <2>2. Settled(j) => Settled(j)'
    BY <1>1, <1>4, ClientSettled DEF Settled
  <2> QED
    BY <1>2, <2>1, <2>2 DEF VerdictInv
<1> QED
  BY <1>3, <1>4 DEF Next

\* As long as nobody moves a claim back by hand, a verdict is never overwritten, by no daemon, and
\* goes only when somebody clears it.
THEOREM VerdictStays ==
  ASSUME "requeue" \notin Commands
  PROVE  Spec => VerdictFinal
<1>1. SimqInit => VerdictInv
  BY DEF SimqInit, Init, VerdictInv, Verdicts, RunVerdicts
<1>2. TypeOK /\ PublishInv /\ ClaimInv /\ VerdictInv /\ [Next]_vars => VerdictInv'
  <2> SUFFICES ASSUME TypeOK, PublishInv, ClaimInv, VerdictInv, [Next]_vars PROVE VerdictInv'
    OBVIOUS
  <2>1. CASE Next
    BY <2>1, VerdictStep
  <2>2. CASE UNCHANGED vars
    BY <2>2 DEF vars, spoolVars, daemonVars, clientVars, VerdictInv, Settled, Unclaimed, Publishing
  <2> QED
    BY <2>1, <2>2
<1>3. TypeOK /\ PublishInv /\ ClaimInv /\ VerdictInv /\ [Next]_vars
        => [\A j \in Jobs : done[j] \in Verdicts => done'[j] \in {done[j], "absent"}]_vars
  BY VerdictStep
<1> QED
  BY <1>1, <1>2, <1>3, TypeCorrect, ClaimsInvariant, PTL DEF Spec, VerdictFinal

-----------------------------------------------------------------------------
(***************************************************************************)
(* The refinement.  Kept: no command clears or requeues.                   *)
(***************************************************************************)
Kept == Commands \cap {"requeue", "clear", "clear-logs", "clear-all"} = {}

-----------------------------------------------------------------------------
(***************************************************************************)
(* The records.  Without clear, a command only ever unlinks in pending/,   *)
(* and a publisher has one file.                                           *)
(***************************************************************************)
PathInv ==
  /\ \A c \in Clients : files[c] \subseteq {"pending"} \X Jobs
  /\ \A c \in Clients : cpc[c] \notin {"live", "live-all", "logs", "logs-all", "orphans", "mv"}
  /\ \A c \in Clients, j, k \in Jobs : Publishing(c, j) /\ Publishing(c, k) => j = k

\* A record is whole in pending/ and nowhere else yet; a claim has its record until the verdict is on
\* disk, and the verdict is written between the two ends of spool_finish.
FileInv ==
  /\ \A j \in Jobs : pending[j] # "torn"
  /\ \A j \in Jobs : Unclaimed(j) => running[j] = "absent" /\ done[j] = "absent"
  /\ \A d \in Pids : pc[d] = "read" => current[d] \in Jobs /\ running[current[d]] = "ok"
  /\ \A d \in Pids, j \in Jobs :
       /\ Holds(d, j) => running[j] # "absent" \/ done[j] \in Verdicts
       /\ stage[d][j] = "writing" => done[j] = "torn"
       /\ stage[d][j] = "unlink" => done[j] \in Verdicts

\* All that is known of a state.
QueueInv ==
  /\ TypeOK /\ PublishInv /\ ClaimInv
  /\ VerdictInv
  /\ HoldsOnlyInBatch /\ ClaimsFitLanes
  /\ PathInv /\ FileInv

\* Every command that is not among those left out keeps to pending/.
LEMMA PathStep ==
  ASSUME TypeOK, PathInv, Kept, NEW c \in Clients, Client(c)
  PROVE  PathInv'
<1> USE DEF TypeOK, PathInv, Publishing, Step, Type, Kept
<1>1. CASE SpoolStamp(c)
  <2>1. /\ files' = [files EXCEPT ![c] = {<<"pending", nextId>>}] /\ nextId \in Jobs
        /\ cpc' = [cpc EXCEPT ![c] = "publish"]
    BY <1>1 DEF SpoolStamp
  <2> QED
    BY <2>1
<1>2. CASE SpoolPublish(c)
  BY <1>2 DEF SpoolPublish
<1>3. CASE DropList(c)
  <2>1. /\ cpc' = [cpc EXCEPT ![c] = "unlink"]
        /\ \E S \in SUBSET Jobs : files' = [files EXCEPT ![c] = {"pending"} \X S]
    BY <1>3 DEF DropList, FilesIn, In
  <2> QED
    BY <2>1
<1>4. CASE UnlinkOne(c)
  BY <1>4 DEF UnlinkOne
<1>5. CASE AddStart(c) \/ DaemonStart(c) \/ DaemonSpawn(c) \/ DaemonWait(c) \/ DaemonForeground(c)
  BY <1>5 DEF AddStart, DaemonStart, DaemonSpawn, DaemonWait, DaemonForeground
<1>6. CASE StopProbe(c) \/ StopTouch(c) \/ StopKill(c) \/ StopUnpid(c) \/ UnlinkDone(c)
  BY <1>6 DEF StopProbe, StopTouch, StopKill, StopUnpid, UnlinkDone
<1>7. CASE ClearProbe(c) \/ ClearLive(c) \/ ClearLogs(c) \/ ClearOrphans(c) \/ StatusOrphans(c) \/ Requeue(c)
  BY <1>7 DEF ClearProbe, ClearLive, ClearLogs, ClearOrphans, StatusOrphans, Requeue
<1> QED
  BY <1>1, <1>2, <1>3, <1>4, <1>5, <1>6, <1>7 DEF Client

\* A step that writes no claim and no verdict, and takes up none.
Still ==
  /\ UNCHANGED <<running, done>>
  /\ \A j \in Jobs : pending'[j] # "torn"
  /\ \A d \in Pids :
       /\ pc'[d] = "read" => pc[d] = "read" /\ current'[d] = current[d]
       /\ \A j \in Jobs : /\ Holds(d, j)' => Holds(d, j)
                          /\ stage'[d][j] \in {"writing", "unlink"} => stage'[d][j] = stage[d][j]

\* Such a step keeps the records.
LEMMA StillFiles ==
  ASSUME FileInv, Still, \A j \in Jobs : Unclaimed(j)' => Unclaimed(j)
  PROVE  FileInv'
BY DEF FileInv, Still

\* The commands leave the claims and the verdicts alone.
LEMMA ClientStill ==
  ASSUME TypeOK, PathInv, FileInv, Kept, NEW c \in Clients, Client(c)
  PROVE  Still
<1> USE DEF TypeOK, Still, FileInv, spoolVars, daemonVars
<1>1. CASE SpoolPublish(c)
  BY <1>1 DEF SpoolPublish, Holds
<1>2. CASE UnlinkOne(c)
  <2>1. PICK f \in files[c] : /\ pending' = Without(pending, "pending", f)
                              /\ running' = Without(running, "running", f)
                              /\ done' = Without(done, "done", f)
    BY <1>2 DEF UnlinkOne
  <2>2. f[1] = "pending"
    BY <2>1 DEF PathInv
  <2>3. \A j \in Jobs : f # <<"running", j>> /\ f # <<"done", j>>
    BY <2>2
  <2>4. UNCHANGED <<running, done>>
    BY <2>1, <2>3 DEF Without
  <2>5. \A j \in Jobs : pending'[j] # "torn"
    BY <2>1 DEF Without
  <2> QED
    BY <1>2, <2>4, <2>5 DEF UnlinkOne, Holds
<1>3. CASE DaemonSpawn(c) \/ DaemonForeground(c)
  BY <1>3 DEF DaemonSpawn, DaemonForeground, Goto, Holds
<1>4. CASE StopKill(c)
  <2>1. cpid[c] \in Pids
    BY <1>4 DEF StopKill, Step
  <2>2. CASE Terminated(cpid[c])
    BY <1>4, <2>1, <2>2 DEF StopKill, Terminated, Holds, Jobs
  <2>3. CASE UNCHANGED <<pc, batch, current, stage>>
    BY <1>4, <2>3 DEF StopKill, Holds
  <2> QED
    BY <1>4, <2>2, <2>3 DEF StopKill
<1>5. CASE ClearProbe(c) \/ ClearLive(c) \/ ClearLogs(c) \/ ClearOrphans(c) \/ StatusOrphans(c) \/ Requeue(c)
  BY <1>5 DEF ClearProbe, ClearLive, ClearLogs, ClearOrphans, StatusOrphans, Requeue, Holds, PathInv, Kept, Step,
              Type
<1>6. CASE UNCHANGED <<pending, running, done, daemonVars>>
  BY <1>6 DEF Holds
<1> QED
  BY <1>1, <1>2, <1>3, <1>4, <1>5, <1>6
  DEF Client, SpoolStamp, AddStart, DaemonStart, DaemonWait, StopProbe, StopTouch, StopUnpid, DropList, UnlinkDone

-----------------------------------------------------------------------------
(***************************************************************************)
(* The daemons and the records.                                            *)
(***************************************************************************)
\* The steps of the main thread that are not the claim.
LEMMA MainStill ==
  ASSUME TypeOK, FileInv, NEW d \in Pids,
         \/ WritePidfile(d) \/ CheckStop(d) \/ TakeStop(d) \/ Scan(d) \/ LeaveIdle(d) \/ Sleep(d)
         \/ NextInBatch(d) \/ SpoolRead(d) \/ ElaborateReady(d) \/ ElaborateNotReady(d) \/ InlineDone(d)
         \/ PoolShutdown(d) \/ UnlinkPidfile(d) \/ ElaborateRaises(d) \/ Crash(d) \/ PidReuse(d)
  PROVE  Still /\ pending' = pending
<1> USE DEF TypeOK, Still, FileInv, spoolVars, Goto, Holds, Jobs
<1>1. CASE WritePidfile(d) \/ CheckStop(d) \/ TakeStop(d) \/ Scan(d) \/ LeaveIdle(d) \/ Sleep(d)
           \/ NextInBatch(d) \/ PoolShutdown(d) \/ UnlinkPidfile(d) \/ PidReuse(d)
  BY <1>1 DEF WritePidfile, CheckStop, TakeStop, Scan, LeaveIdle, Sleep, NextInBatch, PoolShutdown,
              UnlinkPidfile, PidReuse
<1>2. CASE SpoolRead(d)
  BY <1>2 DEF SpoolRead
<1>3. CASE ElaborateReady(d)
  BY <1>3 DEF ElaborateReady
<1>4. CASE ElaborateNotReady(d)
  BY <1>4 DEF ElaborateNotReady
<1>5. CASE InlineDone(d)
  BY <1>5 DEF InlineDone
<1>6. CASE ElaborateRaises(d)
  BY <1>6 DEF ElaborateRaises
<1>7. CASE Crash(d)
  BY <1>7 DEF Crash, Terminated
<1> QED
  BY <1>1, <1>2, <1>3, <1>4, <1>5, <1>6, <1>7

\* The steps of a lane that touch no file another step of the queue depends on.
LEMMA LaneStill ==
  ASSUME TypeOK, FileInv, NEW d \in Pids, NEW j \in Jobs,
         RunJob(d, j) \/ SimEnds(d, j) \/ StampFails(d, j) \/ FinishFails(d, j)
  PROVE  Still /\ pending' = pending
<1> USE DEF TypeOK, Still, FileInv, spoolVars, Holds, Jobs, Advance
<1>1. CASE RunJob(d, j) \/ SimEnds(d, j) \/ StampFails(d, j)
  <2>1. /\ UNCHANGED <<pending, running, done, pc, current>>
        /\ \E to \in {"sim", "finish", "run"} : stage' = [stage EXCEPT ![d][j] = to]
        /\ stage[d][j] # "idle"
    BY <1>1 DEF RunJob, SimEnds, StampFails
  <2> QED
    BY <2>1
<1>2. CASE FinishFails(d, j)
  <2>1. stage' = [stage EXCEPT ![d][j] = "idle"] /\ UNCHANGED <<pending, running, done>>
    BY <1>2 DEF FinishFails
  <2>2. \A e \in Pids : /\ current'[e] \in {current[e], 0}
                        /\ pc'[e] = "read" => pc[e] = "read" /\ current'[e] = current[e]
    BY <1>2 DEF FinishFails
  <2> QED
    BY <2>1, <2>2
<1> QED
  BY <1>1, <1>2

\* The claim moves a whole record to running/, of a job that nobody held.
LEMMA ClaimFiles ==
  ASSUME TypeOK, PublishInv, FileInv, UNCHANGED clientVars, NEW d \in Pids, SpoolClaim(d),
         \A j \in Jobs : Unclaimed(j)' => Unclaimed(j)
  PROVE  FileInv'
<1>1. PICK j \in Jobs :
        \/ pending[j] = "absent" /\ pc'[d] = "loop" /\ UNCHANGED <<pending, running, current>>
        \/ /\ pending[j] # "absent" /\ pc'[d] = "read"
           /\ running' = [running EXCEPT ![j] = pending[j]]
           /\ pending' = [pending EXCEPT ![j] = "absent"]
           /\ current' = [current EXCEPT ![d] = j]
  BY DEF SpoolClaim, TypeOK, RenameSource, RenameTarget
<1>2. UNCHANGED <<done, stage>> /\ \A e \in Pids : e # d => pc'[e] = pc[e]
  BY DEF SpoolClaim, TypeOK
<1>3. CASE pending[j] = "absent" /\ pc'[d] = "loop" /\ UNCHANGED <<pending, running, current>>
  BY <1>2, <1>3 DEF FileInv, Holds
<1>4. CASE /\ pending[j] # "absent" /\ pc'[d] = "read"
           /\ running' = [running EXCEPT ![j] = pending[j]]
           /\ pending' = [pending EXCEPT ![j] = "absent"]
           /\ current' = [current EXCEPT ![d] = j]
  <2>1. pending[j] = "ok" /\ running[j] = "absent"
    BY <1>4 DEF FileInv, TypeOK, Records, Unclaimed
  <2>2. ~Unclaimed(j)'
    BY <1>4 DEF PublishInv, Publishing, Unclaimed, TypeOK, clientVars
  <2>3. running'[j] = "ok" /\ \A k \in Jobs : k # j => running'[k] = running[k] /\ pending'[k] = pending[k]
    BY <1>4, <2>1 DEF TypeOK
  <2>4. \A e \in Pids : e # d => current'[e] = current[e]
    BY <1>4 DEF TypeOK
  <2>5. current'[d] = j /\ pending'[j] = "absent"
    BY <1>4 DEF TypeOK
  <2>6. \A k \in Jobs : Unclaimed(k)' => running'[k] = "absent" /\ done'[k] = "absent"
    BY <1>2, <2>2, <2>3 DEF FileInv
  <2>7. ASSUME NEW e \in Pids, pc'[e] = "read" PROVE current'[e] \in Jobs /\ running'[current'[e]] = "ok"
    <3>1. CASE e = d
      BY <2>3, <2>5, <3>1
    <3>2. CASE e # d
      <4>1. current'[e] \in Jobs /\ running[current'[e]] = "ok"
        BY <1>2, <2>4, <2>7, <3>2 DEF FileInv
      <4> QED
        BY <2>1, <2>3, <4>1
    <3> QED
      BY <3>1, <3>2
  <2>8. ASSUME NEW e \in Pids, NEW k \in Jobs, Holds(e, k)'
        PROVE  running'[k] # "absent" \/ done'[k] \in Verdicts
    <3>1. CASE k = j
      BY <2>3, <3>1
    <3>2. CASE k # j
      <4>1. Holds(e, k)
        BY <1>2, <2>4, <2>5, <2>8, <3>2 DEF Holds
      <4> QED
        BY <1>2, <2>3, <3>2, <4>1 DEF FileInv
    <3> QED
      BY <3>1, <3>2
  <2> QED
    BY <1>2, <2>3, <2>5, <2>6, <2>7, <2>8 DEF FileInv
<1> QED
  BY <1>1, <1>3, <1>4

\* What a lane writes concerns the job that it alone holds, and takes the record of the claim away only
\* when the verdict is on disk.
LEMMA LaneFiles ==
  ASSUME TypeOK, ClaimInv, VerdictInv, FileInv, NEW d \in Pids, NEW j \in Jobs,
         StampOpen(d, j) \/ StampWrite(d, j) \/ FinishOpen(d, j) \/ FinishWrite(d, j) \/ FinishUnlink(d, j),
         \A k \in Jobs : Unclaimed(k)' => Unclaimed(k)
  PROVE  FileInv' /\ pending' = pending
<1> DEFINE to == stage'[d][j]
<1>1. /\ stage[d][j] # "idle" /\ stage' = [stage EXCEPT ![d][j] = to]
      /\ UNCHANGED <<pc, current>>
  BY DEF StampOpen, StampWrite, FinishOpen, FinishWrite, FinishUnlink, Advance, TypeOK
<1>2. Holds(d, j) /\ ~Unclaimed(j) /\ \A e \in Pids : Holds(e, j) => e = d
  BY <1>1 DEF Holds, ClaimInv, UnclaimedInv, ExclusiveClaim
<1>3. current[d] = j => pc[d] # "read"
  BY <1>1 DEF ClaimInv, ExclusiveClaim
<1>4. pending' = pending
  <2>1. pending[j] # "torn"
    BY DEF FileInv
  <2> QED
    BY <2>1 DEF StampOpen, StampWrite, FinishOpen, FinishWrite, FinishUnlink, TypeOK
<1>5. \A k \in Jobs : k # j => running'[k] = running[k] /\ done'[k] = done[k]
  BY DEF StampOpen, StampWrite, FinishOpen, FinishWrite, FinishUnlink, TypeOK
<1>6. /\ running'[j] # "absent" \/ done'[j] \in Verdicts
      /\ to = "writing" => done'[j] = "torn"
      /\ to = "unlink" => done'[j] \in Verdicts
  <2>1. running[j] # "absent" \/ done[j] \in Verdicts
    BY <1>2 DEF FileInv
  <2>2. stage[d][j] \in {"stamp", "stamping", "finish", "writing"} => done[j] \notin Verdicts
    BY DEF VerdictInv, Settled
  <2>3. CASE StampOpen(d, j)
    BY <2>3 DEF StampOpen, Advance, TypeOK
  <2>4. CASE StampWrite(d, j)
    BY <2>1, <2>2, <2>4 DEF StampWrite, Advance, TypeOK
  <2>5. CASE FinishOpen(d, j)
    BY <2>1, <2>2, <2>5 DEF FinishOpen, Advance, TypeOK
  <2>6. CASE FinishWrite(d, j)
    <3>1. done[j] = "torn"
      BY <2>6 DEF FinishWrite, Advance, FileInv
    <3>2. VerdictsOf(d, j) \subseteq Verdicts
      BY DEF VerdictsOf, Verdicts
    <3>3. done'[j] \in Verdicts /\ to = "unlink"
      BY <2>6, <3>1, <3>2 DEF FinishWrite, Advance, TypeOK
    <3> QED
      BY <3>3
  <2>7. CASE FinishUnlink(d, j)
    <3>1. done[j] \in Verdicts /\ done' = done
      BY <2>7 DEF FinishUnlink, Advance, FileInv
    <3>2. to = "idle"
      BY <2>7 DEF FinishUnlink, Advance, TypeOK
    <3> QED
      BY <3>1, <3>2
  <2> QED
    BY <2>3, <2>4, <2>5, <2>6, <2>7
<1> HIDE DEF to
<1>7. ASSUME NEW e \in Pids, NEW k \in Jobs
      PROVE  /\ Holds(e, k)' => running'[k] # "absent" \/ done'[k] \in Verdicts
             /\ stage'[e][k] = "writing" => done'[k] = "torn"
             /\ stage'[e][k] = "unlink" => done'[k] \in Verdicts
  <2>1. CASE k # j
    <3>1. stage'[e][k] = stage[e][k] /\ (Holds(e, k)' => Holds(e, k))
      BY <1>1, <2>1 DEF Holds, TypeOK
    <3> QED
      BY <1>5, <2>1, <3>1 DEF FileInv
  <2>2. CASE k = j /\ e = d
    <3>1. stage'[d][j] = to
      BY <1>1 DEF TypeOK
    <3> QED
      BY <1>1, <1>6, <2>2, <3>1 DEF Holds
  <2>3. CASE k = j /\ e # d
    <3>1. stage[e][j] = "idle" /\ current[e] # j
      BY <1>2, <2>3 DEF Holds
    <3>2. stage'[e][j] = "idle" /\ current'[e] # j
      BY <1>1, <2>3, <3>1 DEF TypeOK
    <3> QED
      BY <2>3, <3>2 DEF Holds
  <2> QED
    BY <2>1, <2>2, <2>3
<1>8. \A k \in Jobs : Unclaimed(k)' => running'[k] = "absent" /\ done'[k] = "absent"
  BY <1>2, <1>5 DEF FileInv
<1>9. ASSUME NEW e \in Pids, pc'[e] = "read" PROVE current'[e] \in Jobs /\ running'[current'[e]] = "ok"
  <2>1. current[e] # j
    BY <1>1, <1>2, <1>3, <1>9 DEF Holds
  <2> QED
    BY <1>1, <1>5, <1>9, <2>1 DEF FileInv
<1> QED
  BY <1>4, <1>7, <1>8, <1>9 DEF FileInv

\* Every step keeps the records.
LEMMA FileStep ==
  ASSUME QueueInv, Kept, Next
  PROVE  PathInv' /\ FileInv'
<1>1. "requeue" \notin Commands
  BY DEF Kept
<1>2. \A j \in Jobs : Unclaimed(j)' => Unclaimed(j)
  BY <1>1, PublishStep DEF QueueInv
<1>3. ASSUME NEW c \in Clients, Client(c) PROVE PathInv' /\ FileInv'
  BY <1>2, <1>3, PathStep, ClientStill, StillFiles DEF QueueInv
<1>4. CASE DaemonNext /\ UNCHANGED clientVars
  <2>1. PathInv'
    BY <1>4 DEF QueueInv, PathInv, Publishing, clientVars
  <2>2. PICK d \in Pids : \/ MainThread(d) \/ ElaborateRaises(d) \/ Crash(d) \/ PidReuse(d)
                          \/ \E j \in Jobs : Lane(d, j) \/ LaneFault(d, j)
    BY <1>4 DEF DaemonNext
  <2>3. CASE SpoolClaim(d)
    BY <1>2, <1>4, <2>1, <2>3, ClaimFiles DEF QueueInv
  <2>4. CASE (MainThread(d) /\ ~SpoolClaim(d)) \/ ElaborateRaises(d) \/ Crash(d) \/ PidReuse(d)
    BY <1>2, <2>1, <2>4, MainStill, StillFiles DEF QueueInv, MainThread
  <2>5. ASSUME NEW j \in Jobs, Lane(d, j) \/ LaneFault(d, j) PROVE PathInv' /\ FileInv'
    BY <1>2, <2>1, <2>5, LaneStill, StillFiles, LaneFiles DEF QueueInv, Lane, LaneFault
  <2> QED
    BY <2>2, <2>3, <2>4, <2>5
<1> QED
  BY <1>3, <1>4 DEF Next

\* Nothing to hold and nothing on disk at the beginning.
LEMMA QueueInit == SimqInit => PathInv /\ FileInv /\ VerdictInv /\ HoldsOnlyInBatch /\ ClaimsFitLanes
<1> SUFFICES ASSUME SimqInit
             PROVE  PathInv /\ FileInv /\ VerdictInv /\ HoldsOnlyInBatch /\ ClaimsFitLanes
  OBVIOUS
<1>1. PathInv /\ VerdictInv /\ HoldsOnlyInBatch
  BY DEF SimqInit, Init, PathInv, Publishing, VerdictInv, Verdicts, RunVerdicts, HoldsOnlyInBatch
<1>2. \A d \in Pids, j \in Jobs : ~Holds(d, j)
  BY DEF SimqInit, Init, Holds, Jobs
<1>3. FileInv
  BY <1>2 DEF SimqInit, Init, FileInv
<1>4. \A d \in Pids : {j \in Jobs : Holds(d, j)} = {} /\ batch[d] = {}
  BY <1>2 DEF SimqInit, Init
<1>5. ClaimsFitLanes
  BY <1>4, FS_EmptySet, LanesAssumption DEF ClaimsFitLanes
<1> QED
  BY <1>1, <1>3, <1>5

\* The invariant, of every reachable state.
LEMMA QueueAlways ==
  ASSUME Kept
  PROVE  Spec => []QueueInv
<1>1. "requeue" \notin Commands
  BY DEF Kept
<1> DEFINE Rest == PathInv /\ FileInv /\ VerdictInv /\ HoldsOnlyInBatch /\ ClaimsFitLanes
<1>2. SimqInit => Rest
  BY QueueInit
<1>3. TypeOK /\ PublishInv /\ ClaimInv /\ Rest /\ [Next]_vars => Rest'
  <2> SUFFICES ASSUME TypeOK, PublishInv, ClaimInv, Rest, [Next]_vars PROVE Rest'
    OBVIOUS
  <2>1. HoldsOnlyInBatch' /\ ClaimsFitLanes'
    BY LanesStep
  <2>2. CASE Next
    BY <1>1, <2>1, <2>2, VerdictStep, FileStep DEF QueueInv
  <2>3. CASE UNCHANGED vars
    <3> USE <2>3 DEF vars, spoolVars, daemonVars, clientVars
    <3>1. VerdictInv'
      BY DEF VerdictInv, Settled, Unclaimed, Publishing
    <3>2. PathInv' /\ FileInv'
      BY DEF PathInv, FileInv, Publishing, Unclaimed, Holds
    <3> QED
      BY <2>1, <3>1, <3>2
  <2> QED
    BY <2>2, <2>3
<1>4. Spec => [](PublishInv /\ ClaimInv)
  BY <1>1, ClaimsInvariant
<1>5. TypeOK /\ PublishInv /\ ClaimInv /\ Rest <=> QueueInv
  BY DEF QueueInv
<1> HIDE DEF Rest
<1> QED
  BY <1>2, <1>3, <1>4, <1>5, TypeCorrect, PTL DEF Spec

-----------------------------------------------------------------------------
(***************************************************************************)
(* The abstract state.                                                     *)
(***************************************************************************)
\* What of a job the abstract queue can see stays as it is.
SameFiles(j) ==
  /\ done'[j] \in Verdicts <=> done[j] \in Verdicts
  /\ pending'[j] = "absent" <=> pending[j] = "absent"
  /\ running'[j] = "absent" <=> running[j] = "absent"
  /\ Published(j)' <=> Published(j)
Same(j) == SameFiles(j) /\ \A d \in Pids : Holds(d, j)' <=> Holds(d, j)

\* The worker of a claimed job is the daemon that holds it, if any does.
LEMMA WorkerIs ==
  ASSUME ExclusiveClaim, NEW j \in Jobs
  PROVE  /\ \A d \in Pids : done[j] \notin Verdicts /\ Holds(d, j) => WorkerOf(j) = d
         /\ done[j] \in Verdicts \/ (\A d \in Pids : ~Holds(d, j)) => WorkerOf(j) = NoPid
         /\ WorkerOf(j) = NoPid \/ (WorkerOf(j) \in Pids /\ Holds(WorkerOf(j), j))
<1>1. ASSUME NEW d \in Pids, done[j] \notin Verdicts, Holds(d, j) PROVE WorkerOf(j) = d
  <2>1. WorkerOf(j) = CHOOSE e \in Pids : Holds(e, j)
    BY <1>1 DEF WorkerOf
  <2>2. WorkerOf(j) \in Pids /\ Holds(WorkerOf(j), j)
    BY <1>1, <2>1
  <2> QED
    BY <1>1, <2>2 DEF ExclusiveClaim
<1>2. done[j] \in Verdicts \/ (\A d \in Pids : ~Holds(d, j)) => WorkerOf(j) = NoPid
  BY DEF WorkerOf
<1> QED
  BY <1>1, <1>2

\* The same of the next state.
LEMMA WorkerIsNext ==
  ASSUME ExclusiveClaim', NEW j \in Jobs
  PROVE  /\ \A d \in Pids : done'[j] \notin Verdicts /\ Holds(d, j)' => WorkerOf(j)' = d
         /\ done'[j] \in Verdicts \/ (\A d \in Pids : ~Holds(d, j)') => WorkerOf(j)' = NoPid
<1>1. ASSUME NEW d \in Pids, done'[j] \notin Verdicts, Holds(d, j)' PROVE WorkerOf(j)' = d
  <2>1. WorkerOf(j)' = CHOOSE e \in Pids : Holds(e, j)'
    BY <1>1 DEF WorkerOf
  <2>2. \E e \in Pids : e = WorkerOf(j)' /\ Holds(e, j)'
    BY <1>1, <2>1
  <2> QED
    BY <1>1, <2>2 DEF ExclusiveClaim
<1>2. done'[j] \in Verdicts \/ (\A d \in Pids : ~Holds(d, j)') => WorkerOf(j)' = NoPid
  BY DEF WorkerOf
<1> QED
  BY <1>1, <1>2

LEMMA SameStatus == ASSUME NEW j \in Jobs, SameFiles(j) PROVE StatusOf(j)' = StatusOf(j)
BY DEF SameFiles, StatusOf

LEMMA SameJob ==
  ASSUME ExclusiveClaim, ExclusiveClaim', NEW j \in Jobs, Same(j)
  PROVE  StatusOf(j)' = StatusOf(j) /\ WorkerOf(j)' = WorkerOf(j)
<1>1. StatusOf(j)' = StatusOf(j)
  BY SameStatus DEF Same
<1>2. CASE done[j] \in Verdicts \/ \A d \in Pids : ~Holds(d, j)
  <2>1. done'[j] \in Verdicts \/ \A d \in Pids : ~Holds(d, j)'
    BY <1>2 DEF Same, SameFiles
  <2> QED
    BY <1>1, <1>2, <2>1, WorkerIs, WorkerIsNext
<1>3. ASSUME NEW d \in Pids, done[j] \notin Verdicts, Holds(d, j) PROVE WorkerOf(j)' = WorkerOf(j)
  <2>1. done'[j] \notin Verdicts /\ Holds(d, j)'
    BY <1>3 DEF Same, SameFiles
  <2> QED
    BY <1>3, <2>1, WorkerIs, WorkerIsNext
<1> QED
  BY <1>1, <1>2, <1>3

\* A step that no job notices is a stutter of the abstract queue.
LEMMA Stutter ==
  ASSUME ExclusiveClaim, ExclusiveClaim', \A j \in Jobs : Same(j)
  PROVE  UNCHANGED Abstract!vars
<1>1. \A j \in Jobs : StatusOf(j)' = StatusOf(j) /\ WorkerOf(j)' = WorkerOf(j)
  BY SameJob
<1> QED
  BY <1>1 DEF Abstract!vars

\* A step that one job notices moves that job.
LEMMA MoveIs ==
  ASSUME ExclusiveClaim, ExclusiveClaim', NEW j \in Jobs, \A k \in Jobs : k # j => Same(k),
         NEW from, NEW to, NEW w, StatusOf(j) = from, StatusOf(j)' = to, WorkerOf(j)' = w
  PROVE  Abstract!Move(j, from, to, w)
<1>1. \A k \in Jobs : k # j => StatusOf(k)' = StatusOf(k) /\ WorkerOf(k)' = WorkerOf(k)
  BY SameJob
<1> QED
  BY <1>1 DEF Abstract!Move

\* A daemon lets go of a job: it has its verdict, or its claim is abandoned.
LEMMA Release ==
  ASSUME QueueInv, ClaimInv', NEW d \in Pids, NEW j \in Jobs, \A k \in Jobs : k # j => Same(k),
         SameFiles(j), Holds(d, j), \A e \in Pids : ~Holds(e, j)'
  PROVE  Abstract!Next \/ UNCHANGED Abstract!vars
<1>1. ExclusiveClaim /\ ExclusiveClaim'
  BY DEF QueueInv, ClaimInv
<1>2. StatusOf(j)' = StatusOf(j) /\ WorkerOf(j)' = NoPid
  BY <1>1, SameStatus, WorkerIsNext
<1>3. \A k \in Jobs : k # j => StatusOf(k)' = StatusOf(k) /\ WorkerOf(k)' = WorkerOf(k)
  BY <1>1, SameJob
<1>4. CASE done[j] \in Verdicts
  <2>1. WorkerOf(j) = NoPid
    BY <1>1, <1>4, WorkerIs
  <2> QED
    BY <1>2, <1>3, <2>1 DEF Abstract!vars
<1>5. CASE done[j] \notin Verdicts
  <2>1. WorkerOf(j) = d
    BY <1>1, <1>5, WorkerIs
  <2>2. Abstract!Abandon(j)
    BY <1>2, <1>3, <2>1 DEF Abstract!Abandon
  <2> QED
    BY <2>2 DEF Abstract!Next
<1> QED
  BY <1>4, <1>5

\* A daemon that is gone has let go of everything at once.
LEMMA DieMaps ==
  ASSUME TypeOK, ExclusiveClaim, ExclusiveClaim', NEW d \in Pids, Terminated(d), \A j \in Jobs : SameFiles(j)
  PROVE  Abstract!Next \/ UNCHANGED Abstract!vars
<1>1. \A e \in Pids, j \in Jobs : Holds(e, j)' <=> Holds(e, j) /\ e # d
  BY DEF Terminated, Holds, TypeOK, Jobs
<1>2. \A j \in Jobs : StatusOf(j)' = StatusOf(j)
  BY SameStatus
<1>3. ASSUME NEW j \in Jobs
      PROVE  WorkerOf(j)' = IF WorkerOf(j) = d THEN NoPid ELSE WorkerOf(j)
  <2>1. done'[j] \in Verdicts <=> done[j] \in Verdicts
    BY DEF SameFiles
  <2>2. CASE done[j] \in Verdicts \/ \A e \in Pids : ~Holds(e, j)
    BY <1>1, <2>1, <2>2, WorkerIs, WorkerIsNext
  <2>3. ASSUME done[j] \notin Verdicts, Holds(d, j)
        PROVE  WorkerOf(j) = d /\ WorkerOf(j)' = NoPid
    <3>1. \A e \in Pids : ~Holds(e, j)'
      BY <1>1, <2>3 DEF ExclusiveClaim
    <3> QED
      BY <2>3, <3>1, WorkerIs, WorkerIsNext
  <2>4. ASSUME done[j] \notin Verdicts, NEW e \in Pids, e # d, Holds(e, j)
        PROVE  WorkerOf(j) = e /\ WorkerOf(j)' = e
    BY <1>1, <2>1, <2>4, WorkerIs, WorkerIsNext
  <2> QED
    BY <2>2, <2>3, <2>4
<1>4. CASE \E j \in Jobs : WorkerOf(j) = d
  <2>1. Abstract!Die(d)
    BY <1>2, <1>3, <1>4 DEF Abstract!Die
  <2> QED
    BY <2>1 DEF Abstract!Next
<1>5. CASE \A j \in Jobs : WorkerOf(j) # d
  BY <1>2, <1>3, <1>5 DEF Abstract!vars
<1> QED
  BY <1>4, <1>5

-----------------------------------------------------------------------------
(***************************************************************************)
(* What each step is for the abstract queue.                               *)
(***************************************************************************)
\* The steps in which a daemon takes up no job, lets go of none and finishes none.
LEMMA QuietMain ==
  ASSUME QueueInv, UNCHANGED clientVars, NEW d \in Pids,
         \/ WritePidfile(d) \/ CheckStop(d) \/ TakeStop(d) \/ Scan(d) \/ LeaveIdle(d) \/ Sleep(d)
         \/ NextInBatch(d) \/ SpoolRead(d) \/ ElaborateReady(d) \/ ElaborateNotReady(d)
         \/ PoolShutdown(d) \/ UnlinkPidfile(d) \/ PidReuse(d)
  PROVE  \A j \in Jobs : Same(j)
<1> USE DEF QueueInv, TypeOK, Same, SameFiles, Published, Holds, clientVars, spoolVars, Goto
<1>1. CASE WritePidfile(d) \/ CheckStop(d) \/ TakeStop(d) \/ Scan(d) \/ LeaveIdle(d) \/ Sleep(d)
           \/ NextInBatch(d) \/ PoolShutdown(d) \/ UnlinkPidfile(d) \/ PidReuse(d)
  <2>1. UNCHANGED <<pending, running, done, current, stage>>
    BY <1>1 DEF WritePidfile, CheckStop, TakeStop, Scan, LeaveIdle, Sleep, NextInBatch, PoolShutdown,
                UnlinkPidfile, PidReuse
  <2> QED
    BY <2>1
<1>2. CASE SpoolRead(d)
  <2>1. running[current[d]] = "ok"
    BY <1>2 DEF SpoolRead, FileInv
  <2>2. UNCHANGED <<pending, running, done, current, stage>>
    BY <1>2, <2>1 DEF SpoolRead
  <2> QED
    BY <2>2
<1>3. CASE ElaborateReady(d)
  <2>1. /\ UNCHANGED <<pending, running, done>>
        /\ stage' = [stage EXCEPT ![d][current[d]] = "stamp"]
        /\ current' = [current EXCEPT ![d] = 0]
    BY <1>3 DEF ElaborateReady
  <2>2. \A e \in Pids, k \in Jobs : e # d => (Holds(e, k)' <=> Holds(e, k))
    BY <2>1
  <2>3. \A k \in Jobs : k # current[d] => (Holds(d, k)' <=> Holds(d, k))
    BY <2>1 DEF Jobs
  <2>4. current[d] \in Jobs => Holds(d, current[d])' /\ Holds(d, current[d])
    BY <2>1
  <2> QED
    BY <2>1, <2>2, <2>3, <2>4
<1>4. CASE ElaborateNotReady(d)
  BY <1>4 DEF ElaborateNotReady, Jobs
<1> QED
  BY <1>1, <1>2, <1>3, <1>4

LEMMA QuietLane ==
  ASSUME QueueInv, UNCHANGED clientVars, NEW d \in Pids, NEW j \in Jobs,
         \/ StampOpen(d, j) \/ StampWrite(d, j) \/ StampFails(d, j) \/ RunJob(d, j) \/ SimEnds(d, j)
         \/ FinishOpen(d, j)
  PROVE  \A k \in Jobs : Same(k)
<1>1. \E to \in Stages \ {"idle"} : stage' = [stage EXCEPT ![d][j] = to]
  BY DEF StampOpen, StampWrite, StampFails, RunJob, SimEnds, FinishOpen, Advance, Stages
<1>2. current' = current /\ stage[d][j] # "idle"
  BY DEF StampOpen, StampWrite, StampFails, RunJob, SimEnds, FinishOpen, Advance
<1>3. \A e \in Pids, k \in Jobs : Holds(e, k)' <=> Holds(e, k)
  BY <1>1, <1>2 DEF Holds, QueueInv, TypeOK
<1>4. \A k \in Jobs : Published(k)' <=> Published(k)
  BY DEF Published, clientVars
<1>5. pending[j] # "torn" /\ (stage[d][j] = "finish" => done[j] \notin Verdicts)
  BY DEF QueueInv, FileInv, VerdictInv, Settled
<1>6. stage[d][j] \in {"stamp", "stamping"} => running[j] # "absent"
  BY DEF QueueInv, FileInv, Holds, VerdictInv, Settled
<1>7. "torn" \notin Verdicts
  BY DEF Verdicts, RunVerdicts
<1>8. \A k \in Jobs : /\ pending'[k] = pending[k]
                      /\ running'[k] = "absent" <=> running[k] = "absent"
                      /\ done'[k] \in Verdicts <=> done[k] \in Verdicts
  BY <1>5, <1>6, <1>7
  DEF StampOpen, StampWrite, StampFails, RunJob, SimEnds, FinishOpen, Advance, QueueInv, TypeOK, spoolVars
<1> QED
  BY <1>3, <1>4, <1>8 DEF Same, SameFiles

\* The claim.
LEMMA ClaimMaps ==
  ASSUME QueueInv, QueueInv', UNCHANGED clientVars, NEW d \in Pids, SpoolClaim(d)
  PROVE  Abstract!Next \/ UNCHANGED Abstract!vars
<1>1. TypeOK /\ ExclusiveClaim /\ ExclusiveClaim' /\ current[d] = 0
  BY DEF QueueInv, ClaimInv, SpoolClaim, HoldsOnlyInBatch
<1>2. \A k \in Jobs : Published(k)' <=> Published(k)
  BY DEF Published, clientVars
<1>3. PICK j \in Jobs :
        \/ UNCHANGED <<pending, running, current>>
        \/ /\ pending[j] # "absent"
           /\ running' = [running EXCEPT ![j] = pending[j]]
           /\ pending' = [pending EXCEPT ![j] = "absent"]
           /\ current' = [current EXCEPT ![d] = j]
  BY <1>1 DEF SpoolClaim, TypeOK, RenameSource, RenameTarget
<1>4. UNCHANGED <<done, stage>>
  BY DEF SpoolClaim
<1>5. CASE UNCHANGED <<pending, running, current>>
  BY <1>1, <1>2, <1>4, <1>5, Stutter DEF Same, SameFiles, Holds
<1>6. CASE /\ pending[j] # "absent"
           /\ running' = [running EXCEPT ![j] = pending[j]]
           /\ pending' = [pending EXCEPT ![j] = "absent"]
           /\ current' = [current EXCEPT ![d] = j]
  <2>1. \A k \in Jobs : k # j => Same(k)
    BY <1>1, <1>2, <1>4, <1>6 DEF Same, SameFiles, Holds, TypeOK, Jobs
  <2>2. done[j] = "absent" /\ done'[j] = "absent" /\ "absent" \notin Verdicts
    BY <1>4, <1>6 DEF QueueInv, FileInv, Unclaimed, Verdicts, RunVerdicts
  <2>3. pending'[j] = "absent" /\ running'[j] # "absent" /\ Holds(d, j)'
    BY <1>1, <1>6 DEF TypeOK, Holds
  <2>4. StatusOf(j) = "queued" /\ StatusOf(j)' = "claimed"
    BY <1>6, <2>2, <2>3 DEF StatusOf
  <2>5. WorkerOf(j)' = d
    BY <1>1, <2>2, <2>3, WorkerIsNext
  <2>6. Abstract!Claim(j, d)
    BY <1>1, <2>1, <2>4, <2>5, MoveIs DEF Abstract!Claim
  <2> QED
    BY <2>6 DEF Abstract!Next
<1> QED
  BY <1>3, <1>5, <1>6

\* The verdict.
LEMMA FinishMaps ==
  ASSUME QueueInv, QueueInv', UNCHANGED clientVars, NEW d \in Pids, NEW j \in Jobs, FinishWrite(d, j)
  PROVE  Abstract!Next
<1>1. TypeOK /\ ExclusiveClaim /\ ExclusiveClaim'
  BY DEF QueueInv, ClaimInv
<1>2. /\ stage[d][j] = "writing" /\ stage' = [stage EXCEPT ![d][j] = "unlink"]
      /\ UNCHANGED <<pending, running, current>>
      /\ \A k \in Jobs : k # j => done'[k] = done[k]
  BY <1>1 DEF FinishWrite, Advance, TypeOK
<1>3. done[j] = "torn" /\ "torn" \notin Verdicts
  BY <1>2 DEF QueueInv, FileInv, Verdicts, RunVerdicts
<1>4. done'[j] \in Verdicts
  BY <1>1, <1>2 DEF QueueInv, FileInv, TypeOK
<1>5. Holds(d, j) /\ Holds(d, j)'
  BY <1>1, <1>2 DEF Holds, TypeOK
<1>6. pending[j] = "absent" /\ running[j] # "absent"
  BY <1>3, <1>5 DEF QueueInv, ClaimInv, UnclaimedInv, Unclaimed, FileInv
<1>7. \A k \in Jobs : k # j => Same(k)
  <2>1. \A k \in Jobs : Published(k)' <=> Published(k)
    BY DEF Published, clientVars
  <2>2. \A e \in Pids, k \in Jobs : k # j => (Holds(e, k)' <=> Holds(e, k))
    BY <1>1, <1>2 DEF Holds, TypeOK
  <2> QED
    BY <1>2, <2>1, <2>2 DEF Same, SameFiles
<1>8. StatusOf(j) = "claimed" /\ StatusOf(j)' = "finished"
  BY <1>3, <1>4, <1>6 DEF StatusOf
<1>9. WorkerOf(j) = d /\ WorkerOf(j)' = NoPid
  BY <1>1, <1>3, <1>4, <1>5, WorkerIs, WorkerIsNext
<1>10. Abstract!Finish(j)
  BY <1>1, <1>7, <1>8, <1>9, MoveIs DEF Abstract!Finish
<1> QED
  BY <1>10 DEF Abstract!Next

\* The ways a daemon lets go of a job: with its verdict on disk, after an error, or by leaving the loop.
LEMMA ReleaseMaps ==
  ASSUME QueueInv, QueueInv', UNCHANGED clientVars, NEW d \in Pids,
         InlineDone(d) \/ ElaborateRaises(d) \/ \E j \in Jobs : FinishUnlink(d, j) \/ FinishFails(d, j)
  PROVE  Abstract!Next \/ UNCHANGED Abstract!vars
<1>1. TypeOK /\ ExclusiveClaim /\ ExclusiveClaim' /\ ClaimInv'
  BY DEF QueueInv, ClaimInv
<1>2. \A j \in Jobs : Published(j)' <=> Published(j)
  BY DEF Published, clientVars
<1>3. CASE InlineDone(d) \/ ElaborateRaises(d)
  <2>1. UNCHANGED <<pending, running, done, stage>> /\ current' = [current EXCEPT ![d] = 0]
    BY <1>3 DEF InlineDone, ElaborateRaises, spoolVars
  <2>2. \A j \in Jobs : SameFiles(j)
    BY <1>2, <2>1 DEF SameFiles
  <2>3. \A e \in Pids, j \in Jobs : j # current[d] => (Holds(e, j)' <=> Holds(e, j))
    BY <1>1, <2>1 DEF Holds, TypeOK, Jobs
  <2>4. ASSUME NEW j \in Jobs, current[d] = j PROVE Abstract!Next \/ UNCHANGED Abstract!vars
    <3>1. stage[d][j] = "idle" /\ Holds(d, j)
      BY <1>1, <1>3, <2>4 DEF InlineDone, ElaborateRaises, Goto, ExclusiveClaim, Holds
    <3>2. \A e \in Pids : ~Holds(e, j)'
      <4>1. \A e \in Pids : e # d => ~Holds(e, j)
        BY <1>1, <3>1 DEF ExclusiveClaim
      <4>2. \A e \in Pids : e # d => current'[e] = current[e]
        BY <1>1, <2>1 DEF TypeOK
      <4>3. current'[d] # j
        BY <1>1, <2>1 DEF TypeOK, Jobs
      <4> QED
        BY <2>1, <3>1, <4>1, <4>2, <4>3 DEF Holds
    <3>3. \A k \in Jobs : k # j => Same(k)
      BY <2>2, <2>3, <2>4 DEF Same
    <3> QED
      BY <1>1, <2>2, <3>1, <3>2, <3>3, Release
  <2>5. CASE current[d] \notin Jobs
    BY <1>1, <2>2, <2>3, <2>5, Stutter DEF Same
  <2> QED
    BY <2>4, <2>5
<1>4. ASSUME NEW j \in Jobs, FinishUnlink(d, j) \/ FinishFails(d, j)
      PROVE  Abstract!Next \/ UNCHANGED Abstract!vars
  <2>1. /\ stage[d][j] # "idle" /\ stage' = [stage EXCEPT ![d][j] = "idle"]
        /\ UNCHANGED <<pending, done>>
    BY <1>4 DEF FinishUnlink, FinishFails, Advance, spoolVars
  <2>2. Holds(d, j) /\ \A e \in Pids : e # d => ~Holds(e, j)
    BY <1>1, <2>1 DEF Holds, ExclusiveClaim
  <2>3. \A k \in Jobs : k # j => running'[k] = running[k]
    BY <1>1, <1>4 DEF FinishUnlink, FinishFails, TypeOK, spoolVars
  <2>4. ASSUME FinishFails(d, j)
        PROVE  /\ UNCHANGED running
               /\ \A e \in Pids, k \in Jobs : current'[e] = k <=> current[e] = k /\ ~(e = d /\ k = j)
    <3>1. current[d] = j => pc[d] = "inline"
      BY <1>1, <2>1 DEF ExclusiveClaim
    <3> QED
      BY <1>1, <2>4, <3>1 DEF FinishFails, spoolVars, TypeOK, Jobs
  <2>5. CASE FinishFails(d, j)
    <3>1. \A e \in Pids, k \in Jobs : Holds(e, k)' <=> Holds(e, k) /\ ~(e = d /\ k = j)
      BY <1>1, <2>1, <2>4, <2>5 DEF Holds, TypeOK
    <3>2. \A k \in Jobs : SameFiles(k)
      BY <1>2, <2>1, <2>4, <2>5 DEF SameFiles
    <3> QED
      BY <1>1, <2>2, <3>1, <3>2, Release DEF Same
  <2>6. CASE FinishUnlink(d, j)
    <3>1. done[j] \in Verdicts /\ current' = current
      BY <2>6 DEF FinishUnlink, Advance, QueueInv, FileInv
    <3>2. \A k \in Jobs : k # j => Same(k)
      BY <1>1, <1>2, <2>1, <2>3, <3>1 DEF Same, SameFiles, Holds, TypeOK
    <3>3. StatusOf(j) = "finished" /\ StatusOf(j)' = "finished"
      BY <2>1, <3>1 DEF StatusOf
    <3>4. WorkerOf(j) = NoPid /\ WorkerOf(j)' = NoPid
      BY <1>1, <2>1, <3>1, WorkerIs, WorkerIsNext
    <3>5. \A k \in Jobs : StatusOf(k)' = StatusOf(k) /\ WorkerOf(k)' = WorkerOf(k)
      BY <1>1, <3>2, <3>3, <3>4, SameJob
    <3> QED
      BY <3>5 DEF Abstract!vars
  <2> QED
    BY <1>4, <2>5, <2>6
<1> QED
  BY <1>3, <1>4

\* The commands that no job notices.
LEMMA QuietClient ==
  ASSUME QueueInv, NEW c \in Clients,
         \/ SpoolStamp(c) \/ AddStart(c) \/ DaemonStart(c) \/ DaemonSpawn(c) \/ DaemonWait(c)
         \/ DaemonForeground(c) \/ StopProbe(c) \/ StopTouch(c) \/ StopUnpid(c) \/ DropList(c) \/ UnlinkDone(c)
  PROVE  \A j \in Jobs : Same(j)
<1> USE DEF QueueInv, TypeOK, Same, SameFiles, Published, Holds, spoolVars, daemonVars, Step, Type
<1>1. CASE SpoolStamp(c)
  <2>1. /\ nextId \in Jobs /\ nextId' = nextId + 1 /\ UNCHANGED <<spoolVars, daemonVars>>
        /\ cpc[c] # "publish" /\ cpc'[c] = "publish" /\ files'[c] = {<<"pending", nextId>>}
        /\ \A e \in Clients : e # c => cpc'[e] = cpc[e] /\ files'[e] = files[e]
    BY <1>1 DEF SpoolStamp
  <2>2. \A j \in Jobs : j < nextId' <=> j < nextId \/ j = nextId
    BY <2>1 DEF Jobs
  <2>3. ~(nextId < nextId)
    BY <2>1 DEF Jobs
  <2>4. ASSUME NEW j \in Jobs PROVE Published(j)' <=> Published(j)
    <3>1. CASE j = nextId
      BY <2>1, <2>3, <3>1
    <3>2. CASE j # nextId
      <4>1. <<"pending", j>> \notin files'[c]
        BY <2>1, <3>2
      <4> QED
        BY <2>1, <2>2, <3>2, <4>1
    <3> QED
      BY <3>1, <3>2
  <2> QED
    BY <2>1, <2>4
<1>2. CASE DropList(c)
  BY <1>2 DEF DropList
<1>3. CASE \/ AddStart(c) \/ DaemonStart(c) \/ DaemonSpawn(c) \/ DaemonWait(c) \/ DaemonForeground(c)
           \/ StopProbe(c) \/ StopTouch(c) \/ StopUnpid(c) \/ UnlinkDone(c)
  <2>1. UNCHANGED <<pending, running, done, current, stage, nextId, files>>
    BY <1>3 DEF AddStart, DaemonStart, DaemonSpawn, DaemonWait, DaemonForeground, StopProbe, StopTouch,
                StopUnpid, UnlinkDone
  <2>2. \A e \in Clients : cpc'[e] = "publish" <=> cpc[e] = "publish"
    BY <1>3 DEF AddStart, DaemonStart, DaemonSpawn, DaemonWait, DaemonForeground, StopProbe, StopTouch,
                StopUnpid, UnlinkDone
  <2>3. \A j \in Jobs : Published(j)' <=> Published(j)
    BY <2>1, <2>2
  <2> QED
    BY <2>1, <2>3
<1> QED
  BY <1>1, <1>2, <1>3

\* A record appears in pending/.
LEMMA PublishMaps ==
  ASSUME QueueInv, QueueInv', NEW c \in Clients, SpoolPublish(c)
  PROVE  Abstract!Next
<1>1. TypeOK /\ ExclusiveClaim /\ ExclusiveClaim'
  BY DEF QueueInv, ClaimInv
<1>2. PICK j \in Jobs : <<"pending", j>> \in files[c] /\ pending' = [pending EXCEPT ![j] = "ok"]
  BY DEF SpoolPublish
<1>3. /\ cpc[c] = "publish" /\ cpc'[c] = "added" /\ files'[c] = {}
      /\ \A e \in Clients : e # c => cpc'[e] = cpc[e] /\ files'[e] = files[e]
      /\ UNCHANGED <<running, done, current, stage, nextId>>
  BY <1>1 DEF SpoolPublish, Step, TypeOK, daemonVars
<1>4. Publishing(c, j) /\ \A k \in Jobs : Publishing(c, k) => k = j
  BY <1>2, <1>3 DEF Publishing, QueueInv, PathInv
<1>5. pending[j] = "absent" /\ running[j] = "absent" /\ done[j] = "absent" /\ ~Published(j)
  BY <1>2, <1>3, <1>4 DEF QueueInv, PublishInv, FileInv, Unclaimed, Published
<1>6. pending'[j] = "ok" /\ \A k \in Jobs : k # j => pending'[k] = pending[k]
  BY <1>1, <1>2 DEF TypeOK
<1>7. \A e \in Pids, k \in Jobs : Holds(e, k)' <=> Holds(e, k)
  BY <1>3 DEF Holds
<1>8. \A k \in Jobs : k # j => (Published(k)' <=> Published(k))
  BY <1>3, <1>4 DEF Published, Publishing
<1>9. \A k \in Jobs : k # j => Same(k)
  BY <1>3, <1>6, <1>7, <1>8 DEF Same, SameFiles
<1>10. "absent" \notin Verdicts
  BY DEF Verdicts, RunVerdicts
<1>11. StatusOf(j) = "new" /\ StatusOf(j)' = "queued"
  BY <1>3, <1>5, <1>6, <1>10 DEF StatusOf
<1>12. WorkerOf(j)' = NoPid
  <2>1. \A d \in Pids : ~Holds(d, j)'
    BY <1>4, <1>7 DEF QueueInv, ClaimInv, UnclaimedInv, Unclaimed
  <2> QED
    BY <1>1, <2>1, WorkerIsNext
<1>13. Abstract!Submit(j)
  BY <1>1, <1>9, <1>11, <1>12, MoveIs DEF Abstract!Submit
<1> QED
  BY <1>13 DEF Abstract!Next

\* drain or cancel unlinks a record of pending/, or comes too late.
LEMMA UnlinkMaps ==
  ASSUME QueueInv, QueueInv', NEW c \in Clients, UnlinkOne(c)
  PROVE  Abstract!Next \/ UNCHANGED Abstract!vars
<1>1. TypeOK /\ ExclusiveClaim /\ ExclusiveClaim'
  BY DEF QueueInv, ClaimInv
<1>2. PICK f \in files[c] : /\ pending' = Without(pending, "pending", f)
                            /\ running' = Without(running, "running", f)
                            /\ done' = Without(done, "done", f)
  BY DEF UnlinkOne
<1>3. PICK j \in Jobs : f = <<"pending", j>>
  BY <1>2 DEF QueueInv, PathInv
<1>4. /\ running' = running /\ done' = done /\ pending'[j] = "absent"
      /\ \A k \in Jobs : k # j => pending'[k] = pending[k]
  <2>1. \A k \in Jobs : f # <<"running", k>> /\ f # <<"done", k>> /\ (f = <<"pending", k>> <=> k = j)
    BY <1>3
  <2> QED
    BY <1>1, <1>2, <2>1 DEF Without, TypeOK
<1>5. \A k \in Jobs : Published(k)' <=> Published(k)
  <2>1. cpc[c] = "unlink" /\ UNCHANGED <<cpc, nextId>> /\ \A e \in Clients : e # c => files'[e] = files[e]
    BY <1>1 DEF UnlinkOne, TypeOK
  <2> QED
    BY <2>1 DEF Published
<1>6. \A e \in Pids, k \in Jobs : Holds(e, k)' <=> Holds(e, k)
  BY DEF UnlinkOne, daemonVars, Holds
<1>7. \A k \in Jobs : k # j => Same(k)
  BY <1>4, <1>5, <1>6 DEF Same, SameFiles
<1>8. CASE pending[j] = "absent"
  <2>1. Same(j)
    BY <1>4, <1>5, <1>6, <1>8 DEF Same, SameFiles
  <2> QED
    BY <1>1, <1>7, <2>1, Stutter
<1>9. CASE pending[j] # "absent"
  <2>1. running[j] = "absent" /\ done[j] = "absent" /\ \A d \in Pids : ~Holds(d, j)
    BY <1>9 DEF QueueInv, FileInv, ClaimInv, UnclaimedInv, Unclaimed
  <2>2. Published(j)
    <3>1. ~(j >= nextId) /\ \A e \in Clients : ~Publishing(e, j)
      BY <1>9 DEF QueueInv, PublishInv
    <3>2. j < nextId
      BY <1>1, <3>1 DEF TypeOK, Jobs
    <3> QED
      BY <3>1, <3>2 DEF Published, Publishing
  <2>3. "absent" \notin Verdicts
    BY DEF Verdicts, RunVerdicts
  <2>4. StatusOf(j) = "queued" /\ StatusOf(j)' = "dropped"
    BY <1>4, <1>5, <1>9, <2>1, <2>2, <2>3 DEF StatusOf
  <2>5. WorkerOf(j)' = NoPid
    BY <1>1, <1>6, <2>1, WorkerIsNext
  <2>6. Abstract!Drop(j)
    BY <1>1, <1>7, <2>4, <2>5, MoveIs DEF Abstract!Drop
  <2> QED
    BY <2>6 DEF Abstract!Next
<1> QED
  BY <1>8, <1>9

\* stop --now.
LEMMA KillMaps ==
  ASSUME QueueInv, QueueInv', NEW c \in Clients, StopKill(c)
  PROVE  Abstract!Next \/ UNCHANGED Abstract!vars
<1>1. TypeOK /\ ExclusiveClaim /\ ExclusiveClaim' /\ cpid[c] \in Pids
  BY DEF QueueInv, ClaimInv, TypeOK, StopKill, Step
<1>2. \A j \in Jobs : SameFiles(j)
  <2>1. /\ UNCHANGED <<pending, running, done, nextId, files>>
        /\ \A e \in Clients : cpc'[e] = "publish" <=> cpc[e] = "publish"
    BY <1>1 DEF StopKill, Step, TypeOK, spoolVars
  <2> QED
    BY <2>1 DEF SameFiles, Published
<1>3. CASE Terminated(cpid[c])
  BY <1>1, <1>2, <1>3, DieMaps
<1>4. CASE UNCHANGED <<pc, batch, current, stage>>
  <2>1. \A j \in Jobs : Same(j)
    BY <1>2, <1>4 DEF Same, Holds
  <2> QED
    BY <1>1, <2>1, Stutter
<1> QED
  BY <1>3, <1>4 DEF StopKill

\* Every step of the spool is a step of the abstract queue, or none.
LEMMA StepMaps ==
  ASSUME Kept, QueueInv, QueueInv', [Next]_vars
  PROVE  [Abstract!Next]_Abstract!vars
<1>1. ExclusiveClaim /\ ExclusiveClaim' /\ TypeOK
  BY DEF QueueInv, ClaimInv
<1>2. ASSUME NEW c \in Clients, Client(c) PROVE Abstract!Next \/ UNCHANGED Abstract!vars
  <2>1. ~(ClearProbe(c) \/ ClearLive(c) \/ ClearLogs(c) \/ ClearOrphans(c) \/ StatusOrphans(c) \/ Requeue(c))
    BY DEF ClearProbe, ClearLive, ClearLogs, ClearOrphans, StatusOrphans, Requeue, QueueInv, PathInv, Kept,
           Step, Type
  <2> QED
    BY <1>1, <1>2, <2>1, QuietClient, Stutter, PublishMaps, UnlinkMaps, KillMaps DEF Client
<1>3. CASE DaemonNext /\ UNCHANGED clientVars
  <2>1. PICK d \in Pids : \/ MainThread(d) \/ ElaborateRaises(d) \/ Crash(d) \/ PidReuse(d)
                          \/ \E j \in Jobs : Lane(d, j) \/ LaneFault(d, j)
    BY <1>3 DEF DaemonNext
  <2>2. CASE SpoolClaim(d)
    BY <1>3, <2>2, ClaimMaps
  <2>3. CASE InlineDone(d) \/ ElaborateRaises(d)
    BY <1>3, <2>3, ReleaseMaps
  <2>4. CASE Crash(d)
    <3>1. \A j \in Jobs : SameFiles(j)
      BY <1>3, <2>4 DEF Crash, spoolVars, clientVars, SameFiles, Published
    <3> QED
      BY <1>1, <2>4, <3>1, DieMaps DEF Crash
  <2>5. CASE (MainThread(d) /\ ~SpoolClaim(d) /\ ~InlineDone(d)) \/ PidReuse(d)
    <3>1. \A j \in Jobs : Same(j)
      BY <1>3, <2>5, QuietMain DEF MainThread
    <3> QED
      BY <1>1, <3>1, Stutter
  <2>6. ASSUME NEW j \in Jobs, Lane(d, j) \/ LaneFault(d, j)
        PROVE  Abstract!Next \/ UNCHANGED Abstract!vars
    <3>1. CASE FinishWrite(d, j)
      BY <1>3, <3>1, FinishMaps
    <3>2. CASE FinishUnlink(d, j) \/ FinishFails(d, j)
      BY <1>3, <3>2, ReleaseMaps
    <3>3. CASE \/ StampOpen(d, j) \/ StampWrite(d, j) \/ StampFails(d, j) \/ RunJob(d, j) \/ SimEnds(d, j)
               \/ FinishOpen(d, j)
      <4>1. \A k \in Jobs : Same(k)
        BY <1>3, <3>3, QuietLane
      <4> QED
        BY <1>1, <4>1, Stutter
    <3> QED
      BY <2>6, <3>1, <3>2, <3>3 DEF Lane, LaneFault
  <2> QED
    BY <2>1, <2>2, <2>3, <2>4, <2>5, <2>6
<1>4. CASE UNCHANGED vars
  <2>1. \A j \in Jobs : Same(j)
    BY <1>4 DEF vars, spoolVars, daemonVars, clientVars, Same, SameFiles, Published, Holds
  <2> QED
    BY <1>1, <2>1, Stutter
<1> QED
  BY <1>2, <1>3, <1>4 DEF Next

\* With any number of daemons, lanes and terminals, and any of the faults, the files, the pidfile and
\* the threads do what the abstract queue does: a job is queued once, claimed by one daemon, and then
\* finished by it, dropped before anybody claimed it, or left visibly claimed by a daemon that is gone.
THEOREM QueueRefines ==
  ASSUME Kept
  PROVE  Spec => ImplementsJobQueue
<1>1. SimqInit => Abstract!Init
  <2> SUFFICES ASSUME SimqInit PROVE Abstract!Init
    OBVIOUS
  <2>1. \A j \in Jobs : StatusOf(j) = "new"
    <3>1. \A j \in Jobs : /\ pending[j] = "absent" /\ running[j] = "absent" /\ done[j] = "absent"
                          /\ ~(j < nextId)
      BY DEF SimqInit, Init, Jobs
    <3> QED
      BY <3>1 DEF StatusOf, Published, Verdicts, RunVerdicts
  <2>2. \A j \in Jobs : WorkerOf(j) = NoPid
    BY DEF SimqInit, Init, WorkerOf, Holds, Jobs
  <2> QED
    BY <2>1, <2>2 DEF Abstract!Init
<1>2. QueueInv /\ QueueInv' /\ [Next]_vars => [Abstract!Next]_Abstract!vars
  BY StepMaps
<1>3. Spec => []QueueInv
  BY QueueAlways
<1> QED
  BY <1>1, <1>2, <1>3, PTL DEF Spec, ImplementsJobQueue, Abstract!Spec
=============================================================================
