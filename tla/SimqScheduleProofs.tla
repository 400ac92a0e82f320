------------------------- MODULE SimqScheduleProofs -------------------------
(***************************************************************************)
(* Proofs about SimqSchedule, for every command line, every number of      *)
(* runner threads, and threads that may die.                               *)
(***************************************************************************)
EXTENDS SimqSchedule, SequenceTheorems, FiniteSetTheorems, WellFoundedInduction, TLAPS

-----------------------------------------------------------------------------
(***************************************************************************)
(* The order in which the builder walks.                                   *)
(***************************************************************************)
\* A set of jobs that is not empty has a first one.
LEMMA FirstOf == ASSUME NEW S \in SUBSET Jobs, S # {} PROVE First(S) \in S
<1> DEFINE R == OpToRel(<, Nat)
<1>1. IsWellFoundedOn(R, Nat)
  BY NatLessThanWellFounded
<1>2. S \in SUBSET Nat
  BY NumJobsAssumption DEF Jobs
<1>3. \E j \in S : \A k \in S : <<k, j>> \notin R
  <2> HIDE DEF R
  <2> QED
    BY <1>1, <1>2, WFMin
<1>4. PICK j \in S : \A k \in S : <<k, j>> \notin R
  BY <1>3
<1>5. \A k \in S : ~(k < j)
  BY <1>2, <1>4 DEF OpToRel
<1>6. \E i \in S : \A k \in S : i <= k
  BY <1>2, <1>5
<1> QED
  BY <1>6 DEF First

\* The config the builder is at is one that some job names and nobody elaborated.
LEMMA CurrentOf ==
  ASSUME TypeOK, Unbuilt # {}
  PROVE  Current \in Configs \ built
<1>1. Unbuilt \in SUBSET Jobs
  BY DEF Unbuilt
<1>2. First(Unbuilt) \in Unbuilt
  BY <1>1, FirstOf
<1> QED
  BY <1>2 DEF Current, Unbuilt, TypeOK

-----------------------------------------------------------------------------
(***************************************************************************)
(* Type correctness.                                                       *)
(***************************************************************************)
\* The two outcomes of elaborate.
LEMMA ElaboratedTyped ==
  ASSUME TypeOK, NEW c \in Configs, Ready(c) \/ NoBuild(c)
  PROVE  /\ ready' \subseteq built' /\ built' \subseteq Configs
         /\ toPut' \subseteq Jobs
         /\ builder' \in {"elaborate", "put"}
         /\ verdict' \in [Jobs -> Verdicts]
<1>1. CASE Ready(c)
  BY <1>1 DEF Ready, TypeOK, OfConfig
<1>2. CASE NoBuild(c)
  BY <1>2 DEF NoBuild, TypeOK, Verdicts
<1> QED
  BY <1>1, <1>2

\* make runs only for a config that is not built.
MakingInv == builder = "making" => Unbuilt # {}

\* Every step of the builder leaves the state typed.
LEMMA BuilderTyped == TypeOK /\ MakingInv /\ (Builder \/ BuilderRaises) => TypeOK' /\ MakingInv'
<1> SUFFICES ASSUME TypeOK, MakingInv, Builder \/ BuilderRaises PROVE TypeOK' /\ MakingInv'
  OBVIOUS
<1>1. CASE BuildNext \/ MakeEnds
  <2>1. Unbuilt # {} /\ Current \in Configs
    BY <1>1, CurrentOf DEF BuildNext, MakeEnds, MakingInv
  <2>2. /\ ready' \subseteq built' /\ built' \subseteq Configs /\ toPut' \subseteq Jobs
        /\ builder' \in {"elaborate", "put", "making"} /\ verdict' \in [Jobs -> Verdicts]
    <3>1. CASE Ready(Current) \/ NoBuild(Current)
      BY <2>1, <3>1, ElaboratedTyped
    <3>2. CASE builder' = "making" /\ UNCHANGED <<built, ready, toPut, verdict>>
      BY <3>2 DEF TypeOK
    <3> QED
      BY <1>1, <3>1, <3>2 DEF BuildNext, MakeEnds
  <2>3. TypeOK'
    BY <1>1, <2>2 DEF BuildNext, MakeEnds, TypeOK, given
  <2>4. MakingInv'
    <3>1. builder' = "making" => UNCHANGED <<built, configOf>>
      BY <1>1 DEF BuildNext, MakeEnds, given, Ready, NoBuild
    <3> QED
      BY <2>1, <3>1 DEF MakingInv, Unbuilt
  <2> QED
    BY <2>3, <2>4
<1>2. CASE PutJob
  <2>1. CASE toPut = {}
    BY <1>2, <2>1 DEF PutJob, TypeOK, MakingInv, given, outcome
  <2>2. CASE toPut # {}
    <3>1. First(toPut) \in Jobs
      BY <2>2, FirstOf DEF TypeOK
    <3>2. runq' \in Seq(Jobs \cup {None})
      <4>1. runq' = Append(runq, First(toPut)) /\ runq \in Seq(Jobs \cup {None})
        BY <1>2, <2>2 DEF PutJob, TypeOK
      <4> QED
        BY <3>1, <4>1, AppendProperties
    <3>3. toPut' \subseteq Jobs /\ builder' = builder /\ builder # "making"
      BY <1>2, <2>2 DEF PutJob, TypeOK
    <3> QED
      BY <1>2, <3>2, <3>3 DEF PutJob, TypeOK, MakingInv, given, outcome
  <2> QED
    BY <2>1, <2>2
<1>3. CASE BuildersEnd
  <2>1. Cardinality(Lanes) \in Nat
    BY LanesAssumption, FS_CardinalityType
  <2> QED
    BY <1>3, <2>1 DEF BuildersEnd, TypeOK, MakingInv, given, outcome
<1>4. CASE PutNone
  <2>1. CASE sentinels = 0
    BY <1>4, <2>1 DEF PutNone, TypeOK, MakingInv, given, outcome
  <2>2. CASE sentinels # 0
    <3>1. runq' \in Seq(Jobs \cup {None})
      <4>1. runq' = Append(runq, None) /\ runq \in Seq(Jobs \cup {None})
        BY <1>4, <2>2 DEF PutNone, TypeOK
      <4> QED
        BY <4>1, AppendProperties
    <3>2. sentinels' \in 0 .. Cardinality(Lanes) /\ builder' = builder /\ builder # "making"
      <4>1. Cardinality(Lanes) \in Nat
        BY LanesAssumption, FS_CardinalityType
      <4> QED
        BY <1>4, <2>2, <4>1 DEF PutNone, TypeOK
    <3> QED
      BY <1>4, <3>1, <3>2 DEF PutNone, TypeOK, MakingInv, given, outcome
  <2> QED
    BY <2>1, <2>2
<1>5. CASE BuilderRaises
  BY <1>5 DEF BuilderRaises, TypeOK, MakingInv, given, outcome
<1> QED
  BY <1>1, <1>2, <1>3, <1>4, <1>5 DEF Builder

\* A write to a log leaves the logs and what was said typed.
LEMMA MarkTyped ==
  ASSUME TypeOK, NEW j \in Jobs, NEW m \in Marks, WriteMark(j, m)
  PROVE  file' \in [Files -> SUBSET (Jobs \X Marks)] /\ said' \in [Jobs -> SUBSET Marks]
<1>1. PICK lost : file' = [file EXCEPT ![LogOf(j)] = (@ \ lost) \cup {<<j, m>>}]
  BY DEF WriteMark
<1>2. LogOf(j) \in Files
  BY DEF LogOf, Files, TypeOK
<1>3. file[LogOf(j)] \in SUBSET (Jobs \X Marks)
  BY <1>2 DEF TypeOK
<1>4. (file[LogOf(j)] \ lost) \cup {<<j, m>>} \in SUBSET (Jobs \X Marks)
  BY <1>3
<1>5. file' \in [Files -> SUBSET (Jobs \X Marks)]
  BY <1>1, <1>4 DEF TypeOK
<1> QED
  BY <1>5 DEF WriteMark, TypeOK

\* Every step of a runner leaves the state typed.
LEMMA RunnerTyped ==
  ASSUME TypeOK, NEW l \in Lanes, Runner(l) \/ SimPrints(l) \/ RunRaises(l)
  PROVE  TypeOK'
<1>1. CASE Get(l)
  <2>1. Head(runq) \in Jobs \cup {None} /\ runq' \in Seq(Jobs \cup {None})
    BY <1>1, HeadTailProperties DEF Get, TypeOK
  <2>2. runs' \in [Jobs -> Nat]
    BY <1>1 DEF Get, TypeOK
  <2>3. /\ lane' \in [Lanes -> {"get", "run", "sim", "classify", "exited", "dead"}]
        /\ job' \in [Lanes -> Jobs \cup {None}]
        /\ \A m \in Lanes : lane'[m] \notin {"get", "exited"} => job'[m] \in Jobs
    BY <1>1, <2>1 DEF Get, TypeOK
  <2> QED
    BY <1>1, <2>1, <2>2, <2>3 DEF Get, TypeOK, given, build, outcome
<1>2. CASE RunOpens(l)
  <2>1. file' \in [Files -> SUBSET (Jobs \X Marks)]
    BY <1>2 DEF RunOpens, TypeOK
  <2> QED
    BY <1>2, <2>1 DEF RunOpens, TypeOK, given, build
<1>3. CASE SimPrints(l)
  <2>1. PICK m \in {"PASSED", "FAILED"} : WriteMark(job[l], m)
    BY <1>3 DEF SimPrints
  <2>2. job[l] \in Jobs
    BY <1>3 DEF SimPrints, TypeOK
  <2>3. file' \in [Files -> SUBSET (Jobs \X Marks)] /\ said' \in [Jobs -> SUBSET Marks]
    BY <2>1, <2>2, MarkTyped DEF Marks
  <2> QED
    BY <1>3, <2>3 DEF SimPrints, TypeOK, given, build
<1>4. CASE SimEnds(l)
  <2>1. job[l] \in Jobs
    BY <1>4 DEF SimEnds, TypeOK
  <2>2. file' \in [Files -> SUBSET (Jobs \X Marks)] /\ said' \in [Jobs -> SUBSET Marks]
    <3>1. CASE UNCHANGED <<file, said>>
      BY <3>1 DEF TypeOK
    <3>2. CASE WriteMark(job[l], "TIMEOUT")
      BY <2>1, <3>2, MarkTyped DEF Marks
    <3> QED
      BY <1>4, <3>1, <3>2 DEF SimEnds
  <2> QED
    BY <1>4, <2>2 DEF SimEnds, TypeOK, given, build
<1>5. CASE RunClassifies(l)
  <2>1. \A marks : Classify(marks) \in Verdicts
    BY DEF Classify, Verdicts
  <2>2. verdict' \in [Jobs -> Verdicts]
    BY <1>5, <2>1 DEF RunClassifies, TypeOK
  <2> QED
    BY <1>5, <2>2 DEF RunClassifies, TypeOK, given, build
<1>6. CASE RunRaises(l)
  BY <1>6 DEF RunRaises, TypeOK, given, build, outcome
<1> QED
  BY <1>1, <1>2, <1>3, <1>4, <1>5, <1>6 DEF Runner

\* A runner does not touch the builder's state.
LEMMA RunnerBuild ==
  ASSUME NEW l \in Lanes, Runner(l) \/ SimPrints(l) \/ RunRaises(l)
  PROVE  UNCHANGED <<given, build, main>>
BY DEF Runner, Get, RunOpens, SimPrints, SimEnds, RunClassifies, RunRaises

LEMMA TypeStep == TypeOK /\ MakingInv /\ [Next]_vars => TypeOK' /\ MakingInv'
<1> SUFFICES ASSUME TypeOK, MakingInv, [Next]_vars PROVE TypeOK' /\ MakingInv'
  OBVIOUS
<1>1. CASE Builder \/ BuilderRaises
  BY <1>1, BuilderTyped
<1>2. ASSUME NEW l \in Lanes, Runner(l) \/ SimPrints(l) \/ RunRaises(l) PROVE TypeOK' /\ MakingInv'
  BY <1>2, RunnerTyped, RunnerBuild DEF MakingInv, Unbuilt, given, build
<1>3. CASE JoinBuilder \/ JoinRunners \/ UNCHANGED vars
  BY <1>3 DEF JoinBuilder, JoinRunners, vars, TypeOK, MakingInv, Unbuilt, given, build, outcome
<1> QED
  BY <1>1, <1>2, <1>3 DEF Next

LEMMA TypeInit == Init => TypeOK /\ MakingInv
<1> SUFFICES ASSUME Init PROVE TypeOK /\ MakingInv
  OBVIOUS
<1>1. nameOf \in [Jobs -> Jobs]
  BY DEF Init
<1>2. runq \in Seq(Jobs \cup {None}) /\ sentinels \in 0 .. Cardinality(Lanes)
  BY LanesAssumption, FS_CardinalityType DEF Init
<1> QED
  BY <1>1, <1>2 DEF Init, TypeOK, MakingInv, Verdicts

\* Every thread is at a point of its program, a lane that runs has a job, and the builder never owes
\* more sentinels than there are lanes.
THEOREM TypeCorrect == Spec => []TypeOK
BY TypeInit, TypeStep, PTL DEF Spec
-----------------------------------------------------------------------------
(***************************************************************************)
(* The run queue.  A job comes into it once, when its config is built, and *)
(* every job is in it before the first sentinel.                           *)
(***************************************************************************)
\* What a put does to the queue.
LEMMA PutQueued ==
  ASSUME TypeOK, NEW x \in Jobs \cup {None}, runq' = Append(runq, x)
  PROVE  /\ Queued' = Queued \cup {x}
         /\ Len(runq) \in Nat /\ Len(runq') = Len(runq) + 1
         /\ \A i \in 1 .. Len(runq) : runq'[i] = runq[i]
         /\ runq'[Len(runq) + 1] = x
<1>1. runq \in Seq(Jobs \cup {None}) /\ Len(runq) \in Nat
  BY LenProperties DEF TypeOK
<1>2. /\ Len(runq') = Len(runq) + 1
      /\ \A i \in 1 .. Len(runq) : runq'[i] = runq[i]
      /\ runq'[Len(runq) + 1] = x
  BY <1>1, AppendProperties
<1>3. Queued' = Queued \cup {x}
  <2>1. 1 .. Len(runq') = (1 .. Len(runq)) \cup {Len(runq) + 1}
    BY <1>1, <1>2
  <2> QED
    BY <1>2, <2>1 DEF Queued
<1> QED
  BY <1>1, <1>2, <1>3

\* What a get does to it.
LEMMA GetQueued ==
  ASSUME TypeOK, runq # <<>>, runq' = Tail(runq)
  PROVE  /\ Queued = Queued' \cup {Head(runq)}
         /\ Head(runq) = runq[1] /\ 1 \in 1 .. Len(runq)
         /\ Len(runq) \in Nat /\ Len(runq') = Len(runq) - 1
         /\ \A i \in 1 .. Len(runq') : runq'[i] = runq[i + 1]
<1>1. runq \in Seq(Jobs \cup {None}) /\ Len(runq) \in Nat \ {0}
  BY EmptySeq DEF TypeOK
<1>2. /\ Len(runq') = Len(runq) - 1
      /\ \A i \in 1 .. Len(runq') : runq'[i] = runq[i + 1]
      /\ Head(runq) = runq[1]
  BY <1>1, HeadTailProperties
<1>3. Queued = Queued' \cup {Head(runq)}
  <2>1. \A i \in 1 .. Len(runq) : i = 1 \/ (i - 1 \in 1 .. Len(runq') /\ runq[i] = runq'[i - 1])
    BY <1>1, <1>2
  <2>2. \A i \in 1 .. Len(runq') : i + 1 \in 1 .. Len(runq)
    BY <1>1, <1>2
  <2>3. 1 \in 1 .. Len(runq)
    BY <1>1
  <2>4. ASSUME NEW x PROVE x \in Queued <=> x \in Queued' \/ x = Head(runq)
    BY <1>2, <2>1, <2>2, <2>3 DEF Queued
  <2> QED
    BY <2>4
<1> QED
  BY <1>1, <1>2, <1>3

Once      == \A i, k \in 1 .. Len(runq) : runq[i] = runq[k] /\ runq[i] # None => i = k
NonesLast == \A i, k \in 1 .. Len(runq) : i < k /\ runq[i] = None => runq[k] = None
Exited    == \E l \in Lanes : lane[l] = "exited"

OrderInv ==
  /\ toPut # {} => builder = "put"
  /\ \A j \in Jobs : j \in toPut => configOf[j] \in built
  /\ \A j \in Jobs : j \in Queued => configOf[j] \in built /\ j \notin toPut
  /\ Once /\ NonesLast
  /\ builder \in {"sentinels", "ended"} => Unbuilt = {}
  /\ None \in Queued \/ Exited => builder \in {"sentinels", "ended"}
  /\ Exited => Queued \subseteq {None}

\* The builder keeps the order of the queue.
LEMMA BuilderOrder ==
  ASSUME TypeOK, MakingInv, OrderInv, Builder \/ BuilderRaises
  PROVE  OrderInv'
<1>1. UNCHANGED <<configOf, lane>> /\ None \notin Jobs
  BY DEF Builder, BuildNext, MakeEnds, PutJob, BuildersEnd, PutNone, BuilderRaises, given, Jobs, None
<1>2. CASE BuildNext \/ MakeEnds
  <2>1. /\ builder \in {"elaborate", "making"} /\ builder' \in {"elaborate", "making", "put"}
        /\ toPut = {} /\ runq' = runq /\ Current \notin built
    BY <1>2, CurrentOf DEF BuildNext, MakeEnds, Ready, NoBuild, OrderInv, MakingInv
  <2>2. /\ built \subseteq built'
        /\ toPut' # {} => builder' = "put" /\ toPut' = OfConfig(Current) /\ Current \in built'
    BY <1>2, <2>1 DEF BuildNext, MakeEnds, Ready, NoBuild
  <2>3. Queued' = Queued /\ (Once /\ NonesLast)' /\ ~Exited' /\ None \notin Queued
    BY <1>1, <2>1 DEF Queued, Once, NonesLast, Exited, OrderInv
  <2> QED
    BY <1>1, <2>1, <2>2, <2>3 DEF OrderInv, OfConfig
<1>3. CASE PutJob /\ toPut # {}
  <2> DEFINE j == First(toPut)
  <2>1. j \in Jobs /\ j \in toPut
    BY <1>3, FirstOf DEF TypeOK
  <2>2. /\ runq' = Append(runq, j) /\ toPut' = toPut \ {j} /\ UNCHANGED <<builder, built>>
        /\ builder = "put"
    BY <1>3 DEF PutJob
  <2> HIDE DEF j
  <2>3. /\ Queued' = Queued \cup {j}
        /\ Len(runq) \in Nat /\ Len(runq') = Len(runq) + 1
        /\ \A i \in 1 .. Len(runq) : runq'[i] = runq[i]
        /\ runq'[Len(runq) + 1] = j
    BY <2>1, <2>2, PutQueued
  <2>4. j \notin Queued /\ None \notin Queued /\ ~Exited /\ ~Exited'
    BY <1>1, <2>1, <2>2 DEF OrderInv, Exited
  <2>5. \A i \in 1 .. Len(runq) : runq[i] # j /\ runq[i] # None
    BY <2>4 DEF Queued
  <2>6. Once'
    BY <2>3, <2>5 DEF Once, OrderInv
  <2>7. NonesLast'
    BY <1>1, <2>1, <2>3, <2>5 DEF NonesLast
  <2> QED
    BY <1>1, <2>1, <2>2, <2>3, <2>4, <2>6, <2>7 DEF OrderInv, Unbuilt
<1>4. CASE PutNone /\ sentinels # 0
  <2>1. runq' = Append(runq, None) /\ UNCHANGED <<toPut, builder, built>> /\ builder = "sentinels"
    BY <1>4 DEF PutNone
  <2>2. /\ Queued' = Queued \cup {None}
        /\ Len(runq) \in Nat /\ Len(runq') = Len(runq) + 1
        /\ \A i \in 1 .. Len(runq) : runq'[i] = runq[i]
        /\ runq'[Len(runq) + 1] = None
    BY <2>1, PutQueued
  <2>3. Once'
    BY <2>2 DEF Once, OrderInv
  <2>4. NonesLast'
    BY <2>2 DEF NonesLast, OrderInv
  <2> QED
    BY <1>1, <2>1, <2>2, <2>3, <2>4 DEF OrderInv, Unbuilt, Exited
<1>5. CASE (PutJob /\ toPut = {}) \/ BuildersEnd \/ (PutNone /\ sentinels = 0) \/ BuilderRaises
  <2>1. UNCHANGED <<runq, toPut, built>>
    BY <1>5 DEF PutJob, BuildersEnd, PutNone, BuilderRaises
  <2>2. /\ toPut' = {}
        /\ builder' \in {"sentinels", "ended"} => Unbuilt = {}
        /\ builder \in {"sentinels", "ended"} => builder' \in {"sentinels", "ended"}
    BY <1>5 DEF PutJob, BuildersEnd, PutNone, BuilderRaises, OrderInv
  <2>3. Queued' = Queued /\ (Once /\ NonesLast)' /\ (Exited' <=> Exited) /\ Unbuilt' = Unbuilt
    BY <1>1, <2>1 DEF Queued, Once, NonesLast, Exited, OrderInv, Unbuilt
  <2> QED
    BY <1>1, <2>1, <2>2, <2>3 DEF OrderInv
<1> QED
  BY <1>2, <1>3, <1>4, <1>5 DEF Builder

\* So do the runners.
LEMMA RunnerOrder ==
  ASSUME TypeOK, OrderInv, NEW l \in Lanes, Runner(l) \/ SimPrints(l) \/ RunRaises(l)
  PROVE  OrderInv'
<1>1. UNCHANGED <<toPut, built, configOf, builder>>
  BY RunnerBuild DEF given, build
<1>2. CASE Get(l)
  <2>1. /\ Queued = Queued' \cup {Head(runq)}
        /\ Head(runq) = runq[1] /\ 1 \in 1 .. Len(runq)
        /\ Len(runq) \in Nat /\ Len(runq') = Len(runq) - 1
        /\ \A i \in 1 .. Len(runq') : runq'[i] = runq[i + 1]
    BY <1>2, GetQueued DEF Get
  <2>2. \A i \in 1 .. Len(runq') : i + 1 \in 1 .. Len(runq)
    BY <2>1
  <2>3. Once' /\ NonesLast'
    BY <2>1, <2>2 DEF Once, NonesLast, OrderInv
  <2>4. Exited' => Exited \/ Head(runq) = None
    BY <1>2 DEF Get, Exited, TypeOK
  <2>5. Head(runq) = None => Queued' \subseteq {None}
    BY <2>1 DEF Queued, OrderInv, NonesLast
  <2> QED
    BY <1>1, <2>1, <2>3, <2>4, <2>5 DEF OrderInv, Unbuilt
<1>3. CASE ~Get(l)
  <2>1. runq' = runq /\ (Exited' => Exited)
    BY <1>3 DEF Runner, RunOpens, SimPrints, SimEnds, RunClassifies, RunRaises, Exited, TypeOK
  <2> QED
    BY <1>1, <2>1 DEF OrderInv, Unbuilt, Queued, Once, NonesLast
<1> QED
  BY <1>2, <1>3

LEMMA OrderStep == TypeOK /\ MakingInv /\ OrderInv /\ [Next]_vars => OrderInv'
<1> SUFFICES ASSUME TypeOK, MakingInv, OrderInv, [Next]_vars PROVE OrderInv'
  OBVIOUS
<1>1. CASE JoinBuilder \/ JoinRunners \/ UNCHANGED vars
  <2>1. UNCHANGED <<toPut, built, configOf, builder, runq, lane>>
    BY <1>1 DEF JoinBuilder, JoinRunners, vars, given, build
  <2> QED
    BY <2>1 DEF OrderInv, Unbuilt, Queued, Once, NonesLast, Exited
<1> QED
  BY <1>1, BuilderOrder, RunnerOrder DEF Next
-----------------------------------------------------------------------------
(***************************************************************************)
(* A run.  With one binary for each file name, a log holds the marks of    *)
(* the job it is named after and no other, so that what classify reads is  *)
(* what the simulator of that job wrote.                                   *)
(***************************************************************************)
Named == nameOf = [j \in Jobs |-> j]

Waiting(j) == configOf[j] \notin built \/ j \in toPut \/ j \in Queued
Busy(l, j) == lane[l] \in {"run", "sim", "classify"} /\ job[l] = j

\* A job that waits was never run; the lane that runs it is the only one, and has its log.
JobInv(j) ==
  /\ Waiting(j) => runs[j] = 0 /\ said[j] = {} /\ verdict[j] = "PENDING" /\ \A l \in Lanes : ~Busy(l, j)
  /\ \A l \in Lanes : Busy(l, j) =>
       /\ runs[j] = 1 /\ verdict[j] = "PENDING"
       /\ \A m \in Lanes : Busy(m, j) => m = l
       /\ lane[l] = "run" => said[j] = {}
       /\ lane[l] # "run" => file[LogOf(j)] = {j} \X said[j]
  /\ verdict[j] = "PASS" => runs[j] = 1 /\ said[j] = {"PASSED"}

RunInv == \A j \in Jobs : JobInv(j)

\* Two jobs never share a log.
LEMMA OwnLog ==
  ASSUME TypeOK, Named, NEW j \in Jobs, NEW k \in Jobs, j # k
  PROVE  LogOf(j) # LogOf(k) /\ LogOf(j) \in Files
BY DEF Named, LogOf, Files, TypeOK

\* classify says PASS of a log with PASSED in it and nothing else.
LEMMA PassMeansPassed == ASSUME NEW marks, Classify(marks) = "PASS" PROVE marks = {"PASSED"}
BY DEF Classify

\* The builder gives a verdict only to jobs of a config that failed, which nobody runs then or later.
LEMMA BuilderRun ==
  ASSUME TypeOK, MakingInv, OrderInv, NEW j \in Jobs, JobInv(j), Builder \/ BuilderRaises
  PROVE  JobInv(j)'
<1>1. UNCHANGED <<given, runs, said, lane, job, file>>
  BY DEF Builder, BuildNext, MakeEnds, PutJob, BuildersEnd, PutNone, BuilderRaises, outcome
<1>2. \A l \in Lanes : Busy(l, j)' <=> Busy(l, j)
  BY <1>1 DEF Busy
<1>3. LogOf(j)' = LogOf(j)
  BY <1>1 DEF LogOf, given
<1>4. CASE verdict'[j] = verdict[j] /\ (Waiting(j)' => Waiting(j))
  BY <1>1, <1>2, <1>3, <1>4 DEF JobInv
<1>5. CASE BuildNext \/ MakeEnds
  <2>1. toPut = {} /\ runq' = runq /\ Current \notin built
    BY <1>5, CurrentOf DEF BuildNext, MakeEnds, OrderInv, MakingInv
  <2>2. Queued' = Queued
    BY <2>1 DEF Queued
  <2>3. CASE Ready(Current)
    <3>1. verdict'[j] = verdict[j] /\ built' = built \cup {Current} /\ toPut' \in {{}, OfConfig(Current)}
      BY <2>3 DEF Ready
    <3>2. j \in OfConfig(Current) => configOf[j] \notin built
      BY <2>1 DEF OfConfig
    <3>3. Waiting(j)' => Waiting(j)
      BY <1>1, <2>2, <3>1, <3>2 DEF Waiting, given
    <3> QED
      BY <1>4, <3>1, <3>3
  <2>4. CASE NoBuild(Current)
    <3>1. built' = built \cup {Current} /\ toPut' = toPut
          /\ verdict'[j] = IF configOf[j] = Current THEN "NO-BUILD" ELSE verdict[j]
      BY <2>4 DEF NoBuild
    <3>2. CASE configOf[j] = Current
      <4>1. Waiting(j) /\ ~Waiting(j)'
        BY <1>1, <2>1, <2>2, <3>1, <3>2 DEF Waiting, OrderInv, given
      <4>2. \A l \in Lanes : ~Busy(l, j)'
        BY <1>2, <4>1 DEF JobInv
      <4> QED
        BY <3>1, <3>2, <4>1, <4>2 DEF JobInv
    <3>3. CASE configOf[j] # Current
      BY <1>1, <1>4, <2>2, <3>1, <3>3 DEF Waiting, given
    <3> QED
      BY <3>2, <3>3
  <2>5. CASE UNCHANGED <<built, toPut, verdict>>
    BY <1>1, <1>4, <2>2, <2>5 DEF Waiting, given
  <2> QED
    BY <1>5, <2>3, <2>4, <2>5 DEF BuildNext, MakeEnds
<1>6. CASE PutJob
  <2>1. CASE toPut = {}
    BY <1>1, <1>4, <1>6, <2>1 DEF PutJob, Waiting, Queued, given, outcome
  <2>2. CASE toPut # {}
    <3>1. First(toPut) \in Jobs /\ First(toPut) \in toPut
      BY <2>2, FirstOf DEF TypeOK
    <3>2. Queued' = Queued \cup {First(toPut)}
      BY <1>6, <2>2, <3>1, PutQueued DEF PutJob
    <3> QED
      BY <1>1, <1>4, <1>6, <2>2, <3>1, <3>2 DEF PutJob, Waiting, given, outcome
  <2> QED
    BY <2>1, <2>2
<1>7. CASE PutNone
  <2>1. CASE sentinels = 0
    BY <1>1, <1>4, <1>7, <2>1 DEF PutNone, Waiting, Queued, given, outcome
  <2>2. CASE sentinels # 0
    <3>1. Queued' = Queued \cup {None} /\ j # None
      BY <1>7, <2>2, PutQueued DEF PutNone, Jobs, None
    <3> QED
      BY <1>1, <1>4, <1>7, <3>1 DEF PutNone, Waiting, given, outcome
  <2> QED
    BY <2>1, <2>2
<1>8. CASE BuildersEnd \/ BuilderRaises
  BY <1>1, <1>4, <1>8 DEF BuildersEnd, BuilderRaises, Waiting, Queued, given, outcome
<1> QED
  BY <1>5, <1>6, <1>7, <1>8 DEF Builder

\* A get takes a job that waited, and it waits no more.
LEMMA GetWaiting ==
  ASSUME TypeOK, OrderInv, NEW l \in Lanes, Get(l), NEW j \in Jobs
  PROVE  /\ Waiting(j)' => Waiting(j) /\ j # Head(runq)
         /\ j = Head(runq) => Waiting(j)
<1>1. /\ Queued = Queued' \cup {Head(runq)}
      /\ Head(runq) = runq[1] /\ 1 \in 1 .. Len(runq)
      /\ Len(runq) \in Nat /\ Len(runq') = Len(runq) - 1
      /\ \A i \in 1 .. Len(runq') : runq'[i] = runq[i + 1]
  BY GetQueued DEF Get
<1>2. UNCHANGED <<configOf, built, toPut>>
  BY DEF Get, given, build
<1>3. j = Head(runq) => j \notin Queued'
  <2> SUFFICES ASSUME j = Head(runq), NEW i \in 1 .. Len(runq'), runq'[i] = j PROVE FALSE
    BY DEF Queued
  <2>1. i + 1 \in 1 .. Len(runq) /\ runq[i + 1] = runq[1] /\ i + 1 # 1
    BY <1>1
  <2>2. runq[1] # None
    BY <1>1 DEF Jobs, None
  <2> QED
    BY <1>1, <2>1, <2>2 DEF OrderInv, Once
<1>4. j = Head(runq) => configOf[j] \in built /\ j \notin toPut
  BY <1>1 DEF OrderInv
<1> QED
  BY <1>1, <1>2, <1>3, <1>4 DEF Waiting

\* A mark goes to the log of the job whose simulator writes it, and leaves the other logs alone.
LEMMA MarkGoesToOwnLog ==
  ASSUME TypeOK, Named, NEW k \in Jobs, NEW m \in Marks, WriteMark(k, m),
         file[LogOf(k)] = {k} \X said[k], NEW j \in Jobs
  PROVE  /\ j = k => file'[LogOf(j)] = {j} \X said'[j]
         /\ j # k => file'[LogOf(j)] = file[LogOf(j)] /\ said'[j] = said[j]
<1>1. PICK lost \in SUBSET {w \in file[LogOf(k)] : w[1] # k} :
        file' = [file EXCEPT ![LogOf(k)] = (@ \ lost) \cup {<<k, m>>}]
  BY DEF WriteMark
<1>2. lost = {}
  BY <1>1
<1>3. LogOf(k) \in Files
  BY DEF LogOf, Files, TypeOK
<1>4. file'[LogOf(k)] = ({k} \X said[k]) \cup {<<k, m>>}
  BY <1>1, <1>2, <1>3 DEF TypeOK
<1>5. said'[k] = said[k] \cup {m}
  BY DEF WriteMark, TypeOK
<1>6. j # k => LogOf(j) # LogOf(k) /\ LogOf(j) \in Files
  BY OwnLog
<1>7. j # k => file'[LogOf(j)] = file[LogOf(j)] /\ said'[j] = said[j]
  BY <1>1, <1>6 DEF WriteMark, TypeOK
<1>8. j = k => file'[LogOf(j)] = {j} \X said'[j]
  BY <1>4, <1>5
<1> QED
  BY <1>7, <1>8

\* The runners keep what is known of every job.
LEMMA RunnerRun ==
  ASSUME TypeOK, Named, OrderInv, RunInv, NEW l \in Lanes, Runner(l) \/ SimPrints(l) \/ RunRaises(l),
         NEW j \in Jobs
  PROVE  JobInv(j)'
<1>1. UNCHANGED <<given, build, main>>
  BY RunnerBuild
<1>2. LogOf(j)' = LogOf(j)
  BY <1>1 DEF LogOf, given
<1>3. JobInv(j)
  BY DEF RunInv
<1>4. CASE Get(l)
  <2>1. /\ Waiting(j)' => Waiting(j) /\ j # Head(runq)
        /\ j = Head(runq) => Waiting(j)
    BY <1>4, GetWaiting
  <2>2. /\ runs'[j] = IF j = Head(runq) THEN runs[j] + 1 ELSE runs[j]
        /\ UNCHANGED <<file, verdict, said>>
    BY <1>4 DEF Get, outcome
  <2>3. CASE j = Head(runq)
    <3>1. runs'[j] = 1 /\ said'[j] = {} /\ verdict'[j] = "PENDING" /\ ~Waiting(j)'
          /\ \A m \in Lanes : ~Busy(m, j)
      BY <1>3, <2>1, <2>2, <2>3 DEF JobInv
    <3>2. \A m \in Lanes : Busy(m, j)' => m = l /\ lane'[m] = "run"
      BY <1>4, <2>3, <3>1 DEF Get, Busy, TypeOK
    <3> QED
      BY <3>1, <3>2 DEF JobInv
  <2>4. CASE j # Head(runq)
    <3>1. \A m \in Lanes : Busy(m, j)' <=> Busy(m, j)
      BY <1>4, <2>4 DEF Get, Busy, TypeOK
    <3>2. \A m \in Lanes : Busy(m, j) => lane'[m] = lane[m]
      BY <1>4 DEF Get, Busy, TypeOK
    <3> QED
      BY <1>2, <1>3, <2>1, <2>2, <2>4, <3>1, <3>2 DEF JobInv
  <2> QED
    BY <2>3, <2>4
<1>5. ~Get(l) => /\ Waiting(j)' <=> Waiting(j)
                 /\ UNCHANGED <<runs, job>>
                 /\ \A m \in Lanes : m # l => (Busy(m, j)' <=> Busy(m, j)) /\ lane'[m] = lane[m]
  <2>1. ~Get(l) => UNCHANGED <<runq, runs, job>> /\ \A m \in Lanes : m # l => lane'[m] = lane[m]
    BY DEF Runner, RunOpens, SimPrints, SimEnds, RunClassifies, RunRaises, TypeOK
  <2> QED
    BY <1>1, <2>1 DEF Waiting, Queued, Busy, given, build
<1>6. CASE RunOpens(l)
  <2>1. /\ lane[l] = "run" /\ lane'[l] = "sim" /\ UNCHANGED <<said, verdict, job>>
        /\ file' = [file EXCEPT ![LogOf(job[l])] = {}] /\ job[l] \in Jobs
        /\ ~Get(l)
    BY <1>6 DEF RunOpens, TypeOK, Get
  <2>2. CASE j = job[l]
    <3>1. Busy(l, j) /\ said[j] = {} /\ file'[LogOf(j)] = {}
      BY <1>3, <2>1, <2>2 DEF Busy, JobInv, TypeOK, LogOf, Files
    <3>2. Busy(l, j)' /\ {} = {j} \X {}
      BY <2>1, <2>2 DEF Busy
    <3> QED
      BY <1>2, <1>3, <1>5, <2>1, <3>1, <3>2 DEF JobInv
  <2>3. CASE j # job[l]
    <3>1. file'[LogOf(j)] = file[LogOf(j)]
      BY <2>1, <2>3, OwnLog DEF TypeOK
    <3>2. ~Busy(l, j) /\ ~Busy(l, j)'
      BY <2>1, <2>3 DEF Busy
    <3> QED
      BY <1>2, <1>3, <1>5, <2>1, <3>1, <3>2 DEF JobInv
  <2> QED
    BY <2>2, <2>3
<1>7. CASE SimPrints(l) \/ SimEnds(l)
  <2>1. /\ lane[l] = "sim" /\ lane'[l] \in {"sim", "classify"} /\ UNCHANGED <<verdict, job>>
        /\ job[l] \in Jobs /\ ~Get(l)
    BY <1>7 DEF SimPrints, SimEnds, TypeOK, Get
  <2>2. UNCHANGED <<file, said>> \/ \E m \in Marks : WriteMark(job[l], m)
    BY <1>7 DEF SimPrints, SimEnds, Marks
  <2>3. JobInv(job[l]) /\ Busy(l, job[l])
    BY <2>1 DEF RunInv, Busy
  <2>4. file[LogOf(job[l])] = {job[l]} \X said[job[l]]
    BY <2>1, <2>3 DEF JobInv
  <2>5. /\ j = job[l] => file'[LogOf(j)] = {j} \X said'[j]
        /\ j # job[l] => file'[LogOf(j)] = file[LogOf(j)] /\ said'[j] = said[j]
    BY <2>1, <2>2, <2>4, MarkGoesToOwnLog
  <2>6. CASE j = job[l]
    <3>1. Busy(l, j) /\ Busy(l, j)' /\ ~Waiting(j)'
      BY <1>3, <1>5, <2>1, <2>3, <2>6 DEF Busy, JobInv
    <3>2. verdict'[j] = "PENDING" /\ runs'[j] = 1
      BY <1>3, <1>5, <2>1, <3>1 DEF JobInv
    <3>3. \A m \in Lanes : Busy(m, j)' => m = l
      BY <1>3, <1>5, <2>1, <3>1 DEF JobInv
    <3> QED
      BY <1>2, <2>1, <2>5, <2>6, <3>1, <3>2, <3>3 DEF JobInv
  <2>7. CASE j # job[l]
    <3>1. ~Busy(l, j) /\ ~Busy(l, j)'
      BY <2>1, <2>7 DEF Busy
    <3> QED
      BY <1>2, <1>3, <1>5, <2>1, <2>5, <2>7, <3>1 DEF JobInv
  <2> QED
    BY <2>6, <2>7
<1>8. CASE RunClassifies(l)
  <2>1. /\ lane[l] = "classify" /\ lane'[l] = "get" /\ UNCHANGED <<job, file, said>>
        /\ job[l] \in Jobs /\ ~Get(l)
        /\ verdict' = [verdict EXCEPT ![job[l]] = Classify({w[2] : w \in file[LogOf(job[l])]})]
    BY <1>8 DEF RunClassifies, TypeOK, Get
  <2>2. ~Busy(l, j)'
    BY <2>1 DEF Busy
  <2>3. CASE j = job[l]
    <3>1. Busy(l, j) /\ ~Waiting(j)' /\ runs'[j] = 1 /\ file[LogOf(j)] = {j} \X said[j]
      BY <1>3, <1>5, <2>1, <2>3 DEF Busy, JobInv
    <3>2. \A m \in Lanes : ~Busy(m, j)'
      BY <1>3, <1>5, <2>1, <2>2, <3>1 DEF JobInv
    <3>3. {w[2] : w \in file[LogOf(j)]} = said[j]
      <4>1. \A x \in said[j] : <<j, x>> \in file[LogOf(j)]
        BY <3>1
      <4>2. \A w \in file[LogOf(j)] : w[2] \in said[j]
        BY <3>1
      <4>3. ASSUME NEW x \in said[j] PROVE \E w \in file[LogOf(j)] : w[2] = x
        <5>1. <<j, x>> \in file[LogOf(j)] /\ <<j, x>>[2] = x
          BY <4>1
        <5> QED
          BY <5>1
      <4> QED
        BY <4>2, <4>3
    <3>4. verdict'[j] = Classify(said[j])
      BY <2>1, <2>3, <3>3 DEF TypeOK
    <3>5. verdict'[j] = "PASS" => said'[j] = {"PASSED"}
      BY <2>1, <3>4, PassMeansPassed
    <3> QED
      BY <3>1, <3>2, <3>5 DEF JobInv
  <2>4. CASE j # job[l]
    <3>1. verdict'[j] = verdict[j] /\ ~Busy(l, j)
      BY <2>1, <2>4 DEF Busy, TypeOK
    <3> QED
      BY <1>2, <1>3, <1>5, <2>1, <2>2, <3>1 DEF JobInv
  <2> QED
    BY <2>3, <2>4
<1>9. CASE RunRaises(l)
  <2>1. lane'[l] = "dead" /\ UNCHANGED <<job, file, said, verdict>> /\ ~Get(l)
    BY <1>9 DEF RunRaises, TypeOK, Get, outcome
  <2>2. ~Busy(l, j)'
    BY <2>1 DEF Busy
  <2> QED
    BY <1>2, <1>3, <1>5, <2>1, <2>2 DEF JobInv
<1> QED
  BY <1>4, <1>6, <1>7, <1>8, <1>9 DEF Runner

LEMMA RunStep ==
  ASSUME TypeOK, MakingInv, OrderInv, Named, RunInv, [Next]_vars
  PROVE  Named' /\ RunInv'
<1>1. nameOf' = nameOf
  BY RunnerBuild DEF Next, Builder, BuildNext, MakeEnds, PutJob, BuildersEnd, PutNone, BuilderRaises, JoinBuilder,
                     JoinRunners, given, vars
<1>2. CASE JoinBuilder \/ JoinRunners \/ UNCHANGED vars
  <2>1. UNCHANGED <<given, build, runq, lane, job, outcome, runs>>
    BY <1>2 DEF JoinBuilder, JoinRunners, vars
  <2> QED
    BY <1>1, <2>1 DEF given, build, outcome, Named, RunInv, JobInv, Waiting, Queued, Busy, LogOf
<1> QED
  BY <1>1, <1>2, BuilderRun, RunnerRun DEF Next, Named, RunInv

LEMMA RunInit == ASSUME SameName = FALSE, Init PROVE OrderInv /\ Named /\ RunInv
<1> USE DEF Init
<1>1. Len(runq) = 0 /\ Queued = {}
  BY EmptySeq DEF Queued
<1>2. OrderInv
  BY <1>1 DEF OrderInv, Once, NonesLast, Exited
<1>3. Named
  BY DEF Named
<1>4. RunInv
  BY DEF RunInv, JobInv, Busy
<1> QED
  BY <1>2, <1>3, <1>4

\* "Exit status is 0 only if every job reached a PASS verdict", and a verdict of PASS means that the job
\* was run once and that its own run wrote PASSED and nothing worse: of every command line whose
\* binaries have names of their own, whichever threads died.
THEOREM ZeroMeansPassed ==
  ASSUME SameName = FALSE
  PROVE  Spec => []ExitZeroIsPass
<1>1. Init => TypeOK /\ MakingInv /\ OrderInv /\ Named /\ RunInv
  BY TypeInit, RunInit
<1>2. TypeOK /\ MakingInv /\ OrderInv /\ Named /\ RunInv /\ [Next]_vars
        => (TypeOK /\ MakingInv /\ OrderInv /\ Named /\ RunInv)'
  BY TypeStep, OrderStep, RunStep
<1>3. RunInv => ExitZeroIsPass
  BY DEF RunInv, JobInv, ExitZeroIsPass, ExitStatus
<1> QED
  BY <1>1, <1>2, <1>3, PTL DEF Spec

-----------------------------------------------------------------------------
(***************************************************************************)
(* No job is forgotten: until it has its outcome it waits, or a lane runs  *)
(* it, or the lane that ran it died.  When a lane has seen a sentinel,     *)
(* nothing waits.                                                          *)
(***************************************************************************)
Kept(j) == \/ verdict[j] # "PENDING"
           \/ Waiting(j)
           \/ \E l \in Lanes : job[l] = j /\ lane[l] \in {"run", "sim", "classify", "dead"}

KeptInv ==
  /\ ~buildOnly => \A j \in Jobs : Kept(j)
  /\ main = "returned" => \A l \in Lanes : lane[l] \in {"exited", "dead"}

\* The builder forgets no job.
LEMMA BuilderKeeps ==
  ASSUME TypeOK, MakingInv, OrderInv, ~buildOnly, NEW j \in Jobs, Kept(j), Builder \/ BuilderRaises
  PROVE  Kept(j)'
<1>1. UNCHANGED <<configOf, lane, job>>
  BY DEF Builder, BuildNext, MakeEnds, PutJob, BuildersEnd, PutNone, BuilderRaises, given
<1>2. CASE verdict'[j] = verdict[j] /\ (Waiting(j) => Waiting(j)')
  BY <1>1, <1>2 DEF Kept
<1>3. CASE BuildNext \/ MakeEnds
  <2>1. toPut = {} /\ runq' = runq
    BY <1>3 DEF BuildNext, MakeEnds, OrderInv
  <2>2. CASE Ready(Current)
    BY <1>1, <1>2, <2>1, <2>2 DEF Ready, Waiting, Queued, OfConfig
  <2>3. CASE NoBuild(Current)
    <3>1. CASE configOf[j] = Current
      BY <2>3, <3>1 DEF NoBuild, Kept
    <3>2. CASE configOf[j] # Current
      BY <1>1, <1>2, <2>1, <2>3, <3>2 DEF NoBuild, Waiting, Queued
    <3> QED
      BY <3>1, <3>2
  <2>4. CASE UNCHANGED <<built, toPut, verdict>>
    BY <1>1, <1>2, <2>1, <2>4 DEF Waiting, Queued
  <2> QED
    BY <1>3, <2>2, <2>3, <2>4 DEF BuildNext, MakeEnds
<1>4. CASE PutJob
  <2>1. CASE toPut = {}
    BY <1>1, <1>2, <1>4, <2>1 DEF PutJob, Waiting, Queued, outcome
  <2>2. CASE toPut # {}
    <3>1. First(toPut) \in Jobs
      BY <2>2, FirstOf DEF TypeOK
    <3>2. Queued' = Queued \cup {First(toPut)}
      BY <1>4, <2>2, <3>1, PutQueued DEF PutJob
    <3> QED
      BY <1>1, <1>2, <1>4, <2>2, <3>2 DEF PutJob, Waiting, outcome
  <2> QED
    BY <2>1, <2>2
<1>5. CASE PutNone
  <2>1. CASE sentinels = 0
    BY <1>1, <1>2, <1>5, <2>1 DEF PutNone, Waiting, Queued, outcome
  <2>2. CASE sentinels # 0
    <3>1. Queued' = Queued \cup {None}
      BY <1>5, <2>2, PutQueued DEF PutNone
    <3> QED
      BY <1>1, <1>2, <1>5, <3>1 DEF PutNone, Waiting, outcome
  <2> QED
    BY <2>1, <2>2
<1>6. CASE BuildersEnd \/ BuilderRaises
  BY <1>1, <1>2, <1>6 DEF BuildersEnd, BuilderRaises, Waiting, Queued, outcome
<1> QED
  BY <1>3, <1>4, <1>5, <1>6 DEF Builder

\* The runners forget none either: a lane leaves a job with its verdict, or dies with it.
LEMMA RunnerKeeps ==
  ASSUME TypeOK, NEW l \in Lanes, Runner(l) \/ SimPrints(l) \/ RunRaises(l), NEW j \in Jobs, Kept(j)
  PROVE  Kept(j)'
<1>1. UNCHANGED <<configOf, built, toPut>>
  BY RunnerBuild DEF given, build
<1>2. CASE Get(l)
  <2>1. Queued = Queued' \cup {Head(runq)}
    BY <1>2, GetQueued DEF Get
  <2>2. j = Head(runq) => job'[l] = j /\ lane'[l] = "run"
    BY <1>2 DEF Get, TypeOK, Jobs, None
  <2>3. \A m \in Lanes : lane[m] # "get" => job'[m] = job[m] /\ lane'[m] = lane[m]
    BY <1>2 DEF Get, TypeOK
  <2> QED
    BY <1>1, <1>2, <2>1, <2>2, <2>3 DEF Get, Kept, Waiting, outcome
<1>3. CASE RunOpens(l) \/ SimPrints(l) \/ SimEnds(l) \/ RunRaises(l)
  <2>1. UNCHANGED <<runq, job, verdict>>
    BY <1>3 DEF RunOpens, SimPrints, SimEnds, RunRaises, outcome
  <2>2. /\ lane'[l] \in {"run", "sim", "classify", "dead"}
        /\ \A m \in Lanes : m # l => lane'[m] = lane[m]
    BY <1>3 DEF RunOpens, SimPrints, SimEnds, RunRaises, TypeOK
  <2> QED
    BY <1>1, <2>1, <2>2 DEF Kept, Waiting, Queued
<1>4. CASE RunClassifies(l)
  <2>1. \A marks : Classify(marks) # "PENDING"
    BY DEF Classify
  <2>2. UNCHANGED <<runq, job>> /\ \A m \in Lanes : m # l => lane'[m] = lane[m]
    BY <1>4 DEF RunClassifies, TypeOK
  <2>3. IF j = job[l] THEN verdict'[j] # "PENDING" ELSE verdict'[j] = verdict[j]
    BY <1>4, <2>1 DEF RunClassifies, TypeOK
  <2> QED
    BY <1>1, <2>2, <2>3 DEF Kept, Waiting, Queued
<1> QED
  BY <1>2, <1>3, <1>4 DEF Runner

LEMMA KeptStep ==
  ASSUME TypeOK, MakingInv, OrderInv, KeptInv, [Next]_vars
  PROVE  KeptInv'
<1>1. buildOnly' = buildOnly
  BY RunnerBuild DEF Next, Builder, BuildNext, MakeEnds, PutJob, BuildersEnd, PutNone, BuilderRaises, JoinBuilder,
                     JoinRunners, given, vars
<1>2. CASE Builder \/ BuilderRaises
  <2>1. UNCHANGED <<main, lane>>
    BY <1>2 DEF Builder, BuildNext, MakeEnds, PutJob, BuildersEnd, PutNone, BuilderRaises
  <2> QED
    BY <1>1, <1>2, <2>1, BuilderKeeps DEF KeptInv
<1>3. ASSUME NEW l \in Lanes, Runner(l) \/ SimPrints(l) \/ RunRaises(l) PROVE KeptInv'
  <2>1. main' = main
    BY <1>3, RunnerBuild
  <2>2. main = "returned" => FALSE
    BY <1>3 DEF KeptInv, Runner, Get, RunOpens, SimPrints, SimEnds, RunClassifies, RunRaises
  <2> QED
    BY <1>1, <1>3, <2>1, <2>2, RunnerKeeps DEF KeptInv
<1>4. CASE JoinBuilder \/ JoinRunners \/ UNCHANGED vars
  <2>1. UNCHANGED <<given, build, runq, lane, job, outcome>>
    BY <1>4 DEF JoinBuilder, JoinRunners, vars
  <2>2. main' = "returned" => \A l \in Lanes : lane[l] \in {"exited", "dead"}
    BY <1>4 DEF JoinBuilder, JoinRunners, vars, KeptInv
  <2> QED
    BY <2>1, <2>2 DEF KeptInv, Kept, Waiting, Queued, given, build, outcome
<1> QED
  BY <1>2, <1>3, <1>4 DEF Next

\* "Block until every job finishes": when schedule returns, its builder ended and a lane saw its
\* sentinel, every job has its outcome but those whose lane died under them.
THEOREM NoneForgotten == Spec => []AllFinished
<1>1. Init => TypeOK /\ MakingInv /\ OrderInv /\ KeptInv
  <2> SUFFICES ASSUME Init PROVE OrderInv /\ KeptInv
    BY TypeInit
  <2>1. Len(runq) = 0 /\ Queued = {}
    BY EmptySeq DEF Init, Queued
  <2>2. OrderInv
    BY <2>1 DEF Init, OrderInv, Once, NonesLast, Exited
  <2>3. KeptInv
    BY DEF Init, KeptInv, Kept, Waiting
  <2> QED
    BY <2>2, <2>3
<1>2. TypeOK /\ MakingInv /\ OrderInv /\ KeptInv /\ [Next]_vars => (TypeOK /\ MakingInv /\ OrderInv /\ KeptInv)'
  BY TypeStep, OrderStep, KeptStep
<1>3. OrderInv /\ KeptInv => AllFinished
  <2> SUFFICES ASSUME OrderInv, KeptInv, main = "returned", ~buildOnly, builder = "ended", Exited, NEW j \in Jobs
               PROVE  verdict[j] # "PENDING" \/ \E l \in Lanes : lane[l] = "dead" /\ job[l] = j
    BY DEF AllFinished, Exited
  <2>1. ~Waiting(j)
    BY DEF OrderInv, Waiting, Unbuilt, Jobs, None
  <2>2. \A l \in Lanes : lane[l] \notin {"run", "sim", "classify"}
    BY DEF KeptInv
  <2> QED
    BY <2>1, <2>2 DEF KeptInv, Kept
<1> QED
  BY <1>1, <1>2, <1>3, PTL DEF Spec
=============================================================================
