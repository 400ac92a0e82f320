---------------------------- MODULE WorkloadProofs ----------------------------
(***************************************************************************)
(* For any number of processes, recipes, samples and devices: the slices   *)
(* of the workers cover every sample once, and whatever is read from the   *)
(* cache or returned is a record of every sample of what was asked for.    *)
(***************************************************************************)
EXTENDS Workload, WellFoundedInduction, FiniteSetTheorems, TLAPS

LEMMA Division ==
  ASSUME NEW x \in Nat, NEW y \in Nat \ {0}
  PROVE  /\ x \div y \in Nat /\ x % y \in Nat /\ x % y < y
         /\ x = y * (x \div y) + (x % y)
BY Z3

(* A quotient is known by its remainder. *)
LEMMA Quotient ==
  ASSUME NEW y \in Nat \ {0}, NEW q \in Int, NEW r \in Nat, r < y,
         NEW k \in Int, NEW t \in Nat, t < y, y * q + r = y * k + t
  PROVE  q = k /\ r = t
BY SMT

(* A larger product of the same factor comes from a larger factor. *)
LEMMA Factor ==
  ASSUME NEW y \in Nat \ {0}, NEW q \in Int, NEW k \in Int, NEW r \in Nat, r < y, NEW t \in Nat, t < y,
         y * q + r <= y * k + t
  PROVE  q <= k
BY SMT

-----------------------------------------------------------------------------
(* round() is a whole number, the number itself if it is whole, and does   *)
(* not decrease.                                                           *)
LEMMA RoundType == ASSUME NEW a \in Nat, NEW b \in Nat \ {0} PROVE Round(a, b) \in Nat
<1>1. 2 * a + b \in Nat /\ 2 * b \in Nat \ {0}
  OBVIOUS
<1>2. (2 * a + b) \div (2 * b) \in Nat
  BY <1>1, Division
<1>3. ASSUME NEW q \in Nat, q % 2 = 1 PROVE q - 1 \in Nat
  BY <1>3
<1> QED
  BY <1>2, <1>3 DEF Round

LEMMA RoundWhole == ASSUME NEW k \in Nat, NEW b \in Nat \ {0} PROVE Round(k * b, b) = k
<1> DEFINE x == 2 * (k * b) + b
           y == 2 * b
<1>1. x \in Nat /\ y \in Nat \ {0} /\ b < y /\ x = y * k + b
  OBVIOUS
<1>2. x \div y \in Nat /\ x % y \in Nat /\ x % y < y /\ x = y * (x \div y) + (x % y)
  BY <1>1, Division
<1>3. x \div y = k /\ x % y = b
  <2> HIDE DEF x, y
  <2> QED
    BY <1>1, <1>2, Quotient
<1> QED
  BY <1>3 DEF Round

LEMMA RoundGrows ==
  ASSUME NEW a \in Nat, NEW c \in Nat, a <= c, NEW b \in Nat \ {0}
  PROVE  Round(a, b) <= Round(c, b)
<1> DEFINE x == 2 * a + b
           z == 2 * c + b
           y == 2 * b
<1>1. x \in Nat /\ z \in Nat /\ y \in Nat \ {0} /\ x <= z /\ (x = z => a = c)
  OBVIOUS
<1>2. /\ x \div y \in Nat /\ x % y \in Nat /\ x % y < y /\ x = y * (x \div y) + (x % y)
      /\ z \div y \in Nat /\ z % y \in Nat /\ z % y < y /\ z = y * (z \div y) + (z % y)
  BY <1>1, Division
<1>3. Round(a, b) = IF x % y = 0 /\ (x \div y) % 2 = 1 THEN (x \div y) - 1 ELSE x \div y
  BY DEF Round
<1>4. Round(c, b) = IF z % y = 0 /\ (z \div y) % 2 = 1 THEN (z \div y) - 1 ELSE z \div y
  BY DEF Round
<1> HIDE DEF x, y, z
<1>5. x \div y <= z \div y
  BY <1>1, <1>2, Factor
<1>6. CASE x \div y < z \div y
  BY <1>2, <1>3, <1>4, <1>6
<1>7. CASE x \div y = z \div y
  <2>1. x % y <= z % y /\ (z % y = 0 => x % y = 0)
    BY <1>1, <1>2, <1>7
  <2> QED
    BY <1>2, <1>3, <1>4, <1>7, <2>1
<1> QED
  BY <1>2, <1>5, <1>6, <1>7

-----------------------------------------------------------------------------
(* The slices of d devices partition the samples.                          *)
LEMMA BoundFacts ==
  ASSUME NEW total \in Nat, NEW d \in Nat \ {0}
  PROVE  /\ \A i \in Nat : Bound(i, total, d) \in Nat
         /\ \A i, j \in Nat : i <= j => Bound(i, total, d) <= Bound(j, total, d)
         /\ Bound(0, total, d) = 0 /\ Bound(d, total, d) = total
<1>1. ASSUME NEW i \in Nat PROVE Bound(i, total, d) \in Nat
  BY RoundType DEF Bound
<1>2. ASSUME NEW i \in Nat, NEW j \in Nat, i <= j PROVE Bound(i, total, d) <= Bound(j, total, d)
  <2>1. i * total \in Nat /\ j * total \in Nat /\ i * total <= j * total
    BY <1>2
  <2> QED
    BY <2>1, RoundGrows DEF Bound
<1>3. Bound(0, total, d) = 0
  <2>1. 0 * total = 0 * d
    OBVIOUS
  <2> QED
    BY <2>1, RoundWhole DEF Bound
<1>4. Bound(d, total, d) = total
  <2>1. d * total = total * d
    OBVIOUS
  <2> QED
    BY <2>1, RoundWhole DEF Bound
<1> QED
  BY <1>1, <1>2, <1>3, <1>4

(* A set of numbers that is not empty has a smallest member. *)
LEMMA Smallest == ASSUME NEW S \in SUBSET Nat, S # {} PROVE \E n \in S : \A m \in S : n <= m
<1>1. PICK n \in S : \A m \in S : ~ (<<m, n>> \in OpToRel(<, Nat))
  BY NatLessThanWellFounded, WFMin
<1>2. ASSUME NEW m \in S PROVE n <= m
  <2>1. m \in Nat /\ n \in Nat
    OBVIOUS
  <2>2. m < n => <<m, n>> \in OpToRel(<, Nat)
    BY <2>1 DEF OpToRel
  <2>3. ~ (m < n)
    BY <1>1, <2>2, Zenon
  <2> QED
    BY <2>1, <2>3
<1> QED
  BY <1>2

LEMMA OneSlice ==
  ASSUME NEW total \in Nat, NEW d \in Nat \ {0}, NEW s \in 0..(total - 1)
  PROVE  \E i \in 1..d : /\ s \in Bound(i - 1, total, d)..(Bound(i, total, d) - 1)
                         /\ \A j \in 1..d : s \in Bound(j - 1, total, d)..(Bound(j, total, d) - 1) => j = i
<1> DEFINE B(i) == Bound(i, total, d)
           S == {i \in 0..d : s < B(i)}
<1>1. /\ \A i \in Nat : B(i) \in Nat
      /\ \A i, j \in Nat : i <= j => B(i) <= B(j)
      /\ B(0) = 0 /\ B(d) = total
  BY BoundFacts
<1> HIDE DEF B
<1>2. S \in SUBSET Nat /\ d \in S
  BY <1>1
<1>3. PICK i \in S : \A m \in S : i <= m
  <2> HIDE DEF S
  <2> QED
    BY <1>2, Smallest
<1>4. i \in 1..d /\ i - 1 \in 0..d
  BY <1>1, <1>3
<1>5. B(i - 1) <= s /\ s < B(i)
  <2>1. i - 1 \notin S
    BY <1>3, <1>4
  <2> QED
    BY <1>1, <1>3, <1>4, <2>1
<1>6. ASSUME NEW j \in 1..d, s \in B(j - 1)..(B(j) - 1) PROVE j = i
  <2>1. B(j - 1) \in Nat /\ B(j) \in Nat /\ B(j - 1) <= s /\ s < B(j)
    BY <1>1, <1>6
  <2>2. i <= j
    BY <1>3, <2>1
  <2>3. ~ (i <= j - 1)
    BY <1>1, <1>4, <1>5, <2>1
  <2> QED
    BY <1>4, <2>2, <2>3
<1>7. s \in B(i - 1)..(B(i) - 1)
  BY <1>1, <1>4, <1>5
<1> QED
  BY <1>4, <1>6, <1>7 DEF B

LEMMA TotalType == ASSUME NEW n \in NSamples PROVE Total(n) \in Nat
BY SamplesAssumption DEF Total

LEMMA SliceWithin ==
  ASSUME NEW p \in Procs, arg[p] \in Args, NEW i \in Devices, NEW s \in Slice(p, i)
  PROVE  s \in Nat /\ s < Total(arg[p].n)
<1> DEFINE total == Total(arg[p].n)
           d == arg[p].devices
<1>1. total \in Nat /\ d \in Nat \ {0} /\ i \in Nat \ {0} /\ i <= d
  <2>1. arg[p].n \in NSamples /\ d \in DeviceCounts
    BY DEF Args
  <2>2. i \in Nat \ {0}
    BY DevicesAssumption DEF Devices
  <2>3. i > d => Slice(p, i) = {}
    BY DEF Slice
  <2>4. d \in Nat \ {0}
    BY <2>1, DevicesAssumption
  <2>5. i <= d
    <3> HIDE DEF d
    <3> QED
      BY <2>2, <2>3, <2>4
  <2> QED
    BY <2>1, <2>2, <2>4, <2>5, TotalType
<1>2. /\ \A j \in Nat : Bound(j, total, d) \in Nat
      /\ \A j, k \in Nat : j <= k => Bound(j, total, d) <= Bound(k, total, d)
      /\ Bound(d, total, d) = total
  BY <1>1, BoundFacts
<1>3. s \in Bound(i - 1, total, d)..(Bound(i, total, d) - 1)
  BY <1>1 DEF Slice
<1> HIDE DEF total, d
<1>4. Bound(i - 1, total, d) \in Nat /\ Bound(i, total, d) \in Nat /\ Bound(i, total, d) <= total
  BY <1>1, <1>2
<1> QED
  BY <1>1, <1>3, <1>4 DEF total

(* So what is merged counts every sample once.                             *)
LEMMA MergedOnce ==
  ASSUME NEW p \in Procs, arg[p] \in Args
  PROVE  Merged(p) = [s \in 0..(Total(arg[p].n) - 1) |-> 1]
<1> DEFINE total == Total(arg[p].n)
           d == arg[p].devices
           S(i) == Bound(i - 1, total, d)..(Bound(i, total, d) - 1)
<1>1. total \in Nat /\ d \in Nat \ {0} /\ 1..d \subseteq Devices /\ \A i \in Devices : i \in Nat \ {0}
  <2>1. arg[p].n \in NSamples /\ d \in DeviceCounts
    BY DEF Args
  <2>2. 1..d \subseteq Devices
    BY <2>1 DEF Devices
  <2>3. ASSUME NEW i \in Devices PROVE i \in Nat \ {0}
    BY DevicesAssumption DEF Devices
  <2> QED
    BY <2>1, <2>2, <2>3, TotalType, DevicesAssumption
<1>2. ASSUME NEW i \in Devices PROVE PartName(p, i).slice = IF i \in 1..d THEN S(i) ELSE {}
  BY <1>1 DEF PartName, Slice
<1>3. Busy(p) = {i \in 1..d : S(i) # {}}
  BY <1>1, <1>2 DEF Busy, PartName
<1>4. ASSUME NEW i \in 1..d PROVE S(i) \subseteq 0..(total - 1)
  <2>1. i - 1 \in Nat /\ i \in Nat /\ d \in Nat /\ i <= d
    BY <1>1
  <2>2. Bound(i - 1, total, d) \in Nat /\ Bound(i, total, d) \in Nat /\ Bound(i, total, d) <= total
    <3>1. /\ \A j \in Nat : Bound(j, total, d) \in Nat
          /\ \A j, k \in Nat : j <= k => Bound(j, total, d) <= Bound(k, total, d)
          /\ Bound(d, total, d) = total
      BY <1>1, BoundFacts
    <3> HIDE DEF d, total
    <3> QED
      BY <2>1, <3>1
  <2> QED
    BY <1>1, <2>2
<1>5. ASSUME NEW s \in 0..(total - 1)
      PROVE  \E i \in Busy(p) : {j \in Busy(p) : s \in PartName(p, j).slice} = {i}
  <2>1. PICK i \in 1..d : s \in S(i) /\ \A j \in 1..d : s \in S(j) => j = i
    BY <1>1, OneSlice
  <2> HIDE DEF S, total, d
  <2> QED
    BY <1>1, <1>2, <1>3, <2>1
<1> HIDE DEF S, total, d
<1>6. UNION {PartName(p, i).slice : i \in Busy(p)} = 0..(total - 1)
  <2>1. ASSUME NEW i \in Busy(p) PROVE PartName(p, i).slice \subseteq 0..(total - 1)
    BY <1>1, <1>2, <1>3, <1>4
  <2>2. ASSUME NEW s \in 0..(total - 1) PROVE \E i \in Busy(p) : s \in PartName(p, i).slice
    BY <1>5
  <2> QED
    BY <2>1, <2>2
<1>7. ASSUME NEW s \in 0..(total - 1)
      PROVE  Cardinality({i \in Busy(p) : s \in PartName(p, i).slice}) = 1
  BY <1>5, FS_Singleton
<1> QED
  BY <1>6, <1>7 DEF Merged, total

-----------------------------------------------------------------------------
(***************************************************************************)
(* The invariant.                                                          *)
(***************************************************************************)
Once(n) == [s \in 0..(Total(n) - 1) |-> 1]
Record  == [state : {"none", "empty", "whole", "garbled"}, of : Keys,
            samples : {<<>>} \cup {Once(n) : n \in NSamples}]

RecordType ==
  /\ cache \in [Keys -> Record] /\ tmp \in [Keys -> Record]
  /\ pc \in [Procs -> Points] /\ arg \in [Procs -> Args] /\ phase \in [Procs -> Phases]
  /\ got \in [Procs -> Record] /\ result \in [Procs -> [Phases -> Record]]
  /\ open \in [Procs -> {"none", "tmp", "cache"}]

(* What p has merged is right until it is published; of the two            *)
(* measurements of a call the one of the recipe comes first.               *)
Own(p) ==
  /\ pc[p] \in {"tmp", "fill", "replace", "unlink"} => Right(got[p], Key(p))
  /\ pc[p] # "idle" /\ phase[p] = "recipe" => arg[p].recipe # "bf16"
  /\ pc[p] # "idle" /\ phase[p] = "bf16" /\ arg[p].recipe # "bf16"
       => Right(result[p]["recipe"], <<arg[p].recipe, arg[p].n>>)
  /\ pc[p] = "return" => phase[p] = "bf16" /\ Right(result[p]["bf16"], <<"bf16", arg[p].n>>)

TmpRight == \A k \in Keys : tmp[k].state = "whole" => Right(tmp[k], k)

RecordInv == RecordType /\ CacheRight /\ TmpRight /\ \A p \in Procs : Own(p)

LEMMA Constants ==
  /\ AnyKey \in Keys /\ AnyArg \in Args
  /\ \A state \in {"none", "empty", "whole", "garbled"} : Blank(state) \in Record /\ Blank(state).state = state
  /\ NoFile \in Record /\ NoFile.state = "none"
<1>1. PICK n \in NSamples : TRUE
  BY SamplesAssumption
<1>2. <<"bf16", n>> \in Keys
  BY <1>1 DEF Keys
<1>3. AnyKey \in Keys
  BY <1>2 DEF AnyKey
<1>4. AnyArg \in Args
  BY SamplesAssumption, DevicesAssumption DEF AnyArg, Args
<1> QED
  BY <1>3, <1>4 DEF Blank, NoFile, Record

LEMMA RecordInit == Init => RecordInv
BY Constants DEF Init, RecordInv, RecordType, CacheRight, TmpRight, Own, Points, Phases

LEMMA KeyType ==
  ASSUME RecordType, NEW p \in Procs
  PROVE  Key(p) \in Keys /\ Key(p)[2] = arg[p].n /\ arg[p].n \in NSamples
BY DEF RecordType, Key, Keys, Subject, Args

LEMMA RightType == ASSUME NEW k \in Keys, NEW file, Right(file, k) PROVE file \in Record /\ file.state = "whole"
BY DEF Right, Record, Once, Keys

-----------------------------------------------------------------------------
(***************************************************************************)
(* The steps.                                                              *)
(***************************************************************************)
LEMMA Bystander ==
  ASSUME NEW q \in Procs, Own(q), pc'[q] = pc[q], arg'[q] = arg[q], phase'[q] = phase[q],
         got'[q] = got[q], result'[q] = result[q]
  PROVE  Own(q)'
BY DEF Own, Key, Subject, Right

(* A process goes on, and neither publishes nor has what it asked for. *)
LEMMA Moves ==
  ASSUME RecordInv, NEW p \in Procs, pc[p] # "idle",
         NEW to \in Points \ {"tmp", "fill", "replace", "unlink", "return"}, Goto(p, to),
         UNCHANGED <<cache, tmp, arg, phase, got, result>>, open' \in [Procs -> {"none", "tmp", "cache"}]
  PROVE  RecordInv'
<1>1. RecordType'
  BY DEF RecordInv, RecordType, Goto
<1>2. CacheRight' /\ TmpRight'
  BY DEF RecordInv, CacheRight, TmpRight, Right
<1>3. ASSUME NEW q \in Procs PROVE Own(q)'
  <2>1. CASE q # p
    BY <2>1, Bystander DEF RecordInv, RecordType, Goto
  <2>2. CASE q = p
    <3>1. Own(p) /\ pc'[p] = to
      BY DEF RecordInv, RecordType, Goto
    <3> QED
      BY <2>2, <3>1 DEF Own, Right, Key, Subject
  <2> QED
    BY <2>1, <2>2
<1> QED
  BY <1>1, <1>2, <1>3 DEF RecordInv

LEMMA Stays ==
  ASSUME RecordInv, UNCHANGED <<cache, tmp, call, got, result, open>>
  PROVE  RecordInv'
BY DEF RecordInv, RecordType, CacheRight, TmpRight, Own, Key, Subject, Right, call

(* The call has the measurement of its phase. *)
LEMMA Measured ==
  ASSUME RecordInv, NEW p \in Procs, pc[p] \notin {"idle", "return"}, NEW file, Right(file, Key(p)),
         result' = [result EXCEPT ![p][phase[p]] = file],
         IF phase[p] = "recipe" THEN Goto(p, "look") /\ phase' = [phase EXCEPT ![p] = "bf16"]
                                ELSE Goto(p, "return") /\ UNCHANGED phase,
         UNCHANGED <<cache, tmp, arg, open>>,
         got' \in [Procs -> Record], \A q \in Procs \ {p} : got'[q] = got[q]
  PROVE  RecordInv'
<1>1. RecordType'
  <2>1. file \in Record
    BY KeyType, RightType DEF RecordInv
  <2> QED
    BY <2>1 DEF RecordInv, RecordType, Goto, Points, Phases
<1>2. CacheRight' /\ TmpRight'
  BY DEF RecordInv, CacheRight, TmpRight, Right
<1>3. ASSUME NEW q \in Procs PROVE Own(q)'
  <2>1. CASE q # p
    BY <2>1, Bystander DEF RecordInv, RecordType, Goto
  <2>2. CASE q = p
    <3>1. Own(p) /\ RecordType
      BY DEF RecordInv
    <3>2. CASE phase[p] = "recipe"
      <4>1. pc'[p] = "look" /\ phase'[p] = "bf16" /\ result'[p]["recipe"] = file
        BY <3>1, <3>2 DEF RecordType, Goto, Phases
      <4>2. Key(p) = <<arg[p].recipe, arg[p].n>>
        BY <3>2 DEF Key, Subject
      <4> QED
        BY <2>2, <3>1, <4>1, <4>2 DEF Own, Right
    <3>3. CASE phase[p] = "bf16"
      <4>1. pc'[p] = "return" /\ phase'[p] = "bf16" /\ result'[p]["bf16"] = file
            /\ result'[p]["recipe"] = result[p]["recipe"]
        BY <3>1, <3>3 DEF RecordType, Goto, Phases
      <4>2. Key(p) = <<"bf16", arg[p].n>>
        BY <3>3 DEF Key, Subject
      <4> QED
        BY <2>2, <3>1, <3>3, <4>1, <4>2 DEF Own, Right
    <3> QED
      BY <3>1, <3>2, <3>3 DEF RecordType, Phases
  <2> QED
    BY <2>1, <2>2
<1> QED
  BY <1>1, <1>2, <1>3 DEF RecordInv

LEMMA CallStep == ASSUME RecordInv, NEW p \in Procs, Call(p) PROVE RecordInv'
<1>1. PICK a \in Args : arg' = [arg EXCEPT ![p] = a]
                       /\ phase' = [phase EXCEPT ![p] = IF a.recipe = "bf16" THEN "bf16" ELSE "recipe"]
  BY DEF Call
<1>2. pc' = [pc EXCEPT ![p] = "look"] /\ UNCHANGED <<cache, tmp, got, result, open>>
  BY DEF Call, Goto, files, locals
<1>3. RecordType'
  BY <1>1, <1>2 DEF RecordInv, RecordType, Points, Phases
<1>4. CacheRight' /\ TmpRight'
  BY <1>2 DEF RecordInv, CacheRight, TmpRight, Right
<1>5. ASSUME NEW q \in Procs PROVE Own(q)'
  <2>1. CASE q # p
    BY <1>1, <1>2, <2>1, Bystander DEF RecordInv, RecordType
  <2>2. CASE q = p
    BY <1>1, <1>2, <2>2 DEF RecordInv, RecordType, Own
  <2> QED
    BY <2>1, <2>2
<1> QED
  BY <1>3, <1>4, <1>5 DEF RecordInv

LEMMA LookStep == ASSUME RecordInv, NEW p \in Procs, Look(p) PROVE RecordInv'
<1> DEFINE file == cache[Key(p)]
<1>1. Key(p) \in Keys /\ pc[p] = "look"
  BY KeyType DEF RecordInv, Look, At
<1>2. CASE file.state = "none" \/ arg[p].force
  BY <1>1, <1>2, Moves DEF Look, Points, Guarded, files, RecordInv, RecordType
<1>3. CASE ~(file.state = "none" \/ arg[p].force) /\ file.state = "whole"
  <2>1. Right(file, Key(p))
    BY <1>1, <1>3 DEF RecordInv, CacheRight
  <2>2. Have(p, file) /\ UNCHANGED <<cache, tmp>>
    BY <1>3 DEF Look, files
  <2> QED
    BY <1>1, <2>1, <2>2, Measured DEF Have, RecordInv, RecordType
<1>4. CASE ~(file.state = "none" \/ arg[p].force) /\ file.state # "whole"
  BY <1>1, <1>4, Moves DEF Look, Points, files, RecordInv, RecordType
<1> QED
  BY <1>2, <1>3, <1>4

LEMMA MergeStep == ASSUME RecordInv, NEW p \in Procs, Merge(p) PROVE RecordInv'
<1>1. CASE PartsOf(p) \subseteq parts
  <2> DEFINE file == [state |-> "whole", of |-> Key(p), samples |-> Merged(p)]
  <2>1. /\ got' = [got EXCEPT ![p] = file] /\ pc' = [pc EXCEPT ![p] = "tmp"] /\ pc[p] = "merge"
        /\ UNCHANGED <<cache, tmp, arg, phase, open, result>>
    BY <1>1 DEF Merge, Goto, At
  <2>2. Right(file, Key(p)) /\ file \in Record
    <3>1. Merged(p) = Once(arg[p].n)
      BY MergedOnce DEF RecordInv, RecordType, Once
    <3>2. Key(p) \in Keys /\ Key(p)[2] = arg[p].n
      BY KeyType DEF RecordInv
    <3>3. Right(file, Key(p))
      BY <3>1, <3>2 DEF Right, Once
    <3> QED
      BY <3>2, <3>3, RightType
  <2> HIDE DEF file
  <2>3. RecordType'
    BY <2>1, <2>2 DEF RecordInv, RecordType, Points
  <2>4. CacheRight' /\ TmpRight'
    BY <2>1 DEF RecordInv, CacheRight, TmpRight, Right
  <2>5. ASSUME NEW q \in Procs PROVE Own(q)'
    <3>1. CASE q # p
      BY <2>1, <3>1, Bystander DEF RecordInv, RecordType
    <3>2. CASE q = p
      <4>1. Own(p) /\ pc'[p] = "tmp" /\ got'[p] = file
        BY <2>1 DEF RecordInv, RecordType
      <4> QED
        BY <2>1, <2>2, <3>2, <4>1 DEF Own, Key, Subject, Right
    <3> QED
      BY <3>1, <3>2
  <2> QED
    BY <2>3, <2>4, <2>5 DEF RecordInv
<1>2. CASE ~(PartsOf(p) \subseteq parts)
  BY <1>2, Moves DEF Merge, At, Points, RecordInv, RecordType
<1> QED
  BY <1>1, <1>2

LEMMA OpenTmpStep == ASSUME RecordInv, NEW p \in Procs, OpenTmp(p) PROVE RecordInv'
<1>1. /\ tmp' = [tmp EXCEPT ![Key(p)] = Blank("empty")] /\ open' = [open EXCEPT ![p] = "tmp"]
      /\ pc' = [pc EXCEPT ![p] = "fill"] /\ pc[p] = "tmp"
      /\ UNCHANGED <<cache, arg, phase, got, result>>
  BY DEF OpenTmp, Goto, At
<1>2. RecordType'
  BY <1>1, Constants DEF RecordInv, RecordType, Points
<1>3. CacheRight' /\ TmpRight'
  BY <1>1, Constants DEF RecordInv, RecordType, CacheRight, TmpRight, Right
<1>4. ASSUME NEW q \in Procs PROVE Own(q)'
  BY <1>1, Bystander DEF RecordInv, RecordType, Own, Key, Subject, Right
<1> QED
  BY <1>2, <1>3, <1>4 DEF RecordInv

LEMMA FillStep == ASSUME RecordInv, NEW p \in Procs, Fill(p) PROVE RecordInv'
<1>1. /\ pc' = [pc EXCEPT ![p] = "replace"] /\ pc[p] = "fill" /\ open' = [open EXCEPT ![p] = "none"]
      /\ UNCHANGED <<arg, phase, got, result>>
  BY DEF Fill, Goto, At
<1>2. Key(p) \in Keys /\ Right(got[p], Key(p)) /\ got[p] \in Record
  BY <1>1, KeyType DEF RecordInv, RecordType, Own
<1>3. ASSUME NEW old, NEW f \in Filled(p, old)
      PROVE  f \in Record /\ (f.state = "whole" => Right(f, Key(p)))
  BY <1>2, Constants DEF Filled
<1> DEFINE After == /\ cache' \in [Keys -> Record] /\ tmp' \in [Keys -> Record]
                    /\ \A k \in Keys : cache'[k].state = "whole" => Right(cache'[k], k)
                    /\ \A k \in Keys : tmp'[k].state = "whole" => Right(tmp'[k], k)
<1>4. After
  <2>1. ASSUME UNCHANGED cache, NEW f \in Filled(p, tmp[Key(p)]), tmp' = [tmp EXCEPT ![Key(p)] = f]
        PROVE  After
    BY <1>2, <1>3, <2>1 DEF RecordInv, RecordType, CacheRight, TmpRight
  <2>2. ASSUME UNCHANGED tmp, NEW f \in Filled(p, cache[Key(p)]), cache' = [cache EXCEPT ![Key(p)] = f]
        PROVE  After
    BY <1>2, <1>3, <2>2 DEF RecordInv, RecordType, CacheRight, TmpRight
  <2>3. ASSUME UNCHANGED <<cache, tmp>>
        PROVE  After
    BY <2>3 DEF RecordInv, RecordType, CacheRight, TmpRight
  <2> QED
    BY <2>1, <2>2, <2>3 DEF Fill
<1>5. RecordType'
  BY <1>1, <1>4 DEF RecordInv, RecordType, Points
<1>6. CacheRight' /\ TmpRight'
  BY <1>4 DEF CacheRight, TmpRight, Right
<1>7. ASSUME NEW q \in Procs PROVE Own(q)'
  BY <1>1, Bystander DEF RecordInv, RecordType, Own, Key, Subject, Right
<1> QED
  BY <1>5, <1>6, <1>7 DEF RecordInv

LEMMA ReplaceStep == ASSUME RecordInv, NEW p \in Procs, Replace(p) PROVE RecordInv'
<1>1. CASE tmp[Key(p)].state = "none"
  BY <1>1, Moves DEF Replace, At, Points, RecordInv, RecordType
<1>2. CASE tmp[Key(p)].state # "none"
  <2>1. /\ cache' = [cache EXCEPT ![Key(p)] = tmp[Key(p)]] /\ tmp' = [tmp EXCEPT ![Key(p)] = NoFile]
        /\ pc' = [pc EXCEPT ![p] = "unlink"] /\ pc[p] = "replace"
        /\ UNCHANGED <<arg, phase, got, result>>
    BY <1>2 DEF Replace, Goto, At
  <2>2. open' \in [Procs -> {"none", "tmp", "cache"}]
    BY <1>2 DEF Replace, RecordInv, RecordType
  <2>3. Key(p) \in Keys
    BY KeyType DEF RecordInv
  <2>4. RecordType'
    BY <2>1, <2>2, <2>3, Constants DEF RecordInv, RecordType, Points
  <2>5. CacheRight' /\ TmpRight'
    BY <2>1, <2>3, Constants DEF RecordInv, RecordType, CacheRight, TmpRight, Right
  <2>6. ASSUME NEW q \in Procs PROVE Own(q)'
    BY <2>1, Bystander DEF RecordInv, RecordType, Own, Key, Subject, Right
  <2> QED
    BY <2>4, <2>5, <2>6 DEF RecordInv
<1> QED
  BY <1>1, <1>2

LEMMA UnlinkStep == ASSUME RecordInv, NEW p \in Procs, Unlink(p) PROVE RecordInv'
<1>1. pc[p] = "unlink" /\ Right(got[p], Key(p))
  BY DEF Unlink, At, RecordInv, Own
<1>2. got' \in [Procs -> Record] /\ \A q \in Procs \ {p} : got'[q] = got[q]
  BY Constants DEF Unlink, RecordInv, RecordType
<1> QED
  BY <1>1, <1>2, Measured DEF Unlink

LEMMA EndStep == ASSUME RecordInv, NEW p \in Procs, Leave(p) \/ Kill(p) PROVE RecordInv'
<1>1. /\ pc' = [pc EXCEPT ![p] = "idle"]
      /\ arg' = [arg EXCEPT ![p] = AnyArg] /\ phase' = [phase EXCEPT ![p] = "recipe"]
      /\ got' = [got EXCEPT ![p] = NoFile] /\ open' = [open EXCEPT ![p] = "none"]
      /\ result' = [result EXCEPT ![p] = [f \in Phases |-> NoFile]]
      /\ UNCHANGED <<cache, tmp>>
  BY DEF Leave, Kill, Forget, Goto
<1>2. RecordType'
  BY <1>1, Constants DEF RecordInv, RecordType, Points, Phases
<1>3. CacheRight' /\ TmpRight'
  BY <1>1 DEF RecordInv, CacheRight, TmpRight, Right
<1>4. ASSUME NEW q \in Procs PROVE Own(q)'
  BY <1>1, Bystander DEF RecordInv, RecordType, Own
<1> QED
  BY <1>2, <1>3, <1>4 DEF RecordInv

LEMMA RecordStep == RecordInv /\ [Next]_vars => RecordInv'
<1> SUFFICES ASSUME RecordInv, [Next]_vars PROVE RecordInv'
  OBVIOUS
<1>1. ASSUME NEW p \in Procs, TestCopy(p) \/ OpenCopy(p) \/ WriteCopy(p) \/ Spawn(p) \/ Wait(p)
      PROVE  RecordInv'
  <2>1. PICK to \in {"opencopy", "spawn", "writecopy", "wait", "failed", "merge"} : Goto(p, to)
    BY <1>1 DEF TestCopy, OpenCopy, WriteCopy, Spawn, Wait
  <2>2. pc[p] # "idle" /\ UNCHANGED <<cache, tmp, arg, phase, got, result, open>>
    BY <1>1 DEF TestCopy, OpenCopy, WriteCopy, Spawn, Wait, At, files, locals
  <2> QED
    BY <2>1, <2>2, Moves DEF Points, Guarded, RecordInv, RecordType
<1>2. ASSUME NEW p \in Procs, NEW i \in Devices, Load(p, i) \/ Measure(p, i) \/ Break(p, i)
      PROVE  RecordInv'
  <2>1. UNCHANGED <<cache, tmp, call, got, result, open>>
    BY <1>2 DEF Load, Measure, Break, files
  <2> QED
    BY <2>1, Stays
<1>3. ASSUME NEW p \in Procs, Interrupt(p) PROVE RecordInv'
  <2>1. /\ pc[p] # "idle" /\ Goto(p, "failed") /\ open' = [open EXCEPT ![p] = "none"]
        /\ UNCHANGED <<cache, tmp, arg, phase, got, result>>
    BY <1>3 DEF Interrupt
  <2> QED
    BY <2>1, Moves DEF Points, RecordInv, RecordType
<1>4. CASE UNCHANGED vars
  BY <1>4, Stays DEF vars, files, locals
<1> QED
  BY <1>1, <1>2, <1>3, <1>4, CallStep, LookStep, MergeStep, OpenTmpStep, FillStep, ReplaceStep,
     UnlinkStep, EndStep DEF Next

LEMMA RecordAlways == Spec => []RecordInv
BY RecordInit, RecordStep, PTL DEF Spec

(* CacheRight of Workload, for every interleaving of calls, failures,      *)
(* interruptions and kills of workload.py's _measure.                      *)
THEOREM CacheIsRight == Spec => []CacheRight
<1>1. RecordInv => CacheRight
  BY DEF RecordInv
<1> QED
  BY <1>1, RecordAlways, PTL

(* ResultRight of Workload: what evaluate() and bf16() return.             *)
THEOREM ResultIsRight == Spec => []ResultRight
<1>1. RecordInv => ResultRight
  BY DEF RecordInv, Own, ResultRight, At
<1> QED
  BY <1>1, RecordAlways, PTL

-----------------------------------------------------------------------------
(***************************************************************************)
(* Why a call fails.                                                       *)
(***************************************************************************)
Reason(p) == excuse[p] \/ Total(arg[p].n) > Split

WorkType ==
  /\ content \in [Recipes -> {"none", "empty", "whole"}]
  /\ worker \in [Procs -> [Devices -> Workers]]
  /\ excuse \in [Procs -> BOOLEAN]

(* Workers are there while their call waits for them, for a slice that is  *)
(* not empty; the part of one that is done is there, too.                  *)
WorkersInv(p) ==
  /\ \A i \in Devices : worker[p][i] # "none" => pc[p] \in {"wait", "merge"} /\ i \in Busy(p)
  /\ \A i \in Devices : worker[p][i] = "failed" => Reason(p)
  /\ \A i \in Devices : worker[p][i] = "done" => PartName(p, i) \in parts
  /\ pc[p] = "merge" => \A i \in Busy(p) : worker[p][i] = "done"

(* A worker of a recipe has a copy to read...                              *)
CopyInv(p) ==
  /\ pc[p] \in {"test", "opencopy", "writecopy"} => Subject(p) \in Recipes
  /\ pc[p] \in {"spawn", "wait"} /\ Subject(p) # "bf16" => content[Subject(p)] # "none"

(* ...and if it is half written, somebody is writing it or has left it so. *)
TornInv == \A r \in Recipes : content[r] = "empty" =>
              r \in torn \/ \E q \in Procs : pc[q] = "writecopy" /\ Subject(q) = r

(* Whoever publishes without a rival has the temporary file to itself.     *)
TmpInv(p) ==
  pc[p] \in {"fill", "replace"} /\ (~excuse[p] \/ Key(p) \notin raced) =>
    /\ Rivals(p) = {}
    /\ pc[p] = "fill" => open[p] = "tmp" /\ tmp[Key(p)].state = "empty"
    /\ pc[p] = "replace" => tmp[Key(p)].state = "whole"

(* So only a race leaves a cache file that cannot be read.                 *)
CacheInv == \A k \in Keys : cache[k].state \in {"empty", "garbled"} => k \in raced

Local(p) == (pc[p] = "failed" => Reason(p)) /\ WorkersInv(p) /\ CopyInv(p)

FailInv == /\ RecordInv /\ WorkType /\ TornInv /\ CacheInv
           /\ \A p \in Procs : Local(p) /\ TmpInv(p)

LEMMA FailInit == Init => FailInv
<1> SUFFICES ASSUME Init PROVE FailInv
  OBVIOUS
<1>1. WorkType /\ TornInv /\ CacheInv
  BY Constants DEF Init, WorkType, TornInv, CacheInv, NoWorkers, Workers
<1>2. ASSUME NEW p \in Procs PROVE Local(p) /\ TmpInv(p)
  BY DEF Init, Local, WorkersInv, CopyInv, TmpInv, NoWorkers
<1> QED
  BY <1>1, <1>2, RecordInit DEF FailInv

LEMMA SameCall ==
  ASSUME NEW q \in Procs, arg'[q] = arg[q], phase'[q] = phase[q]
  PROVE  /\ Key(q)' = Key(q) /\ Subject(q)' = Subject(q) /\ Busy(q)' = Busy(q)
         /\ \A i \in Devices : PartName(q, i)' = PartName(q, i)
BY DEF Key, Subject, Busy, Slice, PartName

(* The steps of others take nothing from q.                                *)
LEMMA LocalKept ==
  ASSUME NEW q \in Procs, Local(q), pc'[q] = pc[q], arg'[q] = arg[q], phase'[q] = phase[q],
         worker'[q] = worker[q], excuse[q] => excuse'[q],
         \A i \in Devices : PartName(q, i) \in parts => PartName(q, i) \in parts',
         \A r \in Recipes : content[r] # "none" => content'[r] # "none",
         Subject(q) \in Recipes \cup {"bf16"}
  PROVE  Local(q)'
<1>1. Reason(q) => Reason(q)'
  BY DEF Reason
<1>2. WorkersInv(q)'
  <2>1. \A i \in Devices : PartName(q, i)' = PartName(q, i)
    BY SameCall
  <2>2. Busy(q)' = Busy(q)
    BY SameCall
  <2> QED
    BY <1>1, <2>1, <2>2 DEF Local, WorkersInv
<1>3. CopyInv(q)'
  BY SameCall DEF Local, CopyInv
<1> QED
  BY <1>1, <1>2, <1>3 DEF Local

LEMMA TmpKept ==
  ASSUME NEW q \in Procs, TmpInv(q), pc'[q] = pc[q], arg'[q] = arg[q], phase'[q] = phase[q],
         excuse[q] => excuse'[q], raced \subseteq raced', open'[q] = open[q],
         tmp'[Key(q)] = tmp[Key(q)], Rivals(q)' \subseteq Rivals(q)
  PROVE  TmpInv(q)'
BY SameCall DEF TmpInv

(* Nobody else is publishing that was not before.                          *)
LEMMA RivalsKept ==
  ASSUME NEW p \in Procs, NEW q \in Procs, q # p, pc'[q] = pc[q], arg'[q] = arg[q], phase'[q] = phase[q],
         \A o \in Procs \ {p} : pc'[o] = pc[o] /\ arg'[o] = arg[o] /\ phase'[o] = phase[o],
         pc'[p] \in {"fill", "replace"} => pc[p] \in {"fill", "replace"} /\ arg'[p] = arg[p] /\ phase'[p] = phase[p]
  PROVE  Rivals(q)' \subseteq Rivals(q)
<1>1. ASSUME NEW o \in Rivals(q)' PROVE o \in Rivals(q)
  <2>1. o \in Procs \ {q} /\ pc'[o] \in {"fill", "replace"} /\ Key(o)' = Key(q)'
    BY <1>1 DEF Rivals
  <2>2. pc[o] \in {"fill", "replace"} /\ arg'[o] = arg[o] /\ phase'[o] = phase[o]
    BY <2>1
  <2>3. Key(o)' = Key(o) /\ Key(q)' = Key(q)
    BY <2>1, <2>2, SameCall
  <2> QED
    BY <2>1, <2>2, <2>3 DEF Rivals
<1> QED
  BY <1>1

LEMMA SubjectType ==
  ASSUME RecordInv, NEW p \in Procs
  PROVE  Subject(p) \in Recipes \cup {"bf16"}
BY DEF RecordInv, RecordType, Subject, Args

LEMMA OthersLocal ==
  ASSUME FailInv, NEW p \in Procs, NEW q \in Procs \ {p},
         pc'[q] = pc[q], arg'[q] = arg[q], phase'[q] = phase[q], worker'[q] = worker[q],
         excuse[q] => excuse'[q],
         \A n \in parts : n.by # p => n \in parts',
         \A r \in Recipes : content[r] # "none" => content'[r] # "none"
  PROVE  Local(q)'
<1>1. \A i \in Devices : PartName(q, i) \in parts => PartName(q, i) \in parts'
  BY DEF PartName
<1> QED
  BY <1>1, LocalKept, SubjectType DEF FailInv

(* A step of p that leaves the temporary and the cache files alone.        *)
LEMMA Quietly ==
  ASSUME FailInv, RecordInv', NEW p \in Procs,
         \A q \in Procs \ {p} : /\ pc'[q] = pc[q] /\ arg'[q] = arg[q] /\ phase'[q] = phase[q]
                                /\ worker'[q] = worker[q] /\ open'[q] = open[q]
                                /\ excuse[q] => excuse'[q],
         \A n \in parts : n.by # p => n \in parts',
         \A r \in Recipes : content[r] # "none" => content'[r] # "none",
         UNCHANGED <<cache, tmp, raced>>, pc'[p] \notin {"fill", "replace"},
         WorkType', TornInv', Local(p)'
  PROVE  FailInv'
<1>1. CacheInv'
  BY DEF FailInv, CacheInv
<1>2. ASSUME NEW q \in Procs PROVE Local(q)' /\ TmpInv(q)'
  <2>1. CASE q = p
    BY <2>1 DEF TmpInv
  <2>2. CASE q # p
    <3>1. Local(q)'
      BY <2>2, OthersLocal
    <3>2. Rivals(q)' \subseteq Rivals(q)
      BY <2>2, RivalsKept
    <3>3. TmpInv(q)'
      BY <2>2, <3>2, TmpKept DEF FailInv
    <3> QED
      BY <3>1, <3>3
  <2> QED
    BY <2>1, <2>2
<1> QED
  BY <1>1, <1>2 DEF FailInv

LEMMA TornKept ==
  ASSUME FailInv, NEW p \in Procs, UNCHANGED content, torn \subseteq torn',
         \A q \in Procs \ {p} : pc'[q] = pc[q] /\ arg'[q] = arg[q] /\ phase'[q] = phase[q],
         pc[p] = "writecopy" => Subject(p) \in torn'
  PROVE  TornInv'
<1> SUFFICES ASSUME NEW r \in Recipes, content[r] = "empty", r \notin torn'
             PROVE  \E q \in Procs : pc'[q] = "writecopy" /\ Subject(q)' = r
  BY DEF TornInv
<1>1. PICK q \in Procs : pc[q] = "writecopy" /\ Subject(q) = r
  BY DEF FailInv, TornInv
<1>2. q # p
  BY <1>1
<1> QED
  BY <1>1, <1>2, SameCall

(* The workers of a process that is not waiting are none.                  *)
LEMMA Idle ==
  ASSUME NEW p \in Procs, WorkersInv(p), pc[p] \notin {"wait", "merge"}, worker'[p] = worker[p],
         pc'[p] # "merge"
  PROVE  WorkersInv(p)'
BY DEF WorkersInv

LEMMA NoneLeft ==
  ASSUME NEW p \in Procs, worker'[p] = NoWorkers, pc'[p] # "merge"
  PROVE  WorkersInv(p)'
BY DEF WorkersInv, NoWorkers

LEMMA CallFails == ASSUME FailInv, NEW p \in Procs, Call(p) PROVE FailInv'
<1>1. /\ pc' = [pc EXCEPT ![p] = "look"] /\ pc[p] = "idle"
      /\ \A q \in Procs \ {p} : arg'[q] = arg[q] /\ phase'[q] = phase[q]
      /\ UNCHANGED <<files, locals, history>>
  BY DEF Call, Goto, At, FailInv, RecordInv, RecordType
<1>2. RecordInv' /\ RecordType /\ WorkType'
  BY <1>1, CallStep DEF FailInv, RecordInv, WorkType, files, locals, history
<1>3. TornInv'
  BY <1>1, <1>2, TornKept DEF RecordType, files, history
<1>4. Local(p)'
  BY <1>1, <1>2, Idle DEF FailInv, RecordType, Local, CopyInv, locals
<1> QED
  BY <1>1, <1>2, <1>3, <1>4, Quietly DEF RecordType, files, locals, history

LEMMA LookFails == ASSUME FailInv, NEW p \in Procs, Look(p) PROVE FailInv'
<1> DEFINE file == cache[Key(p)]
<1>1. /\ pc[p] = "look" /\ Key(p) \in Keys
      /\ UNCHANGED <<files, calls, arg, worker, raced, torn>>
  <2>1. Key(p) \in Keys
    BY KeyType DEF FailInv, RecordInv
  <2> QED
    BY <2>1 DEF Look, Have, At
<1>2. \E to \in {"spawn", "test", "look", "return", "failed"} : pc' = [pc EXCEPT ![p] = to]
  BY DEF Look, Have, Goto
<1>3. RecordInv' /\ RecordType /\ WorkType
  BY LookStep DEF FailInv, RecordInv
<1>4. /\ \A q \in Procs \ {p} : pc'[q] = pc[q] /\ phase'[q] = phase[q] /\ open'[q] = open[q]
      /\ \A q \in Procs : excuse[q] => excuse'[q]
      /\ excuse' \in [Procs -> BOOLEAN]
  <2>1. \A q \in Procs \ {p} : pc'[q] = pc[q]
    BY <1>2, <1>3 DEF RecordType
  <2>2. open' = open /\ \A q \in Procs \ {p} : phase'[q] = phase[q]
    BY <1>3 DEF Look, Have, RecordType
  <2>3. excuse' = excuse \/ \E ps : Excuse(ps)
    BY DEF Look
  <2>4. excuse' \in [Procs -> BOOLEAN] /\ \A q \in Procs : excuse[q] => excuse'[q]
    BY <1>3, <2>3 DEF Excuse, WorkType
  <2> QED
    BY <2>1, <2>2, <2>4
<1>5. TornInv'
  BY <1>1, <1>4, TornKept DEF files
<1>6. Local(p)'
  <2>1. WorkersInv(p)'
    BY <1>1, <1>2, <1>3, Idle DEF FailInv, Local, RecordType
  <2>2. CASE file.state = "none" \/ arg[p].force
    <3>1. pc' = [pc EXCEPT ![p] = IF Subject(p) = "bf16" THEN "spawn" ELSE "test"] /\ UNCHANGED phase
      BY <2>2 DEF Look, Goto
    <3>2. Subject(p)' = Subject(p) /\ Subject(p) \in Recipes \cup {"bf16"}
      <4>1. Subject(p)' = Subject(p)
        BY <1>1, <3>1, SameCall
      <4> QED
        BY <4>1, SubjectType DEF FailInv
    <3> QED
      BY <1>3, <2>1, <3>1, <3>2 DEF Local, CopyInv, RecordType
  <2>3. CASE ~(file.state = "none" \/ arg[p].force) /\ file.state = "whole"
    <3>1. pc'[p] \in {"look", "return"}
      BY <1>3, <2>3 DEF Look, Have, Goto, RecordType
    <3> QED
      BY <2>1, <3>1 DEF Local, CopyInv
  <2>4. CASE ~(file.state = "none" \/ arg[p].force) /\ file.state # "whole"
    <3>1. pc'[p] = "failed" /\ Excuse(IF Key(p) \in raced THEN {p} ELSE {})
      BY <1>3, <2>4 DEF Look, Goto, RecordType
    <3>2. file.state \in {"empty", "garbled"}
      BY <1>1, <1>3, <2>4 DEF RecordType, Record
    <3>3. Key(p) \in raced
      BY <1>1, <3>2 DEF FailInv, CacheInv
    <3>4. Reason(p)'
      BY <3>1, <3>3 DEF Excuse, Reason
    <3> QED
      BY <2>1, <3>1, <3>4 DEF Local, CopyInv
  <2> QED
    BY <2>2, <2>3, <2>4
<1> QED
  BY <1>1, <1>2, <1>3, <1>4, <1>5, <1>6, Quietly DEF RecordType, WorkType, files

(* Before the workers: the copy of the recipe, and their start.            *)
LEMMA CopyFails ==
  ASSUME FailInv, NEW p \in Procs, TestCopy(p) \/ OpenCopy(p) \/ WriteCopy(p) \/ Spawn(p)
  PROVE  FailInv'
<1>1. /\ UNCHANGED <<cache, tmp, parts, arg, phase, got, open, result, excuse, raced>>
      /\ pc[p] \notin {"wait", "merge", "idle", "failed"}
  BY DEF TestCopy, OpenCopy, WriteCopy, Spawn, At, files, locals, history
<1>2. PICK to \in {"opencopy", "spawn", "writecopy", "wait"} : pc' = [pc EXCEPT ![p] = to]
  BY DEF TestCopy, OpenCopy, WriteCopy, Spawn, Goto
<1>3. RecordInv /\ RecordInv' /\ RecordType /\ pc'[p] = to
  <2>1. RecordInv'
    BY <1>1, <1>2, Moves DEF FailInv, RecordInv, RecordType, Goto, Points, Guarded
  <2> QED
    BY <1>2, <2>1 DEF FailInv, RecordInv, RecordType
<1>4. Subject(p)' = Subject(p) /\ Subject(p) \in Recipes \cup {"bf16"} /\ Local(p)
  <2>1. Subject(p)' = Subject(p)
    BY <1>1, SameCall
  <2> QED
    BY <1>3, <2>1, SubjectType DEF FailInv
<1>5. CASE TestCopy(p)
  <2>1. /\ UNCHANGED <<content, torn, worker>> /\ pc[p] = "test"
        /\ to = IF content[Subject(p)] = "none" THEN "opencopy" ELSE "spawn"
    BY <1>3, <1>5 DEF TestCopy, Goto, At, files, locals, history, RecordType
  <2>2. TornInv'
    BY <1>1, <1>2, <2>1, TornKept DEF RecordType, FailInv, RecordInv
  <2>3. Local(p)'
    BY <1>3, <1>4, <2>1, Idle DEF Local, CopyInv
  <2>4. WorkType'
    BY <1>1, <2>1 DEF FailInv, WorkType
  <2> QED
    BY <1>1, <1>2, <1>3, <2>1, <2>2, <2>3, <2>4, Quietly DEF RecordType
<1>6. CASE OpenCopy(p)
  <2>1. /\ content' = [content EXCEPT ![Subject(p)] = "empty"] /\ UNCHANGED <<torn, worker>>
        /\ pc[p] = "opencopy" /\ to = "writecopy" /\ Subject(p) \in Recipes
    BY <1>3, <1>4, <1>6 DEF OpenCopy, Goto, At, locals, history, RecordType, Local, CopyInv
  <2>2. TornInv'
    <3>1. ASSUME NEW r \in Recipes, content'[r] = "empty", r # Subject(p)
          PROVE  r \in torn' \/ \E q \in Procs : pc'[q] = "writecopy" /\ Subject(q)' = r
      <4>1. content[r] = "empty"
        BY <2>1, <3>1 DEF FailInv, WorkType
      <4>2. r \in torn \/ \E q \in Procs \ {p} : pc[q] = "writecopy" /\ Subject(q) = r
        BY <2>1, <4>1 DEF FailInv, TornInv
      <4>3. \A q \in Procs \ {p} : pc'[q] = pc[q] /\ Subject(q)' = Subject(q)
        BY <1>1, <1>2, <1>3, SameCall DEF RecordType
      <4> QED
        BY <2>1, <4>2, <4>3
    <3>2. pc'[p] = "writecopy" /\ Subject(p)' = Subject(p)
      BY <1>3, <1>4, <2>1
    <3> QED
      BY <3>1, <3>2 DEF TornInv
  <2>3. Local(p)'
    BY <1>3, <1>4, <2>1, Idle DEF Local, CopyInv
  <2>4. WorkType' /\ \A r \in Recipes : content[r] # "none" => content'[r] # "none"
    BY <1>1, <2>1 DEF FailInv, WorkType
  <2> QED
    BY <1>1, <1>2, <1>3, <2>1, <2>2, <2>3, <2>4, Quietly DEF RecordType
<1>7. CASE WriteCopy(p)
  <2>1. /\ content' = [content EXCEPT ![Subject(p)] = "whole"] /\ torn' = torn \ {Subject(p)}
        /\ UNCHANGED worker /\ pc[p] = "writecopy" /\ to = "spawn" /\ Subject(p) \in Recipes
    BY <1>3, <1>4, <1>7 DEF WriteCopy, Goto, At, locals, RecordType, Local, CopyInv
  <2>2. TornInv'
    <3>1. ASSUME NEW r \in Recipes, content'[r] = "empty"
          PROVE  r \in torn' \/ \E q \in Procs : pc'[q] = "writecopy" /\ Subject(q)' = r
      <4>1. content[r] = "empty" /\ r # Subject(p)
        BY <2>1, <3>1 DEF FailInv, WorkType
      <4>2. r \in torn \/ \E q \in Procs \ {p} : pc[q] = "writecopy" /\ Subject(q) = r
        BY <4>1 DEF FailInv, TornInv
      <4>3. \A q \in Procs \ {p} : pc'[q] = pc[q] /\ Subject(q)' = Subject(q)
        BY <1>1, <1>2, <1>3, SameCall DEF RecordType
      <4> QED
        BY <2>1, <4>1, <4>2, <4>3
    <3> QED
      BY <3>1 DEF TornInv
  <2>3. Local(p)'
    <3>1. content'[Subject(p)] # "none"
      BY <2>1 DEF FailInv, WorkType
    <3> QED
      BY <1>3, <1>4, <2>1, <3>1, Idle DEF Local, CopyInv
  <2>4. WorkType' /\ \A r \in Recipes : content[r] # "none" => content'[r] # "none"
    BY <1>1, <2>1 DEF FailInv, WorkType
  <2> QED
    BY <1>1, <1>2, <1>3, <2>1, <2>2, <2>3, <2>4, Quietly DEF RecordType
<1>8. CASE Spawn(p)
  <2>1. /\ UNCHANGED <<content, torn>> /\ pc[p] = "spawn" /\ to = "wait"
        /\ worker' = [worker EXCEPT ![p] = [i \in Devices |-> IF i \in Busy(p) THEN "load" ELSE "none"]]
    BY <1>3, <1>8 DEF Spawn, Goto, At, files, history, RecordType
  <2>2. TornInv'
    BY <1>1, <1>2, <2>1, TornKept DEF RecordType, FailInv, RecordInv
  <2>3. WorkType'
    BY <1>1, <2>1 DEF FailInv, WorkType, Workers
  <2>4. WorkersInv(p)'
    <3>1. Busy(p)' = Busy(p)
      BY <1>1, SameCall
    <3>2. \A i \in Devices : worker'[p][i] \in {"load", "none"} /\ (worker'[p][i] = "load" => i \in Busy(p))
      BY <2>1 DEF FailInv, WorkType
    <3> QED
      BY <1>3, <2>1, <3>1, <3>2 DEF WorkersInv
  <2>5. Local(p)'
    BY <1>3, <1>4, <2>1, <2>4 DEF Local, CopyInv
  <2>6. \A q \in Procs \ {p} : worker'[q] = worker[q]
    BY <2>1 DEF FailInv, WorkType
  <2> QED
    BY <1>1, <1>2, <1>3, <2>1, <2>2, <2>3, <2>5, <2>6, Quietly DEF RecordType
<1> QED
  BY <1>5, <1>6, <1>7, <1>8

(* A worker goes on.                                                       *)
LEMMA WorkerFails ==
  ASSUME FailInv, NEW p \in Procs, NEW i \in Devices, Load(p, i) \/ Measure(p, i) \/ Break(p, i)
  PROVE  FailInv'
<1>1. /\ UNCHANGED <<cache, tmp, content, pc, arg, phase, got, open, result, raced, torn>>
      /\ parts \subseteq parts'
  BY DEF Load, Measure, Break, files, call, history
<1>2. PICK to \in {"run", "failed", "done"} : worker' = [worker EXCEPT ![p][i] = to]
  BY DEF Load, Measure, Break, Becomes
<1>3. worker[p][i] \in {"load", "run"}
  BY DEF Load, Measure, Break, Becomes
<1>4. RecordInv /\ RecordInv' /\ RecordType
  <2>1. RecordInv'
    BY <1>1, Stays DEF FailInv, call
  <2> QED
    BY <2>1 DEF FailInv, RecordInv
<1>5. pc[p] = "wait" /\ i \in Busy(p) /\ Local(p)
  <2>1. Local(p)
    BY DEF FailInv
  <2>2. pc[p] \in {"wait", "merge"} /\ i \in Busy(p)
    BY <1>3, <2>1 DEF Local, WorkersInv
  <2>3. pc[p] # "merge"
    BY <1>3, <2>1, <2>2 DEF Local, WorkersInv
  <2> QED
    BY <2>1, <2>2, <2>3
<1>6. excuse' \in [Procs -> BOOLEAN] /\ \A q \in Procs : excuse[q] => excuse'[q]
  <2>1. excuse' = excuse \/ \E ps : Excuse(ps)
    BY DEF Load, Measure, Break, history
  <2> QED
    BY <2>1 DEF Excuse, FailInv, WorkType
<1>7. to = "failed" => Reason(p)'
  <2>1. CASE Load(p, i)
    <3>1. ASSUME to = "failed" PROVE CopyExcuse(p) /\ Excuse({p})
      <4>1. worker'[p][i] = "failed"
        BY <1>2, <3>1 DEF FailInv, WorkType
      <4>2. /\ Subject(p) # "bf16" /\ content[Subject(p)] # "whole"
            /\ Excuse(IF CopyExcuse(p) THEN {p} ELSE {})
        BY <2>1, <4>1 DEF Load, Becomes, FailInv, WorkType
      <4>3. Subject(p) \in Recipes /\ content[Subject(p)] = "empty"
        BY <1>4, <1>5, <4>2, SubjectType DEF Local, CopyInv, FailInv, WorkType
      <4>4. CopyExcuse(p)
        BY <1>5, <4>3 DEF FailInv, TornInv, CopyExcuse, At
      <4> QED
        BY <4>2, <4>4
    <3> QED
      BY <3>1 DEF Excuse, Reason
  <2>2. CASE Measure(p, i)
    <3>1. ASSUME to = "failed" PROVE \E s \in Slice(p, i) : s >= Split
      <4>1. worker'[p][i] = "failed"
        BY <1>2, <3>1 DEF FailInv, WorkType
      <4> QED
        BY <2>2, <4>1 DEF Measure, Becomes, FailInv, WorkType
    <3>2. ASSUME NEW s \in Slice(p, i), s >= Split PROVE Total(arg[p].n) > Split
      <4>1. s \in Nat /\ s < Total(arg[p].n) /\ arg[p].n \in NSamples
        BY <1>4, SliceWithin DEF RecordType, Args
      <4>2. Total(arg[p].n) \in Nat /\ Split \in Nat
        BY <4>1, TotalType, SamplesAssumption
      <4> QED
        BY <3>2, <4>1, <4>2
    <3>3. arg' = arg
      BY <1>1
    <3> QED
      BY <3>1, <3>2, <3>3 DEF Reason
  <2>3. CASE Break(p, i)
    BY <2>3 DEF Break, Excuse, Reason
  <2> QED
    BY <2>1, <2>2, <2>3
<1>8. to = "done" => PartName(p, i) \in parts'
  <2>1. ASSUME to = "done" PROVE worker'[p][i] = "done"
    BY <1>2, <2>1 DEF FailInv, WorkType
  <2> QED
    BY <2>1 DEF Load, Measure, Break, Becomes, FailInv, WorkType
<1>9. WorkersInv(p)'
  <2>1. /\ Busy(p)' = Busy(p) /\ \A j \in Devices : PartName(p, j)' = PartName(p, j)
    BY <1>1, SameCall
  <2>2. \A j \in Devices : worker'[p][j] = IF j = i THEN to ELSE worker[p][j]
    BY <1>2 DEF FailInv, WorkType
  <2>3. Reason(p) => Reason(p)'
    BY <1>1, <1>6 DEF Reason
  <2> HIDE DEF Reason
  <2> QED
    BY <1>1, <1>5, <1>7, <1>8, <2>1, <2>2, <2>3 DEF Local, WorkersInv
<1>10. Local(p)'
  <2>1. Subject(p)' = Subject(p)
    BY <1>1, SameCall
  <2> QED
    BY <1>1, <1>5, <1>9, <2>1 DEF Local, CopyInv
<1>11. TornInv'
  BY <1>1, <1>5, TornKept
<1>12. WorkType' /\ \A q \in Procs \ {p} : worker'[q] = worker[q]
  BY <1>1, <1>2, <1>6 DEF FailInv, WorkType, Workers
<1> QED
  BY <1>1, <1>4, <1>5, <1>6, <1>10, <1>11, <1>12, Quietly

LEMMA PartsAreOwn == ASSUME NEW p \in Procs, NEW n \in PartsOf(p) PROVE n.by = p
BY DEF PartsOf, PartName

LEMMA WaitFails == ASSUME FailInv, NEW p \in Procs, Wait(p) PROVE FailInv'
<1>1. /\ UNCHANGED <<cache, tmp, content, arg, phase, got, open, result, excuse, raced, torn>>
      /\ pc[p] = "wait"
      /\ \A i \in Busy(p) : worker[p][i] \in {"done", "failed"}
  BY DEF Wait, At, history
<1>2. PICK to \in {"failed", "merge"} : pc' = [pc EXCEPT ![p] = to]
  BY DEF Wait, Goto
<1>3. RecordInv /\ RecordInv' /\ RecordType /\ pc'[p] = to /\ Local(p)
  <2>1. RecordInv'
    BY <1>1, <1>2, Moves DEF FailInv, RecordInv, RecordType, Goto, Points, Guarded
  <2> QED
    BY <1>2, <2>1 DEF FailInv, RecordInv, RecordType
<1>4. TornInv'
  BY <1>1, <1>2, <1>3, TornKept DEF RecordType
<1>5. /\ WorkType' /\ \A q \in Procs \ {p} : worker'[q] = worker[q]
      /\ \A n \in parts : n.by # p => n \in parts'
  BY <1>1, PartsAreOwn DEF FailInv, WorkType, Wait, CleanUp, NoWorkers, Workers
<1>6. Local(p)'
  <2>1. CASE \E i \in Busy(p) : worker[p][i] = "failed"
    <3>1. to = "failed" /\ worker'[p] = NoWorkers
      BY <1>3, <2>1 DEF Wait, Goto, CleanUp, FailInv, WorkType, RecordType
    <3>2. Reason(p)'
      <4>1. Reason(p)
        BY <1>3, <2>1 DEF Local, WorkersInv, Busy
      <4> QED
        BY <1>1, <4>1 DEF Reason
    <3>3. WorkersInv(p)'
      BY <1>3, <3>1, NoneLeft
    <3> QED
      BY <1>3, <3>1, <3>2, <3>3 DEF Local, CopyInv
  <2>2. CASE ~ \E i \in Busy(p) : worker[p][i] = "failed"
    <3>1. to = "merge" /\ UNCHANGED <<worker, parts>>
      BY <1>3, <2>2 DEF Wait, Goto, RecordType
    <3>2. Busy(p)' = Busy(p) /\ \A i \in Devices : PartName(p, i)' = PartName(p, i)
      BY <1>1, SameCall
    <3>3. Reason(p) => Reason(p)'
      BY <1>1 DEF Reason
    <3> HIDE DEF Reason
    <3>4. WorkersInv(p)'
      BY <1>1, <1>3, <2>2, <3>1, <3>2, <3>3 DEF Local, WorkersInv
    <3> QED
      BY <1>3, <3>1, <3>4 DEF Local, CopyInv
  <2> QED
    BY <2>1, <2>2
<1> QED
  BY <1>1, <1>2, <1>3, <1>4, <1>5, <1>6, Quietly DEF RecordType

LEMMA MergeFails == ASSUME FailInv, NEW p \in Procs, Merge(p) PROVE FailInv'
<1>1. PartsOf(p) \subseteq parts
  BY DEF FailInv, Local, WorkersInv, Merge, At, PartsOf, Busy
<1>2. /\ UNCHANGED <<cache, tmp, content, arg, phase, open, result, parts, excuse, raced, torn>>
      /\ pc[p] = "merge" /\ pc' = [pc EXCEPT ![p] = "tmp"] /\ worker' = [worker EXCEPT ![p] = NoWorkers]
  BY <1>1 DEF Merge, At, Goto, history
<1>3. RecordInv' /\ RecordType
  BY MergeStep DEF FailInv, RecordInv
<1>4. TornInv'
  BY <1>2, <1>3, TornKept DEF RecordType
<1>5. /\ WorkType' /\ worker'[p] = NoWorkers /\ \A q \in Procs \ {p} : worker'[q] = worker[q]
  BY <1>2 DEF FailInv, WorkType, NoWorkers, Workers
<1>6. Local(p)'
  BY <1>2, <1>3, <1>5, NoneLeft DEF Local, CopyInv, RecordType
<1> QED
  BY <1>2, <1>3, <1>4, <1>5, <1>6, Quietly DEF RecordType

LEMMA UnlinkFails == ASSUME FailInv, NEW p \in Procs, Unlink(p) PROVE FailInv'
<1>1. /\ UNCHANGED <<cache, tmp, content, arg, worker, open, excuse, raced, torn>>
      /\ pc[p] = "unlink" /\ parts' = parts \ PartsOf(p)
  BY DEF Unlink, At, history
<1>2. PICK to \in {"look", "return"} : pc' = [pc EXCEPT ![p] = to]
  BY DEF Unlink, Goto
<1>3. RecordInv' /\ RecordType /\ WorkType
  BY UnlinkStep DEF FailInv, RecordInv
<1>4. \A q \in Procs \ {p} : phase'[q] = phase[q]
  BY <1>3 DEF Unlink, RecordType
<1>5. TornInv'
  BY <1>1, <1>2, <1>3, <1>4, TornKept DEF RecordType
<1>6. Local(p)'
  BY <1>1, <1>2, <1>3, Idle DEF FailInv, Local, CopyInv, RecordType
<1>7. WorkType' /\ \A n \in parts : n.by # p => n \in parts'
  BY <1>1, <1>3, PartsAreOwn DEF WorkType
<1> QED
  BY <1>1, <1>2, <1>3, <1>4, <1>5, <1>6, <1>7, Quietly DEF RecordType

LEMMA EndFails == ASSUME FailInv, NEW p \in Procs, Leave(p) \/ Kill(p) PROVE FailInv'
<1>1. /\ UNCHANGED <<cache, tmp, content, raced>> /\ Forget(p)
      /\ pc' = [pc EXCEPT ![p] = "idle"] /\ torn \subseteq torn'
      /\ pc[p] = "writecopy" => Subject(p) \in torn'
  BY DEF Leave, Kill, At, Goto
<1>2. RecordInv' /\ RecordType /\ WorkType
  BY EndStep DEF FailInv, RecordInv
<1>3. /\ \A q \in Procs \ {p} : /\ pc'[q] = pc[q] /\ arg'[q] = arg[q] /\ phase'[q] = phase[q]
                                /\ worker'[q] = worker[q] /\ open'[q] = open[q]
                                /\ excuse[q] => excuse'[q]
      /\ pc'[p] = "idle" /\ worker'[p] = NoWorkers
      /\ \A n \in parts : n.by # p => n \in parts'
  BY <1>1, <1>2 DEF Forget, RecordType, WorkType
<1>4. TornInv'
  BY <1>1, <1>3, TornKept
<1>5. WorkType'
  BY <1>1, <1>2 DEF Forget, WorkType, NoWorkers, Workers
<1>6. Local(p)'
  BY <1>3, NoneLeft DEF Local, CopyInv
<1> QED
  BY <1>1, <1>2, <1>3, <1>4, <1>5, <1>6, Quietly

LEMMA InterruptFails == ASSUME FailInv, NEW p \in Procs, Interrupt(p) PROVE FailInv'
<1>1. /\ UNCHANGED <<cache, tmp, content, arg, phase, got, result, raced>> /\ pc[p] # "idle"
      /\ pc' = [pc EXCEPT ![p] = "failed"] /\ torn \subseteq torn' /\ open' = [open EXCEPT ![p] = "none"]
      /\ pc[p] = "writecopy" => Subject(p) \in torn'
      /\ Excuse({p})
  BY DEF Interrupt, At, Goto
<1>2. RecordInv /\ RecordType /\ WorkType /\ pc'[p] = "failed"
  BY <1>1 DEF FailInv, RecordInv, RecordType
<1>3. RecordInv'
  BY <1>1, <1>2, Moves DEF Goto, Points, RecordType
<1>4. /\ \A q \in Procs \ {p} : /\ pc'[q] = pc[q] /\ arg'[q] = arg[q] /\ phase'[q] = phase[q]
                                /\ worker'[q] = worker[q] /\ open'[q] = open[q]
                                /\ excuse[q] => excuse'[q]
      /\ WorkType' /\ excuse'[p]
      /\ \A n \in parts : n.by # p => n \in parts'
  <2>1. /\ \A q \in Procs : excuse[q] => excuse'[q]
        /\ excuse'[p] /\ excuse' \in [Procs -> BOOLEAN]
    BY <1>1, <1>2 DEF Excuse, WorkType
  <2>2. /\ \A q \in Procs \ {p} : worker'[q] = worker[q]
        /\ worker' \in [Procs -> [Devices -> Workers]]
        /\ \A n \in parts : n.by # p => n \in parts'
    BY <1>2, PartsAreOwn DEF Interrupt, CleanUp, WorkType, NoWorkers, Workers
  <2> QED
    BY <1>1, <1>2, <2>1, <2>2 DEF RecordType, WorkType
<1>5. TornInv'
  BY <1>1, <1>4, TornKept
<1>6. WorkersInv(p)'
  <2>1. CASE pc[p] \in Guarded
    <3>1. worker'[p] = NoWorkers
      BY <1>2, <2>1 DEF Interrupt, CleanUp, WorkType
    <3> QED
      BY <1>2, <3>1, NoneLeft
  <2>2. CASE pc[p] \notin Guarded
    BY <1>2, <2>2, Idle DEF Interrupt, Guarded, FailInv, Local
  <2> QED
    BY <2>1, <2>2
<1>7. Local(p)'
  BY <1>2, <1>4, <1>6 DEF Local, CopyInv, Reason
<1> QED
  BY <1>1, <1>2, <1>3, <1>4, <1>5, <1>7, Quietly

-----------------------------------------------------------------------------
(* The three steps of publishing.                                          *)
LEMMA Publishing ==
  ASSUME FailInv, RecordInv', NEW p \in Procs, pc[p] \in {"tmp", "fill", "replace"},
         NEW to \in {"fill", "replace", "unlink", "failed"}, pc' = [pc EXCEPT ![p] = to],
         UNCHANGED <<content, parts, arg, phase, worker, torn>>,
         excuse' \in [Procs -> BOOLEAN], \A q \in Procs : excuse[q] => excuse'[q],
         to = "failed" => Reason(p)', CacheInv', \A q \in Procs : TmpInv(q)'
  PROVE  FailInv'
<1>1. RecordType /\ pc'[p] = to
  BY DEF FailInv, RecordInv, RecordType
<1>2. WorkType'
  BY DEF FailInv, WorkType
<1>3. TornInv'
  BY <1>1, TornKept DEF RecordType
<1>4. ASSUME NEW q \in Procs PROVE Local(q)'
  <2>1. CASE q = p
    BY <1>1, <2>1, Idle DEF FailInv, Local, CopyInv
  <2>2. CASE q # p
    BY <1>1, <2>2, OthersLocal DEF RecordType
  <2> QED
    BY <2>1, <2>2
<1> QED
  BY <1>2, <1>3, <1>4 DEF FailInv

LEMMA OpenTmpFails == ASSUME FailInv, NEW p \in Procs, OpenTmp(p) PROVE FailInv'
<1>1. /\ tmp' = [tmp EXCEPT ![Key(p)] = Blank("empty")] /\ open' = [open EXCEPT ![p] = "tmp"]
      /\ pc' = [pc EXCEPT ![p] = "fill"] /\ pc[p] = "tmp"
      /\ Excuse(IF Rivals(p) # {} THEN {p} \cup Rivals(p) ELSE {})
      /\ raced' = IF Rivals(p) # {} THEN raced \cup {Key(p)} ELSE raced
      /\ UNCHANGED <<cache, content, parts, arg, phase, worker, torn>>
  BY DEF OpenTmp, Goto, At
<1>2. RecordInv' /\ RecordType /\ WorkType /\ Key(p) \in Keys
  BY OpenTmpStep, KeyType DEF FailInv, RecordInv
<1>3. /\ excuse' \in [Procs -> BOOLEAN] /\ \A q \in Procs : excuse[q] => excuse'[q]
      /\ Rivals(p) # {} => excuse'[p] /\ \A q \in Rivals(p) : excuse'[q]
  BY <1>1, <1>2 DEF Excuse, WorkType, Rivals
<1>4. CacheInv'
  BY <1>1 DEF FailInv, CacheInv
<1>5. \A q \in Procs : Key(q)' = Key(q)
  BY <1>1, SameCall
<1>6. ASSUME NEW q \in Procs PROVE TmpInv(q)'
  <2>1. CASE q = p
    <3>1. CASE Rivals(p) # {}
      BY <1>1, <1>3, <1>5, <2>1, <3>1 DEF TmpInv
    <3>2. CASE Rivals(p) = {}
      <4>1. Rivals(p)' = {}
        BY <1>1, <1>2, <1>5, <3>2 DEF Rivals, RecordType
      <4>2. pc'[p] = "fill" /\ open'[p] = "tmp" /\ tmp'[Key(p)].state = "empty"
        BY <1>1, <1>2, Constants DEF RecordType
      <4> QED
        BY <1>5, <2>1, <4>1, <4>2 DEF TmpInv
    <3> QED
      BY <3>1, <3>2
  <2>2. CASE q # p /\ q \in Rivals(p)
    <3>1. excuse'[q] /\ Key(q)' \in raced'
      BY <1>1, <1>3, <1>5, <2>2 DEF Rivals
    <3> QED
      BY <3>1 DEF TmpInv
  <2>3. CASE q # p /\ q \notin Rivals(p) /\ Key(q) # Key(p)
    <3>1. Rivals(q)' \subseteq Rivals(q)
      BY <1>1, <1>2, <1>5, <2>3 DEF Rivals, RecordType
    <3>2. tmp'[Key(q)] = tmp[Key(q)]
      BY <1>1, <1>2, <2>3, KeyType DEF RecordType
    <3> QED
      BY <1>1, <1>2, <1>3, <2>3, <3>1, <3>2, TmpKept DEF FailInv, RecordType
  <2>4. CASE q # p /\ q \notin Rivals(p) /\ Key(q) = Key(p)
    <3>1. pc'[q] \notin {"fill", "replace"}
      BY <1>1, <1>2, <2>4 DEF Rivals, RecordType
    <3> QED
      BY <3>1 DEF TmpInv
  <2> QED
    BY <2>1, <2>2, <2>3, <2>4
<1> QED
  BY <1>1, <1>2, <1>3, <1>4, <1>6, Publishing

(* Of a key that two have, none is published without a rival.              *)
LEMMA RivalIs ==
  ASSUME NEW p \in Procs, NEW q \in Procs \ {p}, Key(q) = Key(p), pc[p] \in {"fill", "replace"}
  PROVE  Rivals(q) # {}
BY DEF Rivals

(* A step of p on the files of its key leaves the others of that key with  *)
(* their excuse, and those of other keys alone.                            *)
LEMMA OthersTmp ==
  ASSUME FailInv, NEW p \in Procs, NEW q \in Procs \ {p}, pc[p] \in {"fill", "replace"},
         \A o \in Procs \ {p} : pc'[o] = pc[o], UNCHANGED <<arg, phase, excuse, raced>>,
         Key(q) # Key(p) => tmp'[Key(q)] = tmp[Key(q)] /\ open'[q] = open[q]
  PROVE  TmpInv(q)'
<1>1. \A o \in Procs : Key(o)' = Key(o)
  BY SameCall
<1>2. CASE Key(q) = Key(p)
  <2>1. pc[q] \in {"fill", "replace"} => excuse[q] /\ Key(q) \in raced
    BY <1>2, RivalIs DEF FailInv, TmpInv, WorkType
  <2> QED
    BY <1>1, <2>1 DEF TmpInv
<1>3. CASE Key(q) # Key(p)
  <2>1. Rivals(q)' \subseteq Rivals(q)
    BY RivalsKept
  <2> QED
    BY <1>3, <2>1, TmpKept DEF FailInv
<1> QED
  BY <1>2, <1>3

LEMMA FillFails == ASSUME FailInv, NEW p \in Procs, Fill(p) PROVE FailInv'
<1>1. /\ pc' = [pc EXCEPT ![p] = "replace"] /\ pc[p] = "fill" /\ open' = [open EXCEPT ![p] = "none"]
      /\ UNCHANGED <<content, parts, arg, phase, worker, excuse, raced, torn>>
  BY DEF Fill, Goto, At, history
<1>2. RecordInv' /\ RecordInv /\ RecordType /\ WorkType /\ Key(p) \in Keys /\ got[p].state = "whole"
  <2>1. Right(got[p], Key(p))
    BY <1>1 DEF FailInv, RecordInv, Own
  <2> QED
    BY <2>1, FillStep, KeyType, RightType DEF FailInv, RecordInv
<1>3. /\ \A k \in Keys \ {Key(p)} : tmp'[k] = tmp[k] /\ cache'[k] = cache[k]
      /\ Key(p) \notin raced \/ ~excuse[p] => cache' = cache /\ tmp'[Key(p)] = got[p]
  <2>1. \A k \in Keys \ {Key(p)} : tmp'[k] = tmp[k] /\ cache'[k] = cache[k]
    BY <1>2 DEF Fill, RecordType
  <2>2. ASSUME Key(p) \notin raced \/ ~excuse[p] PROVE cache' = cache /\ tmp'[Key(p)] = got[p]
    <3>1. open[p] = "tmp" /\ tmp[Key(p)].state = "empty"
      BY <1>1, <2>2 DEF FailInv, TmpInv
    <3> QED
      BY <1>2, <3>1 DEF Fill, Filled, RecordType
  <2> QED
    BY <2>1, <2>2
<1>4. CacheInv'
  <2>1. ASSUME NEW k \in Keys, cache'[k].state \in {"empty", "garbled"}, k \notin raced PROVE FALSE
    <3>1. cache'[k] = cache[k]
      BY <1>3, <2>1
    <3> QED
      BY <2>1, <3>1 DEF FailInv, CacheInv
  <2> QED
    BY <1>1, <2>1 DEF CacheInv
<1>5. ASSUME NEW q \in Procs PROVE TmpInv(q)'
  <2>1. CASE q = p
    <3>1. Key(p)' = Key(p) /\ pc'[p] = "replace" /\ Rivals(p)' \subseteq Rivals(p)
      <4>1. \A o \in Procs : Key(o)' = Key(o)
        BY <1>1, SameCall
      <4> QED
        BY <1>1, <1>2, <4>1 DEF Rivals, RecordType
    <3>2. Key(p) \notin raced \/ ~excuse[p] => Rivals(p) = {} /\ tmp'[Key(p)].state = "whole"
      BY <1>1, <1>2, <1>3 DEF FailInv, TmpInv
    <3> QED
      BY <1>1, <2>1, <3>1, <3>2 DEF TmpInv
  <2>2. CASE q # p
    <3>1. Key(q) # Key(p) => tmp'[Key(q)] = tmp[Key(q)] /\ open'[q] = open[q]
      BY <1>1, <1>2, <1>3, <2>2, KeyType DEF RecordType
    <3>2. \A o \in Procs \ {p} : pc'[o] = pc[o]
      BY <1>1, <1>2 DEF RecordType
    <3> QED
      BY <1>1, <2>2, <3>1, <3>2, OthersTmp
  <2> QED
    BY <2>1, <2>2
<1>6. excuse' \in [Procs -> BOOLEAN] /\ \A q \in Procs : excuse[q] => excuse'[q]
  BY <1>1, <1>2 DEF WorkType
<1> QED
  BY <1>1, <1>2, <1>4, <1>5, <1>6, Publishing

LEMMA ReplaceFails == ASSUME FailInv, NEW p \in Procs, Replace(p) PROVE FailInv'
<1>1. pc[p] = "replace" /\ UNCHANGED <<content, parts, arg, phase, worker, excuse, raced, torn>>
  BY DEF Replace, At, history
<1>2. RecordInv' /\ RecordInv /\ RecordType /\ WorkType /\ Key(p) \in Keys
  BY ReplaceStep, KeyType DEF FailInv, RecordInv
<1>3. PICK to \in {"failed", "unlink"} :
         pc' = [pc EXCEPT ![p] = to] /\ (to = "failed" <=> tmp[Key(p)].state = "none")
  BY DEF Replace, Goto
<1>4. to = "failed" => Reason(p)'
  <2>1. tmp[Key(p)].state = "none" => excuse[p]
    BY <1>1, <1>2 DEF FailInv, TmpInv, WorkType
  <2> QED
    BY <1>1, <1>3, <2>1 DEF Reason
<1>5. /\ \A k \in Keys \ {Key(p)} : tmp'[k] = tmp[k] /\ cache'[k] = cache[k]
      /\ Key(p) \notin raced => cache'[Key(p)].state = "whole"
      /\ \A q \in Procs \ {p} : Key(q) # Key(p) => open'[q] = open[q]
  <2>1. Key(p) \notin raced => tmp[Key(p)].state = "whole"
    BY <1>1 DEF FailInv, TmpInv
  <2>2. CASE tmp[Key(p)].state = "none"
    BY <2>1, <2>2 DEF Replace
  <2>3. CASE tmp[Key(p)].state # "none"
    BY <1>2, <2>1, <2>3 DEF Replace, RecordType
  <2> QED
    BY <2>2, <2>3
<1>6. CacheInv'
  <2>1. ASSUME NEW k \in Keys, cache'[k].state \in {"empty", "garbled"}, k \notin raced PROVE FALSE
    <3>1. k # Key(p) /\ cache'[k] = cache[k]
      BY <1>5, <2>1
    <3> QED
      BY <2>1, <3>1 DEF FailInv, CacheInv
  <2> QED
    BY <1>1, <2>1 DEF CacheInv
<1>7. ASSUME NEW q \in Procs PROVE TmpInv(q)'
  <2>1. CASE q = p
    BY <1>2, <1>3, <2>1 DEF TmpInv, RecordType
  <2>2. CASE q # p
    <3>1. Key(q) # Key(p) => tmp'[Key(q)] = tmp[Key(q)] /\ open'[q] = open[q]
      BY <1>2, <1>5, <2>2, KeyType
    <3>2. \A o \in Procs \ {p} : pc'[o] = pc[o]
      BY <1>2, <1>3 DEF RecordType
    <3> QED
      BY <1>1, <2>2, <3>1, <3>2, OthersTmp
  <2> QED
    BY <2>1, <2>2
<1>8. excuse' \in [Procs -> BOOLEAN] /\ \A q \in Procs : excuse[q] => excuse'[q]
  BY <1>1, <1>2 DEF WorkType
<1> QED
  BY <1>1, <1>2, <1>3, <1>4, <1>6, <1>7, <1>8, Publishing

LEMMA FailStutter == FailInv /\ UNCHANGED vars => FailInv'
<1> SUFFICES ASSUME FailInv, UNCHANGED vars PROVE FailInv'
  OBVIOUS
<1>1. RecordInv'
  BY Stays DEF vars, files, call, locals, FailInv
<1>2. UNCHANGED <<cache, tmp, content, parts, pc, arg, phase, worker, open, excuse, raced, torn>>
  BY DEF vars, files, call, locals, history
<1>3. \A p \in Procs : /\ Key(p)' = Key(p) /\ Subject(p)' = Subject(p) /\ Busy(p)' = Busy(p)
                       /\ \A i \in Devices : PartName(p, i)' = PartName(p, i)
  BY <1>2, SameCall
<1>4. WorkType' /\ TornInv' /\ CacheInv'
  BY <1>2, <1>3 DEF FailInv, WorkType, TornInv, CacheInv
<1>5. ASSUME NEW p \in Procs PROVE Local(p)' /\ TmpInv(p)'
  <2>1. Rivals(p)' = Rivals(p)
    BY <1>2, <1>3 DEF Rivals
  <2>2. Local(p)'
    BY <1>2, LocalKept, SubjectType DEF FailInv
  <2> QED
    BY <1>2, <2>1, <2>2, TmpKept DEF FailInv
<1> QED
  BY <1>1, <1>4, <1>5 DEF FailInv

LEMMA FailStep == FailInv /\ [Next]_vars => FailInv'
BY CallFails, LookFails, CopyFails, WorkerFails, WaitFails, MergeFails, OpenTmpFails, FillFails,
   ReplaceFails, UnlinkFails, EndFails, InterruptFails, FailStutter DEF Next

(* FailsForReason of Workload: what others do to the same files, including *)
(* dying half-way, never fails a call but in the two races it names.       *)
THEOREM FailureHasReason == Spec => []FailsForReason
<1>1. FailInv => FailsForReason
  BY DEF FailInv, Local, Reason, FailsForReason, At
<1> QED
  BY <1>1, FailInit, FailStep, PTL DEF Spec
===============================================================================
