---------------------------- MODULE MxDeviceProofs ----------------------------
(***************************************************************************)
(* What the emitted programs compute, whatever is compiled, in whatever    *)
(* order the DMAs land.                                                    *)
(*                                                                         *)
(* 1. The mesh never multiplies under a scale window that is still         *)
(* loading (ScalesLandedHolds).  The compiler side: every program the      *)
(* emitters return is Guarded, that is, has between a loop_ws and the last *)
(* load_scales before it a fence.  The accelerator side: what is left of a *)
(* guarded program keeps waiting for its loads (Waiting).                  *)
(*                                                                         *)
(* 2. A chain of matmuls reports what the reference computes               *)
(* (ChainsComputeKernel).  The accelerator side: for a record c of what    *)
(* the compiler promises of a chain (Sound), every state is at one of      *)
(* fifteen points of one of its stages or reports (Located), with in the   *)
(* scratchpad, the scale windows, the books and the DRAM what the rest of  *)
(* the program will look for (Chained), and every step goes from one point *)
(* to the next.  The compiler side: what plan_chain and generate_driver    *)
(* return for a plain chain is such a record, the recursive functions they *)
(* are built from unfolded stage by stage.                                 *)
(***************************************************************************)
EXTENDS MxDevice, WellFoundedInduction, SequenceTheorems, TLAPS

\* A set of naturals has a least element: a recursive function is shown to exist, and to have a
\* property, by the least argument at which it would not.
LEMMA Least ==
  ASSUME NEW S \in SUBSET Nat, S # {}
  PROVE  \E x \in S : \A y \in S : x <= y
<1> DEFINE R == OpToRel(<, Nat)
<1>1. IsWellFoundedOn(R, Nat)
  BY NatLessThanWellFounded
<1>2. PICK x \in S : \A y \in S : ~(<<y, x>> \in R)
  <2> HIDE DEF R
  <2> QED
    BY <1>1, WFMin
<1>3. \A y \in S : ~(y < x)
  BY <1>2 DEF OpToRel
<1> QED
  BY <1>3

-----------------------------------------------------------------------------
(***************************************************************************)
(* Programs.                                                               *)
(***************************************************************************)
\* A sequence, of whatever instructions.
Listed(p) == \E S : p \in Seq(S)

\* No instruction of p is an op.
Lacks(p, op) == \A i \in 1 .. Len(p) : p[i].op # op

\* p has a fence and loads no scales after it.
Clears(p) ==
  \E k \in 1 .. Len(p) : p[k].op = "fence" /\ \A i \in k + 1 .. Len(p) : p[i].op # "load_scales"

\* Before its instruction j, p has a fence and loads no scales after it.
FencedBefore(p, j) ==
  \E k \in 1 .. j - 1 : p[k].op = "fence" /\ \A i \in k + 1 .. j - 1 : p[i].op # "load_scales"

\* Every product is fenced from the loads before it.
Guarded(p) ==
  Listed(p) /\ \A j \in 1 .. Len(p) : p[j].op = "loop_ws" => FencedBefore(p, j)

\* The instructions of p \o q.
LEMMA Join ==
  ASSUME NEW p, NEW q, Listed(p), Listed(q)
  PROVE  /\ Listed(p \o q)
         /\ Len(p) \in Nat /\ Len(q) \in Nat
         /\ Len(p \o q) = Len(p) + Len(q)
         /\ \A i \in 1 .. Len(p) : (p \o q)[i] = p[i]
         /\ \A i \in Len(p) + 1 .. Len(p) + Len(q) : (p \o q)[i] = q[i - Len(p)]
<1>1. PICK S : p \in Seq(S)
  BY DEF Listed
<1>2. PICK R : q \in Seq(R)
  BY DEF Listed
<1>3. p \in Seq(S \cup R) /\ q \in Seq(S \cup R)
  BY <1>1, <1>2
<1> QED
  BY <1>3 DEF Listed

\* What neither of two programs has their concatenation has not.
LEMMA JoinLacks ==
  ASSUME NEW p, NEW q, NEW op, Listed(p), Listed(q), Lacks(p, op), Lacks(q, op)
  PROVE  Lacks(p \o q, op)
<1> SUFFICES ASSUME NEW i \in 1 .. Len(p) + Len(q) PROVE (p \o q)[i].op # op
  BY Join DEF Lacks
<1>1. CASE i <= Len(p)
  BY <1>1, Join DEF Lacks
<1>2. CASE i > Len(p)
  <2> i - Len(p) \in 1 .. Len(q) /\ i \in Len(p) + 1 .. Len(p) + Len(q)
    BY <1>2, Join
  <2> QED
    BY Join DEF Lacks
<1> QED
  BY <1>1, <1>2, Join

\* A fence in the second of two programs clears both.
LEMMA JoinClears ==
  ASSUME NEW p, NEW q, Listed(p), Listed(q), Clears(q)
  PROVE  Clears(p \o q)
<1> DEFINE n == Len(p)
           r == p \o q
<1>1. PICK k \in 1 .. Len(q) : q[k].op = "fence" /\ \A i \in k + 1 .. Len(q) : q[i].op # "load_scales"
  BY DEF Clears
<1>2. n \in Nat /\ Len(q) \in Nat /\ Len(r) = n + Len(q)
  BY Join
<1>3. n + k \in 1 .. Len(r) /\ r[n + k] = q[k]
  <2> n + k \in n + 1 .. n + Len(q) /\ (n + k) - n = k
    BY <1>2
  <2> QED
    BY <1>2, Join
<1>4. ASSUME NEW i \in n + k + 1 .. Len(r) PROVE r[i].op # "load_scales"
  <2> i \in n + 1 .. n + Len(q) /\ i - n \in k + 1 .. Len(q)
    BY <1>2
  <2> r[i] = q[i - n]
    BY Join
  <2> QED
    BY <1>1
<1> QED
  BY <1>1, <1>3, <1>4 DEF Clears

\* A program that loads nothing leaves what is before it cleared.
LEMMA KeepsClear ==
  ASSUME NEW p, NEW q, Listed(p), Listed(q), Clears(p), Lacks(q, "load_scales")
  PROVE  Clears(p \o q)
<1> DEFINE n == Len(p)
           r == p \o q
<1>1. PICK k \in 1 .. n : p[k].op = "fence" /\ \A i \in k + 1 .. n : p[i].op # "load_scales"
  BY DEF Clears
<1>2. n \in Nat /\ Len(q) \in Nat /\ Len(r) = n + Len(q)
  BY Join
<1>3. k \in 1 .. Len(r) /\ r[k] = p[k]
  BY <1>2, Join
<1>4. ASSUME NEW i \in k + 1 .. Len(r) PROVE r[i].op # "load_scales"
  <2>1. CASE i <= n
    <3> i \in 1 .. n /\ i \in k + 1 .. n
      BY <2>1, <1>2
    <3> QED
      BY <1>1, Join
  <2>2. CASE i > n
    <3> i \in n + 1 .. n + Len(q) /\ i - n \in 1 .. Len(q)
      BY <2>2, <1>2
    <3> QED
      BY Join DEF Lacks
  <2> QED
    BY <2>1, <2>2, <1>2
<1> QED
  BY <1>1, <1>3, <1>4 DEF Clears

\* A fence found in p is found in p \o q.
LEMMA FencedLeft ==
  ASSUME NEW p, NEW q, Listed(p), Listed(q), NEW j \in 1 .. Len(p), FencedBefore(p, j)
  PROVE  FencedBefore(p \o q, j)
<1> DEFINE r == p \o q
<1>1. PICK k \in 1 .. j - 1 : p[k].op = "fence" /\ \A i \in k + 1 .. j - 1 : p[i].op # "load_scales"
  BY DEF FencedBefore
<1>2. \A i \in 1 .. j - 1 : r[i] = p[i]
  BY Join
<1>3. r[k].op = "fence"
  BY <1>1, <1>2
<1>4. ASSUME NEW i \in k + 1 .. j - 1 PROVE r[i].op # "load_scales"
  <2> i \in 1 .. j - 1
    OBVIOUS
  <2> QED
    BY <1>1, <1>2
<1> QED
  BY <1>3, <1>4 DEF FencedBefore

\* Guarded programs may follow each other.
LEMMA JoinGuarded ==
  ASSUME NEW p, NEW q, Guarded(p), Guarded(q)
  PROVE  Guarded(p \o q)
<1> DEFINE n == Len(p)
           r == p \o q
<1>0. Listed(p) /\ Listed(q) /\ Listed(r)
  BY Join DEF Guarded
<1>1. n \in Nat /\ Len(q) \in Nat /\ Len(r) = n + Len(q)
  BY <1>0, Join
<1> SUFFICES ASSUME NEW j \in 1 .. Len(r), r[j].op = "loop_ws" PROVE FencedBefore(r, j)
  BY <1>0 DEF Guarded
<1>2. CASE j <= n
  <2> j \in 1 .. n /\ r[j] = p[j]
    BY <1>2, <1>0, <1>1, Join
  <2> QED
    BY <1>0, FencedLeft DEF Guarded
<1>3. CASE j > n
  <2>1. j - n \in 1 .. Len(q) /\ r[j] = q[j - n]
    BY <1>3, <1>0, <1>1, Join
  <2>2. PICK k \in 1 .. j - n - 1 : q[k].op = "fence" /\ \A i \in k + 1 .. j - n - 1 : q[i].op # "load_scales"
    BY <2>1 DEF Guarded, FencedBefore
  <2>3. n + k \in 1 .. j - 1 /\ r[n + k] = q[k]
    <3> n + k \in n + 1 .. n + Len(q) /\ (n + k) - n = k /\ n + k \in 1 .. j - 1
      BY <1>1, <1>3
    <3> QED
      BY <1>0, Join
  <2>4. ASSUME NEW i \in n + k + 1 .. j - 1 PROVE r[i].op # "load_scales"
    <3> i \in n + 1 .. n + Len(q) /\ i - n \in k + 1 .. j - n - 1
      BY <1>1, <1>3
    <3> QED
      BY <1>0, <2>2, Join
  <2> QED
    BY <2>2, <2>3, <2>4 DEF FencedBefore
<1> QED
  BY <1>1, <1>2, <1>3

\* After a fence, a program that loads nothing is guarded whatever it multiplies.
LEMMA AfterClear ==
  ASSUME NEW p, NEW q, Guarded(p), Clears(p), Listed(q), Lacks(q, "load_scales")
  PROVE  Guarded(p \o q) /\ Clears(p \o q)
<1> DEFINE n == Len(p)
           r == p \o q
<1>0. Listed(p) /\ Listed(r)
  BY Join DEF Guarded
<1>1. n \in Nat /\ Len(q) \in Nat /\ Len(r) = n + Len(q)
  BY <1>0, Join
<1>2. ASSUME NEW j \in 1 .. Len(r), r[j].op = "loop_ws" PROVE FencedBefore(r, j)
  <2>1. CASE j <= n
    <3> j \in 1 .. n /\ r[j] = p[j]
      BY <2>1, <1>0, <1>1, Join
    <3> QED
      BY <1>0, <1>2, FencedLeft DEF Guarded
  <2>2. CASE j > n
    <3>1. PICK k \in 1 .. n : p[k].op = "fence" /\ \A i \in k + 1 .. n : p[i].op # "load_scales"
      BY DEF Clears
    <3>2. k \in 1 .. j - 1 /\ r[k] = p[k]
      BY <2>2, <1>0, <1>1, Join
    <3>3. ASSUME NEW i \in k + 1 .. j - 1 PROVE r[i].op # "load_scales"
      <4>1. CASE i <= n
        <5> i \in 1 .. n /\ i \in k + 1 .. n
          BY <4>1, <1>1
        <5> QED
          BY <1>0, <3>1, Join
      <4>2. CASE i > n
        <5> i \in n + 1 .. n + Len(q) /\ i - n \in 1 .. Len(q)
          BY <4>2, <1>1
        <5> QED
          BY <1>0, Join DEF Lacks
      <4> QED
        BY <4>1, <4>2, <1>1
    <3> QED
      BY <3>1, <3>2, <3>3 DEF FencedBefore
  <2> QED
    BY <2>1, <2>2, <1>1
<1>3. Clears(r)
  BY <1>0, KeepsClear
<1> QED
  BY <1>0, <1>2, <1>3 DEF Guarded

\* A program that multiplies nothing is guarded.
LEMMA NoMeshGuarded ==
  ASSUME NEW p, Listed(p), Lacks(p, "loop_ws")
  PROVE  Guarded(p)
BY DEF Lacks, Guarded

-----------------------------------------------------------------------------
(***************************************************************************)
(* The accelerator.                                                        *)
(***************************************************************************)
\* A product yet to come is fenced from every load yet to come, and from those in flight unless there
\* are none.
Waits(p, flying) ==
  /\ Listed(p)
  /\ \A j \in 1 .. Len(p) :
       p[j].op = "loop_ws" =>
         FencedBefore(p, j) \/ (flying = {} /\ \A i \in 1 .. j - 1 : p[i].op # "load_scales")

\* The inductive invariant.
Waiting == Waits(prog, loads)

\* The next instruction is taken: a load that is issued has a fence between it and every product, and a
\* fence is passed only when nothing is in flight.
LEMMA Advances ==
  ASSUME NEW p, NEW flying, NEW flying2, Waits(p, flying), p # <<>>,
         \/ Head(p).op = "load_scales"
         \/ Head(p).op = "fence" /\ flying2 = {}
         \/ Head(p).op \notin {"fence", "load_scales"} /\ flying2 = flying
  PROVE  Waits(Tail(p), flying2)
<1> DEFINE q == Tail(p)
<1>1. PICK S : p \in Seq(S)
  BY DEF Waits, Listed
<1>2. q \in Seq(S) /\ Len(p) \in Nat \ {0} /\ Len(q) = Len(p) - 1 /\ Head(p) = p[1]
  BY <1>1
<1>3. \A i \in 1 .. Len(q) : q[i] = p[i + 1]
  BY <1>1
<1> SUFFICES ASSUME NEW j \in 1 .. Len(q), q[j].op = "loop_ws"
             PROVE  FencedBefore(q, j) \/ (flying2 = {} /\ \A i \in 1 .. j - 1 : q[i].op # "load_scales")
  BY <1>2 DEF Waits, Listed
<1>4. j + 1 \in 1 .. Len(p) /\ p[j + 1].op = "loop_ws"
  BY <1>2, <1>3
<1> HIDE DEF q
<1>5. ASSUME NEW k \in 1 .. j, p[k].op = "fence", \A i \in k + 1 .. j : p[i].op # "load_scales", k > 1
      PROVE  FencedBefore(q, j)
  <2>1. k - 1 \in 1 .. j - 1 /\ q[k - 1] = p[k]
    <3> k - 1 \in 1 .. j - 1 /\ k - 1 \in 1 .. Len(q) /\ (k - 1) + 1 = k
      BY <1>2, <1>5
    <3> QED
      BY <1>3
  <2>2. ASSUME NEW i \in (k - 1) + 1 .. j - 1 PROVE q[i].op # "load_scales"
    <3> i + 1 \in k + 1 .. j /\ i \in 1 .. Len(q)
      BY <1>2, <1>5
    <3> QED
      BY <1>3, <1>5
  <2> QED
    BY <1>5, <2>1, <2>2 DEF FencedBefore
<1>6. CASE FencedBefore(p, j + 1)
  <2>1. PICK k \in 1 .. j : p[k].op = "fence" /\ \A i \in k + 1 .. j : p[i].op # "load_scales"
    <3> (j + 1) - 1 = j
      BY <1>2
    <3> QED
      BY <1>6 DEF FencedBefore
  <2>2. CASE k > 1
    BY <2>1, <2>2, <1>5
  <2>3. CASE k = 1
    <3>1. flying2 = {}
      BY <2>1, <2>3, <1>2
    <3>2. ASSUME NEW i \in 1 .. j - 1 PROVE q[i].op # "load_scales"
      <4> i + 1 \in 1 + 1 .. j /\ i \in 1 .. Len(q)
        BY <1>2
      <4> QED
        BY <1>3, <2>1, <2>3
    <3> QED
      BY <3>1, <3>2
  <2> QED
    BY <2>2, <2>3
<1>7. CASE flying = {} /\ \A i \in 1 .. j : p[i].op # "load_scales"
  <2>1. Head(p).op # "load_scales"
    BY <1>2, <1>7
  <2>2. flying2 = {}
    BY <2>1, <1>7
  <2>3. ASSUME NEW i \in 1 .. j - 1 PROVE q[i].op # "load_scales"
    <3> i + 1 \in 1 .. j /\ i \in 1 .. Len(q)
      BY <1>2
    <3> QED
      BY <1>3, <1>7
  <2> QED
    BY <2>2, <2>3
<1> QED
  <2> (j + 1) - 1 = j
    BY <1>2
  <2> QED
    BY <1>4, <1>6, <1>7 DEF Waits

\* A load lands.
LEMMA Lands ==
  ASSUME NEW p, NEW flying, NEW flying2, Waits(p, flying), flying2 \subseteq flying
  PROVE  Waits(p, flying2)
BY DEF Waits

\* Every step of the accelerator keeps the invariant.
LEMMA NextWaits == Waiting /\ Next => Waiting'
<1> SUFFICES ASSUME Waiting, Next PROVE Waits(prog', loads')
  BY DEF Waiting
<1>0. Waits(prog, loads)
  BY DEF Waiting
<1>1. CASE IssueLoad
  BY <1>0, <1>1, Advances DEF IssueLoad, Is, Advance
<1>2. CASE DoFence
  BY <1>0, <1>2, Advances DEF DoFence, Is, Advance
<1>3. CASE LandLoad
  BY <1>0, <1>3, Lands DEF LandLoad
<1>4. CASE LandStore \/ Done
  BY <1>0, <1>4 DEF LandStore, Done, vars
<1>5. CASE ConfigEx
  BY <1>0, <1>5, Advances DEF ConfigEx, Is, Advance
<1>6. CASE LoadLuts
  BY <1>0, <1>6, Advances DEF LoadLuts, Is, Advance
<1>7. CASE Mvin
  BY <1>0, <1>7, Advances DEF Mvin, Is, Advance
<1>8. CASE LoopWs
  BY <1>0, <1>8, Advances DEF LoopWs, Is, Advance
<1>9. CASE Mvout
  BY <1>0, <1>9, Advances DEF Mvout, Is, Advance
<1>10. CASE HostOp
  BY <1>0, <1>10, Advances DEF HostOp, HostWrite, Is, Advance
<1>11. CASE ToF32
  BY <1>0, <1>11, Advances DEF ToF32, HostWrite, Is, Advance
<1>12. CASE Quantize
  BY <1>0, <1>12, Advances DEF Quantize, HostWrite, Is, Advance
<1>13. CASE SliceScales
  BY <1>0, <1>13, Advances DEF SliceScales, HostWrite, Is, Advance
<1>14. CASE PasteCols
  BY <1>0, <1>14, Advances DEF PasteCols, HostWrite, Is, Advance
<1>15. CASE Report
  BY <1>0, <1>15, Advances DEF Report, Is, Advance
<1> QED
  BY <1>1, <1>2, <1>3, <1>4, <1>5, <1>6, <1>7, <1>8, <1>9, <1>10, <1>11, <1>12, <1>13, <1>14, <1>15 DEF Next

\* When the next instruction is a product, no fence can be before it, so nothing is in flight.
LEMMA WaitsLanded == Waiting => ScalesLanded
<1> SUFFICES ASSUME Waiting, prog # <<>>, Head(prog).op = "loop_ws" PROVE loads = {}
  BY DEF ScalesLanded, Is
<1>1. PICK S : prog \in Seq(S)
  BY DEF Waiting, Waits, Listed
<1>2. 1 \in 1 .. Len(prog) /\ Head(prog) = prog[1]
  BY <1>1
<1> QED
  BY <1>2 DEF Waiting, Waits, FencedBefore

-----------------------------------------------------------------------------
(***************************************************************************)
(* Concatenations of many programs.                                        *)
(***************************************************************************)
\* The recursive function in FlattenSeq exists, and satisfies its equation.
LEMMA Unfold ==
  ASSUME NEW s, Len(s) \in Nat \ {0}
  PROVE  \E f : /\ f = [i \in 1 .. Len(s) |-> IF i = 1 THEN s[i] ELSE f[i - 1] \o s[i]]
                /\ FlattenSeq(s) = f[Len(s)]
<1> DEFINE Solves(f, m) == f = [i \in 1 .. m |-> IF i = 1 THEN s[i] ELSE f[i - 1] \o s[i]]
           Bad == {m \in Nat : ~\E f : Solves(f, m)}
<1>1. Bad = {}
  <2> SUFFICES ASSUME Bad # {} PROVE FALSE
    OBVIOUS
  <2>1. PICK m \in Bad : \A k \in Bad : m <= k
    BY Least
  <2>2. CASE m = 0
    <3> Solves([i \in 1 .. 0 |-> 0], 0)
      OBVIOUS
    <3> QED BY <2>2
  <2>3. CASE m # 0
    <3>0. m \in Nat /\ m - 1 \in Nat /\ ~(m <= m - 1)
      BY <2>3
    <3>1. m - 1 \notin Bad
      BY <2>1, <3>0
    <3>2. PICK f : Solves(f, m - 1)
      BY <3>0, <3>1
    <3> DEFINE g == [i \in 1 .. m |-> IF i < m THEN f[i] ELSE IF m = 1 THEN s[1] ELSE f[m - 1] \o s[m]]
    <3>3. Solves(g, m)
      <4>1. \A i \in 1 .. m - 1 : f[i] = IF i = 1 THEN s[i] ELSE f[i - 1] \o s[i]
        BY <3>0, <3>2
      <4>2. ASSUME NEW i \in 1 .. m PROVE g[i] = IF i = 1 THEN s[i] ELSE g[i - 1] \o s[i]
        <5>1. CASE i < m
          BY <3>0, <4>1, <5>1
        <5>2. CASE i = m
          BY <3>0, <5>2
        <5> QED BY <5>1, <5>2, <3>0
      <4> QED BY <4>2
    <3> QED BY <3>3, <3>0
  <2> QED BY <2>2, <2>3
<1>2. PICK h : Solves(h, Len(s))
  BY <1>1
<1> DEFINE f == CHOOSE f : Solves(f, Len(s))
<1>3. Solves(f, Len(s))
  BY <1>2
<1>4. FlattenSeq(s) = f[Len(s)]
  BY DEF FlattenSeq
<1> QED BY <1>3, <1>4

\* Any number of guarded programs may follow each other.
LEMMA FlattenGuarded ==
  ASSUME NEW s, Listed(s), \A i \in 1 .. Len(s) : Guarded(s[i])
  PROVE  Guarded(FlattenSeq(s))
<1>1. Len(s) \in Nat
  BY DEF Listed
<1>2. CASE Len(s) = 0
  BY <1>2 DEF FlattenSeq, Guarded
<1>3. CASE Len(s) # 0
  <2>1. PICK f : /\ f = [i \in 1 .. Len(s) |-> IF i = 1 THEN s[i] ELSE f[i - 1] \o s[i]]
                 /\ FlattenSeq(s) = f[Len(s)]
    BY <1>1, <1>3, Unfold
  <2>2. \A i \in 1 .. Len(s) : f[i] = IF i = 1 THEN s[i] ELSE f[i - 1] \o s[i]
    BY <2>1
  <2> DEFINE Bad == {i \in 1 .. Len(s) : ~Guarded(f[i])}
  <2>3. Bad = {}
    <3> SUFFICES ASSUME Bad # {} PROVE FALSE
      OBVIOUS
    <3>1. Bad \in SUBSET Nat
      BY <1>1
    <3>2. PICK m \in Bad : \A k \in Bad : m <= k
      BY <3>1, Least
    <3>3. CASE m = 1
      BY <2>2, <3>2, <3>3
    <3>4. CASE m # 1
      <4>1. m \in 1 .. Len(s) /\ m - 1 \in 1 .. Len(s) /\ ~(m <= m - 1)
        BY <1>1, <3>2, <3>4
      <4>2. Guarded(f[m - 1])
        BY <3>2, <4>1
      <4>3. f[m] = f[m - 1] \o s[m]
        BY <2>2, <3>4, <4>1
      <4> QED
        BY <3>2, <4>1, <4>2, <4>3, JoinGuarded
    <3> QED
      BY <3>3, <3>4
  <2>4. Len(s) \in 1 .. Len(s)
    BY <1>1, <1>3
  <2> QED
    BY <2>1, <2>3, <2>4
<1> QED
  BY <1>2, <1>3

\* A function on 1 .. n is a sequence of length n.
LEMMA ListOf ==
  ASSUME NEW n \in Nat, NEW s, DOMAIN s = 1 .. n, s = [i \in 1 .. n |-> s[i]]
  PROVE  Listed(s) /\ Len(s) = n
<1>1. s \in [1 .. n -> {s[i] : i \in 1 .. n}]
  OBVIOUS
<1>2. s \in Seq({s[i] : i \in 1 .. n})
  BY <1>1
<1> QED
  BY <1>2, LenProperties DEF Listed

-----------------------------------------------------------------------------
(***************************************************************************)
(* A single matmul and a chain.                                            *)
(***************************************************************************)
\* Programs of up to three instructions.
LEMMA Short ==
  ASSUME NEW x, NEW y, NEW z, NEW op
  PROVE  /\ Listed(<<>>) /\ Lacks(<<>>, op)
         /\ Listed(<<x>>) /\ (x.op # op => Lacks(<<x>>, op))
         /\ Listed(<<x, y>>) /\ (x.op # op /\ y.op # op => Lacks(<<x, y>>, op))
         /\ Listed(<<x, y, z>>) /\ (x.op # op /\ y.op # op /\ z.op # op => Lacks(<<x, y, z>>, op))
<1>1. <<>> \in Seq({x}) /\ <<x>> \in Seq({x}) /\ <<x, y>> \in Seq({x, y}) /\ <<x, y, z>> \in Seq({x, y, z})
  OBVIOUS
<1>2. Len(<<x>>) = 1 /\ Len(<<x, y>>) = 2 /\ Len(<<x, y, z>>) = 3 /\ Len(<<>>) = 0
  OBVIOUS
<1>3. Listed(<<>>) /\ Listed(<<x>>) /\ Listed(<<x, y>>) /\ Listed(<<x, y, z>>)
  BY <1>1 DEF Listed
<1>4. Lacks(<<>>, op)
  BY DEF Lacks
<1>5. x.op # op => Lacks(<<x>>, op)
  BY DEF Lacks
<1>6. x.op # op /\ y.op # op => Lacks(<<x, y>>, op)
  BY DEF Lacks
<1>7. x.op # op /\ y.op # op /\ z.op # op => Lacks(<<x, y, z>>, op)
  BY DEF Lacks
<1> QED
  BY <1>3, <1>4, <1>5, <1>6, <1>7

\* One matmul: emit_load_scales ends in a fence, and nothing after it loads scales.
LEMMA MatmulGuarded ==
  ASSUME NEW p, NEW bundle, NEW P
  PROVE  Guarded(Matmul(p, bundle, P))
<1> DEFINE c == <<config_ex(p.act_fmt, p.wgt_fmt, p.out_fmt)>>
           l == _emit_load_luts(p, bundle, P)
           s == emit_load_scales(p)
           i == _emit_mvin(p)
           x == _emit_mesh(p)
           d == IF p.chained_out THEN <<>> ELSE emit_drain(p)
           f == <<Fence>>
<1>1. Listed(c) /\ Lacks(c, "loop_ws")
  BY Short DEF config_ex
<1>2. Listed(l) /\ Lacks(l, "loop_ws")
  BY Short DEF _emit_load_luts
<1>3. Listed(s) /\ Lacks(s, "loop_ws") /\ Clears(s)
  <2> DEFINE a == IF p.chained_in THEN <<>> ELSE <<load_scales(<<p.lhs, "a">>, 0)>>
             b == <<load_scales(<<p.weight, "b">>, 1), Fence>>
  <2>1. Listed(a) /\ Lacks(a, "loop_ws")
    BY Short DEF load_scales
  <2>2. Listed(b) /\ Lacks(b, "loop_ws")
    BY Short DEF load_scales, Fence
  <2>3. Clears(b)
    BY DEF load_scales, Fence, Clears
  <2> HIDE DEF a, b
  <2>4. Listed(a \o b) /\ Lacks(a \o b, "loop_ws") /\ Clears(a \o b)
    BY <2>1, <2>2, <2>3, Join, JoinLacks, JoinClears
  <2> QED
    BY <2>4 DEF emit_load_scales, a, b
<1>4. Listed(i) /\ Lacks(i, "load_scales")
  <2> DEFINE a == IF p.chained_in THEN <<>>
                  ELSE <<mvin_A(<<p.lhs, "a">>, p.a_spad, tiles_i(p), tiles_k(p), p.k, p.k, p.dim)>>
             row == p.n \div packed_per_byte(p.wgt_fmt)
             b == <<mvin_B(<<p.weight, "b">>, b_base(p), tiles_k(p), tiles_j(p), row, row, p.dim, 0)>>
  <2>1. Listed(a) /\ Lacks(a, "load_scales")
    BY Short DEF mvin_A
  <2>2. Listed(b) /\ Lacks(b, "load_scales")
    BY Short DEF mvin_B
  <2> HIDE DEF a, b
  <2>3. Listed(a \o b) /\ Lacks(a \o b, "load_scales")
    BY <2>1, <2>2, Join, JoinLacks
  <2> QED
    BY <2>3 DEF _emit_mvin, a, b
<1>5. Listed(x) /\ Lacks(x, "load_scales")
  BY Short DEF _emit_mesh, loop_ws
<1>6. Listed(d) /\ Lacks(d, "load_scales")
  BY Short DEF emit_drain, Fence, mvout
<1>7. Listed(f) /\ Lacks(f, "load_scales")
  BY Short DEF Fence
<1> HIDE DEF c, l, s, i, x, d, f
<1>8. Listed(c \o l) /\ Lacks(c \o l, "loop_ws")
  BY <1>1, <1>2, Join, JoinLacks
<1>9. Guarded(c \o l \o s) /\ Clears(c \o l \o s)
  BY <1>3, <1>8, Join, JoinLacks, JoinClears, NoMeshGuarded
<1>10. Guarded(c \o l \o s \o i) /\ Clears(c \o l \o s \o i)
  BY <1>4, <1>9, AfterClear
<1>11. Guarded(c \o l \o s \o i \o x) /\ Clears(c \o l \o s \o i \o x)
  BY <1>5, <1>10, AfterClear
<1>12. Guarded(c \o l \o s \o i \o x \o d) /\ Clears(c \o l \o s \o i \o x \o d)
  BY <1>6, <1>11, AfterClear
<1>13. Guarded(c \o l \o s \o i \o x \o d \o f)
  BY <1>7, <1>12, AfterClear
<1> QED
  BY <1>13 DEF Matmul, c, l, s, i, x, d, f

\* Reading back what a stage produced multiplies nothing.
LEMMA ReportGuarded ==
  ASSUME NEW p
  PROVE  Guarded(_emit_report(p))
<1> DEFINE a == IF p.chained_out
                THEN <<mvout(<<p.out, "out">>, p.spad_dest, out_rows(p), p.n, TRUE), Fence>> ELSE <<>>
           b == <<report(<<p.out, "out">>, <<p.out, "out">>, p.n)>>
           c == IF p.out_fmt = BF16 THEN <<>> ELSE <<report(<<p.out, "scales">>, <<p.out, "scales">>, p.m)>>
<1>1. Listed(a) /\ Lacks(a, "loop_ws")
  BY Short DEF mvout, Fence
<1>2. Listed(b) /\ Lacks(b, "loop_ws")
  BY Short DEF report
<1>3. Listed(c) /\ Lacks(c, "loop_ws")
  BY Short DEF report
<1> HIDE DEF a, b, c
<1>4. Guarded(a \o b \o c)
  BY <1>1, <1>2, <1>3, Join, JoinLacks, NoMeshGuarded
<1> QED
  BY <1>4 DEF _emit_report, a, b, c

\* generate_driver: one matmul, or the stages of a chain and then the reports.
LEMMA DriverGuarded ==
  ASSUME NEW plans, NEW bundles, NEW P, Listed(plans)
  PROVE  Guarded(generate_driver(plans, bundles, P))
<1> DEFINE m == [i \in DOMAIN plans |-> Matmul(plans[i], bundles[i], P)]
           r == [i \in DOMAIN plans |-> _emit_report(plans[i])]
<1>1. DOMAIN plans = 1 .. Len(plans) /\ Len(plans) \in Nat
  BY DEF Listed
<1>2. Listed(m) /\ Len(m) = Len(plans) /\ Listed(r) /\ Len(r) = Len(plans)
  BY <1>1, ListOf
<1>3. Guarded(FlattenSeq(m)) /\ Guarded(FlattenSeq(r))
  <2>1. \A i \in 1 .. Len(m) : Guarded(m[i])
    BY <1>1, <1>2, MatmulGuarded
  <2>2. \A i \in 1 .. Len(r) : Guarded(r[i])
    BY <1>1, <1>2, ReportGuarded
  <2> HIDE DEF m, r
  <2> QED
    BY <1>2, <2>1, <2>2, FlattenGuarded
<1>4. Guarded(FlattenSeq(m) \o FlattenSeq(r))
  BY <1>3, JoinGuarded
<1>5. Guarded(_emit_single(plans[1], bundles[1], P))
  BY MatmulGuarded, ReportGuarded, JoinGuarded DEF _emit_single
<1> QED
  BY <1>4, <1>5 DEF generate_driver, _emit_chain

-----------------------------------------------------------------------------
(***************************************************************************)
(* The plan of a chain is a sequence, however malformed the commands.      *)
(***************************************************************************)
\* What plan_chain's loop carries.
PlanState(s) ==
  /\ Listed(s.plans)
  /\ s = [tensors |-> s.tensors, res_src |-> s.res_src, pending |-> s.pending,
          plans |-> s.plans, why |-> s.why]

Opcodes == {"RES_PACK", "MATMUL_RESIDENT", "COMMIT", "EVICT"}

\* Append, to a sequence of whatever elements.
LEMMA Appended == ASSUME NEW p, NEW x, Listed(p) PROVE Listed(Append(p, x))
<1>1. PICK S : p \in Seq(S)
  BY DEF Listed
<1>2. p \in Seq(S \cup {x}) /\ x \in S \cup {x}
  BY <1>1
<1>3. Append(p, x) \in Seq(S \cup {x})
  BY <1>2
<1> QED
  BY <1>3 DEF Listed

\* A record of the plan keeps its form when one of its fields is replaced.
WithWhy(s, v)      == [s EXCEPT !.why = v]
WithPacked(s, v)   == [s EXCEPT !.res_src = v]
WithPending(s, v)  == [s EXCEPT !.pending = v]
WithPlan(s, p, w)  == [s EXCEPT !.plans = Append(@, p), !.tensors = w]

LEMMA StateReplaced ==
  ASSUME NEW s, PlanState(s), NEW v, NEW w
  PROVE  /\ PlanState(WithWhy(s, v))
         /\ PlanState(WithPacked(s, v))
         /\ PlanState(WithPending(s, v))
         /\ PlanState(WithPlan(s, v, w))
<1> DEFINE R(t, r, p, l, y) == [tensors |-> t, res_src |-> r, pending |-> p, plans |-> l, why |-> y]
<1>0. Listed(s.plans) /\ Listed(Append(s.plans, v))
  BY Appended DEF PlanState
<1>1. s = R(s.tensors, s.res_src, s.pending, s.plans, s.why)
  BY DEF PlanState
<1>2. WithWhy(s, v) = R(s.tensors, s.res_src, s.pending, s.plans, v)
  BY <1>1 DEF WithWhy
<1>3. WithPacked(s, v) = R(s.tensors, v, s.pending, s.plans, s.why)
  BY <1>1 DEF WithPacked
<1>4. WithPending(s, v) = R(s.tensors, s.res_src, v, s.plans, s.why)
  BY <1>1 DEF WithPending
<1>5. WithPlan(s, v, w) = R(w, s.res_src, s.pending, Append(s.plans, v), s.why)
  <2>1. [s EXCEPT !.plans = Append(@, v)] = R(s.tensors, s.res_src, s.pending, Append(s.plans, v), s.why)
    BY <1>1
  <2> DEFINE l == Append(s.plans, v)
  <2> HIDE DEF l
  <2>2. [R(s.tensors, s.res_src, s.pending, l, s.why) EXCEPT !.tensors = w]
        = R(w, s.res_src, s.pending, l, s.why)
    OBVIOUS
  <2> QED
    BY <2>1, <2>2 DEF WithPlan, l
<1>6. PlanState(WithWhy(s, v))
  BY <1>0, <1>2 DEF PlanState
<1>7. PlanState(WithPacked(s, v))
  BY <1>0, <1>3 DEF PlanState
<1>8. PlanState(WithPending(s, v))
  BY <1>0, <1>4 DEF PlanState
<1>9. PlanState(WithPlan(s, v, w))
  <2> DEFINE l == Append(s.plans, v)
  <2>1. WithPlan(s, v, w) = R(w, s.res_src, s.pending, l, s.why) /\ Listed(l)
    BY <1>0, <1>5
  <2> HIDE DEF l
  <2> QED
    BY <2>1 DEF PlanState
<1> QED
  BY <1>6, <1>7, <1>8, <1>9

\* A stage is refused or appended.
LEMMA StageTyped ==
  ASSUME NEW s, PlanState(s), NEW lhs, NEW weight, NEW cmd, NEW P
  PROVE  PlanState(_plan_stage(s, lhs, weight, cmd, P))
<1>1. ASSUME NEW p, NEW why PROVE PlanState(Staged(s, p, why, cmd))
  <2> DEFINE w == Put(s.tensors, cmd.dst, [shape |-> <<p.m, p.n>>, dtype |-> cmd.dtype])
  <2>1. CASE why # ""
    <3> Staged(s, p, why, cmd) = WithWhy(s, why)
      BY <2>1 DEF Staged, WithWhy
    <3> QED
      BY StateReplaced
  <2>2. CASE why = ""
    <3>1. Staged(s, p, why, cmd) = WithPlan(s, p, w)
      BY <2>2 DEF Staged, WithPlan
    <3> HIDE DEF w
    <3> QED
      BY <3>1, StateReplaced
  <2> QED
    BY <2>1, <2>2
<1> DEFINE stage == MxGemmPlan(s.tensors[lhs], s.tensors[weight], lhs, weight, cmd, P)
<1>2. \/ _plan_stage(s, lhs, weight, cmd, P) = WithWhy(s, "missing tensor")
      \/ _plan_stage(s, lhs, weight, cmd, P) = WithWhy(s, "not a chain")
      \/ _plan_stage(s, lhs, weight, cmd, P) = WithWhy(s, "contraction mismatch")
      \/ _plan_stage(s, lhs, weight, cmd, P) = Staged(s, stage, PlanRefusal(stage, P), cmd)
  BY DEF _plan_stage, StageOf, WithWhy
<1> HIDE DEF stage
<1> QED
  BY <1>1, <1>2, StateReplaced

\* So is a command.
LEMMA CommandTyped ==
  ASSUME NEW s, PlanState(s), NEW cmd, cmd.opcode \in Opcodes, NEW P
  PROVE  PlanState(PlanCommand(s, cmd, P))
<1> DEFINE c == PlanCommand(s, cmd, P)
<1>1. CASE s.why # ""
  BY <1>1 DEF PlanCommand
<1>2. CASE s.why = "" /\ cmd.opcode = "RES_PACK"
  <2> DEFINE v == Put(s.res_src, cmd.dst, cmd.src)
  <2>1. c = WithPacked(s, v)
    BY <1>2 DEF PlanCommand, WithPacked
  <2> HIDE DEF v, c
  <2> QED
    BY <2>1, StateReplaced DEF c
<1>3. CASE s.why = "" /\ cmd.opcode = "MATMUL_RESIDENT"
  <2> DEFINE v == Put(s.pending, cmd.dst, <<cmd.lhs, s.res_src[cmd.rhs]>>)
  <2>1. c = WithWhy(s, "rhs not packed") \/ c = WithPending(s, v)
    BY <1>3 DEF PlanCommand, WithWhy, WithPending
  <2> HIDE DEF v, c
  <2> QED
    BY <2>1, StateReplaced DEF c
<1>4. CASE s.why = "" /\ cmd.opcode = "COMMIT"
  <2> DEFINE v == Drop(s.pending, cmd.src)
  <2>1. \/ c = WithWhy(s, "no accumulator")
        \/ c = _plan_stage(WithPending(s, v), s.pending[cmd.src][1], s.pending[cmd.src][2], cmd, P)
    BY <1>4 DEF PlanCommand, WithWhy, WithPending
  <2> HIDE DEF v, c
  <2>2. PlanState(WithPending(s, v))
    BY StateReplaced
  <2> QED
    BY <2>1, <2>2, StateReplaced, StageTyped DEF c
<1>5. CASE s.why = "" /\ cmd.opcode = "EVICT"
  <2> DEFINE v == Drop(s.res_src, cmd.src)
  <2>1. c = WithPacked(s, v)
    BY <1>5 DEF PlanCommand, WithPacked
  <2> HIDE DEF v, c
  <2> QED
    BY <2>1, StateReplaced DEF c
<1> QED
  BY <1>1, <1>2, <1>3, <1>4, <1>5 DEF Opcodes

\* The recursive function in plan_chain exists, and satisfies its equation.
LEMMA PlanUnfold ==
  ASSUME NEW cb, NEW P, Len(cb.commands) \in Nat
  PROVE  \E f : /\ f = [c \in 0 .. Len(cb.commands) |->
                         IF c = 0 THEN [tensors |-> cb.tensors, res_src |-> <<>>, pending |-> <<>>,
                                        plans |-> <<>>, why |-> ""]
                         ELSE PlanCommand(f[c - 1], cb.commands[c], P)]
                /\ plan_chain(cb, P) = ChainOf(f[Len(cb.commands)])
<1> DEFINE first == [tensors |-> cb.tensors, res_src |-> <<>>, pending |-> <<>>, plans |-> <<>>, why |-> ""]
           Solves(f, m) == f = [c \in 0 .. m |-> IF c = 0 THEN first
                                              ELSE PlanCommand(f[c - 1], cb.commands[c], P)]
           Bad == {m \in Nat : ~\E f : Solves(f, m)}
<1> HIDE DEF first
<1>1. Bad = {}
  <2> SUFFICES ASSUME Bad # {} PROVE FALSE
    OBVIOUS
  <2>1. PICK m \in Bad : \A k \in Bad : m <= k
    BY Least
  <2>2. CASE m = 0
    <3> Solves([i \in 0 .. 0 |-> first], 0)
      OBVIOUS
    <3> QED BY <2>2
  <2>3. CASE m # 0
    <3>0. m \in Nat /\ m - 1 \in Nat /\ ~(m <= m - 1)
      BY <2>3
    <3>1. m - 1 \notin Bad
      BY <2>1, <3>0
    <3>2. PICK f : Solves(f, m - 1)
      BY <3>0, <3>1
    <3> DEFINE g == [c \in 0 .. m |-> IF c < m THEN f[c] ELSE PlanCommand(f[m - 1], cb.commands[m], P)]
    <3>3. Solves(g, m)
      <4>1. \A c \in 0 .. m - 1 : f[c] = IF c = 0 THEN first ELSE PlanCommand(f[c - 1], cb.commands[c], P)
        BY <3>0, <3>2
      <4>2. ASSUME NEW c \in 0 .. m
            PROVE  g[c] = IF c = 0 THEN first ELSE PlanCommand(g[c - 1], cb.commands[c], P)
        <5>1. CASE c < m
          BY <3>0, <4>1, <5>1
        <5>2. CASE c = m
          BY <3>0, <2>3, <5>2
        <5> QED BY <5>1, <5>2, <3>0
      <4> QED BY <4>2
    <3> QED BY <3>3, <3>0
  <2> QED BY <2>2, <2>3
<1>2. PICK h : Solves(h, Len(cb.commands))
  BY <1>1
<1> DEFINE f == CHOOSE f : Solves(f, Len(cb.commands))
<1>3. Solves(f, Len(cb.commands))
  BY <1>2
<1>4. plan_chain(cb, P) = ChainOf(f[Len(cb.commands)])
  BY DEF plan_chain, first
<1> QED BY <1>3, <1>4 DEF first

\* After any number of commands.
LEMMA LastTyped ==
  ASSUME NEW n \in Nat, NEW f, NEW cs, NEW P, PlanState(f[0]),
         \A c \in 1 .. n : cs[c].opcode \in Opcodes,
         \A c \in 1 .. n : f[c] = PlanCommand(f[c - 1], cs[c], P)
  PROVE  PlanState(f[n])
<1> DEFINE Bad == {c \in 0 .. n : ~PlanState(f[c])}
<1>1. CASE Bad # {}
  <2>1. Bad \in SUBSET Nat
    OBVIOUS
  <2>2. PICK m \in Bad : \A k \in Bad : m <= k
    BY <1>1, <2>1, Least
  <2>3. m \in 1 .. n /\ m - 1 \in 0 .. n /\ ~(m <= m - 1)
    BY <2>2
  <2>4. PlanState(f[m - 1])
    BY <2>2, <2>3
  <2> QED
    BY <2>2, <2>3, <2>4, CommandTyped
<1> QED
  BY <1>1

\* _assign_smem returns one plan per plan.
LEMMA AssignedListed ==
  ASSUME NEW plans, Listed(plans)
  PROVE  Listed(_assign_smem(plans).plans)
<1> DEFINE n == Len(plans)
           a == _assign_smem(plans).plans
<1>1. n \in Nat
  BY DEF Listed
<1>2. CASE n = 1
  BY <1>2 DEF _assign_smem
<1>3. CASE n # 1
  <2>1. DOMAIN a = 1 .. n /\ a = [i \in DOMAIN a |-> a[i]]
    BY <1>3 DEF _assign_smem
  <2> HIDE DEF a
  <2>2. DOMAIN a = 1 .. n /\ a = [i \in 1 .. n |-> a[i]]
    BY <2>1
  <2>3. Listed(a)
    BY <1>1, <2>2, ListOf
  <2> QED
    BY <2>3 DEF a
<1> QED
  BY <1>2, <1>3

\* plan_chain refuses or returns a sequence of plans.
LEMMA PlansListed ==
  ASSUME NEW cb, NEW P, Listed(cb.commands),
         \A c \in 1 .. Len(cb.commands) : cb.commands[c].opcode \in Opcodes
  PROVE  plan_chain(cb, P).why # "" \/ Listed(plan_chain(cb, P).plans)
<1>1. Len(cb.commands) \in Nat
  BY ONLY Listed(cb.commands) DEF Listed
<1> DEFINE n == Len(cb.commands)
           cs == cb.commands
           first == [tensors |-> cb.tensors, res_src |-> <<>>, pending |-> <<>>, plans |-> <<>>, why |-> ""]
<1>2. PICK f : /\ f = [c \in 0 .. n |-> IF c = 0 THEN first ELSE PlanCommand(f[c - 1], cs[c], P)]
               /\ plan_chain(cb, P) = ChainOf(f[n])
  BY <1>1, PlanUnfold
<1>3. PlanState(first)
  BY Short DEF PlanState
<1>4. \A c \in 1 .. n : cs[c].opcode \in Opcodes
  OBVIOUS
<1> HIDE DEF n, cs, first
<1>5. n \in Nat
  BY <1>1 DEF n
<1>6. f[0] = first /\ \A c \in 1 .. n : f[c] = PlanCommand(f[c - 1], cs[c], P)
  BY ONLY <1>2, <1>5
<1>7. PlanState(f[n])
  BY ONLY <1>3, <1>4, <1>5, <1>6, LastTyped
<1> DEFINE s == f[n]
           r == ChainOf(s)
<1> HIDE DEF s
<1>8. Listed(s.plans)
  BY <1>7 DEF PlanState, s
<1>9. r.why # "" \/ r.plans = _assign_smem(s.plans).plans
  BY ONLY TRUE DEF ChainOf
<1>10. Listed(_assign_smem(s.plans).plans)
  BY <1>8, AssignedListed
<1> HIDE DEF r
<1>11. plan_chain(cb, P) = r
  BY <1>2 DEF r, s
<1> QED
  BY ONLY <1>9, <1>10, <1>11

\* The command buffer of a chain, also with one command missing, holds the four commands only.
LEMMA CommandsListed ==
  ASSUME NEW K, NEW dtype, NEW drop \in Nat, Listed(K.stages)
  PROVE  LET cs == Malformed(command_buffer(K, dtype), drop).commands
         IN  Listed(cs) /\ \A c \in 1 .. Len(cs) : cs[c].opcode \in Opcodes
<1> DEFINE n == Len(K.stages)
           cb == command_buffer(K, dtype)
           cs == cb.commands
<1>1. n \in Nat
  BY DEF Listed
<1>2. /\ DOMAIN cs = 1 .. 4 * n
      /\ \A c \in 1 .. 4 * n : cs[c].opcode \in Opcodes
      /\ cs = [c \in 1 .. 4 * n |-> cs[c]]
  <2>1. DOMAIN cs = 1 .. 4 * n /\ cs = [c \in 1 .. 4 * n |-> cs[c]]
    BY DEF command_buffer
  <2>2. ASSUME NEW c \in 1 .. 4 * n PROVE cs[c].opcode \in Opcodes
    <3> DEFINE r == (c - 1) % 4
               i == (c - 1) \div 4 + 1
               four == << Cmd("RES_PACK", Handle(i), WName(i), "", "", ""),
                          Cmd("MATMUL_RESIDENT", Acc(i), "", InName(i), Handle(i), ""),
                          Cmd("COMMIT", OutName(K, i), Acc(i), "", "", IF i = n THEN BF16 ELSE FORMATS[dtype].mlir),
                          Cmd("EVICT", "", Handle(i), "", "", "") >>
    <3>1. cs[c] = four[r + 1]
      BY DEF command_buffer
    <3>2. r + 1 \in 1 .. 4
      BY <1>1
    <3>3. \A x \in 1 .. 4 : four[x].opcode \in Opcodes
      <4>1. /\ four[1].opcode = "RES_PACK" /\ four[2].opcode = "MATMUL_RESIDENT"
            /\ four[3].opcode = "COMMIT" /\ four[4].opcode = "EVICT"
        BY DEF Cmd
      <4>2. \A x \in 1 .. 4 : x \in {1, 2, 3, 4}
        OBVIOUS
      <4> HIDE DEF four
      <4> QED
        BY <4>1, <4>2 DEF Opcodes
    <3> HIDE DEF four, r
    <3> QED
      BY <3>1, <3>2, <3>3
  <2> QED
    BY <2>1, <2>2
<1> DEFINE S == {cs[c] : c \in 1 .. 4 * n}
<1> HIDE DEF cs, n
<1>3. cs \in [1 .. 4 * n -> S]
  BY <1>2
<1>4. cs \in Seq(S) /\ 4 * n \in Nat
  <2>1. 4 * n \in Nat
    BY <1>1
  <2> DEFINE m == 4 * n
  <2> HIDE DEF m, S
  <2>2. cs \in [1 .. m -> S] /\ m \in Nat
    BY <1>3, <2>1 DEF m
  <2>3. cs \in Seq(S)
    BY <2>2
  <2> QED
    BY <2>1, <2>3
<1>5. \A x \in S : x.opcode \in Opcodes
  BY <1>2
<1> HIDE DEF S
<1> DEFINE ds == Malformed(cb, drop).commands
<1>6. ds \in Seq(S)
  <2>1. CASE drop \in DOMAIN cs
    <3>1. ds = RemoveAt(cs, drop)
      <4>1. cb = [tensors |-> cb.tensors, commands |-> cs]
        BY DEF command_buffer, cs
      <4>2. Malformed(cb, drop) = [cb EXCEPT !.commands = RemoveAt(cs, drop)]
        BY <2>1 DEF Malformed, cs
      <4> HIDE DEF cb
      <4> QED
        BY <4>1, <4>2
    <3>2. drop \in 1 .. Len(cs)
      BY <1>4, <2>1
    <3>3. SubSeq(cs, 1, drop - 1) \in Seq(S) /\ SubSeq(cs, drop + 1, Len(cs)) \in Seq(S)
      <4>1. Len(cs) \in Nat
        BY <1>4
      <4>2. \A i \in 1 .. drop - 1 : i \in 1 .. Len(cs)
        BY <3>2, <4>1
      <4>3. \A i \in drop + 1 .. Len(cs) : i \in 1 .. Len(cs)
        BY <3>2, <4>1
      <4> QED
        BY <1>4, <3>2, <4>1, <4>2, <4>3, SubSeqProperties
    <3> QED
      BY <3>1, <3>3, ConcatProperties DEF RemoveAt
  <2>2. CASE drop \notin DOMAIN cs
    BY <1>4, <2>2 DEF Malformed, cs
  <2> QED
    BY <2>1, <2>2
<1> HIDE DEF ds
<1>7. Listed(ds) /\ \A c \in 1 .. Len(ds) : ds[c].opcode \in Opcodes
  <2>1. \A c \in 1 .. Len(ds) : ds[c] \in S
    BY <1>6
  <2> QED
    BY <1>5, <1>6, <2>1 DEF Listed
<1> QED
  BY <1>7 DEF ds

\* What the fused lowering compiles is guarded.
LEMMA ChainGuarded ==
  ASSUME NEW K, NEW dtype, NEW P, NEW drop \in Nat, NEW edges, Listed(K.stages),
         CompileChain(K, dtype, P, drop, edges).why = ""
  PROVE  Guarded(CompileChain(K, dtype, P, drop, edges).prog)
<1> DEFINE cb == Malformed(command_buffer(K, dtype), drop)
           plan == plan_chain(cb, P)
           bundles == Bundles(K, dtype, P.lut_group)
           c == EmitChain(K, P, edges, plan, bundles)
<1>1. plan.why # "" \/ Listed(plan.plans)
  BY CommandsListed, PlansListed
<1>2. c.why = "" /\ CompileChain(K, dtype, P, drop, edges) = c
  BY DEF CompileChain
<1> HIDE DEF plan, bundles
<1>3. plan.why = "" /\ c.prog = generate_driver(plan.plans, bundles, P)
  BY <1>2 DEF EmitChain, Refused
<1> QED
  BY <1>1, <1>2, <1>3, DriverGuarded

-----------------------------------------------------------------------------
(***************************************************************************)
(* A graph.  Its chunks can be counted, because shapes are numbers.        *)
(***************************************************************************)
\* The recursive function in shapes exists, and satisfies its equation.
LEMMA ShapesUnfold ==
  ASSUME NEW K, Len(K.stages) \in Nat
  PROVE  \E f : /\ f = [i \in 0 .. Len(K.stages) |->
                         IF i = 0 THEN [y \in {INPUT} |-> K.x]
                         ELSE Put(f[i - 1], K.stages[i].name, ShapeOf(K, i, f[i - 1]))]
                /\ shapes(K) = f[Len(K.stages)]
<1> DEFINE Shape(sh, i) == Put(sh, K.stages[i].name, ShapeOf(K, i, sh))
           first == [y \in {INPUT} |-> K.x]
           Solves(f, m) == f = [i \in 0 .. m |-> IF i = 0 THEN first ELSE Shape(f[i - 1], i)]
           Bad == {m \in Nat : ~\E f : Solves(f, m)}
<1> HIDE DEF first, Shape
<1>1. Bad = {}
  <2> SUFFICES ASSUME Bad # {} PROVE FALSE
    OBVIOUS
  <2>1. PICK m \in Bad : \A k \in Bad : m <= k
    BY Least
  <2>2. CASE m = 0
    <3> Solves([i \in 0 .. 0 |-> first], 0)
      OBVIOUS
    <3> QED BY <2>2
  <2>3. CASE m # 0
    <3>0. m \in Nat /\ m - 1 \in Nat /\ ~(m <= m - 1)
      BY <2>3
    <3>1. m - 1 \notin Bad
      BY <2>1, <3>0
    <3>2. PICK f : Solves(f, m - 1)
      BY <3>0, <3>1
    <3> DEFINE g == [i \in 0 .. m |-> IF i < m THEN f[i] ELSE Shape(f[m - 1], m)]
    <3>3. Solves(g, m)
      <4>1. \A i \in 0 .. m - 1 : f[i] = IF i = 0 THEN first ELSE Shape(f[i - 1], i)
        BY <3>0, <3>2
      <4>2. ASSUME NEW i \in 0 .. m
            PROVE  g[i] = IF i = 0 THEN first ELSE Shape(g[i - 1], i)
        <5>1. CASE i < m
          BY <3>0, <4>1, <5>1
        <5>2. CASE i = m
          BY <3>0, <2>3, <5>2
        <5> QED BY <5>1, <5>2, <3>0
      <4> QED BY <4>2
    <3> QED BY <3>3, <3>0
  <2> QED BY <2>2, <2>3
<1>2. PICK h : Solves(h, Len(K.stages))
  BY <1>1
<1> DEFINE f == CHOOSE f : Solves(f, Len(K.stages))
<1>3. Solves(f, Len(K.stages))
  BY <1>2
<1>4. shapes(K) = f[Len(K.stages)]
  BY DEF shapes, first, Shape
<1> QED BY <1>3, <1>4 DEF first, Shape

\* A chunk of nc columns fits the scratchpad.
ChunkFits(st, rows, dim, nc) ==
  (st.m * st.k) \div dim + (st.k * nc) \div dim + (st.m * nc * 2) \div dim <= rows

\* The recursive function in ChunkWidth exists, and satisfies its equation.
LEMMA ChunkUnfold ==
  ASSUME NEW st, NEW tile, NEW rows, NEW dim, st.n \in Nat
  PROVE  \E f : /\ f = [nc \in 0 .. st.n |->
                         IF nc < tile \/ ChunkFits(st, rows, dim, nc) THEN nc ELSE f[nc \div 2]]
                /\ ChunkWidth(st, tile, rows, dim) = f[st.n]
<1> DEFINE fits(nc) == ChunkFits(st, rows, dim, nc)
           Solves(f, m) == f = [nc \in 0 .. m |-> IF nc < tile \/ fits(nc) THEN nc ELSE f[nc \div 2]]
           Bad == {m \in Nat : ~\E f : Solves(f, m)}
<1> HIDE DEF fits
<1>1. Bad = {}
  <2> SUFFICES ASSUME Bad # {} PROVE FALSE
    OBVIOUS
  <2>1. PICK m \in Bad : \A k \in Bad : m <= k
    BY Least
  <2>0. m \in Nat
    OBVIOUS
  <2>2. CASE m = 0
    <3> Solves([nc \in 0 .. 0 |-> 0], 0)
      OBVIOUS
    <3> QED BY <2>2
  <2>3. CASE m # 0
    <3>0. m - 1 \in Nat /\ ~(m <= m - 1) /\ m \div 2 \in 0 .. m - 1
      BY <2>0, <2>3
    <3>1. m - 1 \notin Bad
      BY <2>1, <3>0
    <3>2. PICK f : Solves(f, m - 1)
      BY <3>0, <3>1
    <3> DEFINE g == [nc \in 0 .. m |-> IF nc < m THEN f[nc] ELSE IF m < tile \/ fits(m) THEN m ELSE f[m \div 2]]
    <3>3. Solves(g, m)
      <4>1. \A nc \in 0 .. m - 1 : f[nc] = IF nc < tile \/ fits(nc) THEN nc ELSE f[nc \div 2]
        BY <3>0, <3>2
      <4>2. ASSUME NEW nc \in 0 .. m
            PROVE  g[nc] = IF nc < tile \/ fits(nc) THEN nc ELSE g[nc \div 2]
        <5>1. CASE nc < m
          <6>1. nc \in 0 .. m - 1 /\ nc \div 2 \in 0 .. m /\ nc \div 2 < m
            BY <2>0, <5>1
          <6>2. g[nc] = f[nc] /\ g[nc \div 2] = f[nc \div 2]
            BY <5>1, <6>1
          <6> HIDE DEF g
          <6> QED
            BY <4>1, <6>1, <6>2
        <5>2. CASE nc = m
          <6>1. m \div 2 \in 0 .. m /\ m \div 2 < m
            BY <2>0, <3>0
          <6>2. g[m \div 2] = f[m \div 2] /\ g[m] = IF m < tile \/ fits(m) THEN m ELSE f[m \div 2]
            BY <2>0, <6>1
          <6> HIDE DEF g
          <6> QED
            BY <5>2, <6>2
        <5> QED BY <5>1, <5>2, <2>0
      <4> QED BY <4>2
    <3> QED BY <3>3, <2>0
  <2> QED BY <2>2, <2>3
<1>2. PICK h : Solves(h, st.n)
  BY <1>1
<1> DEFINE f == CHOOSE f : Solves(f, st.n)
<1>3. Solves(f, st.n)
  BY <1>2
<1>4. ChunkWidth(st, tile, rows, dim) = f[st.n]
  BY DEF ChunkWidth, ChunkFits, fits
<1> HIDE DEF f
<1> QED BY <1>3, <1>4 DEF fits

\* Halving ends in a number of columns.
LEMMA ChunkTyped ==
  ASSUME NEW st, NEW tile \in Nat \ {0}, NEW rows, NEW dim, st.n \in Nat
  PROVE  ChunkWidth(st, tile, rows, dim) \in Nat
<1> DEFINE n == st.n
           fits(nc) == ChunkFits(st, rows, dim, nc)
<1>1. PICK f : /\ f = [nc \in 0 .. n |-> IF nc < tile \/ fits(nc) THEN nc ELSE f[nc \div 2]]
               /\ ChunkWidth(st, tile, rows, dim) = f[n]
  BY ChunkUnfold
<1> HIDE DEF fits, n
<1>2. n \in Nat
  BY DEF n
<1>3. \A nc \in 0 .. n : f[nc] = IF nc < tile \/ fits(nc) THEN nc ELSE f[nc \div 2]
  BY <1>1
<1> DEFINE Bad == {nc \in 0 .. n : f[nc] \notin Nat}
<1>4. Bad = {}
  <2> SUFFICES ASSUME Bad # {} PROVE FALSE
    OBVIOUS
  <2>1. Bad \in SUBSET Nat
    BY <1>2
  <2>2. PICK m \in Bad : \A k \in Bad : m <= k
    BY <2>1, Least
  <2>3. m \in 0 .. n /\ f[m] \notin Nat /\ m \in Nat
    BY <1>2
  <2>4. ~(m < tile) /\ f[m] = f[m \div 2]
    BY <1>3, <2>3
  <2>5. m \div 2 \in 0 .. n /\ ~(m <= m \div 2)
    BY <1>2, <2>3, <2>4
  <2> QED
    BY <2>2, <2>3, <2>4, <2>5
<1>5. f[n] \in Nat
  BY <1>2, <1>4
<1> QED
  BY <1>1, <1>5 DEF n

\* The parts of KernelType the proofs use.
LEMMA KernelTyped ==
  ASSUME NEW K \in KernelType
  PROVE  /\ Listed(K.stages)
         /\ Len(K.stages) \in Nat /\ DOMAIN K.stages = 1 .. Len(K.stages)
         /\ K.x \in Nat \X Nat
         /\ \A j \in 1 .. Len(K.stages) : K.stages[j].weight \in {<<>>} \cup Nat \X Nat
<1> DEFINE R == [name : STRING, op : STRING, weight : {<<>>} \cup Nat \X Nat, lhs : STRING, rhs : STRING,
                 rT : BOOLEAN, srcs : Seq(STRING), fn : BOOLEAN]
<1>1. K.stages \in Seq(R) /\ K.x \in Nat \X Nat
  BY DEF KernelType
<1>2. \A r \in R : r.weight \in {<<>>} \cup Nat \X Nat
  OBVIOUS
<1> HIDE DEF R
<1>3. \A j \in 1 .. Len(K.stages) : K.stages[j] \in R
  BY <1>1
<1> QED
  BY <1>1, <1>2, <1>3 DEF Listed

\* Every stage of a kernel without unresolved references has a shape.
LEMMA ShapesTyped ==
  ASSUME NEW K \in KernelType, resolved(K), NEW i \in DOMAIN K.stages
  PROVE  shapes(K)[K.stages[i].name] \in Nat \X Nat
<1> DEFINE n == Len(K.stages)
           Shaped == Nat \X Nat
<1>1. /\ n \in Nat /\ DOMAIN K.stages = 1 .. n
      /\ K.x \in Shaped
      /\ \A j \in 1 .. n : K.stages[j].weight \in {<<>>} \cup Shaped
  BY KernelTyped
<1>2. PICK f : /\ f = [j \in 0 .. n |-> IF j = 0 THEN [y \in {INPUT} |-> K.x]
                                        ELSE Put(f[j - 1], K.stages[j].name, ShapeOf(K, j, f[j - 1]))]
               /\ shapes(K) = f[n]
  BY <1>1, ShapesUnfold
<1>3. ASSUME NEW j \in 1 .. n, NEW sh \in [Before(K, j) -> Shaped]
      PROVE  ShapeOf(K, j, sh) \in Shaped
  <2>1. CASE on_mesh(K.stages[j])
    <3>1. Lhs(K, j) \in Before(K, j) /\ (K.stages[j].weight = <<>> => K.stages[j].rhs \in Before(K, j))
      BY <1>1, <2>1 DEF resolved
    <3>2. sh[Lhs(K, j)][1] \in Nat
      BY <3>1
    <3>3. K.stages[j].weight = <<>> =>
            sh[K.stages[j].rhs][2] \in Nat /\ Flip(sh[K.stages[j].rhs])[2] \in Nat
      BY <3>1 DEF Flip
    <3>4. K.stages[j].weight # <<>> => K.stages[j].weight[2] \in Nat
      BY <1>1
    <3> QED
      BY <2>1, <3>2, <3>3, <3>4 DEF ShapeOf
  <2>2. CASE ~on_mesh(K.stages[j])
    <3>1. Srcs(K, j)[1] \in Before(K, j)
      BY <1>1, <2>2 DEF resolved
    <3> QED
      BY <2>2, <3>1 DEF ShapeOf
  <2> QED
    BY <2>1, <2>2
<1> HIDE DEF n, Shaped
<1>4. f[0] \in [Before(K, 1) -> Shaped]
  <2>1. f[0] = [y \in {INPUT} |-> K.x]
    BY <1>1, <1>2
  <2>2. Before(K, 1) = {INPUT}
    BY DEF Before
  <2> QED
    BY <1>1, <2>1, <2>2
<1>5. ASSUME NEW j \in 1 .. n, f[j - 1] \in [Before(K, j) -> Shaped]
      PROVE  f[j] \in [Before(K, j + 1) -> Shaped]
  <2> DEFINE v == ShapeOf(K, j, f[j - 1])
             x == K.stages[j].name
  <2>1. f[j] = Put(f[j - 1], x, v)
    BY <1>1, <1>2
  <2>2. Before(K, j + 1) = Before(K, j) \cup {x}
    BY <1>1 DEF Before
  <2>3. v \in Shaped
    BY <1>3, <1>5
  <2> HIDE DEF v, x
  <2> QED
    BY <1>5, <2>1, <2>2, <2>3 DEF Put
<1> DEFINE Bad == {j \in 0 .. n : f[j] \notin [Before(K, j + 1) -> Shaped]}
<1>6. Bad = {}
  <2> SUFFICES ASSUME Bad # {} PROVE FALSE
    OBVIOUS
  <2>1. Bad \in SUBSET Nat
    BY <1>1
  <2>2. PICK m \in Bad : \A k \in Bad : m <= k
    BY <2>1, Least
  <2>3. m \in 1 .. n /\ m - 1 \in 0 .. n /\ ~(m <= m - 1) /\ (m - 1) + 1 = m
    BY <1>1, <1>4, <2>2
  <2>4. f[m - 1] \in [Before(K, m) -> Shaped]
    BY <2>2, <2>3
  <2> QED
    BY <1>5, <2>2, <2>3, <2>4
<1>7. shapes(K) \in [Before(K, n + 1) -> Shaped]
  <2>1. n \in 0 .. n /\ f[n] \in [Before(K, n + 1) -> Shaped]
    BY <1>1, <1>6
  <2> QED
    BY <1>2, <2>1
<1>8. K.stages[i].name \in Before(K, n + 1)
  BY <1>1 DEF Before
<1> QED
  BY <1>7, <1>8 DEF Shaped

-----------------------------------------------------------------------------
\* Handing a value back to the mesh multiplies nothing.
LEMMA UsesQuiet ==
  ASSUME NEW v, NEW m, NEW n, NEW uses, NEW from_bf16, NEW host_f32
  PROVE  LET q == _emit_uses(v, m, n, uses, from_bf16, host_f32)
         IN  Listed(q) /\ Lacks(q, "loop_ws")
<1> DEFINE quant(how) == IF <<v, how>> \notin uses THEN <<>>
                         ELSE <<[op |-> "quantize", how |-> how, src |-> Float(v), dst |-> <<v, how>>,
                                 m |-> m, n |-> n]>>
           f == IF from_bf16 /\ (host_f32 \/ \E how \in {"a", "b", "bT"} : <<v, how>> \in uses)
                THEN <<[op |-> "to_f32", src |-> <<v, "bf16">>, dst |-> Float(v), n |-> n]>> ELSE <<>>
           a == quant("a")
           b == quant("b")
           c == quant("bT")
<1>1. \A how : Listed(quant(how)) /\ Lacks(quant(how), "loop_ws")
  BY Short
<1>2. Listed(f) /\ Lacks(f, "loop_ws")
  BY Short
<1>3. Listed(a) /\ Lacks(a, "loop_ws") /\ Listed(b) /\ Lacks(b, "loop_ws") /\ Listed(c) /\ Lacks(c, "loop_ws")
  BY <1>1
<1>4. _emit_uses(v, m, n, uses, from_bf16, host_f32) = f \o a \o b \o c
  BY DEF _emit_uses
<1> HIDE DEF quant, f, a, b, c
<1> QED
  BY <1>2, <1>3, <1>4, Join, JoinLacks

\* Nor does a host step.
LEMMA HostStepGuarded ==
  ASSUME NEW st, NEW uses, st.op # "mesh"
  PROVE  Guarded(_emit_host_step(st, uses))
<1> DEFINE h == <<[op |-> "host", f |-> st.op, srcs |-> [i \in DOMAIN st.srcs |-> OpSource(st, st.srcs[i])],
                   dst |-> Float(st.out), n |-> st.n]>>
           q == _emit_uses(st.out, st.m, st.n, uses, FALSE, FALSE)
<1>1. Listed(h) /\ Lacks(h, "loop_ws")
  BY Short
<1>2. Listed(q) /\ Lacks(q, "loop_ws")
  BY UsesQuiet
<1>3. _emit_host_step(st, uses) = h \o q
  BY DEF _emit_host_step
<1> HIDE DEF h, q
<1> QED
  BY <1>1, <1>2, <1>3, Join, JoinLacks, NoMeshGuarded

\* The product of a chunk loads no scales.
LEMMA MeshPartQuiet ==
  ASSUME NEW st, NEW b, NEW n0, NEW nc, NEW tile, NEW dest, NEW dst, NEW P
  PROVE  LET q == MeshPart(st, b, n0, nc, tile, dest, dst, P)
         IN  Listed(q) /\ Lacks(q, "load_scales")
<1> DEFINE q == MeshPart(st, b, n0, nc, tile, dest, dst, P)
<1>1. /\ Len(q) = 6
      /\ q \in Seq({q[1], q[2], q[3], q[4], q[5], q[6]})
      /\ q[1].op = "mvin" /\ q[2].op = "loop_ws" /\ q[3].op = "fence"
      /\ q[4].op = "fence" /\ q[5].op = "mvout" /\ q[6].op = "fence"
  BY DEF MeshPart, mvin_B, loop_ws, Fence, mvout
<1> HIDE DEF q
<1>2. \A i \in 1 .. 6 : i \in {1, 2, 3, 4, 5, 6}
  OBVIOUS
<1>3. Listed(q) /\ Lacks(q, "load_scales")
  BY <1>1, <1>2 DEF Listed, Lacks
<1> QED
  BY <1>3 DEF q

\* A mesh step, in one piece or chunk by chunk: each piece loads its scales and fences them.
LEMMA MeshStepGuarded ==
  ASSUME NEW st, NEW uses, NEW host_f32, NEW P, st.n \in Nat,
         ~MeshRefused(st, FORMATS[GRAPH_DTYPE].tile, P)
  PROVE  Guarded(_emit_mesh_step(st, uses, host_f32, P))
<1> DEFINE tile == FORMATS[GRAPH_DTYPE].tile
           nc == ChunkWidth(st, tile, spad_rows(P), P.dim)
           a == <<st.srcs[1], "a">>
           b == <<st.rhs[Len(st.rhs)], IF Len(st.rhs) = 2 THEN "W" ELSE st.how>>
           out == <<st.out, "bf16">>
           slice(c) == << [op |-> "slice_scales", src |-> b, lo |-> (c - 1) * nc, cols |-> nc],
                          load_scales(<<"bsc", "scales">>, 1), Fence >>
           part(c) == MeshPart(st, b, (c - 1) * nc, nc, tile, ChunkDest(st, P.dim), <<"chunk", "part">>, P)
           paste(c) == << [op |-> "paste_cols", dst |-> out, src |-> <<"chunk", "part">>, n0 |-> (c - 1) * nc] >>
           head == << config_ex(GRAPH_DTYPE, GRAPH_DTYPE, BF16), load_scales(a, 0),
                      mvin_A(a, 0, st.m \div P.dim, st.k \div P.dim, st.k, st.k, P.dim) >>
           count == st.n \div nc
           chunks == [c \in 1 .. count |-> slice(c) \o part(c) \o paste(c)]
           load == <<load_scales(b, 1), Fence>>
           whole == MeshPart(st, b, 0, nc, tile, spad_dest, out, P)
           q == _emit_uses(st.out, st.m, st.n, uses, TRUE, st.out \in host_f32)
           middle == IF nc < st.n THEN FlattenSeq(chunks) ELSE load \o whole
<1>0. _emit_mesh_step(st, uses, host_f32, P) = head \o middle \o q
  BY DEF _emit_mesh_step
<1>1. tile = 16
  BY DEF GRAPH_DTYPE, FORMATS, Direct
<1>2. nc \in Nat /\ nc >= tile
  <2>1. nc \in Nat
    BY <1>1, ChunkTyped
  <2>2. ~(nc < tile)
    BY DEF MeshRefused
  <2> HIDE DEF nc, tile
  <2> QED
    BY <1>1, <2>1, <2>2
<1>3. Guarded(head)
  <2>1. Listed(head)
    BY Short
  <2>2. Lacks(head, "loop_ws")
    <3> DEFINE x == config_ex(GRAPH_DTYPE, GRAPH_DTYPE, BF16)
               y == load_scales(a, 0)
               z == mvin_A(a, 0, st.m \div P.dim, st.k \div P.dim, st.k, st.k, P.dim)
    <3>1. x.op # "loop_ws" /\ y.op # "loop_ws" /\ z.op # "loop_ws"
      BY DEF config_ex, load_scales, mvin_A
    <3> HIDE DEF x, y, z
    <3>2. Lacks(<<x, y, z>>, "loop_ws")
      BY <3>1, Short
    <3> QED
      BY <3>2 DEF x, y, z
  <2> QED
    BY <2>1, <2>2, NoMeshGuarded
<1>4. Guarded(q)
  BY UsesQuiet, NoMeshGuarded
<1>5. Guarded(load \o whole)
  <2>1. Listed(load) /\ Lacks(load, "loop_ws") /\ Clears(load)
    <3> DEFINE x == load_scales(b, 1)
    <3>1. x.op = "load_scales" /\ Fence.op = "fence"
      BY DEF load_scales, Fence
    <3> HIDE DEF x
    <3>2. Listed(<<x, Fence>>) /\ Lacks(<<x, Fence>>, "loop_ws")
      BY <3>1, Short
    <3>3. Clears(<<x, Fence>>)
      BY <3>1 DEF Clears
    <3> QED
      BY <3>2, <3>3 DEF x
  <2>2. Listed(whole) /\ Lacks(whole, "load_scales")
    BY MeshPartQuiet
  <2> HIDE DEF load, whole
  <2> QED
    BY <2>1, <2>2, NoMeshGuarded, AfterClear
<1>6. ASSUME NEW c PROVE Guarded(slice(c) \o part(c) \o paste(c))
  <2> DEFINE s == slice(c)
             p == part(c)
             e == paste(c)
  <2>1. Listed(s) /\ Lacks(s, "loop_ws") /\ Clears(s)
    <3> DEFINE x == [op |-> "slice_scales", src |-> b, lo |-> (c - 1) * nc, cols |-> nc]
               y == load_scales(<<"bsc", "scales">>, 1)
    <3>1. x.op = "slice_scales" /\ y.op = "load_scales" /\ Fence.op = "fence"
      BY DEF load_scales, Fence
    <3> HIDE DEF x, y
    <3>2. Listed(<<x, y, Fence>>) /\ Lacks(<<x, y, Fence>>, "loop_ws")
      <4>1. x.op # "loop_ws" /\ y.op # "loop_ws" /\ Fence.op # "loop_ws"
        BY <3>1
      <4> QED
        BY ONLY <4>1, Short
    <3>3. Clears(<<x, y, Fence>>)
      BY <3>1 DEF Clears
    <3> QED
      BY <3>2, <3>3 DEF x, y
  <2>2. Listed(p) /\ Lacks(p, "load_scales")
    BY MeshPartQuiet
  <2>3. Listed(e) /\ Lacks(e, "load_scales")
    BY Short
  <2> HIDE DEF s, p, e
  <2>4. Guarded(s \o p) /\ Clears(s \o p)
    BY <2>1, <2>2, NoMeshGuarded, AfterClear
  <2>5. Guarded(s \o p \o e)
    BY <2>3, <2>4, AfterClear
  <2> QED
    BY <2>5 DEF s, p, e
<1>7. Guarded(FlattenSeq(chunks))
  <2>1. count \in Nat
    <3> HIDE DEF nc, tile
    <3> QED
      BY <1>1, <1>2
  <2> HIDE DEF nc, tile, count, slice, part, paste
  <2>2. Listed(chunks) /\ Len(chunks) = count
    BY <2>1, ListOf
  <2>3. \A c \in 1 .. Len(chunks) : Guarded(chunks[c])
    BY <1>6, <2>2
  <2> HIDE DEF chunks
  <2> QED
    BY <2>2, <2>3, FlattenGuarded
<1> HIDE DEF nc, tile, head, chunks, load, whole, q
<1>8. Guarded(middle)
  BY <1>5, <1>7
<1> HIDE DEF middle
<1> QED
  BY <1>0, <1>3, <1>4, <1>8, JoinGuarded

\* What the graph lowering compiles is guarded.
LEMMA GraphGuarded ==
  ASSUME NEW K \in KernelType, resolved(K), NEW P, NEW edges, CompileGraph(K, P, edges).why = ""
  PROVE  Guarded(CompileGraph(K, P, edges).prog)
<1> DEFINE steps == from_spec(K)
           n == Len(K.stages)
           uses == Uses(K)
           host_f32 == UNION {ToSet(steps[i].srcs) :
                                i \in {j \in DOMAIN steps : steps[j].op \notin {"mesh"} \cup ReadsBits}}
           parts == [i \in DOMAIN steps |->
                      IF steps[i].op = "mesh" THEN _emit_mesh_step(steps[i], uses, host_f32, P)
                      ELSE _emit_host_step(steps[i], uses)]
           tail == <<report(<<YName, "out">>, <<steps[Len(steps)].out, "bf16">>, steps[Len(steps)].n)>>
<1>1. n \in Nat /\ DOMAIN K.stages = 1 .. n
  BY KernelTyped
<1>2. /\ CompileGraph(K, P, edges).prog = generate_graph_driver(K, P)
      /\ \A i \in DOMAIN steps :
           steps[i].op = "mesh" => ~MeshRefused(steps[i], FORMATS[GRAPH_DTYPE].tile, P)
  BY DEF CompileGraph, Refused
<1>3. generate_graph_driver(K, P) = FlattenSeq(parts) \o tail
  BY DEF generate_graph_driver
<1>4. DOMAIN steps = 1 .. n
  BY <1>1 DEF from_spec
<1>5. ASSUME NEW i \in 1 .. n, steps[i].op = "mesh" PROVE steps[i].n \in Nat
  <2>1. CASE on_mesh(K.stages[i])
    <3>1. steps[i].n = shapes(K)[K.stages[i].name][2]
      BY <1>1, <2>1 DEF from_spec, MeshStep, stage_mnk
    <3> QED
      BY <1>1, <3>1, ShapesTyped
  <2>2. CASE ~on_mesh(K.stages[i])
    <3>1. steps[i].op = K.stages[i].op
      BY <1>1, <2>2 DEF from_spec, HostStep
    <3> QED
      BY <1>5, <2>2, <3>1 DEF on_mesh
  <2> QED
    BY <2>1, <2>2
<1> HIDE DEF steps, n, uses, host_f32
<1>6. Listed(parts) /\ Len(parts) = n
  BY <1>1, <1>4, ListOf DEF n
<1>7. \A i \in 1 .. n : Guarded(parts[i])
  <2> SUFFICES ASSUME NEW i \in 1 .. n PROVE Guarded(parts[i])
    OBVIOUS
  <2>1. CASE steps[i].op = "mesh"
    BY <1>2, <1>4, <1>5, <2>1, MeshStepGuarded
  <2>2. CASE steps[i].op # "mesh"
    BY <1>4, <2>2, HostStepGuarded
  <2> QED
    BY <2>1, <2>2
<1>8. Guarded(tail)
  BY Short, NoMeshGuarded DEF report
<1> HIDE DEF parts, tail
<1>9. Guarded(FlattenSeq(parts))
  BY <1>6, <1>7, FlattenGuarded
<1> QED
  BY <1>2, <1>3, <1>8, <1>9, JoinGuarded

(***************************************************************************)
(* The theorem.                                                            *)
(***************************************************************************)
\* What is compiled at all is guarded.
LEMMA CompileGuarded ==
  ASSUME NEW K \in KernelType, NEW hw, NEW run, NEW drop \in Nat, Compile(K, hw, run, drop).why = ""
  PROVE  Guarded(Compile(K, hw, run, drop).prog)
<1> DEFINE low == lower(K, run.operand_fmt, run.allow_lossy_chain)
           dtype == run.operand_fmt
           P == emitter_params(hw, run)
           c == CompileLowered(K, low, dtype, P, drop)
<1>1. resolved(K) /\ Compile(K, hw, run, drop) = c
  BY DEF Compile, Refused, validate
<1>2. low.kind \in {"fused", "graph", "per_stage", "refused"}
  BY DEF lower
<1> HIDE DEF low, P
<1>3. CASE low.kind = "fused"
  <2> DEFINE e == CompileChain(K, dtype, P, drop, low.edges)
  <2>1. c = e /\ e.why = ""
    BY <1>1, <1>3 DEF CompileLowered
  <2>2. Listed(K.stages)
    BY KernelTyped
  <2>3. Guarded(e.prog)
    BY <2>1, <2>2, ChainGuarded
  <2> QED
    BY <1>1, <2>1, <2>3
<1>4. CASE low.kind = "graph"
  <2> DEFINE e == CompileGraph(K, P, low.edges)
  <2>1. c = e /\ e.why = ""
    BY <1>1, <1>4 DEF CompileLowered
  <2>2. Guarded(e.prog)
    BY <1>1, <2>1, GraphGuarded
  <2> QED
    BY <1>1, <2>1, <2>2
<1>5. CASE low.kind \in {"per_stage", "refused"}
  <2>1. c = Refused(low.kind)
    BY <1>5 DEF CompileLowered
  <2>2. Refused(low.kind).why = low.kind
    BY DEF Refused
  <2> QED
    BY <1>1, <1>5, <2>1, <2>2
<1> QED
  BY <1>2, <1>3, <1>4, <1>5

\* A loaded program has nothing in flight.
LEMMA InitWaits == Init => Waiting
<1> SUFFICES ASSUME NEW K \in Kernels, NEW drop \in Drops, NEW hf, NEW rf,
                    Loaded(Compile(K, Hardware(hf), Run(rf), drop), hf.mx.lut)
             PROVE  Waiting
  BY DEF Init
<1> DEFINE c == Compile(K, Hardware(hf), Run(rf), drop)
<1>1. K \in KernelType /\ drop \in Nat
  BY DeviceAssumption
<1>2. c.why = "" /\ prog = c.prog
  BY DEF Loaded
<1>3. Guarded(c.prog)
  BY <1>1, <1>2, CompileGuarded
<1> QED
  BY <1>2, <1>3 DEF Waiting, Waits, Guarded

\* The mesh never multiplies under a scale window that a load in flight has still to fill, whatever
\* was compiled: the fence behind the scale loads, without which, mxgemm_emit.py:597-598 say, the mesh
\* "can start reading scales that have not landed".
THEOREM ScalesLandedHolds == Spec => []ScalesLanded
<1>1. Waiting /\ UNCHANGED vars => Waiting'
  BY DEF vars, Waiting
<1>2. Waiting /\ [Next]_vars => Waiting'
  BY <1>1, NextWaits
<1> QED
  BY <1>2, InitWaits, WaitsLanded, PTL DEF Spec

-----------------------------------------------------------------------------
(***************************************************************************)
(* Arithmetic: tiles at multiples of sixteen, laid out row by row.         *)
(***************************************************************************)
\* Division undoes a row-major index.
LEMMA DivMod ==
  ASSUME NEW a \in Nat, NEW b \in Nat, NEW w \in Nat, b < w
  PROVE  (a * w + b) \div w = a /\ (a * w + b) % w = b
<1> DEFINE x == a * w + b
           q == x \div w
           r == x % w
<1>1. x \in Nat /\ w > 0
  OBVIOUS
<1>2. q \in Int /\ r \in 0 .. w - 1 /\ x = q * w + r
  BY <1>1
<1> HIDE DEF q, r
<1>3. (a - q) * w = r - b
  BY <1>2
<1>4. r - b < w /\ b - r < w
  BY <1>2
<1>5. a - q = 0
  <2>1. CASE a - q >= 1
    <3>1. (a - q) * w >= w
      BY <2>1, <1>1, <1>2
    <3> QED BY <3>1, <1>3, <1>4, <1>2
  <2>2. CASE a - q <= -1
    <3>1. (q - a) * w >= w
      BY <2>2, <1>1, <1>2
    <3>2. (q - a) * w = b - r
      BY <1>2
    <3> QED BY <3>1, <3>2, <1>4, <1>2
  <2> QED BY <2>1, <2>2, <1>2
<1>6. q = a /\ r = b
  BY <1>2, <1>3, <1>5
<1> QED
  BY <1>6 DEF q, r

\* Tiles at base + (i * cols + j) * 16 are apart.
LEMMA Apart ==
  ASSUME NEW i \in Nat, NEW j \in Nat, NEW k \in Nat, NEW l \in Nat, NEW cols \in Nat, NEW base \in Int,
         j < cols, l < cols, base + (i * cols + j) * 16 = base + (k * cols + l) * 16
  PROVE  i = k /\ j = l
<1>1. i * cols + j \in Nat /\ k * cols + l \in Nat
  OBVIOUS
<1>2. i * cols + j = k * cols + l
  BY <1>1
<1> QED
  BY <1>2, DivMod

\* The last tile of rows by cols.
LEMMA Within ==
  ASSUME NEW rows \in Nat, NEW cols \in Nat, NEW i \in 0 .. rows - 1, NEW j \in 0 .. cols - 1
  PROVE  i * cols + j \in 0 .. rows * cols - 1
<1>1. i * cols + cols <= rows * cols
  <2>1. (rows - 1 - i) * cols >= 0
    OBVIOUS
  <2> QED BY <2>1
<1>2. i * cols >= 0 /\ i * cols \in Int
  OBVIOUS
<1> QED BY <1>1, <1>2

-----------------------------------------------------------------------------
(***************************************************************************)
(* One instruction of a program, and the rows a DMA moves.                 *)
(***************************************************************************)
\* Slot s of rows by cols is in row s \div cols and column s % cols.
LEMMA Coordinates ==
  ASSUME NEW rows \in Nat, NEW cols \in Nat, NEW s \in 0 .. rows * cols - 1
  PROVE  /\ s \div cols \in 0 .. rows - 1 /\ s % cols \in 0 .. cols - 1
         /\ s = (s \div cols) * cols + (s % cols)
<1>1. cols > 0
  OBVIOUS
<1> DEFINE q == s \div cols
           r == s % cols
<1>2. q \in Int /\ r \in 0 .. cols - 1 /\ s = q * cols + r
  BY <1>1
<1> HIDE DEF q, r
<1>3. q >= 0
  <2> SUFFICES ASSUME q <= -1 PROVE FALSE
    BY <1>2
  <2>1. q * cols <= -cols
    BY <1>1, <1>2
  <2> QED BY <2>1, <1>2
<1>4. q <= rows - 1
  <2> SUFFICES ASSUME q >= rows PROVE FALSE
    BY <1>2
  <2>1. q * cols >= rows * cols
    BY <1>1, <1>2
  <2> QED BY <2>1, <1>2
<1>5. q = s \div cols /\ r = s % cols
  BY DEF q, r
<1> QED
  BY <1>2, <1>3, <1>4, <1>5

\* The head and the tail of an instruction put before a program.
LEMMA ConsFacts ==
  ASSUME NEW x, NEW s, Listed(s)
  PROVE  /\ Listed(Cons(x, s)) /\ Cons(x, s) # <<>>
         /\ Head(Cons(x, s)) = x /\ Tail(Cons(x, s)) = s
<1>1. PICK S : s \in Seq(S)
  BY DEF Listed
<1> DEFINE U == S \cup {x}
<1>2. s \in Seq(U) /\ <<x>> \in Seq(U)
  BY <1>1, SeqMonotonic
<1> HIDE DEF U
<1>3. Cons(x, s) \in Seq(U) /\ Len(Cons(x, s)) = 1 + Len(s)
  BY <1>2 DEF Cons
<1>4. Len(s) \in Nat /\ \A i \in 1 .. Len(s) : Cons(x, s)[i + 1] = s[i]
  BY <1>2 DEF Cons
<1>5. Cons(x, s)[1] = x
  BY <1>2 DEF Cons
<1>6. Tail(Cons(x, s)) = s
  BY <1>2, <1>3, <1>4
<1> QED
  BY <1>3, <1>5, <1>6, <1>2 DEF Listed

\* What may happen before an instruction.
LEMMA StepOf ==
  ASSUME NEW x, NEW s, Listed(s), prog = Cons(x, s), Next
  PROVE  \/ LandLoad \/ LandStore
         \/ /\ prog' = s /\ UNCHANGED <<want, unit>>
            /\ \/ x.op = "config_ex" /\ ConfigEx
               \/ x.op = "load_luts" /\ LoadLuts
               \/ x.op = "load_scales" /\ IssueLoad
               \/ x.op = "fence" /\ DoFence
               \/ x.op = "mvin" /\ Mvin
               \/ x.op = "loop_ws" /\ LoopWs
               \/ x.op = "mvout" /\ Mvout
               \/ x.op = "host" /\ HostOp
               \/ x.op = "to_f32" /\ ToF32
               \/ x.op = "quantize" /\ Quantize
               \/ x.op = "slice_scales" /\ SliceScales
               \/ x.op = "paste_cols" /\ PasteCols
               \/ x.op = "report" /\ Report
<1>1. prog # <<>> /\ Head(prog) = x /\ Tail(prog) = s
  BY ConsFacts
<1>2. CASE ConfigEx BY <1>1, <1>2 DEF ConfigEx, Is, Advance
<1>3. CASE LoadLuts BY <1>1, <1>3 DEF LoadLuts, Is, Advance
<1>4. CASE IssueLoad BY <1>1, <1>4 DEF IssueLoad, Is, Advance
<1>5. CASE DoFence BY <1>1, <1>5 DEF DoFence, Is, Advance
<1>6. CASE Mvin BY <1>1, <1>6 DEF Mvin, Is, Advance
<1>7. CASE LoopWs BY <1>1, <1>7 DEF LoopWs, Is, Advance
<1>8. CASE Mvout BY <1>1, <1>8 DEF Mvout, Is, Advance
<1>9. CASE HostOp
  <2>1. Is("host") /\ Advance
    BY <1>9 DEF HostOp, HostWrite
  <2> QED BY <1>1, <1>9, <2>1 DEF Is, Advance
<1>10. CASE ToF32
  <2>1. Is("to_f32") /\ Advance
    BY <1>10 DEF ToF32, HostWrite
  <2> QED BY <1>1, <1>10, <2>1 DEF Is, Advance
<1>11. CASE Quantize
  <2>1. Is("quantize") /\ Advance
    BY <1>11 DEF Quantize, HostWrite
  <2> QED BY <1>1, <1>11, <2>1 DEF Is, Advance
<1>12. CASE SliceScales
  <2>1. Is("slice_scales") /\ Advance
    BY <1>12 DEF SliceScales, HostWrite
  <2> QED BY <1>1, <1>12, <2>1 DEF Is, Advance
<1>13. CASE PasteCols
  <2>1. Is("paste_cols") /\ Advance
    BY <1>13 DEF PasteCols, HostWrite
  <2> QED BY <1>1, <1>13, <2>1 DEF Is, Advance
<1>14. CASE Report BY <1>1, <1>14 DEF Report, Is, Advance
<1>15. CASE Done BY <1>1, <1>15 DEF Done
<1> QED
  BY <1>2, <1>3, <1>4, <1>5, <1>6, <1>7, <1>8, <1>9, <1>10, <1>11, <1>12, <1>13, <1>14, <1>15 DEF Next

\* What is written over a store.
LEMMA Overlaid ==
  ASSUME NEW f, NEW g, NEW d
  PROVE  \A a : At(Over(f, g), a, d) = IF a \in DOMAIN f THEN f[a] ELSE At(g, a, d)
  BY DEF At, Over

\* One operand per tile: the rows a mvin writes, and the ones it leaves.
LEMMA MovesIn ==
  ASSUME NEW base \in Int, NEW rows \in Nat, NEW cols \in Nat, NEW width \in Nat, NEW n0 \in Nat,
         n0 + cols * 16 <= width, NEW v, NEW lay, NEW spad1, NEW spad2,
         spad2 = Over(MovedRows(Moves(base, rows, cols, width, width, 16, n0), lay, v), spad1)
  PROVE  /\ \A i \in 0 .. rows - 1, j \in 0 .. cols - 1 :
              At(spad2, base + (i * cols + j) * 16, Empty) = Slot(v.t, v.f, v.bk, lay, i * 16, n0 + j * 16, 0)
         /\ \A a \in Int : a < base \/ a >= base + rows * cols * 16 =>
              At(spad2, a, Empty) = At(spad1, a, Empty)
<1> DEFINE moves == Moves(base, rows, cols, width, width, 16, n0)
           where(i, j) == base + (i * cols + j) * 16
           g == [a \in {mv[1] : mv \in moves} |->
                   LET mv == CHOOSE x \in moves : x[1] = a
                   IN  Slot(v.t, v.f, v.bk, lay, mv[2], mv[3], 0)]
<1>1. \A i \in 0 .. rows - 1, j \in 0 .. cols - 1 :
        /\ i * 16 * width + n0 + j * 16 = (i * 16) * width + (n0 + j * 16)
        /\ n0 + j * 16 \in Nat /\ n0 + j * 16 < width /\ i * 16 \in Nat
  <2> SUFFICES ASSUME NEW i \in 0 .. rows - 1, NEW j \in 0 .. cols - 1
               PROVE  /\ i * 16 * width + n0 + j * 16 = (i * 16) * width + (n0 + j * 16)
                      /\ n0 + j * 16 \in Nat /\ n0 + j * 16 < width /\ i * 16 \in Nat
    OBVIOUS
  <2>1. n0 + j * 16 \in Nat /\ n0 + j * 16 < width /\ i * 16 \in Nat
    OBVIOUS
  <2>2. (i * 16) * width \in Int
    OBVIOUS
  <2> QED BY <2>1, <2>2
<1>2. \A i \in 0 .. rows - 1, j \in 0 .. cols - 1 :
        /\ (i * 16 * width + n0 + j * 16) \div width = i * 16
        /\ (i * 16 * width + n0 + j * 16) % width = n0 + j * 16
  <2> SUFFICES ASSUME NEW i \in 0 .. rows - 1, NEW j \in 0 .. cols - 1
               PROVE  /\ (i * 16 * width + n0 + j * 16) \div width = i * 16
                      /\ (i * 16 * width + n0 + j * 16) % width = n0 + j * 16
    OBVIOUS
  <2> DEFINE a == i * 16
             b == n0 + j * 16
  <2>1. a \in Nat /\ b \in Nat /\ b < width /\ i * 16 * width + n0 + j * 16 = a * width + b
    BY <1>1
  <2> HIDE DEF a, b
  <2>2. (a * width + b) \div width = a /\ (a * width + b) % width = b
    BY <2>1, DivMod
  <2> QED BY <2>1, <2>2 DEF a, b
<1>3. moves = {<<where(x[1], x[2]), x[1] * 16, n0 + x[2] * 16>> : x \in (0 .. rows - 1) \X (0 .. cols - 1)}
  BY <1>2 DEF Moves
<1> HIDE DEF moves
<1>4. ASSUME NEW i \in 0 .. rows - 1, NEW j \in 0 .. cols - 1
      PROVE  /\ where(i, j) \in DOMAIN g
             /\ g[where(i, j)] = Slot(v.t, v.f, v.bk, lay, i * 16, n0 + j * 16, 0)
  <2>1. <<where(i, j), i * 16, n0 + j * 16>> \in moves
    <3>1. <<i, j>> \in (0 .. rows - 1) \X (0 .. cols - 1) /\ <<i, j>>[1] = i /\ <<i, j>>[2] = j
      OBVIOUS
    <3> HIDE DEF where
    <3> QED BY <3>1, <1>3
  <2>2. \A x \in moves : x[1] = where(i, j) => x = <<where(i, j), i * 16, n0 + j * 16>>
    <3> SUFFICES ASSUME NEW k \in 0 .. rows - 1, NEW l \in 0 .. cols - 1, where(k, l) = where(i, j)
                 PROVE  k = i /\ l = j
      <4> HIDE DEF where
      <4> QED BY <1>3
    <3>1. /\ i \in Nat /\ j \in Nat /\ k \in Nat /\ l \in Nat /\ j < cols /\ l < cols
          /\ base + (k * cols + l) * 16 = base + (i * cols + j) * 16
      OBVIOUS
    <3> QED BY <3>1, Apart
  <2> DEFINE c == CHOOSE x \in moves : x[1] = where(i, j)
  <2>3. c = <<where(i, j), i * 16, n0 + j * 16>>
    <3>1. c \in moves /\ c[1] = where(i, j)
      BY <2>1
    <3> QED BY <3>1, <2>2
  <2>4. where(i, j) \in {mv[1] : mv \in moves}
    BY <2>1
  <2>5. g[where(i, j)] = LET mv == CHOOSE x \in moves : x[1] = where(i, j)
                         IN  Slot(v.t, v.f, v.bk, lay, mv[2], mv[3], 0)
    <3> HIDE DEF where
    <3> QED BY <2>4
  <2>6. c[2] = i * 16 /\ c[3] = n0 + j * 16
    <3> HIDE DEF where, c
    <3> QED BY <2>3
  <2>7. g[where(i, j)] = Slot(v.t, v.f, v.bk, lay, c[2], c[3], 0)
    <3> HIDE DEF where
    <3> QED BY <2>5
  <2>8. where(i, j) \in DOMAIN g
    <3> HIDE DEF where
    <3> QED BY <2>4
  <2> HIDE DEF where, g, c
  <2> QED
    BY <2>6, <2>7, <2>8
<1>5. \A a \in DOMAIN g : a >= base /\ a < base + rows * cols * 16
  <2> SUFFICES ASSUME NEW i \in 0 .. rows - 1, NEW j \in 0 .. cols - 1
               PROVE  where(i, j) >= base /\ where(i, j) < base + rows * cols * 16
    BY <1>3
  <2>1. i * cols + j \in 0 .. rows * cols - 1 /\ rows * cols \in Nat
    BY Within
  <2> QED BY <2>1
<1>6. spad2 = Over(g, spad1)
  BY DEF moves, MovedRows
<1> HIDE DEF g
<1>7. \A a : At(spad2, a, Empty) = IF a \in DOMAIN g THEN g[a] ELSE At(spad1, a, Empty)
  BY <1>6, Overlaid
<1> QED
  BY <1>4, <1>5, <1>7

\* The same without an offset.
LEMMA AllMoved ==
  ASSUME NEW base \in Int, NEW rows \in Nat, NEW cols \in Nat, NEW width \in Nat, cols * 16 <= width,
         NEW v, NEW lay, NEW s1, NEW s2,
         s2 = Over(MovedRows(Moves(base, rows, cols, width, width, 16, 0), lay, v), s1)
  PROVE  /\ \A i \in 0 .. rows - 1, j \in 0 .. cols - 1 :
              At(s2, base + (i * cols + j) * 16, Empty) = Slot(v.t, v.f, v.bk, lay, i * 16, j * 16, 0)
         /\ \A a \in Int : a < base \/ a >= base + rows * cols * 16 => At(s2, a, Empty) = At(s1, a, Empty)
<1>1. 0 \in Nat /\ 0 + cols * 16 <= width /\ \A j \in 0 .. cols - 1 : 0 + j * 16 = j * 16
  OBVIOUS
<1>2. \A i \in 0 .. rows - 1, j \in 0 .. cols - 1 :
        At(s2, base + (i * cols + j) * 16, Empty) = Slot(v.t, v.f, v.bk, lay, i * 16, 0 + j * 16, 0)
  BY <1>1, MovesIn
<1>3. \A a \in Int : a < base \/ a >= base + rows * cols * 16 => At(s2, a, Empty) = At(s1, a, Empty)
  BY <1>1, MovesIn
<1> QED
  BY <1>1, <1>2, <1>3

-----------------------------------------------------------------------------
(***************************************************************************)
(* Tiles in the scratchpad, and the formats.                               *)
(***************************************************************************)
\* Rows of the scratchpad s that hold a value in tiles of operand A or B, or row by row.
TilesA(s, base, rows, cols, t, f, bk) ==
  \A i \in 0 .. rows - 1, j \in 0 .. cols - 1 :
    At(s, base + (i * cols + j) * 16, Empty) = Slot(t, f, bk, "a", i * 16, j * 16, 0)
\* The tiles of a right operand, from row base up, of the columns from n0.
TilesB(s, base, rows, cols, t, f, bk, n0) ==
  \A i \in 0 .. rows - 1, j \in 0 .. cols - 1 :
    At(s, base + (i * cols + j) * 16, Empty) = Slot(t, f, bk, "b", i * 16, n0 + j * 16, 0)
\* The n BF16 slots of an accumulator drained flat.
Flat(s, base, n, t, lo, cols) ==
  \A k \in 0 .. n - 1 : At(s, base + k * 16, Empty) = Slot(t, BF16, <<>>, "flat", lo, k, cols)

\* Rows outside an area are what they were.
SameOutside(s, s2, lo, hi) == \A a \in Int : a < lo \/ a >= hi => At(s2, a, Empty) = At(s, a, Empty)

\* Tiles of a left operand outside the rows a step wrote are still there.
LEMMA TilesKept ==
  ASSUME NEW s, NEW s2, NEW lo \in Int, NEW hi \in Int, SameOutside(s, s2, lo, hi),
         NEW base \in Int, NEW rows \in Nat, NEW cols \in Nat, NEW t, NEW f, NEW bk,
         base + rows * cols * 16 <= lo \/ base >= hi, TilesA(s, base, rows, cols, t, f, bk)
  PROVE  TilesA(s2, base, rows, cols, t, f, bk)
<1> SUFFICES ASSUME NEW i \in 0 .. rows - 1, NEW j \in 0 .. cols - 1
             PROVE  At(s2, base + (i * cols + j) * 16, Empty) = Slot(t, f, bk, "a", i * 16, j * 16, 0)
  BY DEF TilesA
<1>1. i * cols + j \in 0 .. rows * cols - 1 /\ rows * cols \in Nat
  BY Within
<1>2. base + (i * cols + j) * 16 \in Int /\ base + (i * cols + j) * 16 >= base
      /\ base + (i * cols + j) * 16 < base + rows * cols * 16
  BY <1>1
<1>3. At(s2, base + (i * cols + j) * 16, Empty) = At(s, base + (i * cols + j) * 16, Empty)
  BY <1>2 DEF SameOutside
<1> QED
  BY <1>3 DEF TilesA

\* And those of a right operand.
LEMMA TilesBKept ==
  ASSUME NEW s, NEW s2, NEW lo \in Int, NEW hi \in Int, SameOutside(s, s2, lo, hi),
         NEW base \in Int, NEW rows \in Nat, NEW cols \in Nat, NEW t, NEW f, NEW bk, NEW n0,
         base + rows * cols * 16 <= lo \/ base >= hi, TilesB(s, base, rows, cols, t, f, bk, n0)
  PROVE  TilesB(s2, base, rows, cols, t, f, bk, n0)
<1> SUFFICES ASSUME NEW i \in 0 .. rows - 1, NEW j \in 0 .. cols - 1
             PROVE  At(s2, base + (i * cols + j) * 16, Empty) = Slot(t, f, bk, "b", i * 16, n0 + j * 16, 0)
  BY DEF TilesB
<1>1. i * cols + j \in 0 .. rows * cols - 1 /\ rows * cols \in Nat
  BY Within
<1>2. base + (i * cols + j) * 16 \in Int /\ base + (i * cols + j) * 16 >= base
      /\ base + (i * cols + j) * 16 < base + rows * cols * 16
  BY <1>1
<1>3. At(s2, base + (i * cols + j) * 16, Empty) = At(s, base + (i * cols + j) * 16, Empty)
  BY <1>2 DEF SameOutside
<1> QED
  BY <1>3 DEF TilesB

\* The table of formats.
LEMMA FormatFacts ==
  ASSUME NEW f \in DOMAIN FORMATS
  PROVE  /\ f # "none" /\ f # BF16
         /\ \/ FORMATS[f].tile = 16 /\ FORMATS[f].bits = 8 /\ packed_per_byte(f) = 1
            \/ FORMATS[f].tile = 32 /\ FORMATS[f].bits = 4 /\ packed_per_byte(f) = 2
         /\ FORMATS[f].fmt_code # BF16_FMT_CODE
         /\ FORMATS[f].lut \in BOOLEAN
         /\ Decoded(FORMATS[f].fmt_code, FORMATS[f].altfmt, FORMATS[f].lut) = f
         /\ get(FORMATS[f].mlir) = f
         /\ FORMATS[f].mlir # BF16
<1>1. DOMAIN FORMATS = {"fp8_e4m3", "fp8_e4m3_quad", "fp8_e5m2", "fp6_e3m2", "fp6_e2m3", "fp4_e2m1"}
  BY DEF FORMATS
<1>2. /\ FORMATS["fp8_e4m3"] = Direct(8, 0, 16, "f8E4M3FN")
      /\ FORMATS["fp8_e4m3_quad"] = Indexed(8, 0, 0, "fp8_e4m3_quad")
      /\ FORMATS["fp8_e5m2"] = Indexed(8, 0, 1, "fp8_e5m2")
      /\ FORMATS["fp6_e3m2"] = Indexed(6, 1, 0, "f6E3M2FN")
      /\ FORMATS["fp6_e2m3"] = Indexed(6, 1, 1, "fp6_e2m3")
      /\ FORMATS["fp4_e2m1"] = Direct(4, 2, 32, "f4E2M1FN")
  BY DEF FORMATS
<1> DEFINE Row6(g, bits, code, alt, isLut, tile, mlir) ==
             /\ FORMATS[g].bits = bits /\ FORMATS[g].fmt_code = code /\ FORMATS[g].altfmt = alt
             /\ FORMATS[g].lut = isLut /\ FORMATS[g].tile = tile /\ FORMATS[g].mlir = mlir
<1>3. /\ Row6("fp8_e4m3", 8, 0, 0, FALSE, 16, "f8E4M3FN")
      /\ Row6("fp8_e4m3_quad", 4, 0, 0, TRUE, 32, "fp8_e4m3_quad")
      /\ Row6("fp8_e5m2", 4, 0, 1, TRUE, 32, "fp8_e5m2")
      /\ Row6("fp6_e3m2", 4, 1, 0, TRUE, 32, "f6E3M2FN")
      /\ Row6("fp6_e2m3", 4, 1, 1, TRUE, 32, "fp6_e2m3")
      /\ Row6("fp4_e2m1", 4, 2, 0, FALSE, 32, "f4E2M1FN")
  BY <1>2 DEF Direct, Indexed
<1>4. \/ Row6("fp8_e4m3", 8, 0, 0, FALSE, 16, "f8E4M3FN") /\ f = "fp8_e4m3"
      \/ Row6("fp8_e4m3_quad", 4, 0, 0, TRUE, 32, "fp8_e4m3_quad") /\ f = "fp8_e4m3_quad"
      \/ Row6("fp8_e5m2", 4, 0, 1, TRUE, 32, "fp8_e5m2") /\ f = "fp8_e5m2"
      \/ Row6("fp6_e3m2", 4, 1, 0, TRUE, 32, "f6E3M2FN") /\ f = "fp6_e3m2"
      \/ Row6("fp6_e2m3", 4, 1, 1, TRUE, 32, "fp6_e2m3") /\ f = "fp6_e2m3"
      \/ Row6("fp4_e2m1", 4, 2, 0, FALSE, 32, "f4E2M1FN") /\ f = "fp4_e2m1"
  BY <1>1, <1>3
<1>5. /\ f # "none" /\ f # BF16
      /\ \/ FORMATS[f].tile = 16 /\ FORMATS[f].bits = 8
         \/ FORMATS[f].tile = 32 /\ FORMATS[f].bits = 4
      /\ FORMATS[f].fmt_code # BF16_FMT_CODE
      /\ FORMATS[f].lut \in BOOLEAN
      /\ FORMATS[f].mlir # BF16
  <2>1. f # "none" /\ f # BF16
    BY <1>1 DEF BF16
  <2>2. \/ FORMATS[f].tile = 16 /\ FORMATS[f].bits = 8
        \/ FORMATS[f].tile = 32 /\ FORMATS[f].bits = 4
    BY <1>4
  <2>3. FORMATS[f].fmt_code # BF16_FMT_CODE
    BY <1>4 DEF BF16_FMT_CODE
  <2>4. FORMATS[f].lut \in BOOLEAN
    BY <1>4
  <2>5. FORMATS[f].mlir # BF16
    BY <1>4 DEF BF16
  <2> QED BY <2>1, <2>2, <2>3, <2>4, <2>5
<1>6. /\ FORMATS[f].bits = 8 => packed_per_byte(f) = 1
      /\ FORMATS[f].bits = 4 => packed_per_byte(f) = 2
  BY DEF packed_per_byte
<1>7. Decoded(FORMATS[f].fmt_code, FORMATS[f].altfmt, FORMATS[f].lut) = f
  <2> DEFINE is(g) == /\ FORMATS[g].fmt_code = FORMATS[f].fmt_code
                      /\ FORMATS[g].altfmt = FORMATS[f].altfmt
                      /\ FORMATS[g].lut = FORMATS[f].lut
  <2>1. \A g \in DOMAIN FORMATS : is(g) => g = f
    BY <1>1, <1>3
  <2>2. is(f)
    OBVIOUS
  <2>3. (CHOOSE g \in DOMAIN FORMATS : is(g)) = f
    <3> HIDE DEF is
    <3> QED BY <2>1, <2>2
  <2> QED BY <2>2, <2>3 DEF Decoded
<1>8. get(FORMATS[f].mlir) = f
  <2>1. \A g \in DOMAIN FORMATS : FORMATS[g].mlir = FORMATS[f].mlir => g = f
    BY <1>1, <1>3
  <2>2. FORMATS[f].mlir \in DOMAIN FORMATS => FORMATS[f].mlir = f
    BY <1>1, <1>4
  <2> DEFINE spelt == {g \in DOMAIN FORMATS : FORMATS[g].mlir = FORMATS[f].mlir}
  <2>3. spelt = {f}
    BY <2>1
  <2>4. (CHOOSE g \in spelt : TRUE) = f
    <3> HIDE DEF spelt
    <3> QED BY <2>3
  <2>5. spelt # {}
    BY <2>3
  <2> QED BY <2>2, <2>4, <2>5 DEF get
<1> QED
  BY <1>5, <1>6, <1>7, <1>8

-----------------------------------------------------------------------------
(***************************************************************************)
(* Concatenations.                                                         *)
(***************************************************************************)
\* Concatenation is associative.
LEMMA Associates ==
  ASSUME NEW p, NEW q, NEW r, Listed(p), Listed(q), Listed(r)
  PROVE  (p \o q) \o r = p \o (q \o r)
<1>1. PICK A, B, D : p \in Seq(A) /\ q \in Seq(B) /\ r \in Seq(D)
  BY DEF Listed
<1> DEFINE S == A \cup B \cup D
<1>2. p \in Seq(S) /\ q \in Seq(S) /\ r \in Seq(S)
  BY <1>1, SeqMonotonic
<1> QED
  BY <1>2, ConcatAssociative

\* The empty program adds nothing.
LEMMA Nothing ==
  ASSUME NEW p, Listed(p)
  PROVE  <<>> \o p = p /\ p \o <<>> = p /\ Listed(<<>>)
<1>1. PICK S : p \in Seq(S)
  BY DEF Listed
<1>2. <<>> \o p = p
  BY <1>1
<1>3. p \o <<>> = p
  BY <1>1
<1>4. <<>> \in Seq({})
  OBVIOUS
<1> QED
  BY <1>2, <1>3, <1>4 DEF Listed

\* What is left of a concatenation after each of its parts.
LEMMA LeftOf ==
  ASSUME NEW n \in Nat, NEW s, Listed(s), Len(s) = n, \A i \in 1 .. n : Listed(s[i])
  PROVE  \E r : /\ \A i \in 1 .. n + 1 : Listed(r[i])
                /\ r[n + 1] = <<>>
                /\ \A i \in 1 .. n : r[i] = s[i] \o r[i + 1]
                /\ FlattenSeq(s) = r[1]
<1>1. CASE n = 0
  <2>1. FlattenSeq(s) = s
    BY <1>1 DEF FlattenSeq
  <2>2. s = <<>>
    <3>1. PICK S : s \in Seq(S)
      BY DEF Listed
    <3> QED BY <3>1, <1>1, EmptySeq
  <2> DEFINE r == [i \in 1 .. 1 |-> <<>>]
  <2>3. r[1] = <<>>
    OBVIOUS
  <2>4. Listed(<<>>)
    BY Nothing, <2>2
  <2> HIDE DEF r
  <2>5. \A i \in 1 .. n + 1 : i = 1
    BY <1>1
  <2>6. n + 1 = 1 /\ 1 .. n = {}
    BY <1>1
  <2>7. \A i \in 1 .. n + 1 : Listed(r[i])
    BY <2>3, <2>4, <2>5
  <2>8. r[n + 1] = <<>> /\ FlattenSeq(s) = r[1] /\ \A i \in 1 .. n : r[i] = s[i] \o r[i + 1]
    BY <2>1, <2>2, <2>3, <2>6
  <2> QED BY <2>7, <2>8
<1>2. CASE n # 0
  <2>1. PICK f : /\ f = [i \in 1 .. n |-> IF i = 1 THEN s[i] ELSE f[i - 1] \o s[i]]
                 /\ FlattenSeq(s) = f[n]
    BY <1>2, Unfold
  <2>2. \A i \in 1 .. n : f[i] = IF i = 1 THEN s[i] ELSE f[i - 1] \o s[i]
    BY <2>1
  <2>3. \A i \in 1 .. n : Listed(f[i])
    <3> DEFINE Bad == {i \in 1 .. n : ~Listed(f[i])}
    <3> SUFFICES ASSUME Bad # {} PROVE FALSE
      OBVIOUS
    <3>1. Bad \in SUBSET Nat
      OBVIOUS
    <3>2. PICK m \in Bad : \A k \in Bad : m <= k
      BY <3>1, Least
    <3>3. CASE m = 1
      BY <2>2, <3>2, <3>3
    <3>4. CASE m # 1
      <4>1. m \in 1 .. n /\ m - 1 \in 1 .. n /\ ~(m <= m - 1)
        BY <3>2, <3>4
      <4>2. Listed(f[m - 1]) /\ f[m] = f[m - 1] \o s[m] /\ Listed(s[m])
        BY <2>2, <3>2, <3>4, <4>1
      <4>3. Listed(f[m])
        BY <4>2, Join
      <4> QED BY <4>3, <3>2
    <3> QED BY <3>3, <3>4
  <2> DEFINE Left(d, r) == /\ \A i \in n - d + 1 .. n + 1 : Listed(r[i])
                           /\ r[n + 1] = <<>>
                           /\ \A i \in n - d + 1 .. n : r[i] = s[i] \o r[i + 1]
                           /\ IF d = n THEN r[1] = f[n] ELSE f[n - d] \o r[n - d + 1] = f[n]
             Bad == {d \in 0 .. n : ~\E r : Left(d, r)}
  <2>4. Bad = {}
    <3> SUFFICES ASSUME Bad # {} PROVE FALSE
      OBVIOUS
    <3>1. Bad \in SUBSET Nat
      <4> HIDE DEF Left
      <4> QED OBVIOUS
    <3>2. PICK m \in Bad : \A k \in Bad : m <= k
      BY <3>1, Least
    <3>3. m \in 0 .. n
      BY <3>2
    <3>4. CASE m = 0
      <4> DEFINE r == [i \in 1 .. n + 1 |-> <<>>]
      <4>1. r[n + 1] = <<>>
        BY <1>2
      <4>2. Listed(<<>>) /\ f[n] \o <<>> = f[n]
        BY <1>2, <2>3, Nothing
      <4> HIDE DEF r
      <4>3. Left(0, r)
        <5>1. n - 0 = n /\ n - 0 + 1 = n + 1 /\ 0 # n /\ n + 1 .. n + 1 = {n + 1} /\ n + 1 .. n = {}
          BY <1>2
        <5> QED BY <4>1, <4>2, <5>1
      <4> QED BY <4>3, <3>4, <3>2
    <3>5. CASE m # 0
      <4>1. m - 1 \in 0 .. n /\ ~(m <= m - 1) /\ m - 1 # n /\ n - m + 1 \in 1 .. n
        BY <3>3, <3>5
      <4>2. PICK q : Left(m - 1, q)
        BY <3>2, <4>1
      <4> DEFINE k == n - m + 1
                 r == [i \in 1 .. n + 1 |-> IF i = k THEN s[k] \o q[k + 1] ELSE q[i]]
      <4>3. /\ \A i \in k + 1 .. n + 1 : Listed(q[i])
            /\ q[n + 1] = <<>>
            /\ \A i \in k + 1 .. n : q[i] = s[i] \o q[i + 1]
            /\ f[k] \o q[k + 1] = f[n]
        <5>1. n - (m - 1) + 1 = k + 1 /\ n - (m - 1) = k
          BY <3>3
        <5> HIDE DEF k
        <5> QED BY <5>1, <4>2, <4>1
      <4>4. k \in 1 .. n /\ (k = 1 <=> m = n) /\ n - m = k - 1 /\ n - m + 1 = k
        BY <4>1, <3>3
      <4>5. \A i \in 1 .. n + 1 : r[i] = IF i = k THEN s[k] \o q[k + 1] ELSE q[i]
        OBVIOUS
      <4> HIDE DEF k, r
      <4>6. \A i \in k + 1 .. n + 1 : r[i] = q[i]
        BY <4>4, <4>5
      <4>7. r[k] = s[k] \o q[k + 1] /\ q[k + 1] = r[k + 1]
        <5>1. k \in 1 .. n + 1 /\ k + 1 \in k + 1 .. n + 1
          BY <4>4
        <5> QED BY <5>1, <4>5, <4>6
      <4>8. Listed(r[k]) /\ Listed(s[k]) /\ Listed(q[k + 1])
        BY <4>7, <4>4, <4>3, Join
      <4>9. IF k = 1 THEN r[1] = f[n] ELSE f[k - 1] \o r[k] = f[n]
        <5>1. CASE k = 1
          BY <5>1, <2>2, <4>3, <4>4, <4>7
        <5>2. CASE k # 1
          <6>0. k - 1 \in 1 .. n /\ k \in 1 .. n
            BY <5>2, <4>4
          <6>1. f[k] = f[k - 1] \o s[k] /\ Listed(f[k - 1])
            BY <5>2, <6>0, <2>2, <2>3
          <6>2. (f[k - 1] \o s[k]) \o q[k + 1] = f[k - 1] \o (s[k] \o q[k + 1])
            <7> DEFINE a == f[k - 1]
                       b == s[k]
                       d == q[k + 1]
            <7>1. Listed(a) /\ Listed(b) /\ Listed(d)
              BY <6>1, <4>8
            <7> HIDE DEF a, b, d
            <7>2. (a \o b) \o d = a \o (b \o d)
              BY <7>1, Associates
            <7> QED BY <7>2 DEF a, b, d
          <6> QED BY <6>1, <6>2, <4>3, <4>7, <5>2
        <5> QED BY <5>1, <5>2
      <4>10. Left(m, r)
        <5>1. \A i \in k .. n + 1 : Listed(r[i])
          BY <4>3, <4>4, <4>6, <4>8
        <5>2. r[n + 1] = <<>>
          <6>1. n + 1 \in k + 1 .. n + 1
            BY <4>4
          <6> QED BY <6>1, <4>3, <4>6
        <5>3. \A i \in k .. n : r[i] = s[i] \o r[i + 1]
          <6> SUFFICES ASSUME NEW i \in k .. n PROVE r[i] = s[i] \o r[i + 1]
            OBVIOUS
          <6>1. CASE i = k
            BY <6>1, <4>7
          <6>2. CASE i # k
            <7>1. i \in k + 1 .. n /\ i \in k + 1 .. n + 1 /\ i + 1 \in k + 1 .. n + 1
              BY <6>2, <4>4
            <7> QED BY <7>1, <4>3, <4>6
          <6> QED BY <6>1, <6>2
        <5> QED BY <5>1, <5>2, <5>3, <4>4, <4>9
      <4> HIDE DEF Left
      <4> QED BY <4>10, <3>2
    <3> QED BY <3>4, <3>5
  <2>5. PICK r : Left(n, r)
    <3>1. n \in 0 .. n
      OBVIOUS
    <3> HIDE DEF Left
    <3> QED BY <2>4, <3>1
  <2>6. n - n + 1 = 1
    OBVIOUS
  <2> QED BY <2>1, <2>5, <2>6
<1> QED
  BY <1>1, <1>2

-----------------------------------------------------------------------------
(***************************************************************************)
(* Sizes in tiles, bytes and rows.                                         *)
(***************************************************************************)
\* Whole multiples of 16.
LEMMA Multiple ==
  ASSUME NEW a \in Nat \ {0}, NEW t \in {16, 32}, a % t = 0
  PROVE  /\ a \div t \in Nat \ {0} /\ a = (a \div t) * t
         /\ a \div 16 \in Nat \ {0} /\ a = (a \div 16) * 16
  OBVIOUS

\* A multiple, divided.
LEMMA Quotient ==
  ASSUME NEW x \in Nat, NEW d \in Nat \ {0}
  PROVE  (x * d) \div d = x
  <1>1. x * d + 0 = x * d /\ 0 < d
    OBVIOUS
  <1> QED BY <1>1, DivMod

\* How many rows, slots and tiles a result of m by n takes.
LEMMA Sizes ==
  ASSUME NEW m \in Nat \ {0}, NEW n \in Nat \ {0}, NEW tile, NEW bits, NEW per,
         \/ tile = 16 /\ bits = 8 /\ per = 1
         \/ tile = 32 /\ bits = 4 /\ per = 2,
         m % tile = 0, n % tile = 0
  PROVE  LET I == m \div tile
             J == n \div tile
             X == n \div 16
         IN  /\ I \in Nat \ {0} /\ J \in Nat \ {0} /\ X \in Nat \ {0}
             /\ m = I * tile /\ n = J * tile /\ n = X * 16 /\ n \div per = J * 16
             /\ (m * n * bits) \div 2048 = I * X
             /\ (m * n * bits) \div 128 = I * X * 16
             /\ (m * n + 15) \div 16 \in Nat /\ (m * n + 15) \div 16 >= I * X * 16
             /\ (m * n * 16) \div 2048 \in Nat \ {0}
             /\ (m * n * 16) \div 128 = ((m * n * 16) \div 2048) * 16
<1> DEFINE I == m \div tile
           J == n \div tile
           X == n \div 16
           A == m \div 16
<1>1. tile \in {16, 32} /\ m % 16 = 0
  OBVIOUS
<1>2. /\ I \in Nat \ {0} /\ J \in Nat \ {0} /\ X \in Nat \ {0} /\ A \in Nat \ {0}
      /\ m = I * tile /\ n = J * tile /\ n = X * 16 /\ m = A * 16
  BY <1>1, Multiple
<1>3. n \div per = J * 16
  BY <1>2
<1> HIDE DEF I, J, X, A
<1>4. I * X \in Nat \ {0} /\ A * X \in Nat \ {0}
  BY <1>2
<1>5. m * n * bits = (I * X) * 2048 /\ m * n * bits = (I * X * 16) * 128
  <2>1. CASE tile = 16
    <3>1. m * n = (I * 16) * (X * 16)
      BY <1>2, <2>1
    <3>2. (I * 16) * (X * 16) = (I * X) * 256
      BY <1>2
    <3> QED BY <3>1, <3>2, <2>1, <1>4
  <2>2. CASE tile = 32
    <3>1. m * n = (I * 32) * (X * 16)
      BY <1>2, <2>2
    <3>2. (I * 32) * (X * 16) = (I * X) * 512
      BY <1>2
    <3> QED BY <3>1, <3>2, <2>2, <1>4
  <2> QED BY <2>1, <2>2
<1>6. (m * n * bits) \div 2048 = I * X
  BY <1>5, <1>4, Quotient
<1>7. (m * n * bits) \div 128 = I * X * 16
  <2>1. I * X * 16 \in Nat
    BY <1>4
  <2> QED BY <1>5, <2>1, Quotient
<1>8. m * n = (A * X) * 256
  <2>1. m * n = (A * 16) * (X * 16)
    BY <1>2
  <2> QED BY <2>1, <1>2
<1>9. (m * n + 15) \div 16 = A * X * 16
  <2>1. A * X * 16 \in Nat /\ m * n + 15 = (A * X * 16) * 16 + 15
    BY <1>8, <1>4
  <2> QED BY <2>1, DivMod
<1>10. A * X >= I * X
  <2>1. A >= I
    BY <1>2
  <2>2. (A - I) * X >= 0
    BY <2>1, <1>2
  <2> QED BY <2>2, <1>2
<1>11. (m * n * 16) \div 2048 = 2 * (A * X) /\ (m * n * 16) \div 128 = 32 * (A * X)
  <2>1. 2 * (A * X) \in Nat /\ 32 * (A * X) \in Nat
    BY <1>4
  <2>2. m * n * 16 = (2 * (A * X)) * 2048 /\ m * n * 16 = (32 * (A * X)) * 128
    BY <1>8, <1>4
  <2> QED BY <2>1, <2>2, Quotient
<1>12. /\ (m * n + 15) \div 16 \in Nat /\ (m * n + 15) \div 16 >= I * X * 16
       /\ (m * n * 16) \div 2048 \in Nat \ {0}
       /\ (m * n * 16) \div 128 = ((m * n * 16) \div 2048) * 16
  BY <1>9, <1>10, <1>11, <1>4
<1> QED
  BY <1>2, <1>3, <1>6, <1>7, <1>12 DEF I, J, X

-----------------------------------------------------------------------------
(***************************************************************************)
(* What the product reads and leaves, and what a drain of it reads.        *)
(***************************************************************************)
\* Tiles of A and B, under the books and scales of both.
Multiplies(i, f, base, ta, tb, ba, bb) ==
  /\ f \in DOMAIN FORMATS /\ i.I \in Nat \ {0} /\ i.J \in Nat \ {0} /\ i.K \in Nat \ {0}
  /\ i.a \in Int /\ base \in Int
  /\ TilesA(spad, i.a, i.I, i.K, ta, f, ba) /\ TilesB(spad, base, i.K, i.J, tb, f, bb, 0)
  /\ IF lut = <<>> THEN ba = <<>> /\ bb = <<>> ELSE ba = lut[2] /\ bb = lut[1]
  /\ scale[1].t = ta /\ scale[1].lo = 0 /\ scale[1].cols = i.I * FORMATS[f].tile
  /\ scale[2].t = tb /\ scale[2].lo = 0 /\ scale[2].cols = i.J * FORMATS[f].tile

\* What the mesh computes from them.
LEMMA ProductIs ==
  ASSUME NEW f, NEW i, NEW base, NEW ta, NEW tb, NEW ba, NEW bb,
         Multiplies(i, f, base, ta, tb, ba, bb)
  PROVE  Product(i, f, Row(i.a), base, Row(base)) =
           [t |-> MM(ta, tb), lo |-> 0, m |-> i.I * FORMATS[f].tile, n |-> i.J * FORMATS[f].tile]
<1>0. /\ f \in DOMAIN FORMATS /\ i.I \in Nat \ {0} /\ i.J \in Nat \ {0} /\ i.K \in Nat \ {0}
      /\ i.a \in Int /\ base \in Int
      /\ TilesA(spad, i.a, i.I, i.K, ta, f, ba) /\ TilesB(spad, base, i.K, i.J, tb, f, bb, 0)
      /\ IF lut = <<>> THEN ba = <<>> /\ bb = <<>> ELSE ba = lut[2] /\ bb = lut[1]
      /\ scale[1].t = ta /\ scale[1].lo = 0 /\ scale[1].cols = i.I * FORMATS[f].tile
      /\ scale[2].t = tb /\ scale[2].lo = 0 /\ scale[2].cols = i.J * FORMATS[f].tile
  BY DEF Multiplies
<1> USE <1>0
<1> DEFINE a0 == Row(i.a)
           b0 == Row(base)
<1>1. f # "none"
  BY FormatFacts
<1>2. a0 = Slot(ta, f, ba, "a", 0, 0, 0)
  <2>1. 0 \in 0 .. i.I - 1 /\ 0 \in 0 .. i.K - 1 /\ i.a + (0 * i.K + 0) * 16 = i.a /\ 0 * 16 = 0
    OBVIOUS
  <2>2. At(spad, i.a + (0 * i.K + 0) * 16, Empty) = Slot(ta, f, ba, "a", 0 * 16, 0 * 16, 0)
    BY <2>1 DEF TilesA
  <2> QED BY <2>1, <2>2 DEF Row
<1>3. b0 = Slot(tb, f, bb, "b", 0, 0, 0)
  <2>1. 0 \in 0 .. i.K - 1 /\ 0 \in 0 .. i.J - 1 /\ base + (0 * i.J + 0) * 16 = base /\ 0 * 16 = 0 /\ 0 + 0 = 0
    OBVIOUS
  <2>2. At(spad, base + (0 * i.J + 0) * 16, Empty) = Slot(tb, f, bb, "b", 0 * 16, 0 + 0 * 16, 0)
    BY <2>1 DEF TilesB
  <2> QED BY <2>1, <2>2 DEF Row
<1>4. a0.t = ta /\ b0.t = tb /\ b0.q = 0
  BY <1>2, <1>3 DEF Slot
<1> DEFINE book(sel) == IF lut = <<>> THEN <<>> ELSE lut[sel]
<1>5. book(2) = ba /\ book(1) = bb
  OBVIOUS
<1>6. \A x \in (0 .. i.I - 1) \X (0 .. i.K - 1) :
        Row(i.a + (x[1] * i.K + x[2]) * Dim) = Slot(a0.t, f, book(2), "a", x[1] * Dim, x[2] * Dim, 0)
  <2> SUFFICES ASSUME NEW x \in (0 .. i.I - 1) \X (0 .. i.K - 1)
               PROVE  Row(i.a + (x[1] * i.K + x[2]) * 16) = Slot(ta, f, ba, "a", x[1] * 16, x[2] * 16, 0)
    BY <1>4, <1>5 DEF Dim
  <2>1. x[1] \in 0 .. i.I - 1 /\ x[2] \in 0 .. i.K - 1
    OBVIOUS
  <2> QED BY <2>1 DEF TilesA, Row
<1>7. \A x \in (0 .. i.K - 1) \X (0 .. i.J - 1) :
        Row(base + (x[1] * i.J + x[2]) * Dim) = Slot(b0.t, f, book(1), "b", x[1] * Dim, b0.q + x[2] * Dim, 0)
  <2> SUFFICES ASSUME NEW x \in (0 .. i.K - 1) \X (0 .. i.J - 1)
               PROVE  Row(base + (x[1] * i.J + x[2]) * 16) = Slot(tb, f, bb, "b", x[1] * 16, 0 + x[2] * 16, 0)
    BY <1>4, <1>5 DEF Dim
  <2>1. x[1] \in 0 .. i.K - 1 /\ x[2] \in 0 .. i.J - 1
    OBVIOUS
  <2> QED BY <2>1 DEF TilesB, Row
<1>8. b0.q * packed_per_byte(f) = 0
  <2>1. packed_per_byte(f) \in Nat
    BY FormatFacts
  <2> QED BY <2>1, <1>4
<1> HIDE DEF a0, b0, book
<1> QED
  BY <1>1, <1>4, <1>6, <1>7, <1>8 DEF Product, a0, b0, book

\* The rows a commit writes.
LEMMA Committed ==
  ASSUME NEW i, NEW r, NEW v, NEW bits, NEW N \in Nat, Commit(i, r, v, bits),
         N = (r.m * r.n * bits) \div 2048,
         i.c \in Nat, i.b_end \in Nat, i.c + N * 16 <= i.b_end
  PROVE  /\ \A s \in 0 .. N - 1 :
              At(spad', i.c + s * 16, Empty) =
                IF i.tiled /\ v.f # BF16
                THEN Slot(v.t, v.f, v.bk, "a", (s \div (r.n \div 16)) * 16, (s % (r.n \div 16)) * 16, 0)
                ELSE Slot(v.t, v.f, v.bk, "flat", r.lo, s, r.n)
         /\ SameOutside(spad, spad', i.c, i.c + N * 16)
         /\ mem' = IF v.f = BF16 THEN mem ELSE Put(mem, i.scales, v)
         /\ scale' = IF i.resident /\ v.f # BF16 THEN [scale EXCEPT ![1] = v] ELSE scale
<1> DEFINE slot(s) == IF i.tiled /\ ~(v.f = BF16)
                      THEN Slot(v.t, v.f, v.bk, "a", (s \div (r.n \div Dim)) * Dim, (s % (r.n \div Dim)) * Dim, 0)
                      ELSE Slot(v.t, v.f, v.bk, "flat", r.lo, s, r.n)
           inside == {s \in 0 .. ((r.m * r.n * bits) \div (8 * Dim * Dim)) - 1 : i.c + s * Dim < i.b_end}
           g == [a \in {i.c + s * Dim : s \in inside} |-> slot((a - i.c) \div Dim)]
<1>1. spad' = Over(g, spad)
  BY DEF Commit
<1>2. /\ mem' = IF v.f = BF16 THEN mem ELSE Put(mem, i.scales, v)
      /\ scale' = IF i.resident /\ v.f # BF16 THEN [scale EXCEPT ![1] = v] ELSE scale
  BY DEF Commit
<1>3. inside = 0 .. N - 1
  <2>1. 8 * Dim * Dim = 2048 /\ Dim = 16
    BY DEF Dim
  <2>2. \A s \in 0 .. N - 1 : i.c + s * 16 < i.b_end
    OBVIOUS
  <2>3. (r.m * r.n * bits) \div (8 * Dim * Dim) = N
    BY <2>1
  <2> HIDE DEF g, slot
  <2> QED BY <2>1, <2>2, <2>3
<1> HIDE DEF inside
<1>4. DOMAIN g = {i.c + s * 16 : s \in 0 .. N - 1}
  BY <1>3 DEF Dim
<1>5. \A s \in 0 .. N - 1 : g[i.c + s * 16] = slot(s)
  <2> SUFFICES ASSUME NEW s \in 0 .. N - 1 PROVE g[i.c + s * 16] = slot(s)
    OBVIOUS
  <2>1. ((i.c + s * 16) - i.c) \div Dim = s
    <3>1. (i.c + s * 16) - i.c = s * 16 /\ s \in Nat
      OBVIOUS
    <3> QED BY <3>1, Quotient DEF Dim
  <2>2. i.c + s * 16 \in {i.c + x * Dim : x \in inside}
    BY <1>3 DEF Dim
  <2>3. g[i.c + s * 16] = slot(((i.c + s * 16) - i.c) \div Dim)
    <3> HIDE DEF slot
    <3> QED BY <2>2
  <2> HIDE DEF g, slot
  <2> QED BY <2>1, <2>3
<1> HIDE DEF g
<1>6. \A a : At(spad', a, Empty) = IF a \in DOMAIN g THEN g[a] ELSE At(spad, a, Empty)
  BY <1>1, Overlaid
<1>7. ASSUME NEW s \in 0 .. N - 1 PROVE At(spad', i.c + s * 16, Empty) = slot(s)
  <2> HIDE DEF slot
  <2>1. i.c + s * 16 \in DOMAIN g
    BY <1>4
  <2> QED BY <1>5, <1>6, <2>1
<1>8. SameOutside(spad, spad', i.c, i.c + N * 16)
  <2> SUFFICES ASSUME NEW a \in Int, a < i.c \/ a >= i.c + N * 16, a \in DOMAIN g PROVE FALSE
    BY <1>6 DEF SameOutside
  <2>1. PICK s \in 0 .. N - 1 : a = i.c + s * 16
    BY <1>4
  <2> QED BY <2>1
<1> QED
  BY <1>2, <1>7, <1>8 DEF Dim

\* A result of I by X tiles, committed as the A operand of the stage after it.
CommitsTiles(i, r, v, bits, I, X) ==
  /\ I \in Nat /\ X \in Nat \ {0} /\ Commit(i, r, v, bits)
  /\ I * X = (r.m * r.n * bits) \div 2048 /\ r.n \div 16 = X /\ i.tiled = TRUE /\ v.f # BF16
  /\ i.c \in Nat /\ i.b_end \in Nat /\ i.c + I * X * 16 <= i.b_end

\* A requantised product is committed as the tiles of a left operand, and nowhere else.
LEMMA CommittedTiles ==
  ASSUME NEW i, NEW r, NEW v, NEW bits, NEW I, NEW X, CommitsTiles(i, r, v, bits, I, X)
  PROVE  TilesA(spad', i.c, I, X, v.t, v.f, v.bk) /\ SameOutside(spad, spad', i.c, i.c + I * X * 16)
<1>0. /\ I \in Nat /\ X \in Nat \ {0} /\ Commit(i, r, v, bits)
      /\ I * X = (r.m * r.n * bits) \div 2048 /\ r.n \div 16 = X /\ i.tiled /\ v.f # BF16
      /\ i.c \in Nat /\ i.b_end \in Nat /\ i.c + I * X * 16 <= i.b_end
  BY DEF CommitsTiles
<1> USE <1>0
<1> DEFINE N == I * X
<1>1. N \in Nat /\ N = (r.m * r.n * bits) \div 2048 /\ i.c + N * 16 <= i.b_end
  OBVIOUS
<1> HIDE DEF N
<1>2. /\ \A s \in 0 .. N - 1 :
           At(spad', i.c + s * 16, Empty) =
             Slot(v.t, v.f, v.bk, "a", (s \div X) * 16, (s % X) * 16, 0)
      /\ SameOutside(spad, spad', i.c, i.c + N * 16)
  <2>1. /\ \A s \in 0 .. N - 1 :
             At(spad', i.c + s * 16, Empty) =
               IF i.tiled /\ v.f # BF16
               THEN Slot(v.t, v.f, v.bk, "a", (s \div (r.n \div 16)) * 16, (s % (r.n \div 16)) * 16, 0)
               ELSE Slot(v.t, v.f, v.bk, "flat", r.lo, s, r.n)
        /\ SameOutside(spad, spad', i.c, i.c + N * 16)
    BY ONLY <1>0, <1>1, Committed
  <2> QED BY <2>1
<1>3. ASSUME NEW y \in 0 .. I - 1, NEW j \in 0 .. X - 1
      PROVE  At(spad', i.c + (y * X + j) * 16, Empty) = Slot(v.t, v.f, v.bk, "a", y * 16, j * 16, 0)
  <2>1. y * X + j \in 0 .. N - 1
    BY Within DEF N
  <2>2. y \in Nat /\ j \in Nat /\ j < X /\ X \in Nat
    OBVIOUS
  <2>3. (y * X + j) \div X = y /\ (y * X + j) % X = j
    BY ONLY <2>2, DivMod
  <2>4. At(spad', i.c + (y * X + j) * 16, Empty) =
          Slot(v.t, v.f, v.bk, "a", ((y * X + j) \div X) * 16, ((y * X + j) % X) * 16, 0)
    BY ONLY <1>2, <2>1
  <2> QED BY <2>3, <2>4
<1> QED
  BY <1>2, <1>3 DEF TilesA, N

\* A bf16 result, committed row by row.
CommitsFlat(i, r, v, N) ==
  /\ N \in Nat /\ Commit(i, r, v, 16)
  /\ N = (r.m * r.n * 16) \div 2048 /\ v.f = BF16 /\ v.bk = <<>>
  /\ i.c \in Nat /\ i.b_end \in Nat /\ i.c + N * 16 <= i.b_end

\* A BF16 product is committed flat, and nowhere else.
LEMMA CommittedFlat ==
  ASSUME NEW i, NEW r, NEW v, NEW N, CommitsFlat(i, r, v, N)
  PROVE  Flat(spad', i.c, N, v.t, r.lo, r.n) /\ SameOutside(spad, spad', i.c, i.c + N * 16)
  BY Committed DEF Flat, CommitsFlat

\* Bytes in rows of sixteen.
LEMMA RoundUp ==
  ASSUME NEW N \in Nat
  PROVE  (N * 16 + 15) \div 16 = N
  BY DivMod

\* A slot of tile p, q.
LEMMA Placed ==
  ASSUME NEW t, NEW f, NEW bk, NEW p, NEW q
  PROVE  [Slot(t, f, bk, "a", 0, 0, 0) EXCEPT !.p = p, !.q = q] = Slot(t, f, bk, "a", p, q, 0)
<1> DEFINE S(x, y) == [t |-> t, f |-> f, bk |-> bk, lay |-> "a", p |-> x, q |-> y, cols |-> 0]
<1>1. [S(0, 0) EXCEPT !.p = p] = S(p, 0)
  OBVIOUS
<1>2. [S(p, 0) EXCEPT !.q = q] = S(p, q)
  OBVIOUS
<1>3. [S(0, 0) EXCEPT !.p = p, !.q = q] = [[S(0, 0) EXCEPT !.p = p] EXCEPT !.q = q]
  OBVIOUS
<1> QED
  BY <1>1, <1>2, <1>3 DEF Slot

\* What is read back of a result in tiles.
DrainsTiles(i, I, X, t, f, bk) ==
  /\ I \in Nat \ {0} /\ X \in Nat \ {0} /\ TilesA(spad, i.src, I, X, t, f, bk) /\ i.tiled = TRUE
  /\ i.src \in Int /\ i.rows = I * X * 16 /\ i.cols \div 16 = X

\* Tiles are read back as the value they are of.
LEMMA DrainedTiles ==
  ASSUME NEW i, NEW I, NEW X, NEW t, NEW f, NEW bk, DrainsTiles(i, I, X, t, f, bk)
  PROVE  Drained(i) = [t |-> t, f |-> f, bk |-> bk, lo |-> 0, cols |-> i.cols]
<1>0. /\ I \in Nat \ {0} /\ X \in Nat \ {0} /\ TilesA(spad, i.src, I, X, t, f, bk) /\ i.tiled
      /\ i.src \in Int /\ i.rows = I * X * 16 /\ i.cols \div 16 = X
  BY DEF DrainsTiles
<1> USE <1>0
<1> DEFINE s0 == Row(i.src)
<1>1. I * X \in Nat
  OBVIOUS
<1>2. (i.rows + Dim - 1) \div Dim = I * X
  <2>1. i.rows + 16 - 1 = (I * X) * 16 + 15
    BY <1>1
  <2> QED BY <2>1, <1>1, RoundUp DEF Dim
<1>3. s0 = Slot(t, f, bk, "a", 0, 0, 0)
  <2>1. 0 \in 0 .. I - 1 /\ 0 \in 0 .. X - 1 /\ i.src + (0 * X + 0) * 16 = i.src /\ 0 * 16 = 0
    OBVIOUS
  <2>2. At(spad, i.src + (0 * X + 0) * 16, Empty) = Slot(t, f, bk, "a", 0 * 16, 0 * 16, 0)
    BY <2>1 DEF TilesA
  <2> QED BY <2>1, <2>2 DEF Row
<1>4. ASSUME NEW s \in 0 .. I * X - 1
      PROVE  Row(i.src + s * Dim) =
               [s0 EXCEPT !.p = (s \div (i.cols \div Dim)) * Dim, !.q = (s % (i.cols \div Dim)) * Dim]
  <2>1. s \div X \in 0 .. I - 1 /\ s % X \in 0 .. X - 1 /\ s = (s \div X) * X + (s % X)
    BY Coordinates
  <2>2. Row(i.src + s * 16) = Slot(t, f, bk, "a", (s \div X) * 16, (s % X) * 16, 0)
    BY <2>1 DEF TilesA, Row
  <2>3. [s0 EXCEPT !.p = (s \div X) * 16, !.q = (s % X) * 16] =
          Slot(t, f, bk, "a", (s \div X) * 16, (s % X) * 16, 0)
    <3>1. [Slot(t, f, bk, "a", 0, 0, 0) EXCEPT !.p = (s \div X) * 16, !.q = (s % X) * 16] =
            Slot(t, f, bk, "a", (s \div X) * 16, (s % X) * 16, 0)
      BY ONLY Placed
    <3> HIDE DEF s0
    <3> QED BY <3>1, <1>3
  <2> QED BY <2>2, <2>3 DEF Dim
<1>5. s0.lay = "a" /\ s0.t = t /\ s0.f = f /\ s0.bk = bk
  BY <1>3 DEF Slot
<1> HIDE DEF s0
<1> QED
  BY <1>2, <1>4, <1>5 DEF Drained, s0

\* What is drained of a bf16 result.
DrainsFlat(i, N, t, lo) ==
  /\ N \in Nat \ {0} /\ Flat(spad, i.src, N, t, lo, i.cols) /\ i.tiled = FALSE
  /\ i.src \in Int /\ i.rows = N * 16

\* Flat slots are read back as the value they are of.
LEMMA DrainedFlat ==
  ASSUME NEW i, NEW N, NEW t, NEW lo, DrainsFlat(i, N, t, lo)
  PROVE  Drained(i) = [t |-> t, f |-> BF16, bk |-> <<>>, lo |-> lo, cols |-> i.cols]
<1>0. /\ N \in Nat \ {0} /\ Flat(spad, i.src, N, t, lo, i.cols) /\ ~i.tiled
      /\ i.src \in Int /\ i.rows = N * 16
  BY DEF DrainsFlat
<1> USE <1>0
<1> DEFINE s0 == Row(i.src)
<1>2. (i.rows + Dim - 1) \div Dim = N
  <2>1. i.rows + 16 - 1 = N * 16 + 15
    OBVIOUS
  <2> QED BY <2>1, RoundUp DEF Dim
<1>3. s0 = Slot(t, BF16, <<>>, "flat", lo, 0, i.cols)
  <2>1. 0 \in 0 .. N - 1 /\ i.src + 0 * 16 = i.src
    OBVIOUS
  <2>2. At(spad, i.src + 0 * 16, Empty) = Slot(t, BF16, <<>>, "flat", lo, 0, i.cols)
    BY <2>1 DEF Flat
  <2> QED BY <2>1, <2>2 DEF Row
<1>4. ASSUME NEW s \in 0 .. N - 1
      PROVE  Row(i.src + s * Dim) = [s0 EXCEPT !.q = s]
  <2>2. Row(i.src + s * 16) = Slot(t, BF16, <<>>, "flat", lo, s, i.cols)
    BY DEF Flat, Row
  <2>3. [s0 EXCEPT !.q = s] = Slot(t, BF16, <<>>, "flat", lo, s, i.cols)
    BY <1>3 DEF Slot
  <2> QED BY <2>2, <2>3 DEF Dim
<1>5. s0.lay = "flat" /\ s0.t = t /\ s0.f = BF16 /\ s0.bk = <<>> /\ s0.p = lo /\ s0.cols = i.cols
  BY <1>3 DEF Slot
<1> HIDE DEF s0
<1> QED
  BY <1>2, <1>4, <1>5 DEF Drained, s0

-----------------------------------------------------------------------------
(***************************************************************************)
(* A chain c the compiler accepted: its n plans and bundles, the format f  *)
(* of its operands, the unit it runs on, val[i], the value of stage i, and *)
(* the programs rest[i] after stage i and reps[i] after the report of i.   *)
(***************************************************************************)
\* The left operand of stage i.
InTerm(c, i) == IF i = 1 THEN QA(c.bundles[1].a) ELSE Requant(c.val[i - 1])

\* The rows of the scratchpad.
SpadRows == Scratchpad[1] * Scratchpad[2]

\* The instructions of stage i: the formats,
Config(c, i)  == config_ex(c.plans[i].act_fmt, c.plans[i].wgt_fmt, c.plans[i].out_fmt)
\* the books of its operands and its result,
BooksOf(c, i) == <<c.bundles[i].b_lut, c.bundles[i].a_lut, c.bundles[i].c_lut>>
\* their load,
LoadBooks(c, i) ==
  [op |-> "load_luts", books |-> BooksOf(c, i), luts |-> c.bundles[i].luts, group |-> c.group]
\* the operands in DRAM,
XBuf    == <<XName, "a">>
WBuf(i) == <<WName(i), "b">>
\* the loads of their scales,
LoadX    == load_scales(XBuf, 0)
LoadW(i) == load_scales(WBuf(i), 1)
\* their moves into the scratchpad,
MoveX(c) == LET p == c.plans[1]
            IN  mvin_A(XBuf, 0, tiles_i(p), tiles_k(p), p.k, p.k, 16)
MoveW(c, i) == LET p == c.plans[i]
                   row == p.n \div packed_per_byte(c.f)
               IN  mvin_B(WBuf(i), b_base(p), tiles_k(p), tiles_j(p), row, row, 16, 0)
\* the product, chained to the next stage unless it is the last,
MeshOf(c, i) == LET p == c.plans[i]
                IN  loop_ws(tiles_i(p), tiles_j(p), tiles_k(p), p.a_spad, SpadRows, p.spad_dest,
                            i < c.n, i < c.n, <<p.out, "scales">>)
\* the result read back,
OutBuf(c, i) == <<c.plans[i].out, "out">>
ReadOut(c, i, tiled) == LET p == c.plans[i]
                        IN  mvout(OutBuf(c, i), p.spad_dest, out_rows(p), p.n, tiled)
\* its report,
ReportOut(c, i)    == report(OutBuf(c, i), OutBuf(c, i), c.plans[i].n)
\* and the report of its scales.
ScaleBuf(c, i)     == <<c.plans[i].out, "scales">>
ReportScales(c, i) == report(ScaleBuf(c, i), ScaleBuf(c, i), c.plans[i].m)

\* What is left of the program at each point of stage i.
P9(c, i) == Cons(Fence, c.rest[i])
P8(c, i) == IF i < c.n THEN P9(c, i) ELSE Cons(Fence, Cons(ReadOut(c, i, FALSE), P9(c, i)))
P7(c, i) == Cons(MeshOf(c, i), P8(c, i))
P6(c, i) == Cons(MoveW(c, i), P7(c, i))
P5(c, i) == IF i = 1 THEN Cons(MoveX(c), P6(c, i)) ELSE P6(c, i)
P4(c, i) == Cons(Fence, P5(c, i))
P3(c, i) == Cons(LoadW(i), P4(c, i))
P2(c, i) == IF i = 1 THEN Cons(LoadX, P3(c, i)) ELSE P3(c, i)
P1(c, i) == IF FORMATS[c.f].lut THEN Cons(LoadBooks(c, i), P2(c, i)) ELSE P2(c, i)
P0(c, i) == Cons(Config(c, i), P1(c, i))

\* And at each point of its report.
R3(c, i) == Cons(ReportScales(c, i), c.reps[i])
R2(c, i) == Cons(ReportOut(c, i), R3(c, i))
R1(c, i) == Cons(Fence, R2(c, i))
R0(c, i) == IF i < c.n THEN Cons(ReadOut(c, i, TRUE), R1(c, i)) ELSE Cons(ReportOut(c, i), c.reps[i])

\* What was reported after the first i stages.
Reported(c, i) == ({TName(j) : j \in {k \in 1 .. i : k < c.n}} \X {"out", "scales"})
                  \cup (IF i = c.n THEN {<<YName, "out">>} ELSE {})

----------------------------------------------------------------------------
(* What the compiler promises. *)
\* The plan of stage i.
SoundPlan(c, i) ==
  LET p == c.plans[i]
  IN  /\ p.m \in Nat \ {0} /\ p.k \in Nat \ {0} /\ p.n \in Nat \ {0}
      /\ p.m % FORMATS[c.f].tile = 0 /\ p.n % FORMATS[c.f].tile = 0 /\ p.k % 16 = 0
      /\ p.act_fmt = c.f /\ p.wgt_fmt = c.f
      /\ p.out_fmt = (IF i = c.n THEN BF16 ELSE c.f)
      /\ p.out = (IF i = c.n THEN YName ELSE TName(i))
      /\ p.dim = 16 /\ p.rows = SpadRows
      /\ p.spad_dest \in Nat
      /\ p.a_spad = (IF i = 1 THEN 0 ELSE c.plans[i - 1].spad_dest)
      /\ tiles_i(p) * tiles_k(p) * 16 < b_base(p)

\* A stage reads what the one before it left, and nothing is written over what is still to be read.
SoundSeams(c) ==
  /\ \A i \in 2 .. c.n : c.plans[i].m = c.plans[i - 1].m /\ c.plans[i].k = c.plans[i - 1].n
  /\ \A i \in 1 .. c.n, j \in 1 .. c.n :
       j < i => c.plans[j].spad_dest + smem_rows(c.plans[j]) <= c.plans[i].spad_dest
  /\ \A i \in 1 .. c.n, j \in 1 .. c.n :
       j < c.n => c.plans[j].spad_dest + smem_rows(c.plans[j]) <= b_base(c.plans[i])

\* The unit holds every book, and a stage decodes with the book the one before it encoded with.
SoundBooks(c) ==
  IF FORMATS[c.f].lut
  THEN /\ c.f \in LUT_SERVES[c.unit.projFormat]
       /\ \A i \in 1 .. c.n : BooksFit(LoadBooks(c, i), c.unit)
       /\ \A i \in 2 .. c.n : c.bundles[i].a_lut = c.bundles[i - 1].c_lut
  ELSE \A i \in 1 .. c.n : BooksOf(c, i) = <<<<>>, <<>>, <<>>>>

\* The program is the stages one after the other, then the reports.
SoundProgram(c) ==
  /\ \A i \in 0 .. c.n : Listed(c.rest[i]) /\ Listed(c.reps[i])
  /\ \A i \in 1 .. c.n : c.rest[i - 1] = P0(c, i) /\ c.reps[i - 1] = R0(c, i)
  /\ c.rest[c.n] = c.reps[0] /\ c.reps[c.n] = <<>>

\* The values are those of the chain, and what is wanted is reported from them.
SoundWant(c) ==
  /\ \A i \in 1 .. c.n : c.val[i] = MM(InTerm(c, i), QB(c.bundles[i].b))
  /\ c.want = [o \in Reported(c, c.n) |-> c.want[o]]
  /\ \A i \in 1 .. c.n - 1, s \in {"out", "scales"} : c.want[<<TName(i), s>>] = Requant(c.val[i])
  /\ c.want[<<YName, "out">>] = c.val[c.n]

\* All of it.
Sound(c) ==
  /\ c.n \in Nat \ {0} /\ c.f \in DOMAIN FORMATS
  /\ \A i \in 1 .. c.n : SoundPlan(c, i)
  /\ SoundSeams(c) /\ SoundBooks(c) /\ SoundProgram(c) /\ SoundWant(c)

----------------------------------------------------------------------------
(* The state. *)
\* What a chained stage leaves in the scale window of the next.
ResultOf(c, i) == Value(Requant(c.val[i]), c.f, c.bundles[i].c_lut, c.plans[i].m)

\* The operands stay where they were baked.
Operands(c) ==
  /\ Buffer(XBuf) = Value(QA(c.bundles[1].a), c.f, c.bundles[1].a_lut, c.plans[1].m)
  /\ \A i \in 1 .. c.n :
       Buffer(WBuf(i)) = Value(QB(c.bundles[i].b), c.f, c.bundles[i].b_lut, c.plans[i].n)

\* What no step of the program changes.
Steady(c) ==
  /\ want = c.want /\ unit = c.unit /\ Fits(prog) /\ DOMAIN scale = {1, 2}
  /\ FORMATS[c.f].lut \/ lut = <<>>
  /\ Operands(c)

\* The codes of stage j are where the next stage and the report look for them.
Codes(c, j) == TilesA(spad, c.plans[j].spad_dest, tiles_i(c.plans[j]), c.plans[j].n \div 16,
                      Requant(c.val[j]), c.f, c.bundles[j].c_lut)
\* Those of the first i stages, and their scales,
Kept(c, i) == \A j \in 1 .. i : j < c.n => Codes(c, j) /\ Buffer(ScaleBuf(c, j)) = ResultOf(c, j)
\* of which those of the last are in the window of the left operand.
Resident(c, i) == i \in 1 .. c.n - 1 => scale[1] = ResultOf(c, i)

\* In stage i, before its product.
InStage(c, i) == i \in 1 .. c.n /\ Kept(c, i - 1) /\ Resident(c, i - 1) /\ stores = {} /\ outs = <<>>
\* Its formats are set,
Configured(c, i) == InStage(c, i) /\ cfg = Config(c, i)
\* and its books.
Selected(c, i) == Configured(c, i) /\ lut = IF FORMATS[c.f].lut THEN BooksOf(c, i) ELSE <<>>

\* A window holds its scales, or their load is in flight.
Coming(sel, buf) == scale[sel + 1] = Buffer(buf) \/ <<sel, buf>> \in loads
\* Both windows hold the scales of the stage.
Windows(c, i) == /\ loads = {}
                 /\ i = 1 => scale[1] = Buffer(XBuf)
                 /\ scale[2] = Buffer(WBuf(i))
\* The input is in the scratchpad,
HasX(c) == LET p == c.plans[1]
           IN  TilesA(spad, 0, tiles_i(p), tiles_k(p), QA(c.bundles[1].a), c.f, c.bundles[1].a_lut)
\* and the weight of stage i.
HasW(c, i) == LET p == c.plans[i]
              IN  TilesB(spad, b_base(p), tiles_k(p), tiles_j(p), QB(c.bundles[i].b), c.f,
                         c.bundles[i].b_lut, 0)

\* The points of stage i before its product.
L0(c, i) == prog = P0(c, i) /\ InStage(c, i) /\ loads = {}
L1(c, i) == FORMATS[c.f].lut /\ prog = P1(c, i) /\ Configured(c, i) /\ loads = {}
L2(c, i) == i = 1 /\ prog = P2(c, i) /\ Selected(c, i) /\ loads = {}
L3(c, i) == /\ prog = P3(c, i) /\ Selected(c, i)
            /\ IF i = 1 THEN loads \subseteq {<<0, XBuf>>} /\ Coming(0, XBuf) ELSE loads = {}
L4(c, i) == /\ prog = P4(c, i) /\ Selected(c, i) /\ Coming(1, WBuf(i))
            /\ IF i = 1 THEN loads \subseteq {<<0, XBuf>>, <<1, WBuf(i)>>} /\ Coming(0, XBuf)
               ELSE loads \subseteq {<<1, WBuf(i)>>}
L5(c, i) == i = 1 /\ prog = P5(c, i) /\ Selected(c, i) /\ Windows(c, i)
L6(c, i) == prog = P6(c, i) /\ Selected(c, i) /\ Windows(c, i) /\ (i = 1 => HasX(c))
L7(c, i) == prog = P7(c, i) /\ Selected(c, i) /\ Windows(c, i) /\ (i = 1 => HasX(c)) /\ HasW(c, i)

\* After the product of stage i.
AfterProduct(c, i) == i \in 1 .. c.n /\ Kept(c, i) /\ Resident(c, i) /\ loads = {} /\ outs = <<>>
\* The slots of the last stage's result,
Slots(c) == (c.plans[c.n].m * c.plans[c.n].n * 16) \div 2048
\* which it left,
HasY(c)  == Flat(spad, c.plans[c.n].spad_dest, Slots(c), c.val[c.n], 0, c.plans[c.n].n)
\* and is read back as
YValue(c) == Value(c.val[c.n], BF16, <<>>, c.plans[c.n].n)
\* into this buffer.
YBuf == <<YName, "out">>
\* The points of stage i after its product.
L8(c, i)  == prog = P8(c, i) /\ AfterProduct(c, i) /\ stores = {} /\ (i = c.n => HasY(c))
L8b(c, i) == i = c.n /\ prog = Cons(ReadOut(c, i, FALSE), P9(c, i)) /\ AfterProduct(c, i) /\ stores = {} /\ HasY(c)
L9(c, i)  == /\ prog = P9(c, i) /\ AfterProduct(c, i)
             /\ IF i = c.n THEN /\ stores \subseteq {<<YBuf, YValue(c)>>}
                                /\ Buffer(YBuf) = YValue(c) \/ <<YBuf, YValue(c)>> \in stores
                ELSE stores = {}

\* The reports.
Has(c, S) == outs = IF S = {} THEN <<>> ELSE [o \in S |-> c.want[o]]
\* An intermediate as it is read back.
TValue(c, i) == Value(Requant(c.val[i]), c.f, c.bundles[i].c_lut, c.plans[i].n)
\* Every stage is done and the result in DRAM.
ChainDrained(c) == Kept(c, c.n) /\ loads = {} /\ Buffer(YBuf) = YValue(c)
\* The points of the report of stage i.
M0(c, i) == i \in 1 .. c.n + 1 /\ prog = c.reps[i - 1] /\ ChainDrained(c) /\ stores = {} /\ Has(c, Reported(c, i - 1))
M1(c, i) == /\ i \in 1 .. c.n - 1 /\ prog = R1(c, i) /\ ChainDrained(c) /\ Has(c, Reported(c, i - 1))
            /\ stores \subseteq {<<OutBuf(c, i), TValue(c, i)>>}
            /\ Buffer(OutBuf(c, i)) = TValue(c, i) \/ <<OutBuf(c, i), TValue(c, i)>> \in stores
M2(c, i) == /\ i \in 1 .. c.n - 1 /\ prog = R2(c, i) /\ ChainDrained(c) /\ stores = {}
            /\ Has(c, Reported(c, i - 1)) /\ Buffer(OutBuf(c, i)) = TValue(c, i)
M3(c, i) == /\ i \in 1 .. c.n - 1 /\ prog = R3(c, i) /\ ChainDrained(c) /\ stores = {}
            /\ Has(c, Reported(c, i - 1) \cup {OutBuf(c, i)})

\* The program is at one of its points.
Located(c) ==
  \E i \in 1 .. c.n + 1 :
    \/ L0(c, i) \/ L1(c, i) \/ L2(c, i) \/ L3(c, i) \/ L4(c, i) \/ L5(c, i) \/ L6(c, i) \/ L7(c, i)
    \/ L8(c, i) \/ L8b(c, i) \/ L9(c, i)
    \/ M0(c, i) \/ M1(c, i) \/ M2(c, i) \/ M3(c, i)

\* The invariant, of the chain c.
Chained(c) == Sound(c) /\ Steady(c) /\ Located(c)

----------------------------------------------------------------------------
\* Every program on the way is a sequence.
LEMMA AllListed ==
  ASSUME NEW c, Sound(c), NEW i \in 1 .. c.n
  PROVE  /\ Listed(P9(c, i)) /\ Listed(P8(c, i)) /\ Listed(P7(c, i)) /\ Listed(P6(c, i))
         /\ Listed(P5(c, i)) /\ Listed(P4(c, i)) /\ Listed(P3(c, i)) /\ Listed(P2(c, i))
         /\ Listed(P1(c, i)) /\ Listed(P0(c, i))
         /\ Listed(c.reps[i]) /\ Listed(R3(c, i)) /\ Listed(R2(c, i)) /\ Listed(R1(c, i))
<1>1. Listed(c.rest[i]) /\ Listed(c.reps[i])
  BY DEF Sound, SoundProgram
<1>9. Listed(P9(c, i))
  BY <1>1, ConsFacts DEF P9
<1>8. Listed(P8(c, i))
  <2>1. Listed(Cons(ReadOut(c, i, FALSE), P9(c, i)))
    BY <1>9, ConsFacts
  <2>2. Listed(Cons(Fence, Cons(ReadOut(c, i, FALSE), P9(c, i))))
    BY <2>1, ConsFacts
  <2> QED BY <1>9, <2>2 DEF P8
<1>7. Listed(P7(c, i))
  BY <1>8, ConsFacts DEF P7
<1>6. Listed(P6(c, i))
  BY <1>7, ConsFacts DEF P6
<1>5. Listed(P5(c, i))
  BY <1>6, ConsFacts DEF P5
<1>4. Listed(P4(c, i))
  BY <1>5, ConsFacts DEF P4
<1>3. Listed(P3(c, i))
  BY <1>4, ConsFacts DEF P3
<1>2. Listed(P2(c, i))
  BY <1>3, ConsFacts DEF P2
<1>10. Listed(P1(c, i))
  BY <1>2, ConsFacts DEF P1
<1>11. Listed(P0(c, i))
  BY <1>10, ConsFacts DEF P0
<1>12. Listed(R3(c, i))
  BY <1>1, ConsFacts DEF R3
<1>13. Listed(R2(c, i))
  BY <1>12, ConsFacts DEF R2
<1>14. Listed(R1(c, i))
  BY <1>13, ConsFacts DEF R1
<1> QED
  BY <1>1, <1>2, <1>3, <1>4, <1>5, <1>6, <1>7, <1>8, <1>9, <1>10, <1>11, <1>12, <1>13, <1>14

\* The sizes of a stage.
LEMMA Geometry ==
  ASSUME NEW c, Sound(c), NEW i \in 1 .. c.n
  PROVE  LET p == c.plans[i]
             X == p.n \div 16
         IN  /\ tiles_i(p) \in Nat \ {0} /\ tiles_j(p) \in Nat \ {0} /\ tiles_k(p) \in Nat \ {0}
             /\ X \in Nat \ {0}
             /\ p.m = tiles_i(p) * FORMATS[c.f].tile /\ p.n = tiles_j(p) * FORMATS[c.f].tile
             /\ p.k = tiles_k(p) * 16
             /\ p.n \div packed_per_byte(c.f) = tiles_j(p) * 16
             /\ b_base(p) = SpadRows - tiles_k(p) * tiles_j(p) * 16
             /\ b_base(p) \in Nat /\ SpadRows \in Nat /\ b_base(p) <= SpadRows
             /\ (p.m * p.n * FORMATS[c.f].bits) \div 2048 = tiles_i(p) * X
             /\ i < c.n => out_rows(p) = tiles_i(p) * X * 16
             /\ i < c.n => smem_rows(p) \in Nat /\ tiles_i(p) * X * 16 <= smem_rows(p)
             /\ i = c.n => Slots(c) \in Nat \ {0} /\ out_rows(p) = Slots(c) * 16
<1> DEFINE p == c.plans[i]
           f == c.f
           X == p.n \div 16
<1>1. /\ p.m \in Nat \ {0} /\ p.k \in Nat \ {0} /\ p.n \in Nat \ {0}
      /\ p.m % FORMATS[f].tile = 0 /\ p.n % FORMATS[f].tile = 0 /\ p.k % 16 = 0
      /\ p.act_fmt = f /\ p.wgt_fmt = f /\ p.out_fmt = (IF i = c.n THEN BF16 ELSE f)
      /\ p.dim = 16 /\ p.rows = SpadRows /\ tiles_i(p) * tiles_k(p) * 16 < b_base(p)
      /\ f \in DOMAIN FORMATS
  BY DEF Sound, SoundPlan
<1>2. \/ FORMATS[f].tile = 16 /\ FORMATS[f].bits = 8 /\ packed_per_byte(f) = 1
      \/ FORMATS[f].tile = 32 /\ FORMATS[f].bits = 4 /\ packed_per_byte(f) = 2
  BY <1>1, FormatFacts
<1> HIDE DEF p, f
<1>3. /\ tiles_i(p) = p.m \div FORMATS[f].tile /\ tiles_j(p) = p.n \div FORMATS[f].tile
      /\ tiles_k(p) = p.k \div 16
  BY <1>1 DEF tiles_i, tiles_j, tiles_k, TILE_K
<1>4. /\ tiles_i(p) \in Nat \ {0} /\ tiles_j(p) \in Nat \ {0} /\ X \in Nat \ {0}
      /\ p.m = tiles_i(p) * FORMATS[f].tile /\ p.n = tiles_j(p) * FORMATS[f].tile
      /\ p.n \div packed_per_byte(f) = tiles_j(p) * 16
      /\ (p.m * p.n * FORMATS[f].bits) \div 2048 = tiles_i(p) * X
      /\ (p.m * p.n * FORMATS[f].bits) \div 128 = tiles_i(p) * X * 16
      /\ (p.m * p.n + 15) \div 16 \in Nat /\ (p.m * p.n + 15) \div 16 >= tiles_i(p) * X * 16
      /\ (p.m * p.n * 16) \div 2048 \in Nat \ {0}
      /\ (p.m * p.n * 16) \div 128 = ((p.m * p.n * 16) \div 2048) * 16
  <2> DEFINE m == p.m
             n == p.n
             tile == FORMATS[f].tile
             bits == FORMATS[f].bits
             per == packed_per_byte(f)
  <2>1. /\ m \in Nat \ {0} /\ n \in Nat \ {0} /\ m % tile = 0 /\ n % tile = 0
        /\ \/ tile = 16 /\ bits = 8 /\ per = 1
           \/ tile = 32 /\ bits = 4 /\ per = 2
        /\ tiles_i(p) = m \div tile /\ tiles_j(p) = n \div tile /\ X = n \div 16
    BY <1>1, <1>2, <1>3
  <2> HIDE DEF m, n, tile, bits, per, X
  <2>2. LET I == m \div tile
            J == n \div tile
            Y == n \div 16
        IN  /\ I \in Nat \ {0} /\ J \in Nat \ {0} /\ Y \in Nat \ {0}
            /\ m = I * tile /\ n = J * tile /\ n = Y * 16 /\ n \div per = J * 16
            /\ (m * n * bits) \div 2048 = I * Y
            /\ (m * n * bits) \div 128 = I * Y * 16
            /\ (m * n + 15) \div 16 \in Nat /\ (m * n + 15) \div 16 >= I * Y * 16
            /\ (m * n * 16) \div 2048 \in Nat \ {0}
            /\ (m * n * 16) \div 128 = ((m * n * 16) \div 2048) * 16
    BY <2>1, Sizes
  <2> QED BY <2>1, <2>2 DEF m, n, tile, bits, per
<1>5. tiles_k(p) \in Nat \ {0} /\ p.k = tiles_k(p) * 16
  BY <1>1, <1>3
<1>6. SpadRows \in Nat
  BY DeviceAssumption DEF SpadRows
<1>7. b_base(p) = SpadRows - tiles_k(p) * tiles_j(p) * 16
  BY <1>1 DEF b_base
<1>8. b_base(p) \in Nat /\ b_base(p) <= SpadRows
  <2>1. tiles_k(p) * tiles_j(p) \in Nat /\ tiles_i(p) * tiles_k(p) \in Nat
    BY <1>4, <1>5
  <2> QED BY <2>1, <1>1, <1>6, <1>7
<1>9. i < c.n => out_rows(p) = tiles_i(p) * X * 16
  <2> SUFFICES ASSUME i < c.n PROVE out_rows(p) = tiles_i(p) * X * 16
    OBVIOUS
  <2>1. c.n \in Nat /\ i # c.n
    BY DEF Sound
  <2>2. p.out_fmt = f /\ f # BF16
    BY <2>1, <1>1, FormatFacts
  <2>3. out_rows(p) = (p.m * p.n * FORMATS[f].bits) \div 128
    BY <1>1, <2>2 DEF out_rows, out_bits
  <2> QED BY <2>3, <1>4
<1>10. smem_rows(p) = (p.m * p.n + 15) \div 16
  <2>1. p.m * p.n \in Nat
    BY <1>1
  <2>2. p.m * p.n + 16 - 1 = p.m * p.n + 15
    BY <2>1
  <2> QED BY <1>1, <2>2 DEF smem_rows
<1>11. i = c.n => Slots(c) \in Nat \ {0} /\ out_rows(p) = Slots(c) * 16
  <2> SUFFICES ASSUME i = c.n PROVE Slots(c) \in Nat \ {0} /\ out_rows(p) = Slots(c) * 16
    OBVIOUS
  <2>1. Slots(c) = (p.m * p.n * 16) \div 2048
    BY DEF Slots, p
  <2>2. out_rows(p) = (p.m * p.n * 16) \div 128
    BY <1>1 DEF out_rows, out_bits
  <2> QED BY <2>1, <2>2, <1>4
<1> QED
  BY <1>4, <1>5, <1>6, <1>7, <1>8, <1>9, <1>10, <1>11 DEF p, f

-----------------------------------------------------------------------------
(***************************************************************************)
(* What a step leaves alone.                                               *)
(***************************************************************************)
\* What is left of a program that stays inside the scratchpad does too.
LEMMA FitsCons ==
  ASSUME NEW x, NEW s, Listed(s), Fits(Cons(x, s))
  PROVE  /\ Fits(s)
         /\ x.op = "mvout" => x.src + x.rows <= SpadRows
<1>1. PICK S : s \in Seq(S)
  BY DEF Listed
<1> DEFINE U == S \cup {x}
           t == Cons(x, s)
<1>2. s \in Seq(U) /\ <<x>> \in Seq(U)
  BY <1>1, SeqMonotonic
<1> HIDE DEF U
<1>3. t \in Seq(U) /\ Len(t) = 1 + Len(s) /\ Len(s) \in Nat
  BY <1>2 DEF Cons
<1>4. DOMAIN t = 1 .. Len(s) + 1 /\ DOMAIN s = 1 .. Len(s)
  BY <1>2, <1>3
<1>5. t[1] = x /\ \A i \in 1 .. Len(s) : t[i + 1] = s[i]
  BY <1>2 DEF Cons
<1>6. Fits(t)
  OBVIOUS
<1> HIDE DEF t
<1>7. x.op = "mvout" => x.src + x.rows <= SpadRows
  <2>1. 1 \in DOMAIN t
    BY <1>3, <1>4
  <2> QED BY <2>1, <1>5, <1>6 DEF Fits, SpadRows
<1>8. Fits(s)
  <2> SUFFICES ASSUME NEW i \in DOMAIN s, s[i].op = "mvout"
               PROVE  s[i].src + s[i].rows <= Scratchpad[1] * Scratchpad[2] /\ s[i].cols % Dim = 0
    BY DEF Fits
  <2>1. i + 1 \in DOMAIN t /\ t[i + 1] = s[i]
    BY <1>3, <1>4, <1>5
  <2> QED BY <2>1, <1>6 DEF Fits
<1> QED
  BY <1>7, <1>8

\* A buffer written, and the others.
LEMMA Written ==
  ASSUME NEW b, NEW v, mem' = Put(mem, b, v)
  PROVE  Buffer(b)' = v /\ \A d : d # b => Buffer(d)' = Buffer(d)
  BY DEF Put, Buffer, At

\* The names of buffers are apart.
LEMMA NamesApart ==
  ASSUME NEW c, Sound(c), NEW i \in 1 .. c.n
  PROVE  /\ OutBuf(c, i) # XBuf /\ ScaleBuf(c, i) # XBuf
         /\ \A j : OutBuf(c, i) # WBuf(j) /\ ScaleBuf(c, i) # WBuf(j)
         /\ \A j \in 1 .. c.n : OutBuf(c, i) # ScaleBuf(c, j)
         /\ \A j \in 1 .. c.n : j # i => OutBuf(c, i) # OutBuf(c, j) /\ ScaleBuf(c, i) # ScaleBuf(c, j)
         /\ OutBuf(c, c.n) = YBuf
         /\ i < c.n => OutBuf(c, i) = <<TName(i), "out">> /\ ScaleBuf(c, i) = <<TName(i), "scales">>
         /\ i < c.n => OutBuf(c, i) # YBuf /\ ScaleBuf(c, i) # YBuf
<1>1. c.n \in Nat \ {0} /\ \A j \in 1 .. c.n : c.plans[j].out = IF j = c.n THEN YName ELSE TName(j)
  BY DEF Sound, SoundPlan
<1>2. \A j : YName # TName(j)
  BY DEF YName, TName
<1>3. \A j, k : j # k => TName(j) # TName(k)
  BY DEF TName
<1>4. \A j \in 1 .. c.n : j # i => c.plans[i].out # c.plans[j].out
  BY <1>1, <1>2, <1>3
<1>5. \A x, y, s, t : <<x, s>> = <<y, t>> => x = y /\ s = t
  OBVIOUS
<1>6. /\ OutBuf(c, i) # XBuf /\ ScaleBuf(c, i) # XBuf
      /\ \A j : OutBuf(c, i) # WBuf(j) /\ ScaleBuf(c, i) # WBuf(j)
      /\ \A j \in 1 .. c.n : OutBuf(c, i) # ScaleBuf(c, j)
  <2>1. "out" # "a" /\ "scales" # "a" /\ "out" # "b" /\ "scales" # "b" /\ "out" # "scales"
    OBVIOUS
  <2> QED BY <2>1, <1>5 DEF OutBuf, ScaleBuf, XBuf, WBuf
<1>7. \A j \in 1 .. c.n : j # i => OutBuf(c, i) # OutBuf(c, j) /\ ScaleBuf(c, i) # ScaleBuf(c, j)
  BY <1>4, <1>5 DEF OutBuf, ScaleBuf
<1>8. OutBuf(c, c.n) = YBuf
  BY <1>1 DEF OutBuf, YBuf
<1>9. i < c.n => OutBuf(c, i) = <<TName(i), "out">> /\ ScaleBuf(c, i) = <<TName(i), "scales">>
  BY <1>1 DEF OutBuf, ScaleBuf
<1>10. i < c.n => OutBuf(c, i) # YBuf /\ ScaleBuf(c, i) # YBuf
  BY <1>2, <1>5, <1>9 DEF YBuf
<1> QED
  BY <1>6, <1>7, <1>8, <1>9, <1>10

\* A result written to DRAM is not an operand.
LEMMA OperandsWritten ==
  ASSUME NEW c, Sound(c), Operands(c), NEW i \in 1 .. c.n, NEW v,
         mem' = Put(mem, OutBuf(c, i), v) \/ mem' = Put(mem, ScaleBuf(c, i), v)
  PROVE  Operands(c)'
<1>1. /\ Buffer(XBuf)' = Buffer(XBuf)
      /\ \A j : Buffer(WBuf(j))' = Buffer(WBuf(j))
  BY NamesApart, Written
<1> QED
  BY <1>1 DEF Operands

\* What a step does to the facts that always hold.
LEMMA SteadyKept ==
  ASSUME NEW c, Steady(c), UNCHANGED <<want, unit>>, Operands(c)',
         DOMAIN scale' = {1, 2}, FORMATS[c.f].lut \/ lut' = <<>>,
         \/ prog' = prog
         \/ \E x : Listed(prog') /\ prog = Cons(x, prog')
  PROVE  Steady(c)'
<1>1. Fits(prog')
  <2>1. CASE prog' = prog
    BY <2>1 DEF Steady
  <2>2. ASSUME NEW x, Listed(prog'), prog = Cons(x, prog') PROVE Fits(prog')
    <3> DEFINE s == prog'
    <3>1. Listed(s) /\ Fits(Cons(x, s))
      BY <2>2 DEF Steady
    <3> HIDE DEF s
    <3>2. Fits(s)
      BY <3>1, FitsCons
    <3> QED BY <3>2 DEF s
  <2> QED BY <2>1, <2>2
<1>2. Fits(prog)'
  BY <1>1 DEF Fits
<1> QED
  BY <1>2 DEF Steady

\* A step that leaves DRAM leaves the operands.
LEMMA OperandsSame ==
  ASSUME NEW c, Operands(c), mem' = mem
  PROVE  Operands(c)'
  BY DEF Operands, Buffer

\* A step that runs one instruction and leaves memory and windows.
LEMMA SteadyStep ==
  ASSUME NEW c, Steady(c), NEW x, NEW s, Listed(s), prog = Cons(x, s), prog' = s,
         UNCHANGED <<want, unit>>, UNCHANGED <<mem, scale, lut>>
  PROVE  Steady(c)'
<1>1. Operands(c)'
  BY OperandsSame DEF Steady
<1>2. DOMAIN scale' = {1, 2} /\ (FORMATS[c.f].lut \/ lut' = <<>>)
  BY DEF Steady
<1> QED
  BY <1>1, <1>2, SteadyKept

\* A step that leaves the scratchpad and DRAM leaves the intermediates.
LEMMA KeptSame ==
  ASSUME NEW c, NEW i, Kept(c, i), UNCHANGED <<mem, spad>>
  PROVE  Kept(c, i)'
  BY DEF Kept, Codes, Buffer

\* And with the scale window, the stage where it was.
LEMMA StageSame ==
  ASSUME NEW c, NEW i, InStage(c, i), UNCHANGED <<mem, spad, stores, outs>>,
         i = 1 \/ scale'[1] = scale[1]
  PROVE  InStage(c, i)'
<1>1. Kept(c, i - 1)'
  BY KeptSame DEF InStage
<1>2. Resident(c, i - 1)'
  BY DEF InStage, Resident, ResultOf
<1> QED
  BY <1>1, <1>2 DEF InStage

\* With nothing in flight, only the next instruction runs.
LEMMA OnlyNext ==
  ASSUME NEW x, NEW s, Listed(s), prog = Cons(x, s), Next, loads = {}, stores = {}
  PROVE  /\ prog' = s /\ UNCHANGED <<want, unit>> /\ Head(prog) = x
         /\ x.op = "config_ex" => ConfigEx
         /\ x.op = "load_luts" => LoadLuts
         /\ x.op = "load_scales" => IssueLoad
         /\ x.op = "fence" => DoFence
         /\ x.op = "mvin" => Mvin
         /\ x.op = "loop_ws" => LoopWs
         /\ x.op = "mvout" => Mvout
         /\ x.op = "report" => Report
<1>1. ~LandLoad /\ ~LandStore
  BY DEF LandLoad, LandStore
<1>2. Head(prog) = x
  BY ConsFacts
<1> QED
  BY <1>1, <1>2, StepOf

-----------------------------------------------------------------------------
(***************************************************************************)
(* The loads of a stage: from its configuration to the fence behind them.  *)
(***************************************************************************)
\* Before the books and the loads of a stage: the three ways to go on.
LEMMA OnToLoads ==
  ASSUME NEW c, Sound(c), NEW i \in 1 .. c.n, Selected(c, i)', loads' = {}, prog' = P2(c, i)
  PROVE  L2(c, i)' \/ L3(c, i)'
<1>1. CASE i = 1
  BY <1>1 DEF L2
<1>2. CASE i # 1
  BY <1>2 DEF P2, L3
<1> QED
  BY <1>1, <1>2

\* The formats are set: on to the books, or the scales.
LEMMA StepL0 ==
  ASSUME NEW c, Sound(c), Steady(c), NEW i, L0(c, i), Next
  PROVE  Steady(c)' /\ (L1(c, i)' \/ L2(c, i)' \/ L3(c, i)')
<1>1. i \in 1 .. c.n /\ prog = Cons(Config(c, i), P1(c, i)) /\ loads = {} /\ stores = {} /\ InStage(c, i)
  BY DEF L0, InStage, P0
<1>2. Listed(P1(c, i))
  BY <1>1, AllListed
<1>3. Config(c, i).op = "config_ex"
  BY DEF Config, config_ex
<1>4. prog' = P1(c, i) /\ UNCHANGED <<want, unit>> /\ Head(prog) = Config(c, i) /\ ConfigEx
  BY <1>1, <1>2, <1>3, OnlyNext
<1>5. cfg' = Config(c, i) /\ UNCHANGED <<mem, spad, scale, lut, loads, stores, outs>>
  BY <1>4 DEF ConfigEx
<1>6. Steady(c)'
  BY <1>1, <1>2, <1>4, <1>5, SteadyStep
<1>7. InStage(c, i)'
  BY <1>1, <1>5, StageSame
<1>8. Configured(c, i)'
  BY <1>5, <1>7 DEF Configured, Config
<1>9. CASE FORMATS[c.f].lut
  BY <1>1, <1>4, <1>5, <1>6, <1>8, <1>9 DEF L1
<1>10. CASE ~FORMATS[c.f].lut
  <2>1. Selected(c, i)'
    BY <1>5, <1>8, <1>10 DEF Selected, Steady
  <2>2. prog' = P2(c, i) /\ loads' = {}
    BY <1>1, <1>4, <1>5, <1>10 DEF P1
  <2> QED BY <1>1, <1>6, <2>1, <2>2, OnToLoads
<1> QED
  BY <1>9, <1>10

\* The books are loaded.
LEMMA StepL1 ==
  ASSUME NEW c, Sound(c), Steady(c), NEW i, L1(c, i), Next
  PROVE  Steady(c)' /\ (L2(c, i)' \/ L3(c, i)')
<1>1. /\ i \in 1 .. c.n /\ prog = Cons(LoadBooks(c, i), P2(c, i)) /\ loads = {} /\ stores = {}
      /\ InStage(c, i) /\ cfg = Config(c, i) /\ FORMATS[c.f].lut
  BY DEF L1, Configured, InStage, P1
<1>2. Listed(P2(c, i))
  BY <1>1, AllListed
<1>3. LoadBooks(c, i).op = "load_luts" /\ LoadBooks(c, i).books = BooksOf(c, i)
  BY DEF LoadBooks
<1>4. prog' = P2(c, i) /\ UNCHANGED <<want, unit>> /\ Head(prog) = LoadBooks(c, i) /\ LoadLuts
  BY <1>1, <1>2, <1>3, OnlyNext
<1>5. BooksFit(Head(prog), unit)
  BY <1>1, <1>4 DEF Sound, SoundBooks, Steady
<1>6. lut' = BooksOf(c, i) /\ UNCHANGED <<mem, spad, scale, cfg, loads, stores, outs>>
  BY <1>3, <1>4, <1>5 DEF LoadLuts
<1>7. Steady(c)'
  <2>1. Operands(c)' /\ DOMAIN scale' = {1, 2}
    BY <1>6, OperandsSame DEF Steady
  <2> QED BY <1>1, <1>2, <1>4, <1>6, <2>1, SteadyKept
<1>8. InStage(c, i)'
  BY <1>1, <1>6, StageSame
<1>9. Selected(c, i)'
  BY <1>1, <1>6, <1>8 DEF Selected, Configured
<1> QED
  BY <1>1, <1>4, <1>6, <1>7, <1>9, OnToLoads

\* A step that leaves formats and books leaves them set.
LEMMA SelectedSame ==
  ASSUME NEW c, NEW i, Selected(c, i), UNCHANGED <<mem, spad, stores, outs, cfg, lut>>,
         i = 1 \/ scale'[1] = scale[1]
  PROVE  Selected(c, i)'
<1>1. InStage(c, i)'
  BY StageSame DEF Selected, Configured
<1> QED
  BY <1>1 DEF Selected, Configured

\* The load of the input's scales is issued.
LEMMA StepL2 ==
  ASSUME NEW c, Sound(c), Steady(c), NEW i, L2(c, i), Next
  PROVE  Steady(c)' /\ L3(c, i)'
<1>1. /\ i \in 1 .. c.n /\ i = 1 /\ prog = Cons(LoadX, P3(c, i)) /\ loads = {} /\ stores = {}
      /\ Selected(c, i)
  BY DEF L2, Selected, Configured, InStage, P2
<1>2. Listed(P3(c, i))
  BY <1>1, AllListed
<1>3. LoadX.op = "load_scales" /\ LoadX.sel = 0 /\ LoadX.buf = XBuf
  BY DEF LoadX, load_scales
<1>4. prog' = P3(c, i) /\ UNCHANGED <<want, unit>> /\ Head(prog) = LoadX /\ IssueLoad
  BY <1>1, <1>2, <1>3, OnlyNext
<1>5. loads' = {<<0, XBuf>>} /\ UNCHANGED <<mem, spad, scale, lut, cfg, stores, outs>>
  BY <1>1, <1>3, <1>4 DEF IssueLoad
<1>6. Steady(c)'
  BY <1>1, <1>2, <1>4, <1>5, SteadyStep
<1>7. Selected(c, i)'
  BY <1>1, <1>5, SelectedSame
<1>8. Coming(0, XBuf)'
  BY <1>5 DEF Coming
<1> QED
  BY <1>1, <1>4, <1>5, <1>6, <1>7, <1>8 DEF L3

\* What landing a load does.
LEMMA Landing ==
  ASSUME NEW c, Steady(c), LandLoad
  PROVE  /\ Steady(c)'
         /\ UNCHANGED <<prog, mem, spad, lut, cfg, stores, outs>>
         /\ \E l \in loads : /\ loads' = loads \ {l}
                             /\ scale' = [scale EXCEPT ![l[1] + 1] = Buffer(l[2])]
<1>1. PICK l \in loads : /\ scale' = [scale EXCEPT ![l[1] + 1] = Buffer(l[2])]
                         /\ loads' = loads \ {l}
                         /\ UNCHANGED <<prog, want, unit, mem, spad, lut, cfg, stores, outs>>
  BY DEF LandLoad
<1>2. DOMAIN scale' = {1, 2}
  BY <1>1 DEF Steady
<1>3. Operands(c)' /\ (FORMATS[c.f].lut \/ lut' = <<>>)
  BY <1>1, OperandsSame DEF Steady
<1>4. Steady(c)'
  BY <1>1, <1>2, <1>3, SteadyKept
<1> QED
  BY <1>1, <1>4

\* The load of the input's scales lands, or the weight's is issued.
LEMMA StepL3 ==
  ASSUME NEW c, Sound(c), Steady(c), NEW i, L3(c, i), Next
  PROVE  Steady(c)' /\ (L3(c, i)' \/ L4(c, i)')
<1>1. /\ i \in 1 .. c.n /\ prog = Cons(LoadW(i), P4(c, i)) /\ stores = {} /\ Selected(c, i)
      /\ IF i = 1 THEN loads \subseteq {<<0, XBuf>>} /\ Coming(0, XBuf) ELSE loads = {}
  BY DEF L3, Selected, Configured, InStage, P3
<1>2. Listed(P4(c, i))
  BY <1>1, AllListed
<1>3. LoadW(i).op = "load_scales" /\ LoadW(i).sel = 1 /\ LoadW(i).buf = WBuf(i)
  BY DEF LoadW, load_scales
<1>4. \/ LandLoad
      \/ prog' = P4(c, i) /\ UNCHANGED <<want, unit>> /\ IssueLoad
  <2>1. ~LandStore
    BY <1>1 DEF LandStore
  <2> QED BY <1>1, <1>2, <1>3, <2>1, StepOf
<1>5. CASE LandLoad
  <2>1. /\ Steady(c)' /\ UNCHANGED <<prog, mem, spad, lut, cfg, stores, outs>>
        /\ loads = {<<0, XBuf>>} /\ i = 1 /\ loads' = {}
        /\ scale' = [scale EXCEPT ![0 + 1] = Buffer(XBuf)]
    BY <1>1, <1>5, Landing
  <2>2. Selected(c, i)'
    BY <1>1, <2>1, SelectedSame
  <2>3. Coming(0, XBuf)'
    BY <2>1 DEF Coming, Steady, Buffer
  <2> QED BY <1>1, <2>1, <2>2, <2>3 DEF L3, P3
<1>6. CASE prog' = P4(c, i) /\ UNCHANGED <<want, unit>> /\ IssueLoad
  <2>1. loads' = loads \cup {<<1, WBuf(i)>>} /\ UNCHANGED <<mem, spad, scale, lut, cfg, stores, outs>>
    <3>1. Head(prog) = LoadW(i)
      BY <1>1, <1>2, ConsFacts
    <3> QED BY <1>3, <1>6, <3>1 DEF IssueLoad
  <2>2. Steady(c)'
    BY <1>1, <1>2, <1>6, <2>1, SteadyStep
  <2>3. Selected(c, i)'
    BY <1>1, <2>1, SelectedSame
  <2>4. Coming(1, WBuf(i))' /\ (i = 1 => Coming(0, XBuf)')
    BY <1>1, <2>1 DEF Coming, Buffer
  <2>5. IF i = 1 THEN loads' \subseteq {<<0, XBuf>>, <<1, WBuf(i)>>} ELSE loads' \subseteq {<<1, WBuf(i)>>}
    BY <1>1, <2>1
  <2> QED BY <1>6, <2>2, <2>3, <2>4, <2>5 DEF L4
<1> QED
  BY <1>4, <1>5, <1>6

\* A load lands, or the fence behind both is passed.
LEMMA StepL4 ==
  ASSUME NEW c, Sound(c), Steady(c), NEW i, L4(c, i), Next
  PROVE  Steady(c)' /\ (L4(c, i)' \/ L5(c, i)' \/ L6(c, i)')
<1>1. /\ i \in 1 .. c.n /\ prog = Cons(Fence, P5(c, i)) /\ stores = {} /\ Selected(c, i)
      /\ Coming(1, WBuf(i))
      /\ IF i = 1 THEN loads \subseteq {<<0, XBuf>>, <<1, WBuf(i)>>} /\ Coming(0, XBuf)
         ELSE loads \subseteq {<<1, WBuf(i)>>}
  BY DEF L4, Selected, Configured, InStage, P4
<1>2. Listed(P5(c, i))
  BY <1>1, AllListed
<1>3. Fence.op = "fence"
  BY DEF Fence
<1>4. \/ LandLoad
      \/ prog' = P5(c, i) /\ UNCHANGED <<want, unit>> /\ DoFence
  <2>1. ~LandStore
    BY <1>1 DEF LandStore
  <2> QED BY <1>1, <1>2, <1>3, <2>1, StepOf
<1>5. CASE LandLoad
  <2>1. /\ Steady(c)' /\ UNCHANGED <<prog, mem, spad, lut, cfg, stores, outs>>
        /\ \E l \in loads : /\ loads' = loads \ {l}
                            /\ scale' = [scale EXCEPT ![l[1] + 1] = Buffer(l[2])]
    BY <1>5, Landing
  <2>2. PICK l \in loads : loads' = loads \ {l} /\ scale' = [scale EXCEPT ![l[1] + 1] = Buffer(l[2])]
    BY <2>1
  <2>3. DOMAIN scale = {1, 2} /\ \A b : Buffer(b)' = Buffer(b)
    BY <2>1 DEF Steady, Buffer
  <2>4. CASE l = <<1, WBuf(i)>>
    <3>1. scale' = [scale EXCEPT ![2] = Buffer(WBuf(i))]
      BY <2>2, <2>4
    <3>2. scale'[2] = Buffer(WBuf(i)) /\ scale'[1] = scale[1]
      BY <2>3, <3>1
    <3>3. Selected(c, i)'
      BY <1>1, <2>1, <3>2, SelectedSame
    <3>4. Coming(1, WBuf(i))' /\ (i = 1 => Coming(0, XBuf)')
      BY <1>1, <2>2, <2>3, <2>4, <3>2 DEF Coming
    <3>5. prog' = P4(c, i) /\ loads' \subseteq loads
      BY <1>1, <2>1, <2>2 DEF P4
    <3> QED BY <1>1, <2>1, <3>3, <3>4, <3>5 DEF L4
  <2>5. CASE l # <<1, WBuf(i)>>
    <3>1. i = 1 /\ l = <<0, XBuf>>
      BY <1>1, <2>2, <2>5
    <3>2. scale' = [scale EXCEPT ![1] = Buffer(XBuf)]
      BY <2>2, <3>1
    <3>3. scale'[1] = Buffer(XBuf) /\ scale'[2] = scale[2]
      BY <2>3, <3>2
    <3>4. Selected(c, i)'
      BY <1>1, <2>1, <3>1, SelectedSame
    <3>5. Coming(1, WBuf(i))' /\ Coming(0, XBuf)'
      BY <1>1, <2>2, <2>3, <3>1, <3>3 DEF Coming
    <3>6. prog' = P4(c, i) /\ loads' \subseteq loads
      BY <1>1, <2>1, <2>2 DEF P4
    <3> QED BY <1>1, <2>1, <3>4, <3>5, <3>6 DEF L4
  <2> QED BY <2>4, <2>5
<1>6. CASE prog' = P5(c, i) /\ UNCHANGED <<want, unit>> /\ DoFence
  <2>1. loads = {} /\ UNCHANGED <<mem, spad, scale, lut, cfg, loads, stores, outs>>
    BY <1>6 DEF DoFence
  <2>2. Steady(c)'
    BY <1>1, <1>2, <1>6, <2>1, SteadyStep
  <2>3. Selected(c, i)'
    BY <1>1, <2>1, SelectedSame
  <2>4. Windows(c, i)'
    BY <1>1, <2>1 DEF Windows, Coming, Buffer
  <2>5. CASE i = 1
    BY <1>6, <2>2, <2>3, <2>4, <2>5 DEF L5
  <2>6. CASE i # 1
    BY <1>6, <2>2, <2>3, <2>4, <2>6 DEF L6, P5
  <2> QED BY <2>5, <2>6
<1> QED
  BY <1>4, <1>5, <1>6

-----------------------------------------------------------------------------
(***************************************************************************)
(* The operands of a stage moved into the scratchpad.                      *)
(***************************************************************************)
\* An area written beyond the intermediates leaves them.
LEMMA KeptBelow ==
  ASSUME NEW c, Sound(c), NEW k \in Nat, k <= c.n, NEW lo \in Int, NEW hi \in Int,
         SameOutside(spad, spad', lo, hi),
         \A j \in 1 .. k : j < c.n => c.plans[j].spad_dest + smem_rows(c.plans[j]) <= lo,
         \A j \in 1 .. k : j < c.n => Codes(c, j)
  PROVE  \A j \in 1 .. k : j < c.n => Codes(c, j)'
<1> SUFFICES ASSUME NEW j \in 1 .. k, j < c.n PROVE Codes(c, j)'
  OBVIOUS
<1> DEFINE p == c.plans[j]
           X == p.n \div 16
<1>1. j \in 1 .. c.n
  BY DEF Sound
<1>2. /\ tiles_i(p) \in Nat /\ X \in Nat /\ smem_rows(p) \in Nat
      /\ tiles_i(p) * X * 16 <= smem_rows(p)
  BY <1>1, Geometry
<1>3. p.spad_dest \in Nat /\ p.spad_dest + smem_rows(p) <= lo
  BY <1>1 DEF Sound, SoundPlan
<1>4. TilesA(spad, p.spad_dest, tiles_i(p), X, Requant(c.val[j]), c.f, c.bundles[j].c_lut)
  BY DEF Codes
<1>5. tiles_i(p) * X \in Nat
  BY <1>2
<1>6. p.spad_dest + tiles_i(p) * X * 16 <= lo
  BY <1>2, <1>3, <1>5
<1> HIDE DEF p, X
<1>7. TilesA(spad', p.spad_dest, tiles_i(p), X, Requant(c.val[j]), c.f, c.bundles[j].c_lut)
  BY <1>2, <1>3, <1>4, <1>6, TilesKept
<1> QED
  BY <1>7 DEF Codes, p, X

\* The input is moved in.
LEMMA StepL5 ==
  ASSUME NEW c, Sound(c), Steady(c), NEW i, L5(c, i), Next
  PROVE  Steady(c)' /\ L6(c, i)'
<1> DEFINE p == c.plans[1]
<1>1. /\ i \in 1 .. c.n /\ i = 1 /\ prog = Cons(MoveX(c), P6(c, i)) /\ loads = {} /\ stores = {}
      /\ Selected(c, i) /\ Windows(c, i)
  BY DEF L5, Selected, Configured, InStage, P5, Windows
<1>2. Listed(P6(c, i))
  BY <1>1, AllListed
<1>3. /\ MoveX(c).op = "mvin" /\ MoveX(c).buf = XBuf /\ MoveX(c).lay = "a"
      /\ MoveX(c).moves = Moves(0, tiles_i(p), tiles_k(p), p.k, p.k, 16, 0)
  BY DEF MoveX, mvin_A
<1>4. prog' = P6(c, i) /\ UNCHANGED <<want, unit>> /\ Head(prog) = MoveX(c) /\ Mvin
  BY <1>1, <1>2, <1>3, OnlyNext
<1> DEFINE v == Buffer(XBuf)
           moves == Moves(0, tiles_i(p), tiles_k(p), p.k, p.k, 16, 0)
<1>5. /\ spad' = Over(MovedRows(moves, "a", v), spad)
      /\ UNCHANGED <<mem, scale, lut, cfg, loads, stores, outs>>
  BY <1>3, <1>4 DEF Mvin
<1>6. tiles_i(p) \in Nat /\ tiles_k(p) \in Nat /\ p.k = tiles_k(p) * 16
  BY <1>1, Geometry
<1>7. \A x \in 0 .. tiles_i(p) - 1, j \in 0 .. tiles_k(p) - 1 :
        At(spad', 0 + (x * tiles_k(p) + j) * 16, Empty) = Slot(v.t, v.f, v.bk, "a", x * 16, j * 16, 0)
  <2> DEFINE rows == tiles_i(p)
             cols == tiles_k(p)
             width == p.k
             s1 == spad
             s2 == spad'
             y == v
  <2>1. rows \in Nat /\ cols \in Nat /\ width \in Nat /\ cols * 16 <= width /\ 0 \in Int
    BY <1>6
  <2>2. s2 = Over(MovedRows(Moves(0, rows, cols, width, width, 16, 0), "a", y), s1)
    BY <1>5
  <2> HIDE DEF rows, cols, width, y, s1, s2
  <2>3. \A x \in 0 .. rows - 1, j \in 0 .. cols - 1 :
          At(s2, 0 + (x * cols + j) * 16, Empty) = Slot(y.t, y.f, y.bk, "a", x * 16, j * 16, 0)
    BY ONLY <2>1, <2>2, AllMoved
  <2> QED BY <2>3 DEF rows, cols, y, s2
<1>8. v.t = QA(c.bundles[1].a) /\ v.f = c.f /\ v.bk = c.bundles[1].a_lut
  BY DEF Steady, Operands, Value
<1> HIDE DEF v
<1>9. HasX(c)'
  BY <1>7, <1>8 DEF HasX, TilesA
<1>10. Steady(c)'
  BY <1>1, <1>2, <1>4, <1>5, SteadyStep
<1>11. Selected(c, i)'
  BY <1>1, <1>5 DEF Selected, Configured, InStage, Kept, Resident, ResultOf
<1>12. Windows(c, i)'
  BY <1>1, <1>5 DEF Windows, Buffer
<1> QED
  BY <1>4, <1>9, <1>10, <1>11, <1>12 DEF L6

\* The weight is moved in, over nothing still to be read.
LEMMA StepL6 ==
  ASSUME NEW c, Sound(c), Steady(c), NEW i, L6(c, i), Next
  PROVE  Steady(c)' /\ L7(c, i)'
<1> DEFINE p == c.plans[i]
           lo == b_base(p)
           rows == tiles_k(p)
           cols == tiles_j(p)
           width == p.n \div packed_per_byte(c.f)
           v == Buffer(WBuf(i))
<1>1. /\ i \in 1 .. c.n /\ prog = Cons(MoveW(c, i), P7(c, i)) /\ loads = {} /\ stores = {}
      /\ Selected(c, i) /\ Windows(c, i) /\ (i = 1 => HasX(c))
  BY DEF L6, Selected, Configured, InStage, P6, Windows
<1>2. Listed(P7(c, i))
  BY <1>1, AllListed
<1>3. /\ MoveW(c, i).op = "mvin" /\ MoveW(c, i).buf = WBuf(i) /\ MoveW(c, i).lay = "b"
      /\ MoveW(c, i).moves = Moves(lo, rows, cols, width, width, 16, 0)
  BY DEF MoveW, mvin_B
<1>4. prog' = P7(c, i) /\ UNCHANGED <<want, unit>> /\ Head(prog) = MoveW(c, i) /\ Mvin
  BY <1>1, <1>2, <1>3, OnlyNext
<1>5. /\ spad' = Over(MovedRows(Moves(lo, rows, cols, width, width, 16, 0), "b", v), spad)
      /\ UNCHANGED <<mem, scale, lut, cfg, loads, stores, outs>>
  BY <1>3, <1>4 DEF Mvin
<1>6. rows \in Nat /\ cols \in Nat /\ width \in Nat /\ lo \in Nat /\ 0 + cols * 16 <= width
  BY <1>1, Geometry
<1>7. v.t = QB(c.bundles[i].b) /\ v.f = c.f /\ v.bk = c.bundles[i].b_lut
  BY <1>1 DEF Steady, Operands, Value
<1> HIDE DEF rows, cols, width, v, lo
<1>8. /\ \A x \in 0 .. rows - 1, j \in 0 .. cols - 1 :
           At(spad', lo + (x * cols + j) * 16, Empty) = Slot(v.t, v.f, v.bk, "b", x * 16, j * 16, 0)
      /\ \A a \in Int : a < lo \/ a >= lo + rows * cols * 16 => At(spad', a, Empty) = At(spad, a, Empty)
  <2> DEFINE s1 == spad
             s2 == spad'
  <2>1. lo \in Int /\ cols * 16 <= width
    BY <1>6
  <2>2. s2 = Over(MovedRows(Moves(lo, rows, cols, width, width, 16, 0), "b", v), s1)
    BY <1>5
  <2> HIDE DEF s1, s2
  <2>3. \A x \in 0 .. rows - 1, j \in 0 .. cols - 1 :
          At(s2, lo + (x * cols + j) * 16, Empty) = Slot(v.t, v.f, v.bk, "b", x * 16, j * 16, 0)
    BY ONLY <1>6, <2>1, <2>2, AllMoved
  <2>4. \A a \in Int : a < lo \/ a >= lo + rows * cols * 16 => At(s2, a, Empty) = At(s1, a, Empty)
    BY ONLY <1>6, <2>1, <2>2, AllMoved
  <2> QED BY <2>3, <2>4 DEF s1, s2
<1>9. HasW(c, i)'
  <2>1. \A j \in 0 .. cols - 1 : 0 + j * 16 = j * 16
    BY <1>6
  <2> QED BY <1>7, <1>8, <2>1 DEF HasW, TilesB, lo, rows, cols
<1> DEFINE hi == lo + rows * cols * 16
<1>10. SameOutside(spad, spad', lo, hi) /\ hi \in Int
  BY <1>6, <1>8 DEF SameOutside
<1> HIDE DEF hi
<1>11. i = 1 => HasX(c)'
  <2> SUFFICES ASSUME i = 1 PROVE HasX(c)'
    OBVIOUS
  <2>1. tiles_i(p) \in Nat /\ tiles_k(p) \in Nat /\ 0 + tiles_i(p) * tiles_k(p) * 16 <= lo
    <3>1. tiles_i(p) \in Nat /\ tiles_k(p) \in Nat
      BY <1>1, Geometry
    <3>2. tiles_i(p) * tiles_k(p) * 16 < b_base(p)
      BY <1>1 DEF Sound, SoundPlan
    <3>3. tiles_i(p) * tiles_k(p) \in Nat
      BY <3>1
    <3> QED BY <3>1, <3>2, <3>3, <1>6 DEF lo
  <2>2. TilesA(spad, 0, tiles_i(p), tiles_k(p), QA(c.bundles[1].a), c.f, c.bundles[1].a_lut)
    BY <1>1 DEF HasX
  <2> HIDE DEF p
  <2>3. TilesA(spad', 0, tiles_i(p), tiles_k(p), QA(c.bundles[1].a), c.f, c.bundles[1].a_lut)
    BY <1>6, <1>10, <2>1, <2>2, TilesKept
  <2> QED BY <2>3 DEF HasX, p
<1>12. Kept(c, i - 1)'
  <2>1. i - 1 \in Nat /\ i - 1 <= c.n
    BY <1>1 DEF Sound
  <2>2. \A j \in 1 .. i - 1 : j < c.n => c.plans[j].spad_dest + smem_rows(c.plans[j]) <= lo
    <3>1. \A j \in 1 .. i - 1 : j \in 1 .. c.n
      BY <1>1 DEF Sound
    <3> QED BY <1>1, <3>1 DEF Sound, SoundSeams, lo
  <2>3. \A j \in 1 .. i - 1 : j < c.n => Codes(c, j) /\ Buffer(ScaleBuf(c, j)) = ResultOf(c, j)
    BY <1>1 DEF Selected, Configured, InStage, Kept
  <2>4. \A j \in 1 .. i - 1 : j < c.n => Codes(c, j)'
    BY <1>6, <1>10, <2>1, <2>2, <2>3, KeptBelow
  <2>5. \A b : Buffer(b)' = Buffer(b)
    BY <1>5 DEF Buffer
  <2> QED BY <2>3, <2>4, <2>5 DEF Kept, ResultOf, ScaleBuf
<1>13. Steady(c)'
  BY <1>1, <1>2, <1>4, <1>5, SteadyStep
<1>14. Selected(c, i)'
  BY <1>1, <1>5, <1>12 DEF Selected, Configured, InStage, Resident, ResultOf
<1>15. Windows(c, i)'
  BY <1>1, <1>5 DEF Windows, Buffer
<1> QED
  BY <1>4, <1>9, <1>11, <1>13, <1>14, <1>15 DEF L7

-----------------------------------------------------------------------------
(***************************************************************************)
(* The product of a stage.                                                 *)
(***************************************************************************)
\* What stage i multiplies.
LEMMA Multiplied ==
  ASSUME NEW c, Sound(c), Steady(c), NEW i, L7(c, i)
  PROVE  LET p == c.plans[i]
             x == MeshOf(c, i)
             base == x.b_end - x.K * x.J * Dim
         IN  /\ Decoded(cfg.code, cfg.altfmt, lut # <<>>) = c.f
             /\ Product(x, c.f, Row(x.a), base, Row(base)) =
                  [t |-> c.val[i], lo |-> 0, m |-> p.m, n |-> p.n]
<1> DEFINE p == c.plans[i]
           x == MeshOf(c, i)
           f == c.f
           base == b_base(p)
           ta == InTerm(c, i)
           tb == QB(c.bundles[i].b)
           ba == c.bundles[i].a_lut
           bb == c.bundles[i].b_lut
<1>1. /\ i \in 1 .. c.n /\ f \in DOMAIN FORMATS /\ Selected(c, i) /\ Windows(c, i) /\ (i = 1 => HasX(c))
      /\ HasW(c, i) /\ c.n \in Nat
  BY DEF L7, Selected, Configured, InStage, Sound
<1>2. /\ x.I = tiles_i(p) /\ x.J = tiles_j(p) /\ x.K = tiles_k(p)
      /\ x.a = p.a_spad /\ x.b_end = SpadRows
  BY DEF MeshOf, loop_ws
<1>3. /\ tiles_i(p) \in Nat \ {0} /\ tiles_j(p) \in Nat \ {0} /\ tiles_k(p) \in Nat \ {0}
      /\ p.m = tiles_i(p) * FORMATS[f].tile /\ p.n = tiles_j(p) * FORMATS[f].tile
      /\ base = SpadRows - tiles_k(p) * tiles_j(p) * 16 /\ base \in Nat
  BY <1>1, Geometry
<1>4. cfg.code = FORMATS[f].fmt_code /\ cfg.altfmt = FORMATS[f].altfmt
  BY <1>1 DEF Selected, Configured, Config, config_ex, Sound, SoundPlan
<1>5. (lut # <<>>) = FORMATS[f].lut
  <2>1. FORMATS[f].lut \in BOOLEAN
    BY <1>1, FormatFacts
  <2>2. BooksOf(c, i) # <<>>
    BY DEF BooksOf
  <2> QED BY <1>1, <2>1, <2>2 DEF Selected
<1>6. Decoded(cfg.code, cfg.altfmt, lut # <<>>) = f
  <2>1. Decoded(FORMATS[f].fmt_code, FORMATS[f].altfmt, FORMATS[f].lut) = f
    BY <1>1, FormatFacts
  <2> QED BY <1>4, <1>5, <2>1
<1>7. IF lut = <<>> THEN ba = <<>> /\ bb = <<>> ELSE ba = lut[2] /\ bb = lut[1]
  <2>1. CASE FORMATS[f].lut
    BY <1>1, <1>5, <2>1 DEF Selected, BooksOf
  <2>2. CASE ~FORMATS[f].lut
    BY <1>1, <1>5, <2>2 DEF Sound, SoundBooks, BooksOf
  <2> QED BY <2>1, <2>2
<1>8. /\ p.a_spad \in Int
      /\ TilesA(spad, p.a_spad, tiles_i(p), tiles_k(p), ta, f, ba)
      /\ scale[1].t = ta /\ scale[1].lo = 0 /\ scale[1].cols = p.m
  <2>1. CASE i = 1
    <3>1. p.a_spad = 0
      BY <1>1, <2>1 DEF Sound, SoundPlan
    <3>2. TilesA(spad, 0, tiles_i(p), tiles_k(p), QA(c.bundles[1].a), c.f, c.bundles[1].a_lut)
      BY <1>1, <2>1 DEF HasX
    <3>3. scale[1] = Value(QA(c.bundles[1].a), c.f, c.bundles[1].a_lut, c.plans[1].m)
      BY <1>1, <2>1 DEF Windows, Steady, Operands
    <3> QED BY <2>1, <3>1, <3>2, <3>3 DEF InTerm, Value
  <2>2. CASE i # 1
    <3> DEFINE j == i - 1
               q == c.plans[j]
    <3>1. j \in 1 .. c.n - 1 /\ j \in 1 .. c.n /\ i \in 2 .. c.n /\ j < c.n
      BY <1>1, <2>2
    <3>2. p.a_spad = q.spad_dest /\ p.m = q.m /\ p.k = q.n
      BY <1>1, <2>2, <3>1 DEF Sound, SoundPlan, SoundSeams
    <3>3. q.spad_dest \in Nat /\ p.act_fmt = f /\ q.act_fmt = f
      BY <1>1, <3>1 DEF Sound, SoundPlan
    <3>4. tiles_i(p) = tiles_i(q) /\ tiles_k(p) = q.n \div 16
      BY <3>2, <3>3 DEF tiles_i, tiles_k, TILE_K
    <3>5. Codes(c, j) /\ scale[1] = ResultOf(c, j)
      BY <1>1, <3>1 DEF Selected, Configured, InStage, Kept, Resident
    <3>6. c.bundles[i].a_lut = c.bundles[j].c_lut
      <4>1. CASE FORMATS[f].lut
        BY <3>1, <4>1 DEF Sound, SoundBooks
      <4>2. CASE ~FORMATS[f].lut
        BY <1>1, <3>1, <4>2 DEF Sound, SoundBooks, BooksOf
      <4> QED BY <4>1, <4>2
    <3>7. ta = Requant(c.val[j])
      BY <2>2 DEF InTerm
    <3> HIDE DEF p, q, j, ta, f
    <3>8. TilesA(spad, q.spad_dest, tiles_i(q), q.n \div 16, Requant(c.val[j]), c.f, c.bundles[j].c_lut)
      BY <3>5 DEF Codes, q
    <3>9. scale[1].t = Requant(c.val[j]) /\ scale[1].lo = 0 /\ scale[1].cols = q.m
      BY <3>5 DEF ResultOf, Value, q
    <3>10. TilesA(spad, p.a_spad, tiles_i(p), tiles_k(p), ta, f, ba)
      BY <3>2, <3>4, <3>6, <3>7, <3>8 DEF f
    <3> QED BY <3>2, <3>3, <3>7, <3>9, <3>10
  <2> QED BY <2>1, <2>2
<1>9. TilesB(spad, base, tiles_k(p), tiles_j(p), tb, f, bb, 0)
  BY <1>1 DEF HasW
<1>10. scale[2].t = tb /\ scale[2].lo = 0 /\ scale[2].cols = p.n
  BY <1>1 DEF Windows, Steady, Operands, Value
<1>11. c.val[i] = MM(ta, tb)
  BY <1>1 DEF Sound, SoundWant
<1>12. x.b_end - x.K * x.J * Dim = base
  BY <1>2, <1>3 DEF Dim
<1> HIDE DEF p, x, f, base, ta, tb, ba, bb
<1>13. Product(x, f, Row(x.a), base, Row(base)) =
           [t |-> MM(ta, tb), lo |-> 0, m |-> x.I * FORMATS[f].tile, n |-> x.J * FORMATS[f].tile]
  <2>1. x.I \in Nat \ {0} /\ x.J \in Nat \ {0} /\ x.K \in Nat \ {0} /\ x.a \in Int /\ base \in Int
    BY <1>2, <1>3, <1>8
  <2>2. TilesA(spad, x.a, x.I, x.K, ta, f, ba) /\ TilesB(spad, base, x.K, x.J, tb, f, bb, 0)
    BY <1>2, <1>8, <1>9
  <2>3. scale[1].cols = x.I * FORMATS[f].tile /\ scale[2].cols = x.J * FORMATS[f].tile
    BY <1>2, <1>3, <1>8, <1>10
  <2>4. f \in DOMAIN FORMATS
    BY <1>1 DEF f
  <2>5. scale[1].t = ta /\ scale[1].lo = 0 /\ scale[2].t = tb /\ scale[2].lo = 0
    BY <1>8, <1>10
  <2>6. Multiplies(x, f, base, ta, tb, ba, bb)
    BY <1>7, <2>1, <2>2, <2>3, <2>4, <2>5 DEF Multiplies
  <2> QED BY ONLY <2>6, ProductIs
<1>14. Product(x, f, Row(x.a), base, Row(base)) = [t |-> c.val[i], lo |-> 0, m |-> p.m, n |-> p.n]
  BY <1>2, <1>3, <1>11, <1>13
<1> QED
  BY <1>6, <1>12, <1>14 DEF p, x, f

\* The product of a stage that is not the last: its codes stay as the operand of the next.
LEMMA StepL7Chained ==
  ASSUME NEW c, Sound(c), Steady(c), NEW i, L7(c, i), i < c.n, Next
  PROVE  Steady(c)' /\ L8(c, i)'
<1> DEFINE p == c.plans[i]
           x == MeshOf(c, i)
           f == c.f
           base == x.b_end - x.K * x.J * Dim
           r == [t |-> c.val[i], lo |-> 0, m |-> p.m, n |-> p.n]
           v == ResultOf(c, i)
           I == tiles_i(p)
           X == p.n \div 16
           hi == p.spad_dest + I * X * 16
<1>1. /\ i \in 1 .. c.n /\ f \in DOMAIN FORMATS /\ Selected(c, i) /\ Windows(c, i) /\ c.n \in Nat
      /\ prog = Cons(x, P8(c, i)) /\ loads = {} /\ stores = {}
  BY DEF L7, P7, Selected, Configured, InStage, Windows, Sound
<1>2. Listed(P8(c, i))
  BY <1>1, AllListed
<1>3. /\ x.op = "loop_ws" /\ x.I = I /\ x.J = tiles_j(p) /\ x.K = tiles_k(p)
      /\ x.a = p.a_spad /\ x.b_end = SpadRows /\ x.c = p.spad_dest
      /\ x.tiled = TRUE /\ x.resident = TRUE /\ x.scales = ScaleBuf(c, i)
  BY DEF MeshOf, loop_ws, ScaleBuf
<1>4. prog' = P8(c, i) /\ UNCHANGED <<want, unit>> /\ Head(prog) = x /\ LoopWs
  BY <1>1, <1>2, <1>3, OnlyNext
<1>5. /\ LoopWsOf(x, Product(x, Decoded(cfg.code, cfg.altfmt, lut # <<>>), Row(x.a), base, Row(base)))
      /\ UNCHANGED <<lut, cfg, loads, stores, outs>>
  BY <1>4 DEF LoopWs
<1>6. Decoded(cfg.code, cfg.altfmt, lut # <<>>) = f /\ Product(x, f, Row(x.a), base, Row(base)) = r
  BY Multiplied
<1> HIDE DEF p, x, f, base, r, v, I, X, hi
<1>7. LoopWsOf(x, r)
  BY <1>5, <1>6
<1>8. cfg.out = FORMATS[f].fmt_code /\ cfg.out # BF16_FMT_CODE /\ cfg.code = cfg.out
  <2>1. cfg = config_ex(f, f, f)
    BY <1>1 DEF Selected, Configured, Config, Sound, SoundPlan, f
  <2>2. f # BF16 /\ FORMATS[f].fmt_code # BF16_FMT_CODE
    BY <1>1, FormatFacts
  <2> QED BY <2>1, <2>2 DEF config_ex
<1>9. CommitCodes(x, r, f)
  BY <1>6, <1>7, <1>8 DEF LoopWsOf
<1>10. lut = IF FORMATS[f].lut THEN BooksOf(c, i) ELSE <<>>
  BY <1>1 DEF Selected, f
<1>11. (lut = <<>> \/ f \in LUT_SERVES[unit.projFormat]) /\ (IF lut = <<>> THEN <<>> ELSE lut[3]) = c.bundles[i].c_lut
  <2>1. CASE FORMATS[f].lut
    <3>1. lut = <<c.bundles[i].b_lut, c.bundles[i].a_lut, c.bundles[i].c_lut>>
      BY <1>10, <2>1 DEF BooksOf
    <3>2. f \in LUT_SERVES[unit.projFormat]
      BY <2>1 DEF Sound, SoundBooks, Steady, f
    <3> QED BY <3>1, <3>2
  <2>2. CASE ~FORMATS[f].lut
    BY <1>1, <1>10, <2>2 DEF Sound, SoundBooks, BooksOf, f
  <2> QED BY <2>1, <2>2
<1>12. Commit(x, r, v, FORMATS[f].bits)
  <2> DEFINE found == lut = <<>> \/ f \in LUT_SERVES[unit.projFormat]
             book == IF lut = <<>> THEN <<>> ELSE lut[3]
             bits == FORMATS[f].bits
             w == Value(IF found THEN Requant(r.t) ELSE Garbage, f, book, r.m)
  <2>1. Commit(x, r, w, bits)
    BY <1>9 DEF CommitCodes
  <2>2. r.t = c.val[i] /\ r.m = p.m
    BY DEF r
  <2>3. w = v
    BY <1>11, <2>2 DEF v, ResultOf, p, f
  <2> HIDE DEF w, bits
  <2>4. Commit(x, r, v, bits)
    BY <2>1, <2>3
  <2> QED BY <2>4 DEF bits
<1>13. /\ I \in Nat \ {0} /\ X \in Nat \ {0} /\ (p.m * p.n * FORMATS[f].bits) \div 2048 = I * X
       /\ smem_rows(p) \in Nat /\ I * X * 16 <= smem_rows(p) /\ b_base(p) <= SpadRows /\ SpadRows \in Nat
       /\ b_base(p) \in Nat
  BY <1>1, Geometry DEF p, f, I, X
<1>14. p.spad_dest \in Nat /\ p.spad_dest + smem_rows(p) <= b_base(p)
  BY <1>1 DEF Sound, SoundPlan, SoundSeams, p
<1>15. I * X \in Nat
  BY <1>13
<1>16. v.f = f /\ f # BF16 /\ v.t = Requant(c.val[i]) /\ v.bk = c.bundles[i].c_lut
  BY <1>1, FormatFacts DEF v, ResultOf, Value, f
<1>17. hi \in Nat /\ p.spad_dest + I * X * 16 <= SpadRows /\ hi <= SpadRows
  BY <1>13, <1>14, <1>15 DEF hi
<1>18. TilesA(spad', p.spad_dest, I, X, v.t, v.f, v.bk) /\ SameOutside(spad, spad', p.spad_dest, hi)
  <2> DEFINE bits == FORMATS[f].bits
  <2>1. r.m = p.m /\ r.n = p.n
    BY DEF r
  <2>2. I * X = (r.m * r.n * bits) \div 2048 /\ r.n \div 16 = X
    BY <1>13, <2>1 DEF X
  <2>3. x.tiled /\ x.c \in Nat /\ x.b_end \in Nat /\ x.c + I * X * 16 <= x.b_end
    BY <1>3, <1>13, <1>14, <1>17
  <2> HIDE DEF bits
  <2>4. Commit(x, r, v, bits)
    BY <1>12 DEF bits
  <2>5. I \in Nat /\ X \in Nat \ {0} /\ v.f # BF16
    BY <1>13, <1>16
  <2>7. CommitsTiles(x, r, v, bits, I, X)
    BY <1>3, <2>2, <2>3, <2>4, <2>5 DEF CommitsTiles
  <2>6. TilesA(spad', x.c, I, X, v.t, v.f, v.bk) /\ SameOutside(spad, spad', x.c, x.c + I * X * 16)
    BY ONLY <2>7, CommittedTiles
  <2> QED BY <2>6, <1>3 DEF hi
<1>19. mem' = Put(mem, ScaleBuf(c, i), v) /\ scale' = [scale EXCEPT ![1] = v]
  <2>1. /\ mem' = IF v.f = BF16 THEN mem ELSE Put(mem, x.scales, v)
        /\ scale' = IF x.resident /\ ~(v.f = BF16) THEN [scale EXCEPT ![1] = v] ELSE scale
    BY <1>12 DEF Commit
  <2> QED BY <2>1, <1>3, <1>16
<1>20. Codes(c, i)'
  BY <1>16, <1>18 DEF Codes, p, I, X, f
<1>21. \A b : b # ScaleBuf(c, i) => Buffer(b)' = Buffer(b)
  BY <1>19, Written
<1>22. Buffer(ScaleBuf(c, i))' = v
  BY <1>19, Written
<1>23. Kept(c, i)'
  <2>1. i - 1 \in Nat /\ i - 1 <= c.n /\ \A j \in 1 .. i - 1 : j \in 1 .. c.n /\ j # i /\ j < i
    BY <1>1
  <2>2. \A j \in 1 .. i - 1 : j < c.n => c.plans[j].spad_dest + smem_rows(c.plans[j]) <= p.spad_dest
    BY <1>1, <2>1 DEF Sound, SoundSeams, p
  <2>3. \A j \in 1 .. i - 1 : j < c.n => Codes(c, j) /\ Buffer(ScaleBuf(c, j)) = ResultOf(c, j)
    BY <1>1 DEF Selected, Configured, InStage, Kept
  <2>4. \A j \in 1 .. i - 1 : j < c.n => Codes(c, j)'
    <3> DEFINE lo == p.spad_dest
    <3>1. lo \in Int /\ hi \in Int /\ SameOutside(spad, spad', lo, hi)
      BY <1>14, <1>17, <1>18
    <3>2. \A j \in 1 .. i - 1 : j < c.n => c.plans[j].spad_dest + smem_rows(c.plans[j]) <= lo
      BY <2>2
    <3> HIDE DEF lo
    <3> QED BY <2>1, <2>3, <3>1, <3>2, KeptBelow
  <2>5. \A j \in 1 .. i - 1 : j < c.n => Buffer(ScaleBuf(c, j))' = Buffer(ScaleBuf(c, j))
    <3>1. \A j \in 1 .. i - 1 : ScaleBuf(c, j) # ScaleBuf(c, i)
      BY <1>1, <2>1, NamesApart
    <3> QED BY <1>21, <3>1
  <2>6. \A j \in 1 .. i : j \in 1 .. i - 1 \/ j = i
    BY <1>1
  <2>7. \A j \in 1 .. i : j < c.n => Codes(c, j)'
    BY <1>20, <2>4, <2>6
  <2>8. \A j \in 1 .. i : j < c.n => Buffer(ScaleBuf(c, j))' = ResultOf(c, j)
    BY <1>22, <2>3, <2>5, <2>6 DEF v
  <2> QED BY <2>7, <2>8 DEF Kept, ResultOf, ScaleBuf
<1>24. DOMAIN scale' = {1, 2} /\ scale'[1] = v
  BY <1>19 DEF Steady
<1>25. Operands(c)'
  BY <1>1, <1>19, OperandsWritten DEF Steady
<1>26. Steady(c)'
  BY <1>1, <1>2, <1>4, <1>5, <1>24, <1>25, SteadyKept DEF Steady
<1>27. AfterProduct(c, i)'
  BY <1>1, <1>5, <1>23, <1>24 DEF AfterProduct, Resident, ResultOf, v, Selected, Configured, InStage
<1> QED
  BY <1>1, <1>4, <1>5, <1>26, <1>27 DEF L8

\* The product of the last stage: its bf16 lies above every intermediate and inside the scratchpad.
LEMMA StepL7Last ==
  ASSUME NEW c, Sound(c), Steady(c), NEW i, L7(c, i), i = c.n, Next
  PROVE  Steady(c)' /\ L8(c, i)'
<1> DEFINE p == c.plans[i]
           x == MeshOf(c, i)
           f == c.f
           base == x.b_end - x.K * x.J * Dim
           r == [t |-> c.val[i], lo |-> 0, m |-> p.m, n |-> p.n]
           v == Value(c.val[i], BF16, <<>>, p.m)
           N == Slots(c)
           lo == p.spad_dest
           hi == lo + N * 16
<1>1. /\ i \in 1 .. c.n /\ f \in DOMAIN FORMATS /\ Selected(c, i) /\ Windows(c, i) /\ c.n \in Nat
      /\ prog = Cons(x, P8(c, i)) /\ loads = {} /\ stores = {}
  BY DEF L7, P7, Selected, Configured, InStage, Windows, Sound
<1>2. Listed(P8(c, i)) /\ Listed(P9(c, i))
  BY <1>1, AllListed
<1>3. /\ x.op = "loop_ws" /\ x.b_end = SpadRows /\ x.c = lo
  BY DEF MeshOf, loop_ws
<1>4. prog' = P8(c, i) /\ UNCHANGED <<want, unit>> /\ Head(prog) = x /\ LoopWs
  BY <1>1, <1>2, <1>3, OnlyNext
<1>5. /\ LoopWsOf(x, Product(x, Decoded(cfg.code, cfg.altfmt, lut # <<>>), Row(x.a), base, Row(base)))
      /\ UNCHANGED <<lut, cfg, loads, stores, outs>>
  BY <1>4 DEF LoopWs
<1>6. Decoded(cfg.code, cfg.altfmt, lut # <<>>) = f /\ Product(x, f, Row(x.a), base, Row(base)) = r
  BY Multiplied
<1>7. N = (p.m * p.n * 16) \div 2048
  BY DEF Slots
<1> HIDE DEF p, x, f, base, r, v, N, lo, hi
<1>8. LoopWsOf(x, r)
  BY <1>5, <1>6
<1>9. cfg.out = BF16_FMT_CODE
  <2>1. cfg = config_ex(f, f, BF16)
    BY <1>1 DEF Selected, Configured, Config, Sound, SoundPlan, f
  <2> QED BY <2>1 DEF config_ex
<1>10. Commit(x, r, v, 16)
  <2>1. r.t = c.val[i] /\ r.m = p.m
    BY DEF r
  <2> QED BY <1>8, <1>9, <2>1 DEF LoopWsOf, CommitBf16, v
<1>11. N \in Nat \ {0} /\ out_rows(p) = N * 16 /\ SpadRows \in Nat
  BY <1>1, Geometry DEF p, N
<1>12. lo \in Nat
  BY <1>1 DEF Sound, SoundPlan, p, lo
<1>13. hi \in Nat /\ hi <= SpadRows
  <2> DEFINE y == ReadOut(c, i, FALSE)
             q == P9(c, i)
  <2>0. ~(i < c.n)
    BY <1>1
  <2>1. P8(c, i) = Cons(Fence, Cons(y, q))
    BY <2>0 DEF P8
  <2>2. Listed(q) /\ Listed(Cons(y, q)) /\ Listed(P8(c, i))
    BY <1>2, ConsFacts
  <2>3. y.op = "mvout" /\ y.src = lo /\ y.rows = out_rows(p)
    BY DEF ReadOut, mvout, p, lo
  <2> HIDE DEF y, q
  <2>4. Fits(Cons(x, P8(c, i)))
    BY <1>1 DEF Steady
  <2>5. Fits(P8(c, i))
    BY <2>2, <2>4, FitsCons
  <2>6. Fits(Cons(y, q))
    BY <2>1, <2>2, <2>5, FitsCons
  <2>7. lo + out_rows(p) <= SpadRows
    BY <2>2, <2>3, <2>6, FitsCons
  <2> QED BY <2>7, <1>11, <1>12 DEF hi
<1>14. v.f = BF16 /\ v.bk = <<>> /\ v.t = c.val[i]
  BY DEF v, Value
<1>15. Flat(spad', lo, N, c.val[i], 0, p.n) /\ SameOutside(spad, spad', lo, hi)
  <2>1. r.m = p.m /\ r.n = p.n /\ r.lo = 0
    BY DEF r
  <2>2. CommitsFlat(x, r, v, N)
    BY <1>3, <1>7, <1>10, <1>11, <1>12, <1>13, <1>14, <2>1 DEF CommitsFlat, hi
  <2>3. Flat(spad', x.c, N, v.t, r.lo, r.n) /\ SameOutside(spad, spad', x.c, x.c + N * 16)
    BY ONLY <2>2, CommittedFlat
  <2> QED BY <1>3, <1>14, <2>1, <2>3 DEF hi
<1>16. mem' = mem /\ scale' = scale
  BY <1>10, <1>14 DEF Commit
<1>17. HasY(c)'
  <2>1. HasY(c)' = Flat(spad', c.plans[c.n].spad_dest, Slots(c), c.val[c.n], 0, c.plans[c.n].n)
    BY DEF HasY, Slots
  <2> QED BY <1>15, <2>1 DEF p, N, lo
<1>18. Kept(c, i)'
  <2>1. i - 1 \in Nat /\ i - 1 <= c.n /\ \A j \in 1 .. i - 1 : j \in 1 .. c.n /\ j # i /\ j < i
    BY <1>1
  <2>2. \A j \in 1 .. i - 1 : j < c.n => c.plans[j].spad_dest + smem_rows(c.plans[j]) <= lo
    BY <1>1, <2>1 DEF Sound, SoundSeams, p, lo
  <2>3. \A j \in 1 .. i - 1 : j < c.n => Codes(c, j) /\ Buffer(ScaleBuf(c, j)) = ResultOf(c, j)
    BY <1>1 DEF Selected, Configured, InStage, Kept
  <2>4. \A j \in 1 .. i - 1 : j < c.n => Codes(c, j)'
    <3>1. lo \in Int /\ hi \in Int /\ SameOutside(spad, spad', lo, hi)
      BY <1>12, <1>13, <1>15
    <3> QED BY <2>1, <2>2, <2>3, <3>1, KeptBelow
  <2>5. \A b : Buffer(b)' = Buffer(b)
    BY <1>16 DEF Buffer
  <2>6. \A j \in 1 .. i : j < c.n => j \in 1 .. i - 1
    BY <1>1
  <2> QED BY <2>3, <2>4, <2>5, <2>6 DEF Kept, ResultOf, ScaleBuf
<1>19. Steady(c)'
  BY <1>1, <1>2, <1>4, <1>5, <1>16, SteadyStep
<1>20. AfterProduct(c, i)'
  BY <1>1, <1>5, <1>18 DEF AfterProduct, Resident, ResultOf, Selected, Configured, InStage
<1> QED
  BY <1>1, <1>4, <1>5, <1>17, <1>19, <1>20 DEF L8

\* The product of any stage.
LEMMA StepL7 ==
  ASSUME NEW c, Sound(c), Steady(c), NEW i, L7(c, i), Next
  PROVE  Steady(c)' /\ L8(c, i)'
<1>1. i \in 1 .. c.n /\ c.n \in Nat
  BY DEF L7, Selected, Configured, InStage, Sound
<1>2. CASE i < c.n
  BY <1>2, StepL7Chained
<1>3. CASE i = c.n
  BY <1>3, StepL7Last
<1> QED
  BY <1>1, <1>2, <1>3

-----------------------------------------------------------------------------
(***************************************************************************)
(* After the product: the fence, the read of the last stage, the next      *)
(* stage.                                                                  *)
(***************************************************************************)
\* The last result on its way to the host.
LEMMA StepL8 ==
  ASSUME NEW c, Sound(c), Steady(c), NEW i, L8(c, i), i = c.n, Next
  PROVE  Steady(c)' /\ L8b(c, i)'
<1> DEFINE q == Cons(ReadOut(c, i, FALSE), P9(c, i))
<1>1. /\ i \in 1 .. c.n /\ c.n \in Nat /\ AfterProduct(c, i) /\ stores = {} /\ loads = {} /\ HasY(c)
      /\ prog = P8(c, i)
  BY DEF L8, AfterProduct, Sound
<1>2. ~(i < c.n)
  BY <1>1
<1>3. prog = Cons(Fence, q)
  BY <1>1, <1>2 DEF P8
<1>4. Listed(q)
  BY <1>1, AllListed, ConsFacts
<1> HIDE DEF q
<1>5. Fence.op = "fence"
  BY DEF Fence
<1>6. prog' = q /\ UNCHANGED <<want, unit>> /\ DoFence
  BY <1>1, <1>3, <1>4, <1>5, OnlyNext
<1>7. UNCHANGED <<mem, spad, scale, lut, cfg, loads, stores, outs>>
  BY <1>6 DEF DoFence
<1>8. Steady(c)'
  BY <1>3, <1>4, <1>6, <1>7, SteadyStep
<1>9. Kept(c, i)'
  BY <1>1, <1>7, KeptSame DEF AfterProduct
<1>10. AfterProduct(c, i)' /\ HasY(c)' /\ stores' = {}
  BY <1>1, <1>7, <1>9 DEF AfterProduct, Resident, ResultOf, HasY, Slots
<1> QED
  BY <1>6, <1>8, <1>10 DEF L8b, q

\* What is read of a result.
LEMMA ReadResults ==
  ASSUME NEW c, Sound(c), NEW i \in 1 .. c.n
  PROVE  /\ i = c.n /\ HasY(c) => Drained(ReadOut(c, i, FALSE)) = YValue(c)
         /\ i < c.n /\ Codes(c, i) => Drained(ReadOut(c, i, TRUE)) = TValue(c, i)
<1> DEFINE p == c.plans[i]
<1>1. p.spad_dest \in Nat /\ c.n \in Nat
  BY DEF Sound, SoundPlan
<1>2. ASSUME i = c.n, HasY(c) PROVE Drained(ReadOut(c, i, FALSE)) = YValue(c)
  <2> DEFINE x == ReadOut(c, i, FALSE)
             N == Slots(c)
  <2>1. x.src = p.spad_dest /\ x.rows = out_rows(p) /\ x.cols = p.n /\ x.tiled = FALSE
    BY DEF ReadOut, mvout
  <2>2. N \in Nat \ {0} /\ out_rows(p) = N * 16
    BY <1>2, Geometry
  <2>3. Flat(spad, p.spad_dest, N, c.val[i], 0, p.n)
    BY <1>2 DEF HasY
  <2> HIDE DEF p, x, N
  <2>4. DrainsFlat(x, N, c.val[i], 0)
    BY <1>1, <2>1, <2>2, <2>3 DEF DrainsFlat
  <2>5. Drained(x) = [t |-> c.val[i], f |-> BF16, bk |-> <<>>, lo |-> 0, cols |-> x.cols]
    BY ONLY <2>4, DrainedFlat
  <2> QED BY <1>2, <2>1, <2>5 DEF YValue, Value, x, p
<1>3. ASSUME i < c.n, Codes(c, i) PROVE Drained(ReadOut(c, i, TRUE)) = TValue(c, i)
  <2> DEFINE x == ReadOut(c, i, TRUE)
             I == tiles_i(p)
             X == p.n \div 16
             t == Requant(c.val[i])
             bk == c.bundles[i].c_lut
             f == c.f
  <2>1. x.src = p.spad_dest /\ x.rows = out_rows(p) /\ x.cols = p.n /\ x.tiled = TRUE
    BY DEF ReadOut, mvout
  <2>2. I \in Nat \ {0} /\ X \in Nat \ {0} /\ out_rows(p) = I * X * 16
    BY <1>3, Geometry
  <2>3. TilesA(spad, p.spad_dest, I, X, t, f, bk) /\ p.n \div 16 = X
    BY <1>3 DEF Codes
  <2> HIDE DEF p, x, I, X, t, bk, f
  <2>4. DrainsTiles(x, I, X, t, f, bk)
    BY <1>1, <2>1, <2>2, <2>3 DEF DrainsTiles
  <2>5. Drained(x) = [t |-> t, f |-> f, bk |-> bk, lo |-> 0, cols |-> x.cols]
    BY ONLY <2>4, DrainedTiles
  <2> QED BY <2>1, <2>5 DEF TValue, Value, x, p, t, bk, f
<1> QED
  BY <1>2, <1>3

\* The result of the last stage is read back.
LEMMA StepL8b ==
  ASSUME NEW c, Sound(c), Steady(c), NEW i, L8b(c, i), Next
  PROVE  Steady(c)' /\ L9(c, i)'
<1> DEFINE x == ReadOut(c, i, FALSE)
<1>1. /\ i \in 1 .. c.n /\ i = c.n /\ AfterProduct(c, i) /\ stores = {} /\ loads = {} /\ HasY(c)
      /\ prog = Cons(x, P9(c, i))
  BY DEF L8b, AfterProduct
<1>2. Listed(P9(c, i))
  BY <1>1, AllListed
<1>3. x.op = "mvout" /\ x.dst = YBuf
  <2>1. OutBuf(c, c.n) = YBuf
    BY <1>1, NamesApart
  <2> QED BY <1>1, <2>1 DEF ReadOut, mvout
<1>4. Drained(x) = YValue(c)
  BY <1>1, ReadResults
<1> HIDE DEF x
<1>5. prog' = P9(c, i) /\ UNCHANGED <<want, unit>> /\ Head(prog) = x /\ Mvout
  BY <1>1, <1>2, <1>3, OnlyNext
<1>6. stores' = {<<YBuf, YValue(c)>>} /\ UNCHANGED <<mem, spad, scale, lut, cfg, loads, outs>>
  BY <1>1, <1>3, <1>4, <1>5 DEF Mvout
<1>7. Steady(c)'
  BY <1>1, <1>2, <1>5, <1>6, SteadyStep
<1>8. Kept(c, i)'
  BY <1>1, <1>6, KeptSame DEF AfterProduct
<1>9. AfterProduct(c, i)'
  BY <1>1, <1>6, <1>8 DEF AfterProduct, Resident, ResultOf
<1> QED
  BY <1>1, <1>5, <1>6, <1>7, <1>9 DEF L9, YValue

\* A drained result reaches its buffer.
LEMMA Arriving ==
  ASSUME NEW c, Sound(c), Steady(c), NEW i \in 1 .. c.n, NEW v,
         stores \subseteq {<<OutBuf(c, i), v>>}, Kept(c, c.n), LandStore
  PROVE  /\ Steady(c)' /\ Kept(c, c.n)'
         /\ stores' = {} /\ Buffer(OutBuf(c, i))' = v
         /\ i < c.n => Buffer(YBuf)' = Buffer(YBuf)
         /\ UNCHANGED <<prog, spad, scale, lut, cfg, loads, outs>>
<1>1. PICK s \in stores : /\ mem' = Put(mem, s[1], s[2])
                          /\ stores' = stores \ {s}
                          /\ UNCHANGED <<prog, want, unit, spad, scale, lut, cfg, loads, outs>>
  BY DEF LandStore
<1>2. s = <<OutBuf(c, i), v>>
  OBVIOUS
<1>3. mem' = Put(mem, OutBuf(c, i), v)
  BY <1>1, <1>2
<1>4. stores' = {}
  BY <1>1, <1>2
<1>5. Buffer(OutBuf(c, i))' = v /\ \A d : d # OutBuf(c, i) => Buffer(d)' = Buffer(d)
  BY <1>3, Written
<1>6. i < c.n => Buffer(YBuf)' = Buffer(YBuf)
  BY <1>5, NamesApart
<1>7. Operands(c)'
  BY <1>3, OperandsWritten DEF Steady
<1>8. Steady(c)'
  BY <1>1, <1>7, SteadyKept DEF Steady
<1>9. \A j \in 1 .. c.n : Buffer(ScaleBuf(c, j))' = Buffer(ScaleBuf(c, j))
  BY <1>5, NamesApart
<1>10. Kept(c, c.n)'
  BY <1>1, <1>9 DEF Kept, Codes, ResultOf, ScaleBuf
<1> QED
  BY <1>1, <1>4, <1>5, <1>6, <1>8, <1>10

\* The write of the result lands, or the fence behind it is passed: to the next stage, or to the
\* reports.
LEMMA StepL9 ==
  ASSUME NEW c, Sound(c), Steady(c), NEW i, L9(c, i), Next
  PROVE  Steady(c)' /\ (L9(c, i)' \/ L0(c, i + 1)' \/ M0(c, 1)')
<1>1. /\ i \in 1 .. c.n /\ c.n \in Nat /\ AfterProduct(c, i) /\ loads = {} /\ prog = Cons(Fence, c.rest[i])
      /\ IF i = c.n THEN /\ stores \subseteq {<<YBuf, YValue(c)>>}
                         /\ Buffer(YBuf) = YValue(c) \/ <<YBuf, YValue(c)>> \in stores
         ELSE stores = {}
  BY DEF L9, AfterProduct, Sound, P9
<1>2. Listed(c.rest[i])
  BY <1>1 DEF Sound, SoundProgram
<1>3. Fence.op = "fence"
  BY DEF Fence
<1>4. \/ LandStore
      \/ prog' = c.rest[i] /\ UNCHANGED <<want, unit>> /\ DoFence
  <2>1. ~LandLoad
    BY <1>1 DEF LandLoad
  <2> QED BY <1>1, <1>2, <1>3, <2>1, StepOf
<1>5. CASE LandStore
  <2>1. i = c.n
    BY <1>1, <1>5 DEF LandStore
  <2>2. OutBuf(c, i) = YBuf /\ Kept(c, c.n)
    BY <1>1, <2>1, NamesApart DEF AfterProduct
  <2>3. stores \subseteq {<<OutBuf(c, i), YValue(c)>>}
    BY <1>1, <2>1, <2>2
  <2>4. /\ Steady(c)' /\ Kept(c, c.n)' /\ stores' = {} /\ Buffer(OutBuf(c, i))' = YValue(c)
        /\ UNCHANGED <<prog, spad, scale, lut, cfg, loads, outs>>
    BY <1>1, <1>5, <2>2, <2>3, Arriving
  <2>5. AfterProduct(c, i)'
    BY <1>1, <2>1, <2>4 DEF AfterProduct, Resident, ResultOf
  <2>6. (Buffer(YBuf) = YValue(c))'
    BY <2>2, <2>4 DEF YValue
  <2>7. prog' = P9(c, i)
    BY <1>1, <2>4 DEF P9
  <2> QED BY <2>1, <2>4, <2>5, <2>6, <2>7 DEF L9
<1>6. CASE prog' = c.rest[i] /\ UNCHANGED <<want, unit>> /\ DoFence
  <2>1. stores = {} /\ UNCHANGED <<mem, spad, scale, lut, cfg, loads, stores, outs>>
    BY <1>6 DEF DoFence
  <2>2. Steady(c)'
    BY <1>1, <1>2, <1>6, <2>1, SteadyStep
  <2>3. Kept(c, i)'
    BY <1>1, <2>1, KeptSame DEF AfterProduct
  <2>4. CASE i < c.n
    <3> DEFINE k == i + 1
    <3>1. k \in 1 .. c.n /\ k - 1 = i
      BY <1>1, <2>4
    <3> HIDE DEF k
    <3>2. prog' = P0(c, k)
      BY <1>6, <3>1 DEF Sound, SoundProgram
    <3>3. InStage(c, k)'
      BY <1>1, <2>1, <2>3, <3>1 DEF InStage, AfterProduct, Resident, ResultOf
    <3>4. L0(c, k)'
      BY <1>1, <2>1, <3>2, <3>3 DEF L0
    <3> QED BY <2>2, <3>4 DEF k
  <2>5. CASE i = c.n
    <3>1. prog' = c.reps[0]
      BY <1>6, <2>5 DEF Sound, SoundProgram
    <3>2. ChainDrained(c)'
      BY <1>1, <2>1, <2>3, <2>5 DEF ChainDrained, Buffer, YValue
    <3>3. Has(c, Reported(c, 0))'
      <4>1. Reported(c, 0) = {}
        BY <1>1, <2>5 DEF Reported
      <4>2. outs' = <<>>
        BY <1>1, <2>1 DEF AfterProduct
      <4> QED BY <4>1, <4>2 DEF Has, Reported
    <3>4. 1 \in 1 .. c.n + 1 /\ 1 - 1 = 0
      BY <1>1
    <3>5. M0(c, 1)'
      BY <2>1, <3>1, <3>2, <3>3, <3>4 DEF M0
    <3> QED BY <2>2, <3>5
  <2> QED BY <1>1, <2>4, <2>5
<1> QED
  BY <1>4, <1>5, <1>6

-----------------------------------------------------------------------------
(***************************************************************************)
(* The reports.                                                            *)
(***************************************************************************)
\* One more report.
LEMMA HasMore ==
  ASSUME NEW c, NEW S, NEW o, Has(c, S), outs' = Put(outs, o, c.want[o])
  PROVE  Has(c, S \cup {o})'
<1>1. DOMAIN outs = S
  <2>1. CASE S = {}
    <3>1. outs = <<>>
      BY <2>1 DEF Has
    <3> QED BY <2>1, <3>1
  <2>2. CASE S # {}
    BY <2>2 DEF Has
  <2> QED BY <2>1, <2>2
<1>2. \A x \in S : outs[x] = c.want[x]
  BY DEF Has
<1>3. outs' = [x \in S \cup {o} |-> IF x = o THEN c.want[o] ELSE outs[x]]
  BY <1>1 DEF Put
<1>4. outs' = [x \in S \cup {o} |-> c.want[x]]
  BY <1>2, <1>3
<1> QED
  BY <1>4 DEF Has

\* A step of the reports that leaves the accelerator.
LEMMA DrainedSame ==
  ASSUME NEW c, ChainDrained(c), UNCHANGED <<mem, spad, loads>>
  PROVE  ChainDrained(c)'
<1>1. Kept(c, c.n)'
  BY KeptSame DEF ChainDrained
<1> QED
  BY <1>1 DEF ChainDrained, Buffer, YValue

\* What the report of stage i adds.
LEMMA ReportedNext ==
  ASSUME NEW c, Sound(c), NEW i \in 1 .. c.n
  PROVE  /\ i < c.n => Reported(c, i) = (Reported(c, i - 1) \cup {OutBuf(c, i)}) \cup {ScaleBuf(c, i)}
         /\ i = c.n => Reported(c, i) = Reported(c, i - 1) \cup {YBuf}
<1>1. c.n \in Nat /\ c.n \in Int
  BY DEF Sound
<1>2. ASSUME i < c.n
      PROVE  Reported(c, i) = (Reported(c, i - 1) \cup {OutBuf(c, i)}) \cup {ScaleBuf(c, i)}
  <2>1. OutBuf(c, i) = <<TName(i), "out">> /\ ScaleBuf(c, i) = <<TName(i), "scales">>
    BY <1>2, NamesApart
  <2>2. {k \in 1 .. i : k < c.n} = {k \in 1 .. i - 1 : k < c.n} \cup {i}
    BY <1>1, <1>2
  <2>3. i # c.n /\ i - 1 # c.n
    BY <1>1, <1>2
  <2> DEFINE A == {k \in 1 .. i - 1 : k < c.n}
             B == {k \in 1 .. i : k < c.n}
             N(k) == TName(k)
  <2>4. Reported(c, i) = {N(j) : j \in B} \X {"out", "scales"}
    BY <2>3 DEF Reported
  <2>5. Reported(c, i - 1) = {N(j) : j \in A} \X {"out", "scales"}
    BY <2>3 DEF Reported
  <2>6. B = A \cup {i}
    BY <2>2
  <2> HIDE DEF A, B, N
  <2>7. {N(j) : j \in B} = {N(j) : j \in A} \cup {N(i)}
    BY <2>6
  <2> DEFINE U == {N(j) : j \in A}
  <2> HIDE DEF U
  <2>8. (U \cup {N(i)}) \X {"out", "scales"} = ((U \X {"out", "scales"}) \cup {<<N(i), "out">>}) \cup {<<N(i), "scales">>}
    OBVIOUS
  <2> QED BY <2>1, <2>4, <2>5, <2>7, <2>8 DEF U, N
<1>3. ASSUME i = c.n PROVE Reported(c, i) = Reported(c, i - 1) \cup {YBuf}
  <2>1. {k \in 1 .. i : k < c.n} = {k \in 1 .. i - 1 : k < c.n} /\ i - 1 # c.n
    BY <1>1, <1>3
  <2> QED BY <1>3, <2>1 DEF Reported, YBuf
<1> QED
  BY <1>2, <1>3

\* What is left of the reports.
LEMMA ReportLeft ==
  ASSUME NEW c, Sound(c), NEW i \in 1 .. c.n
  PROVE  /\ c.reps[i - 1] = R0(c, i) /\ Listed(R1(c, i)) /\ Listed(R2(c, i)) /\ Listed(R3(c, i))
         /\ Listed(c.reps[i])
         /\ i < c.n => R0(c, i) = Cons(ReadOut(c, i, TRUE), R1(c, i))
         /\ i = c.n => R0(c, i) = Cons(ReportOut(c, i), c.reps[i])
<1>1. c.reps[i - 1] = R0(c, i) /\ c.n \in Nat
  BY DEF Sound, SoundProgram
<1>2. i = c.n => ~(i < c.n)
  BY <1>1
<1> QED
  BY <1>1, <1>2, AllListed DEF R0

\* The report of a chained stage begins with its read back.
LEMMA StepM0Chained ==
  ASSUME NEW c, Sound(c), Steady(c), NEW i, M0(c, i), i < c.n, Next
  PROVE  Steady(c)' /\ M1(c, i)'
<1> DEFINE x == ReadOut(c, i, TRUE)
<1>1. /\ i \in 1 .. c.n /\ i \in 1 .. c.n - 1 /\ prog = c.reps[i - 1] /\ ChainDrained(c) /\ loads = {} /\ stores = {}
      /\ Has(c, Reported(c, i - 1))
  BY DEF M0, Sound, ChainDrained
<1>2. prog = Cons(x, R1(c, i)) /\ Listed(R1(c, i))
  BY <1>1, ReportLeft
<1>3. x.op = "mvout" /\ x.dst = OutBuf(c, i)
  BY DEF ReadOut, mvout
<1>4. Drained(x) = TValue(c, i)
  <2>1. Codes(c, i)
    BY <1>1 DEF ChainDrained, Kept
  <2> QED BY <1>1, <2>1, ReadResults
<1> HIDE DEF x
<1>5. prog' = R1(c, i) /\ UNCHANGED <<want, unit>> /\ Head(prog) = x /\ Mvout
  BY <1>1, <1>2, <1>3, OnlyNext
<1>6. stores' = {<<OutBuf(c, i), TValue(c, i)>>} /\ UNCHANGED <<mem, spad, scale, lut, cfg, loads, outs>>
  BY <1>1, <1>3, <1>4, <1>5 DEF Mvout
<1>7. Steady(c)'
  BY <1>2, <1>5, <1>6, SteadyStep
<1>8. ChainDrained(c)'
  BY <1>1, <1>6, DrainedSame
<1>9. Has(c, Reported(c, i - 1))'
  BY <1>1, <1>6 DEF Has, Reported
<1> QED
  BY <1>1, <1>5, <1>6, <1>7, <1>8, <1>9 DEF M1, TValue, OutBuf

\* The last stage is reported at once.
LEMMA StepM0Last ==
  ASSUME NEW c, Sound(c), Steady(c), NEW i, M0(c, i), i = c.n, Next
  PROVE  Steady(c)' /\ M0(c, i + 1)'
<1> DEFINE x == ReportOut(c, i)
<1>1. /\ i \in 1 .. c.n /\ prog = c.reps[i - 1] /\ ChainDrained(c) /\ loads = {} /\ stores = {}
      /\ Has(c, Reported(c, i - 1)) /\ i + 1 \in 1 .. c.n + 1 /\ (i + 1) - 1 = i
  BY DEF M0, Sound, ChainDrained
<1>2. prog = Cons(x, c.reps[i]) /\ Listed(c.reps[i])
  BY <1>1, ReportLeft
<1>3. x.op = "report" /\ x.name = YBuf /\ x.buf = YBuf /\ x.n = c.plans[i].n
  <2>1. OutBuf(c, c.n) = YBuf
    BY <1>1, NamesApart
  <2> QED BY <2>1 DEF ReportOut, report
<1> HIDE DEF x
<1>4. prog' = c.reps[i] /\ UNCHANGED <<want, unit>> /\ Head(prog) = x /\ Report
  BY <1>1, <1>2, <1>3, OnlyNext
<1>5. Whole(YBuf, x.n) = c.val[i]
  BY <1>1, <1>3 DEF ChainDrained, YValue, Value, Whole
<1>6. c.want[YBuf] = c.val[i]
  BY DEF Sound, SoundWant, YBuf
<1>7. outs' = Put(outs, YBuf, c.want[YBuf]) /\ UNCHANGED <<mem, spad, scale, lut, cfg, loads, stores>>
  BY <1>3, <1>4, <1>5, <1>6 DEF Report
<1>8. Steady(c)'
  BY <1>2, <1>4, <1>7, SteadyStep
<1>9. ChainDrained(c)'
  BY <1>1, <1>7, DrainedSame
<1>10. Has(c, Reported(c, i))'
  <2>1. Reported(c, i) = Reported(c, i - 1) \cup {YBuf}
    BY <1>1, ReportedNext
  <2>2. Has(c, Reported(c, i - 1) \cup {YBuf})'
    <3> DEFINE S == Reported(c, i - 1)
               o == YBuf
    <3>1. Has(c, S) /\ outs' = Put(outs, o, c.want[o])
      BY <1>1, <1>7
    <3> HIDE DEF S, o
    <3>2. Has(c, S \cup {o})'
      BY <3>1, HasMore
    <3> QED BY <3>2 DEF S, o, Has, Reported
  <2> QED BY <2>1, <2>2 DEF Has, Reported
<1> QED
  BY <1>1, <1>4, <1>7, <1>8, <1>9, <1>10 DEF M0

\* The write of the intermediate lands, or the fence behind it is passed.
LEMMA StepM1 ==
  ASSUME NEW c, Sound(c), Steady(c), NEW i, M1(c, i), Next
  PROVE  Steady(c)' /\ (M1(c, i)' \/ M2(c, i)')
<1>1. /\ i \in 1 .. c.n /\ i \in 1 .. c.n - 1 /\ i < c.n /\ prog = Cons(Fence, R2(c, i)) /\ ChainDrained(c) /\ loads = {}
      /\ Has(c, Reported(c, i - 1))
      /\ stores \subseteq {<<OutBuf(c, i), TValue(c, i)>>}
      /\ Buffer(OutBuf(c, i)) = TValue(c, i) \/ <<OutBuf(c, i), TValue(c, i)>> \in stores
  BY DEF M1, Sound, ChainDrained, R1
<1>2. Listed(R2(c, i))
  BY <1>1, ReportLeft
<1>3. Fence.op = "fence"
  BY DEF Fence
<1>4. \/ LandStore
      \/ prog' = R2(c, i) /\ UNCHANGED <<want, unit>> /\ DoFence
  <2>1. ~LandLoad
    BY <1>1 DEF LandLoad
  <2> QED BY <1>1, <1>2, <1>3, <2>1, StepOf
<1>5. CASE LandStore
  <2> DEFINE v == TValue(c, i)
  <2>1. /\ Steady(c)' /\ Kept(c, c.n)' /\ stores' = {} /\ Buffer(OutBuf(c, i))' = v
        /\ Buffer(YBuf)' = Buffer(YBuf)
        /\ UNCHANGED <<prog, spad, scale, lut, cfg, loads, outs>>
    <3>1. Kept(c, c.n) /\ stores \subseteq {<<OutBuf(c, i), v>>}
      BY <1>1 DEF ChainDrained
    <3> HIDE DEF v
    <3> QED BY <1>1, <1>5, <3>1, Arriving
  <2>2. ChainDrained(c)'
    BY <1>1, <2>1 DEF ChainDrained, YValue
  <2>3. Has(c, Reported(c, i - 1))' /\ prog' = R1(c, i)
    BY <1>1, <2>1 DEF Has, Reported, R1
  <2> QED BY <1>1, <2>1, <2>2, <2>3 DEF M1, TValue, OutBuf
<1>6. CASE prog' = R2(c, i) /\ UNCHANGED <<want, unit>> /\ DoFence
  <2>1. stores = {} /\ UNCHANGED <<mem, spad, scale, lut, cfg, loads, stores, outs>>
    BY <1>6 DEF DoFence
  <2>2. Steady(c)'
    BY <1>1, <1>2, <1>6, <2>1, SteadyStep
  <2>3. ChainDrained(c)' /\ Has(c, Reported(c, i - 1))'
    BY <1>1, <2>1, DrainedSame DEF Has, Reported
  <2>4. (Buffer(OutBuf(c, i)) = TValue(c, i))'
    BY <1>1, <2>1 DEF Buffer, OutBuf, TValue
  <2> QED BY <1>1, <1>6, <2>1, <2>2, <2>3, <2>4 DEF M2
<1> QED
  BY <1>4, <1>5, <1>6

\* The intermediate is reported.
LEMMA StepM2 ==
  ASSUME NEW c, Sound(c), Steady(c), NEW i, M2(c, i), Next
  PROVE  Steady(c)' /\ M3(c, i)'
<1> DEFINE x == ReportOut(c, i)
<1>1. /\ i \in 1 .. c.n /\ i \in 1 .. c.n - 1 /\ i < c.n /\ prog = Cons(x, R3(c, i)) /\ ChainDrained(c)
      /\ loads = {} /\ stores = {}
      /\ Has(c, Reported(c, i - 1)) /\ Buffer(OutBuf(c, i)) = TValue(c, i)
  BY DEF M2, Sound, ChainDrained, R2
<1>2. Listed(R3(c, i))
  BY <1>1, ReportLeft
<1>3. x.op = "report" /\ x.name = OutBuf(c, i) /\ x.buf = OutBuf(c, i) /\ x.n = c.plans[i].n
  BY DEF ReportOut, report
<1> HIDE DEF x
<1>4. prog' = R3(c, i) /\ UNCHANGED <<want, unit>> /\ Head(prog) = x /\ Report
  BY <1>1, <1>2, <1>3, OnlyNext
<1>5. Whole(OutBuf(c, i), x.n) = Requant(c.val[i])
  BY <1>1, <1>3 DEF TValue, Value, Whole
<1>6. c.want[OutBuf(c, i)] = Requant(c.val[i])
  <2>1. OutBuf(c, i) = <<TName(i), "out">>
    BY <1>1, NamesApart
  <2> QED BY <1>1, <2>1 DEF Sound, SoundWant
<1>7. /\ outs' = Put(outs, OutBuf(c, i), c.want[OutBuf(c, i)])
      /\ UNCHANGED <<mem, spad, scale, lut, cfg, loads, stores>>
  BY <1>3, <1>4, <1>5, <1>6 DEF Report
<1>8. Steady(c)'
  BY <1>1, <1>2, <1>4, <1>7, SteadyStep
<1>9. ChainDrained(c)'
  BY <1>1, <1>7, DrainedSame
<1>10. Has(c, Reported(c, i - 1) \cup {OutBuf(c, i)})'
  <2> DEFINE S == Reported(c, i - 1)
             o == OutBuf(c, i)
  <2>1. Has(c, S) /\ outs' = Put(outs, o, c.want[o])
    BY <1>1, <1>7
  <2> HIDE DEF S, o
  <2>2. Has(c, S \cup {o})'
    BY <2>1, HasMore
  <2> QED BY <2>2 DEF S, o, Has, Reported, OutBuf
<1> QED
  BY <1>1, <1>4, <1>7, <1>8, <1>9, <1>10 DEF M3

\* And its scales.
LEMMA StepM3 ==
  ASSUME NEW c, Sound(c), Steady(c), NEW i, M3(c, i), Next
  PROVE  Steady(c)' /\ M0(c, i + 1)'
<1> DEFINE x == ReportScales(c, i)
<1>1. /\ i \in 1 .. c.n /\ i < c.n /\ prog = Cons(x, c.reps[i]) /\ ChainDrained(c)
      /\ loads = {} /\ stores = {}
      /\ Has(c, Reported(c, i - 1) \cup {OutBuf(c, i)})
      /\ i + 1 \in 1 .. c.n + 1 /\ (i + 1) - 1 = i
  BY DEF M3, Sound, ChainDrained, R3
<1>2. Listed(c.reps[i])
  BY <1>1, ReportLeft
<1>3. x.op = "report" /\ x.name = ScaleBuf(c, i) /\ x.buf = ScaleBuf(c, i) /\ x.n = c.plans[i].m
  BY DEF ReportScales, report
<1> HIDE DEF x
<1>4. prog' = c.reps[i] /\ UNCHANGED <<want, unit>> /\ Head(prog) = x /\ Report
  BY <1>1, <1>2, <1>3, OnlyNext
<1>5. Whole(ScaleBuf(c, i), x.n) = Requant(c.val[i])
  <2>1. Buffer(ScaleBuf(c, i)) = ResultOf(c, i)
    BY <1>1 DEF ChainDrained, Kept
  <2> QED BY <1>3, <2>1 DEF ResultOf, Value, Whole
<1>6. c.want[ScaleBuf(c, i)] = Requant(c.val[i])
  <2>1. ScaleBuf(c, i) = <<TName(i), "scales">> /\ i \in 1 .. c.n - 1
    BY <1>1, NamesApart DEF Sound
  <2> QED BY <2>1 DEF Sound, SoundWant
<1>7. /\ outs' = Put(outs, ScaleBuf(c, i), c.want[ScaleBuf(c, i)])
      /\ UNCHANGED <<mem, spad, scale, lut, cfg, loads, stores>>
  BY <1>3, <1>4, <1>5, <1>6 DEF Report
<1>8. Steady(c)'
  BY <1>1, <1>2, <1>4, <1>7, SteadyStep
<1>9. ChainDrained(c)'
  BY <1>1, <1>7, DrainedSame
<1>10. Has(c, Reported(c, i))'
  <2> DEFINE S == Reported(c, i - 1) \cup {OutBuf(c, i)}
             o == ScaleBuf(c, i)
  <2>1. Has(c, S) /\ outs' = Put(outs, o, c.want[o])
    BY <1>1, <1>7
  <2>2. Reported(c, i) = S \cup {o}
    BY <1>1, ReportedNext
  <2> HIDE DEF S, o
  <2>3. Has(c, S \cup {o})'
    BY <2>1, HasMore
  <2> QED BY <2>2, <2>3 DEF S, o, Has, Reported, OutBuf, ScaleBuf
<1> QED
  BY <1>1, <1>4, <1>7, <1>8, <1>9, <1>10 DEF M0

-----------------------------------------------------------------------------
(***************************************************************************)
(* Every step keeps a chain where it should be, and at the end it has      *)
(* reported all of it.                                                     *)
(***************************************************************************)
\* A stuttering step changes nothing.
LEMMA SteadyStays ==
  ASSUME NEW c, Steady(c), UNCHANGED vars
  PROVE  Steady(c)'
  BY DEF vars, Steady, Operands, Buffer, Fits

\* Nor the point.
LEMMA LocatedStays ==
  ASSUME NEW c, Located(c), UNCHANGED vars
  PROVE  Located(c)'
<1>1. PICK i \in 1 .. c.n + 1 :
        \/ L0(c, i) \/ L1(c, i) \/ L2(c, i) \/ L3(c, i) \/ L4(c, i) \/ L5(c, i) \/ L6(c, i) \/ L7(c, i)
        \/ L8(c, i) \/ L8b(c, i) \/ L9(c, i)
        \/ M0(c, i) \/ M1(c, i) \/ M2(c, i) \/ M3(c, i)
  BY DEF Located
<1>2. \A j : Kept(c, j) => Kept(c, j)'
  BY KeptSame DEF vars
<1>3. \A j : Resident(c, j) => Resident(c, j)'
  BY DEF vars, Resident, ResultOf
<1>4. InStage(c, i) => InStage(c, i)'
  BY <1>2, <1>3 DEF vars, InStage
<1>5. Configured(c, i) => Configured(c, i)'
  BY <1>4 DEF vars, Configured
<1>6. Selected(c, i) => Selected(c, i)'
  BY <1>5 DEF vars, Selected
<1>7. Windows(c, i) => Windows(c, i)'
  BY DEF vars, Windows, Buffer
<1>8. HasX(c) => HasX(c)'
  BY DEF vars, HasX, TilesA
<1>9. HasW(c, i) => HasW(c, i)'
  BY DEF vars, HasW, TilesB
<1>10. \A s, b : Coming(s, b) => Coming(s, b)'
  BY DEF vars, Coming, Buffer
<1>11. AfterProduct(c, i) => AfterProduct(c, i)'
  BY <1>2, <1>3 DEF vars, AfterProduct
<1>12. HasY(c) => HasY(c)'
  BY DEF vars, HasY, Flat, Slots
<1>13. ChainDrained(c) => ChainDrained(c)'
  BY DrainedSame DEF vars
<1>14. \A S : Has(c, S) => Has(c, S)'
  BY DEF vars, Has
<1>15. \A b : Buffer(b)' = Buffer(b)
  BY DEF vars, Buffer
<1>16. /\ L0(c, i) => L0(c, i)'
       /\ L1(c, i) => L1(c, i)'
       /\ L2(c, i) => L2(c, i)'
  BY <1>4, <1>5, <1>6 DEF vars, L0, L1, L2
<1>17. /\ L3(c, i) => L3(c, i)'
       /\ L4(c, i) => L4(c, i)'
  BY <1>6, <1>10 DEF vars, L3, L4
<1>18. /\ L5(c, i) => L5(c, i)'
       /\ L6(c, i) => L6(c, i)'
       /\ L7(c, i) => L7(c, i)'
  BY <1>6, <1>7, <1>8, <1>9 DEF vars, L5, L6, L7
<1>19. /\ L8(c, i) => L8(c, i)'
       /\ L8b(c, i) => L8b(c, i)'
  BY <1>11, <1>12 DEF vars, L8, L8b
<1>20. L9(c, i) => L9(c, i)'
  BY <1>11, <1>15 DEF vars, L9
<1>21. M0(c, i) => M0(c, i)'
  BY <1>13, <1>14 DEF vars, M0
<1>22. M1(c, i) => M1(c, i)'
  BY <1>13, <1>14, <1>15 DEF vars, M1
<1>23. /\ M2(c, i) => M2(c, i)'
       /\ M3(c, i) => M3(c, i)'
  BY <1>13, <1>14, <1>15 DEF vars, M2, M3
<1> QED
  BY <1>1, <1>16, <1>17, <1>18, <1>19, <1>20, <1>21, <1>22, <1>23 DEF Located

\* With nothing left to run and nothing in flight, nothing changes.
LEMMA AtTheEnd ==
  ASSUME prog = <<>>, loads = {}, stores = {}, Next
  PROVE  UNCHANGED vars
<1>1. \A op : ~Is(op)
  BY DEF Is
<1>2. ~LandLoad /\ ~LandStore
  BY DEF LandLoad, LandStore
<1>3. ~ConfigEx /\ ~LoadLuts /\ ~IssueLoad /\ ~DoFence /\ ~Mvin /\ ~LoopWs /\ ~Mvout /\ ~Report
  BY <1>1 DEF ConfigEx, LoadLuts, IssueLoad, DoFence, Mvin, LoopWs, Mvout, Report
<1>4. ~HostOp /\ ~ToF32 /\ ~Quantize /\ ~SliceScales /\ ~PasteCols
  BY <1>1 DEF HostOp, ToF32, Quantize, SliceScales, PasteCols
<1> QED
  BY <1>2, <1>3, <1>4 DEF Next, Done

\* A step of the program goes to the next point.
LEMMA ChainedNext ==
  ASSUME NEW c, Sound(c), Steady(c), Located(c), Next
  PROVE  Steady(c)' /\ Located(c)'
<1>1. PICK i \in 1 .. c.n + 1 :
        \/ L0(c, i) \/ L1(c, i) \/ L2(c, i) \/ L3(c, i) \/ L4(c, i) \/ L5(c, i) \/ L6(c, i) \/ L7(c, i)
        \/ L8(c, i) \/ L8b(c, i) \/ L9(c, i)
        \/ M0(c, i) \/ M1(c, i) \/ M2(c, i) \/ M3(c, i)
  BY DEF Located
<1>2. c.n \in Nat \ {0} /\ c.n \in Int
  BY DEF Sound
<1>3. ASSUME NEW j \in 1 .. c.n + 1,
             \/ L0(c, j)' \/ L1(c, j)' \/ L2(c, j)' \/ L3(c, j)' \/ L4(c, j)' \/ L5(c, j)' \/ L6(c, j)'
             \/ L7(c, j)' \/ L8(c, j)' \/ L8b(c, j)' \/ L9(c, j)'
             \/ M0(c, j)' \/ M1(c, j)' \/ M2(c, j)' \/ M3(c, j)'
      PROVE  Located(c)'
  BY <1>3 DEF Located
<1>4. CASE L0(c, i)
  BY <1>3, <1>4, StepL0
<1>5. CASE L1(c, i)
  BY <1>3, <1>5, StepL1
<1>6. CASE L2(c, i)
  BY <1>3, <1>6, StepL2
<1>7. CASE L3(c, i)
  BY <1>3, <1>7, StepL3
<1>8. CASE L4(c, i)
  BY <1>3, <1>8, StepL4
<1>9. CASE L5(c, i)
  BY <1>3, <1>9, StepL5
<1>10. CASE L6(c, i)
  BY <1>3, <1>10, StepL6
<1>11. CASE L7(c, i)
  BY <1>3, <1>11, StepL7
<1>12. ASSUME L9(c, i) PROVE Steady(c)' /\ Located(c)'
  <2>1. Steady(c)' /\ (L9(c, i)' \/ L0(c, i + 1)' \/ M0(c, 1)')
    BY <1>12, StepL9
  <2>2. i \in 1 .. c.n /\ i + 1 \in 1 .. c.n + 1 /\ 1 \in 1 .. c.n + 1
    BY <1>2, <1>12 DEF L9, AfterProduct
  <2> DEFINE k == i + 1
  <2>3. k \in 1 .. c.n + 1 /\ (L9(c, i)' \/ L0(c, k)' \/ M0(c, 1)')
    BY <2>1, <2>2
  <2> HIDE DEF k
  <2>4. L0(c, k)' => Located(c)'
    BY <1>3, <2>3
  <2>5. M0(c, 1)' => Located(c)'
    BY <1>3, <2>2
  <2>6. L9(c, i)' => Located(c)'
    BY <1>3
  <2> QED BY <2>1, <2>3, <2>4, <2>5, <2>6
<1>13. CASE L8(c, i)
  <2>1. CASE i = c.n
    BY <1>3, <1>13, <2>1, StepL8
  <2>2. CASE i # c.n
    <3>1. i < c.n
      BY <1>2, <1>13, <2>2 DEF L8, AfterProduct
    <3>2. L9(c, i)
      BY <1>13, <3>1, <2>2 DEF L8, P8, L9, AfterProduct
    <3> QED BY <3>2, <1>12
  <2> QED BY <2>1, <2>2
<1>14. CASE L8b(c, i)
  BY <1>3, <1>14, StepL8b
<1>15. CASE M0(c, i)
  <2>1. CASE i < c.n
    BY <1>3, <1>15, <2>1, StepM0Chained
  <2>2. CASE i = c.n
    <3> DEFINE k == i + 1
    <3>1. k \in 1 .. c.n + 1
      BY <1>2, <2>2
    <3>2. Steady(c)' /\ M0(c, k)'
      BY <1>15, <2>2, StepM0Last
    <3> HIDE DEF k
    <3> QED BY <1>3, <3>1, <3>2
  <2>3. CASE i > c.n
    <3>1. i - 1 = c.n
      BY <1>2, <2>3
    <3>2. prog = <<>> /\ loads = {} /\ stores = {}
      BY <1>15, <3>1 DEF M0, ChainDrained, Sound, SoundProgram
    <3>3. UNCHANGED vars
      BY <3>2, AtTheEnd
    <3> QED BY <3>3, SteadyStays, LocatedStays
  <2> QED BY <1>2, <2>1, <2>2, <2>3
<1>16. CASE M1(c, i)
  BY <1>3, <1>16, StepM1
<1>17. CASE M2(c, i)
  BY <1>3, <1>17, StepM2
<1>18. CASE M3(c, i)
  <2> DEFINE k == i + 1
  <2>1. k \in 1 .. c.n + 1
    BY <1>2, <1>18 DEF M3
  <2>2. Steady(c)' /\ M0(c, k)'
    BY <1>18, StepM3
  <2> HIDE DEF k
  <2> QED BY <1>3, <2>1, <2>2
<1> QED
  BY <1>1, <1>4, <1>5, <1>6, <1>7, <1>8, <1>9, <1>10, <1>11, <1>12, <1>13, <1>14, <1>15, <1>16, <1>17, <1>18

\* Only the last location has nothing left to run.
LEMMA ChainedComputes ==
  ASSUME NEW c, Sound(c), Steady(c), Located(c)
  PROVE  ComputesKernel
<1> SUFFICES ASSUME prog = <<>> PROVE outs = want
  BY DEF ComputesKernel, Ended
<1>1. PICK i \in 1 .. c.n + 1 :
        \/ L0(c, i) \/ L1(c, i) \/ L2(c, i) \/ L3(c, i) \/ L4(c, i) \/ L5(c, i) \/ L6(c, i) \/ L7(c, i)
        \/ L8(c, i) \/ L8b(c, i) \/ L9(c, i)
        \/ M0(c, i) \/ M1(c, i) \/ M2(c, i) \/ M3(c, i)
  BY DEF Located
<1>2. c.n \in Nat \ {0} /\ c.n \in Int
  BY DEF Sound
<1>3. ASSUME i \in 1 .. c.n
      PROVE  /\ P0(c, i) # <<>> /\ P1(c, i) # <<>> /\ P2(c, i) # <<>> /\ P3(c, i) # <<>> /\ P4(c, i) # <<>>
             /\ P5(c, i) # <<>> /\ P6(c, i) # <<>> /\ P7(c, i) # <<>> /\ P8(c, i) # <<>> /\ P9(c, i) # <<>>
             /\ Cons(ReadOut(c, i, FALSE), P9(c, i)) # <<>>
             /\ R0(c, i) # <<>> /\ R1(c, i) # <<>> /\ R2(c, i) # <<>> /\ R3(c, i) # <<>>
  <2>1. Listed(c.rest[i]) /\ Listed(c.reps[i])
    BY <1>3 DEF Sound, SoundProgram
  <2>2. /\ Listed(P9(c, i)) /\ Listed(P8(c, i)) /\ Listed(P7(c, i)) /\ Listed(P6(c, i))
        /\ Listed(P5(c, i)) /\ Listed(P4(c, i)) /\ Listed(P3(c, i)) /\ Listed(P2(c, i))
        /\ Listed(P1(c, i)) /\ Listed(P0(c, i))
        /\ Listed(R3(c, i)) /\ Listed(R2(c, i)) /\ Listed(R1(c, i))
    BY <1>3, AllListed
  <2>3. \A x, s : Listed(s) => Cons(x, s) # <<>>
    BY ConsFacts
  <2>4. P9(c, i) # <<>> /\ R3(c, i) # <<>> /\ R2(c, i) # <<>> /\ R1(c, i) # <<>>
    BY <2>1, <2>2, <2>3 DEF P9, R3, R2, R1
  <2>5. Cons(ReadOut(c, i, FALSE), P9(c, i)) # <<>>
    BY <2>2, <2>3
  <2>6. P8(c, i) # <<>>
    <3>1. Listed(Cons(ReadOut(c, i, FALSE), P9(c, i)))
      BY <2>2, ConsFacts
    <3> QED BY <2>3, <2>4, <3>1 DEF P8
  <2>7. P7(c, i) # <<>> /\ P6(c, i) # <<>> /\ P4(c, i) # <<>> /\ P3(c, i) # <<>> /\ P0(c, i) # <<>>
    BY <2>2, <2>3 DEF P7, P6, P4, P3, P0
  <2>8. P5(c, i) # <<>>
    BY <2>2, <2>3, <2>7 DEF P5
  <2>9. P2(c, i) # <<>>
    BY <2>2, <2>3, <2>7 DEF P2
  <2>10. P1(c, i) # <<>>
    BY <2>2, <2>3, <2>9 DEF P1
  <2>11. R0(c, i) # <<>>
    BY <2>1, <2>2, <2>3 DEF R0
  <2> QED BY <2>4, <2>5, <2>6, <2>7, <2>8, <2>9, <2>10, <2>11
<1>4. ASSUME i \in 1 .. c.n PROVE M0(c, i)
  <2>1. ~(L0(c, i) \/ L1(c, i) \/ L2(c, i) \/ L3(c, i))
    BY <1>3, <1>4 DEF L0, L1, L2, L3
  <2>2. ~(L4(c, i) \/ L5(c, i) \/ L6(c, i) \/ L7(c, i))
    BY <1>3, <1>4 DEF L4, L5, L6, L7
  <2>3. ~(L8(c, i) \/ L8b(c, i) \/ L9(c, i))
    BY <1>3, <1>4 DEF L8, L8b, L9
  <2>4. ~(M1(c, i) \/ M2(c, i) \/ M3(c, i))
    BY <1>3, <1>4 DEF M1, M2, M3
  <2> QED BY <1>1, <2>1, <2>2, <2>3, <2>4
<1>5. i \notin 1 .. c.n
  <2> SUFFICES ASSUME i \in 1 .. c.n PROVE FALSE
    OBVIOUS
  <2>1. prog = R0(c, i)
    BY <1>4 DEF M0, Sound, SoundProgram
  <2> QED BY <1>3, <2>1
<1>6. i = c.n + 1 /\ i - 1 = c.n
  BY <1>2, <1>5
<1>7. M0(c, i)
  <2>1. ~(L0(c, i) \/ L1(c, i) \/ L2(c, i) \/ L3(c, i) \/ L4(c, i) \/ L5(c, i) \/ L6(c, i) \/ L7(c, i))
    BY <1>5 DEF L0, L1, L2, L3, L4, L5, L6, L7, Selected, Configured, InStage
  <2>2. ~(L8(c, i) \/ L8b(c, i) \/ L9(c, i))
    BY <1>5 DEF L8, L8b, L9, AfterProduct
  <2>3. ~(M1(c, i) \/ M2(c, i) \/ M3(c, i))
    BY <1>2, <1>6 DEF M1, M2, M3
  <2> QED BY <1>1, <2>1, <2>2, <2>3
<1>8. Has(c, Reported(c, c.n))
  BY <1>6, <1>7 DEF M0
<1>9. <<YName, "out">> \in Reported(c, c.n)
  BY DEF Reported
<1>10. outs = [o \in Reported(c, c.n) |-> c.want[o]]
  BY <1>8, <1>9 DEF Has
<1> QED
  BY <1>10 DEF Sound, SoundWant, Steady

\* The invariant is inductive.
LEMMA ChainedStays ==
  ASSUME NEW c, Chained(c), [Next]_vars
  PROVE  Chained(c)' /\ ComputesKernel
<1>1. Steady(c)' /\ Located(c)'
  BY ChainedNext, SteadyStays, LocatedStays DEF Chained
<1>2. ComputesKernel
  BY ChainedComputes DEF Chained
<1> QED
  BY <1>1, <1>2 DEF Chained

-----------------------------------------------------------------------------
(***************************************************************************)
(* The compiler: the kernels, and the shapes of their stages.              *)
(***************************************************************************)
\* A dict that grows under distinct names.
Grows(n, f, nm, v, a) ==
  /\ n \in Nat
  /\ f[0] = [y \in {INPUT} |-> a]
  /\ \A i \in 1 .. n : f[i] = Put(f[i - 1], nm[i], v[i])
  /\ \A i \in 1 .. n : nm[i] # INPUT
  /\ \A i, j \in 1 .. n : nm[i] = nm[j] => i = j

\* It holds every value under its name.
LEMMA Growing ==
  ASSUME NEW n, NEW f, NEW nm, NEW v, NEW a, Grows(n, f, nm, v, a)
  PROVE  \A j \in 0 .. n : /\ INPUT \in DOMAIN f[j] /\ f[j][INPUT] = a
                           /\ \A k \in 1 .. j : nm[k] \in DOMAIN f[j] /\ f[j][nm[k]] = v[k]
<1> DEFINE G(j) == /\ INPUT \in DOMAIN f[j] /\ f[j][INPUT] = a
                   /\ \A k \in 1 .. j : nm[k] \in DOMAIN f[j] /\ f[j][nm[k]] = v[k]
           Bad == {j \in 0 .. n : ~G(j)}
<1> /\ n \in Nat
    /\ f[0] = [y \in {INPUT} |-> a]
    /\ \A i \in 1 .. n : f[i] = Put(f[i - 1], nm[i], v[i])
    /\ \A i \in 1 .. n : nm[i] # INPUT
    /\ \A i, j \in 1 .. n : nm[i] = nm[j] => i = j
  BY DEF Grows
<1>1. Bad = {}
  <2> SUFFICES ASSUME Bad # {} PROVE FALSE
    OBVIOUS
  <2>1. Bad \in SUBSET Nat
    OBVIOUS
  <2>2. PICK m \in Bad : \A k \in Bad : m <= k
    BY <2>1, Least
  <2>3. m \in 0 .. n /\ ~G(m)
    BY <2>2
  <2>4. m # 0
    <3>1. G(0)
      OBVIOUS
    <3> HIDE DEF G
    <3> QED BY <2>3, <3>1
  <2>5. m \in 1 .. n /\ m - 1 \in 0 .. n /\ ~(m <= m - 1)
    BY <2>3, <2>4
  <2>6. G(m - 1)
    <3> HIDE DEF G
    <3> QED BY <2>2, <2>5
  <2> DEFINE g == f[m - 1]
             x == nm[m]
  <2>7. f[m] = [y \in DOMAIN g \cup {x} |-> IF y = x THEN v[m] ELSE g[y]]
    BY <2>5 DEF Put
  <2>8. INPUT \in DOMAIN g /\ g[INPUT] = a /\ INPUT # x
    BY <2>5, <2>6
  <2>9. \A k \in 1 .. m - 1 : nm[k] \in DOMAIN g /\ g[nm[k]] = v[k] /\ nm[k] # x
    <3>1. \A k \in 1 .. m - 1 : k \in 1 .. n /\ k # m
      BY <2>5
    <3> QED BY <2>5, <2>6, <3>1
  <2>10. \A k \in 1 .. m : k \in 1 .. m - 1 \/ k = m
    BY <2>5
  <2> HIDE DEF g, x
  <2>11. \A k \in 1 .. m - 1 : nm[k] \in DOMAIN f[m] /\ f[m][nm[k]] = v[k]
    BY <2>7, <2>9
  <2>12. nm[m] \in DOMAIN f[m] /\ f[m][nm[m]] = v[m]
    BY <2>7 DEF x
  <2>13. INPUT \in DOMAIN f[m] /\ f[m][INPUT] = a
    BY <2>7, <2>8
  <2>14. G(m)
    BY <2>10, <2>11, <2>12, <2>13
  <2> QED BY <2>3, <2>14
<1>2. \A j \in 0 .. n : G(j)
  <2> HIDE DEF G
  <2> QED BY <1>1
<1> QED
  BY <1>2

\* A chain of matmuls whose stages have names of their own, and with no empty shape.
Plain(K) ==
  /\ is_chain(K)
  /\ \A i \in DOMAIN K.stages : K.stages[i].name # INPUT /\ K.stages[i].weight[2] > 0
  /\ \A i, j \in DOMAIN K.stages : K.stages[i].name = K.stages[j].name => i = j
  /\ K.x[1] > 0 /\ K.x[2] > 0

\* The columns of the value of stage i, or of the input.
Width(K, i) == IF i = 0 THEN K.x[2] ELSE K.stages[i].weight[2]

\* The shapes of a plain chain.
LEMMA PlainTyped ==
  ASSUME NEW K \in KernelType, Plain(K)
  PROVE  /\ Len(K.stages) \in Nat /\ DOMAIN K.stages = 1 .. Len(K.stages) /\ Listed(K.stages)
         /\ K.x \in Nat \X Nat /\ K.x[1] \in Nat \ {0}
         /\ \A i \in 0 .. Len(K.stages) : Width(K, i) \in Nat \ {0}
         /\ \A i \in 1 .. Len(K.stages) :
              /\ on_mesh(K.stages[i]) /\ K.stages[i].weight # <<>>
              /\ Lhs(K, i) = (IF i = 1 THEN INPUT ELSE K.stages[i - 1].name)
              /\ K.stages[i].name # INPUT
<1>1. /\ Listed(K.stages)
      /\ Len(K.stages) \in Nat /\ DOMAIN K.stages = 1 .. Len(K.stages)
      /\ K.x \in Nat \X Nat
      /\ \A j \in 1 .. Len(K.stages) : K.stages[j].weight \in {<<>>} \cup Nat \X Nat
  BY KernelTyped
<1>2. \A i \in 1 .. Len(K.stages) :
              /\ on_mesh(K.stages[i]) /\ K.stages[i].weight # <<>>
              /\ Lhs(K, i) = (IF i = 1 THEN INPUT ELSE K.stages[i - 1].name)
              /\ K.stages[i].name # INPUT
  BY <1>1 DEF Plain, is_chain, Prev
<1>3. \A i \in 1 .. Len(K.stages) : K.stages[i].weight[2] \in Nat \ {0}
  <2> SUFFICES ASSUME NEW i \in 1 .. Len(K.stages) PROVE K.stages[i].weight[2] \in Nat \ {0}
    OBVIOUS
  <2>1. K.stages[i].weight \in Nat \X Nat
    BY <1>1, <1>2
  <2>2. K.stages[i].weight[2] > 0
    BY <1>1 DEF Plain
  <2> QED BY <2>1, <2>2
<1>4. K.x[1] \in Nat \ {0} /\ K.x[2] \in Nat \ {0}
  BY <1>1 DEF Plain
<1>5. \A i \in 0 .. Len(K.stages) : Width(K, i) \in Nat \ {0}
  <2> SUFFICES ASSUME NEW i \in 0 .. Len(K.stages) PROVE Width(K, i) \in Nat \ {0}
    OBVIOUS
  <2>1. i = 0 \/ i \in 1 .. Len(K.stages)
    BY <1>1
  <2> QED BY <1>3, <1>4, <2>1 DEF Width
<1> QED
  BY <1>1, <1>2, <1>4, <1>5

\* The shapes of a chain.
LEMMA ChainShapes ==
  ASSUME NEW K \in KernelType, Plain(K), NEW i \in 1 .. Len(K.stages)
  PROVE  stage_mnk(K, i) = <<K.x[1], Width(K, i - 1), Width(K, i)>>
<1> DEFINE n == Len(K.stages)
           x == K.x
<1>1. /\ n \in Nat /\ DOMAIN K.stages = 1 .. n
      /\ \A k \in 1 .. n :
              /\ on_mesh(K.stages[k]) /\ K.stages[k].weight # <<>>
              /\ Lhs(K, k) = (IF k = 1 THEN INPUT ELSE K.stages[k - 1].name)
              /\ K.stages[k].name # INPUT
      /\ x \in Nat \X Nat
  BY PlainTyped
<1>2. PICK f : /\ f = [j \in 0 .. n |-> IF j = 0 THEN [y \in {INPUT} |-> x]
                                        ELSE Put(f[j - 1], K.stages[j].name, ShapeOf(K, j, f[j - 1]))]
               /\ shapes(K) = f[n]
  BY <1>1, ShapesUnfold
<1> DEFINE nm == [j \in 1 .. n |-> K.stages[j].name]
           v == [j \in 1 .. n |-> ShapeOf(K, j, f[j - 1])]
           wd(j) == K.stages[j].weight[2]
<1>3. \A j \in 1 .. n : nm[j] = K.stages[j].name /\ v[j] = ShapeOf(K, j, f[j - 1])
  OBVIOUS
<1>4. \A j, k \in 1 .. n : nm[j] = nm[k] => j = k
  BY <1>1, <1>3 DEF Plain
<1> HIDE DEF n, nm, v, x
<1>5. f[0] = [y \in {INPUT} |-> x]
  BY <1>1, <1>2
<1>6. \A j \in 1 .. n : f[j] = Put(f[j - 1], nm[j], v[j])
  <2> SUFFICES ASSUME NEW j \in 1 .. n PROVE f[j] = Put(f[j - 1], nm[j], v[j])
    OBVIOUS
  <2>1. j \in 0 .. n /\ j # 0
    BY <1>1
  <2> QED BY <1>2, <1>3, <2>1
<1>7. \A j \in 1 .. n : nm[j] # INPUT
  BY <1>1, <1>3
<1>8. \A j \in 0 .. n : /\ INPUT \in DOMAIN f[j] /\ f[j][INPUT] = x
                        /\ \A k \in 1 .. j : nm[k] \in DOMAIN f[j] /\ f[j][nm[k]] = v[k]
  <2>1. Grows(n, f, nm, v, x)
    BY <1>1, <1>4, <1>5, <1>6, <1>7 DEF Grows
  <2> QED BY ONLY <2>1, Growing
<1>9. \A j \in 1 .. n : v[j] = <<IF j = 1 THEN x[1] ELSE v[j - 1][1], wd(j)>>
  <2> SUFFICES ASSUME NEW j \in 1 .. n PROVE v[j] = <<IF j = 1 THEN x[1] ELSE v[j - 1][1], wd(j)>>
    OBVIOUS
  <2>1. v[j] = <<f[j - 1][Lhs(K, j)][1], wd(j)>>
    BY <1>1, <1>3 DEF ShapeOf
  <2>2. CASE j = 1
    <3>1. Lhs(K, j) = INPUT /\ f[0][INPUT] = x /\ j - 1 = 0
      BY <1>1, <1>8, <2>2
    <3> QED BY <2>1, <2>2, <3>1
  <2>3. CASE j # 1
    <3>1. j - 1 \in 1 .. n /\ j - 1 \in 0 .. n /\ j - 1 \in 1 .. j - 1
      BY <1>1, <2>3
    <3>2. Lhs(K, j) = nm[j - 1]
      BY <1>1, <1>3, <2>3, <3>1
    <3>3. f[j - 1][nm[j - 1]] = v[j - 1]
      BY <1>8, <3>1
    <3> QED BY <2>1, <2>3, <3>2, <3>3
  <2> QED BY <2>2, <2>3
<1>10. \A j \in 1 .. n : v[j] = <<x[1], wd(j)>>
  <2> DEFINE Bad == {j \in 1 .. n : v[j] # <<x[1], wd(j)>>}
  <2> SUFFICES ASSUME Bad # {} PROVE FALSE
    OBVIOUS
  <2>1. Bad \in SUBSET Nat
    BY <1>1
  <2>2. PICK m \in Bad : \A k \in Bad : m <= k
    BY <2>1, Least
  <2>3. m \in 1 .. n /\ v[m] # <<x[1], wd(m)>>
    BY <2>2
  <2>4. CASE m = 1
    BY <1>9, <2>3, <2>4
  <2>5. CASE m # 1
    <3>1. m - 1 \in 1 .. n /\ ~(m <= m - 1)
      BY <1>1, <2>3, <2>5
    <3>2. v[m - 1] = <<x[1], wd(m - 1)>>
      BY <2>2, <3>1
    <3>3. v[m - 1][1] = x[1]
      BY <3>2
    <3> QED BY <1>9, <2>3, <2>5, <3>3
  <2> QED BY <2>4, <2>5
<1>11. i \in 1 .. n
  BY DEF n
<1>12. n \in 0 .. n /\ \A k \in 1 .. n : shapes(K)[nm[k]] = v[k]
  BY <1>1, <1>2, <1>8
<1>13. shapes(K)[INPUT] = x
  BY <1>2, <1>8, <1>12
<1>14. shapes(K)[K.stages[i].name] = <<x[1], wd(i)>>
  BY <1>3, <1>10, <1>11, <1>12
<1>15. shapes(K)[Lhs(K, i)] = <<x[1], Width(K, i - 1)>>
  <2>1. CASE i = 1
    <3>1. Lhs(K, i) = INPUT /\ x = <<x[1], x[2]>> /\ Width(K, 0) = x[2] /\ i - 1 = 0
      BY <1>1, <1>11, <2>1 DEF Width, x
    <3> QED BY <1>13, <3>1
  <2>2. CASE i # 1
    <3>1. i - 1 \in 1 .. n /\ i - 1 # 0
      BY <1>1, <1>11, <2>2
    <3>2. Lhs(K, i) = nm[i - 1]
      BY <1>1, <1>3, <1>11, <2>2, <3>1
    <3>3. Width(K, i - 1) = wd(i - 1)
      BY <3>1 DEF Width
    <3> QED BY <1>10, <1>12, <3>1, <3>2, <3>3
  <2> QED BY <2>1, <2>2
<1>16. Width(K, i) = wd(i)
  <2>1. i # 0
    BY <1>1, <1>11
  <2> QED BY <2>1 DEF Width
<1> QED
  BY <1>14, <1>15, <1>16 DEF stage_mnk, x

-----------------------------------------------------------------------------
(***************************************************************************)
(* The compiler: the commands of a chain, one at a time.                   *)
(***************************************************************************)
\* The commands of stage i of a chain on operands of format d.
Pack(i)        == Cmd("RES_PACK", Handle(i), WName(i), "", "", "")
Multiply(i)    == Cmd("MATMUL_RESIDENT", Acc(i), "", InName(i), Handle(i), "")
Keep(K, d, i)  == Cmd("COMMIT", OutName(K, i), Acc(i), "", "",
                      IF i = Len(K.stages) THEN BF16 ELSE FORMATS[d].mlir)
Evict(i)       == Cmd("EVICT", "", Handle(i), "", "", "")

\* The commands of stage i are four, at 4 * (i - 1) + 1.
LEMMA CommandsAre ==
  ASSUME NEW K, NEW d, Len(K.stages) \in Nat, NEW i \in 1 .. Len(K.stages)
  PROVE  LET cs == command_buffer(K, d).commands
             b == 4 * (i - 1)
         IN  cs[b + 1] = Pack(i) /\ cs[b + 2] = Multiply(i) /\ cs[b + 3] = Keep(K, d, i)
             /\ cs[b + 4] = Evict(i)
<1> DEFINE n == Len(K.stages)
           four(j) ==
             << Cmd("RES_PACK", Handle(j), WName(j), "", "", ""),
                Cmd("MATMUL_RESIDENT", Acc(j), "", InName(j), Handle(j), ""),
                Cmd("COMMIT", OutName(K, j), Acc(j), "", "", IF j = n THEN BF16 ELSE FORMATS[d].mlir),
                Cmd("EVICT", "", Handle(j), "", "", "") >>
           b == 4 * (i - 1)
           cs == command_buffer(K, d).commands
<1>1. cs = [c \in 1 .. 4 * n |-> four((c - 1) \div 4 + 1)[((c - 1) % 4) + 1]]
  BY DEF command_buffer
<1>2. n \in Nat /\ i \in 1 .. n
  OBVIOUS
<1>3. /\ four(i)[1] = Pack(i) /\ four(i)[2] = Multiply(i) /\ four(i)[3] = Keep(K, d, i)
      /\ four(i)[4] = Evict(i)
  BY DEF Pack, Multiply, Keep, Evict
<1> HIDE DEF cs, four, n
<1>4. ASSUME NEW r \in 1 .. 4 PROVE cs[b + r] = four(i)[r]
  <2>1. b + r \in 1 .. 4 * n
    BY <1>2
  <2>2. (b + r - 1) \div 4 = i - 1 /\ (b + r - 1) % 4 = r - 1
    BY <1>2
  <2>3. (b + r - 1) \div 4 + 1 = i /\ ((b + r - 1) % 4) + 1 = r
    BY <1>2, <2>2
  <2> QED BY <1>1, <2>1, <2>3
<1>5. 1 \in 1 .. 4 /\ 2 \in 1 .. 4 /\ 3 \in 1 .. 4 /\ 4 \in 1 .. 4
  OBVIOUS
<1> HIDE DEF b
<1> QED
  BY <1>3, <1>4, <1>5 DEF b, cs

\* Planning one command after the other.
Loops(n, f, cs, P) == n \in Nat /\ \A c \in 1 .. n : f[c] = PlanCommand(f[c - 1], cs[c], P)

\* What was not refused in the end was never refused.
LEMMA RefusalStays ==
  ASSUME NEW n, NEW f, NEW cs, NEW P, Loops(n, f, cs, P), f[n].why = "", NEW c \in 0 .. n
  PROVE  f[c].why = ""
<1>1. n \in Nat /\ \A k \in 1 .. n : f[k] = PlanCommand(f[k - 1], cs[k], P)
  BY DEF Loops
<1> SUFFICES ASSUME f[c].why # "" PROVE FALSE
  OBVIOUS
<1> DEFINE good(k) == f[k].why = ""
           Good == {k \in c .. n : good(k)}
<1>0. good(n) /\ ~good(c)
  OBVIOUS
<1>9. n \in Nat /\ c \in 0 .. n
  BY <1>1
<1> HIDE DEF good
<1>2. n \in Good /\ Good \in SUBSET Nat
  <2>1. n \in c .. n
    BY ONLY <1>9
  <2>2. \A k \in c .. n : k \in Nat
    BY ONLY <1>9
  <2> QED BY ONLY <1>0, <2>1, <2>2
<1>3. PICK m \in Good : \A k \in Good : m <= k
  BY <1>2, Least
<1>4. m \in c .. n /\ good(m) /\ m # c
  BY <1>0, <1>3
<1>5. m - 1 \in c .. n /\ m \in 1 .. n /\ ~(m <= m - 1)
  BY ONLY <1>9, <1>4
<1>6. ~good(m - 1)
  BY <1>3, <1>5
<1>7. f[m] = f[m - 1]
  BY <1>1, <1>5, <1>6 DEF PlanCommand, good
<1> QED
  BY <1>4, <1>6, <1>7 DEF good

\* The planner's state, by its fields.
Fields(t, r, p, l, y) == [tensors |-> t, res_src |-> r, pending |-> p, plans |-> l, why |-> y]

\* A state is its fields.
LEMMA StateFields ==
  ASSUME NEW s, PlanState(s)
  PROVE  s = Fields(s.tensors, s.res_src, s.pending, s.plans, s.why)
BY DEF PlanState, Fields

\* The fields after a weight was noted,
LEMMA PackedFields ==
  ASSUME NEW s, PlanState(s), NEW v
  PROVE  /\ WithPacked(s, v).tensors = s.tensors /\ WithPacked(s, v).plans = s.plans
         /\ WithPacked(s, v).res_src = v
<1>1. WithPacked(s, v) = Fields(s.tensors, v, s.pending, s.plans, s.why)
  BY StateFields DEF WithPacked, Fields
<1> QED
  BY ONLY <1>1 DEF Fields

\* a product was noted,
LEMMA PendingFields ==
  ASSUME NEW s, PlanState(s), NEW v
  PROVE  /\ WithPending(s, v).tensors = s.tensors /\ WithPending(s, v).plans = s.plans
         /\ WithPending(s, v).res_src = s.res_src /\ WithPending(s, v).pending = v
<1>1. WithPending(s, v) = Fields(s.tensors, s.res_src, v, s.plans, s.why)
  BY StateFields DEF WithPending, Fields
<1> QED
  BY ONLY <1>1 DEF Fields

\* a command was refused,
LEMMA WhyField ==
  ASSUME NEW s, PlanState(s), NEW v
  PROVE  WithWhy(s, v).why = v
<1>1. WithWhy(s, v) = Fields(s.tensors, s.res_src, s.pending, s.plans, v)
  BY StateFields DEF WithWhy, Fields
<1> QED
  BY ONLY <1>1 DEF Fields

\* and a plan was made.
LEMMA PlanFields ==
  ASSUME NEW s, PlanState(s), NEW v, NEW w
  PROVE  WithPlan(s, v, w).tensors = w /\ WithPlan(s, v, w).plans = Append(s.plans, v)
<1> DEFINE l == Append(s.plans, v)
<1>1. [s EXCEPT !.plans = Append(@, v)] = Fields(s.tensors, s.res_src, s.pending, l, s.why)
  BY StateFields DEF Fields
<1> HIDE DEF l
<1>2. [Fields(s.tensors, s.res_src, s.pending, l, s.why) EXCEPT !.tensors = w]
      = Fields(w, s.res_src, s.pending, l, s.why)
  BY DEF Fields
<1>3. WithPlan(s, v, w) = Fields(w, s.res_src, s.pending, l, s.why)
  BY <1>1, <1>2 DEF WithPlan, l
<1>4. WithPlan(s, v, w).tensors = w /\ WithPlan(s, v, w).plans = l
  BY ONLY <1>3 DEF Fields
<1> QED
  BY <1>4 DEF l

\* RES_PACK notes the weight of stage i.
LEMMA PackedNext ==
  ASSUME NEW s, PlanState(s), s.why = "", NEW i, NEW P
  PROVE  LET t == PlanCommand(s, Pack(i), P)
         IN  /\ PlanState(t) /\ t.tensors = s.tensors /\ t.plans = s.plans
             /\ t.res_src = Put(s.res_src, Handle(i), WName(i))
<1> DEFINE v == Put(s.res_src, Handle(i), WName(i))
<1>1. PlanCommand(s, Pack(i), P) = WithPacked(s, v)
  BY DEF PlanCommand, Pack, Cmd, WithPacked
<1> HIDE DEF v
<1>2. PlanState(WithPacked(s, v))
  BY StateReplaced
<1>3. /\ WithPacked(s, v).tensors = s.tensors
      /\ WithPacked(s, v).plans = s.plans /\ WithPacked(s, v).res_src = v
  BY PackedFields
<1> QED
  BY <1>1, <1>2, <1>3 DEF v

\* MATMUL_RESIDENT notes its product.
LEMMA MultipliedNext ==
  ASSUME NEW s, PlanState(s), s.why = "", NEW i, NEW P,
         s.res_src[Handle(i)] = WName(i), Handle(i) \in DOMAIN s.res_src
  PROVE  LET t == PlanCommand(s, Multiply(i), P)
         IN  /\ PlanState(t) /\ t.tensors = s.tensors /\ t.plans = s.plans
             /\ Acc(i) \in DOMAIN t.pending /\ t.pending[Acc(i)] = <<InName(i), WName(i)>>
<1> DEFINE x == <<InName(i), WName(i)>>
           v == Put(s.pending, Acc(i), x)
<1>1. PlanCommand(s, Multiply(i), P) = WithPending(s, v)
  <2>1. /\ Multiply(i).opcode = "MATMUL_RESIDENT" /\ Multiply(i).dst = Acc(i)
        /\ Multiply(i).lhs = InName(i) /\ Multiply(i).rhs = Handle(i)
    BY DEF Multiply, Cmd
  <2> QED BY <2>1 DEF PlanCommand, WithPending
<1>2. Acc(i) \in DOMAIN v /\ v[Acc(i)] = x
  <2> HIDE DEF x
  <2> QED BY DEF Put
<1> HIDE DEF v, x
<1>5. PlanState(WithPending(s, v))
  BY StateReplaced
<1>3. /\ WithPending(s, v).tensors = s.tensors
      /\ WithPending(s, v).plans = s.plans /\ WithPending(s, v).pending = v
  BY PendingFields
<1>4. Acc(i) \in DOMAIN WithPending(s, v).pending /\ WithPending(s, v).pending[Acc(i)] = x
  BY <1>2, <1>3
<1> QED
  BY <1>1, <1>3, <1>4, <1>5 DEF x

\* The planner before the COMMIT of stage i, which is not refused,
Committing(s, K, d, i, P) ==
  /\ PlanState(s) /\ s.why = ""
  /\ Acc(i) \in DOMAIN s.pending /\ s.pending[Acc(i)] = <<InName(i), WName(i)>>
  /\ PlanCommand(s, Keep(K, d, i), P).why = ""

\* and after it.
CommittedTo(t, s, K, d, i, P) ==
  LET c == Keep(K, d, i)
      p == MxGemmPlan(s.tensors[InName(i)], s.tensors[WName(i)], InName(i), WName(i), c, P)
  IN  /\ PlanState(t) /\ PlanRefusal(p, P) = ""
      /\ t.plans = Append(s.plans, p)
      /\ t.tensors = Put(s.tensors, c.dst, [shape |-> <<p.m, p.n>>, dtype |-> c.dtype])

\* COMMIT makes the plan of stage i.
LEMMA KeptNext ==
  ASSUME NEW s, NEW K, NEW d, NEW i, NEW P, Committing(s, K, d, i, P)
  PROVE  CommittedTo(PlanCommand(s, Keep(K, d, i), P), s, K, d, i, P)
<1> DEFINE c == Keep(K, d, i)
           lhs == InName(i)
           weight == WName(i)
           t == PlanCommand(s, c, P)
           u == WithPending(s, Drop(s.pending, Acc(i)))
           p == MxGemmPlan(s.tensors[lhs], s.tensors[weight], lhs, weight, c, P)
<1>0. /\ PlanState(s) /\ s.why = ""
      /\ Acc(i) \in DOMAIN s.pending /\ s.pending[Acc(i)] = <<InName(i), WName(i)>>
      /\ t.why = ""
  BY DEF Committing
<1>1. c.opcode = "COMMIT" /\ c.src = Acc(i)
  BY DEF Keep, Cmd
<1>2. t = _plan_stage(u, lhs, weight, c, P)
  <2>1. s.pending[Acc(i)][1] = lhs /\ s.pending[Acc(i)][2] = weight
    <3>1. s.pending[Acc(i)] = <<lhs, weight>>
      BY <1>0
    <3> HIDE DEF lhs, weight
    <3> QED BY ONLY <3>1
  <2> HIDE DEF c, lhs, weight
  <2> QED BY <1>0, <1>1, <2>1 DEF PlanCommand, WithPending
<1>3. PlanState(u) /\ u.tensors = s.tensors /\ u.plans = s.plans
  <2> DEFINE v == Drop(s.pending, Acc(i))
  <2> HIDE DEF v
  <2>0. PlanState(s)
    BY <1>0
  <2>1. PlanState(WithPending(s, v))
    BY <2>0, StateReplaced
  <2>2. WithPending(s, v).tensors = s.tensors /\ WithPending(s, v).plans = s.plans
    BY <2>0, PendingFields
  <2> QED BY <2>1, <2>2 DEF v
<1> HIDE DEF c, lhs, weight, u
<1>4. \/ t = WithWhy(u, "missing tensor")
      \/ t = WithWhy(u, "not a chain")
      \/ t = WithWhy(u, "contraction mismatch")
      \/ t = Staged(u, p, PlanRefusal(p, P), c)
  BY <1>2, <1>3 DEF _plan_stage, StageOf, WithWhy
<1> HIDE DEF t, p
<1>5. /\ WithWhy(u, "missing tensor").why # "" /\ WithWhy(u, "not a chain").why # ""
      /\ WithWhy(u, "contraction mismatch").why # ""
  <2>1. WithWhy(u, "missing tensor").why = "missing tensor"
    BY <1>3, WhyField
  <2>2. WithWhy(u, "not a chain").why = "not a chain"
    BY <1>3, WhyField
  <2>3. WithWhy(u, "contraction mismatch").why = "contraction mismatch"
    BY <1>3, WhyField
  <2> QED BY <2>1, <2>2, <2>3
<1>6. t.why = ""
  BY <1>0 DEF t, c
<1>7. t = Staged(u, p, PlanRefusal(p, P), c)
  BY ONLY <1>4, <1>5, <1>6
<1>8. PlanRefusal(p, P) = ""
  <2> DEFINE why == PlanRefusal(p, P)
  <2> HIDE DEF why
  <2>1. why # "" => Staged(u, p, why, c) = WithWhy(u, why)
    BY DEF Staged, WithWhy
  <2>2. t = Staged(u, p, why, c)
    BY <1>7 DEF why
  <2>4. WithWhy(u, why).why = why
    BY <1>3, WhyField
  <2>3. why = ""
    BY <2>4, <1>6, <2>1, <2>2
  <2> QED BY <2>3 DEF why
<1> DEFINE w == Put(u.tensors, c.dst, [shape |-> <<p.m, p.n>>, dtype |-> c.dtype])
<1>9. t = WithPlan(u, p, w)
  BY <1>7, <1>8 DEF Staged, WithPlan
<1> HIDE DEF w
<1>11. PlanState(WithPlan(u, p, w)) /\ WithPlan(u, p, w).plans = Append(u.plans, p)
       /\ WithPlan(u, p, w).tensors = w
  <2>1. PlanState(WithPlan(u, p, w))
    BY <1>3, StateReplaced
  <2>2. WithPlan(u, p, w).plans = Append(u.plans, p) /\ WithPlan(u, p, w).tensors = w
    <3>1. PlanState(u)
      BY <1>3
    <3> QED BY ONLY <3>1, PlanFields
  <2> QED BY <2>1, <2>2
<1>10. PlanState(t) /\ t.plans = Append(u.plans, p) /\ t.tensors = w
  BY <1>9, <1>11
<1> QED
  BY <1>3, <1>8, <1>10 DEF CommittedTo, t, c, p, w, lhs, weight

\* EVICT changes no plan.
LEMMA EvictedNext ==
  ASSUME NEW s, PlanState(s), s.why = "", NEW i, NEW P
  PROVE  LET t == PlanCommand(s, Evict(i), P)
         IN  PlanState(t) /\ t.tensors = s.tensors /\ t.plans = s.plans
<1> DEFINE v == Drop(s.res_src, Handle(i))
<1>1. PlanCommand(s, Evict(i), P) = WithPacked(s, v)
  BY DEF PlanCommand, Evict, Cmd, WithPacked
<1> HIDE DEF v
<1>2. PlanState(WithPacked(s, v))
  BY StateReplaced
<1>3. WithPacked(s, v).tensors = s.tensors /\ WithPacked(s, v).plans = s.plans
  BY PackedFields
<1> QED
  BY <1>1, <1>2, <1>3

-----------------------------------------------------------------------------
(***************************************************************************)
(* The compiler: the plans the commands make.                              *)
(***************************************************************************)
\* The plan of stage i, before memory is assigned.
PlanOf(K, d, P, i) ==
  [m |-> K.x[1], k |-> Width(K, i - 1), n |-> Width(K, i), act_fmt |-> d, wgt_fmt |-> d,
   out_fmt |-> IF i = Len(K.stages) THEN BF16 ELSE d,
   lhs |-> InName(i), weight |-> WName(i), out |-> OutName(K, i),
   dim |-> P.dim, rows |-> spad_rows(P), spad_dest |-> spad_dest, a_spad |-> 0,
   chained_in |-> FALSE, chained_out |-> FALSE]

\* An operand of a rows and b columns.
Tensor(d, a, b) == [shape |-> <<a, b>>, dtype |-> FORMATS[d].mlir]

\* The plan COMMIT makes of the shapes of stage i.
LEMMA StagePlan ==
  ASSUME NEW K, NEW d \in DOMAIN FORMATS, NEW P, NEW i
  PROVE  MxGemmPlan(Tensor(d, K.x[1], Width(K, i - 1)), Tensor(d, Width(K, i - 1), Width(K, i)),
                    InName(i), WName(i), Keep(K, d, i), P) = PlanOf(K, d, P, i)
<1> DEFINE c == Keep(K, d, i)
           mlir == FORMATS[d].mlir
           a == K.x[1]
           b == Width(K, i - 1)
           e == Width(K, i)
           last == i = Len(K.stages)
<1>1. get(mlir) = d /\ mlir # BF16
  BY FormatFacts
<1>2. c.dst = OutName(K, i) /\ c.dtype = (IF last THEN BF16 ELSE mlir)
  BY DEF Keep, Cmd
<1> HIDE DEF c, mlir, a, b, e
<1>3. (IF c.dtype = BF16 THEN BF16 ELSE get(c.dtype)) = (IF last THEN BF16 ELSE d)
  BY <1>1, <1>2
<1> DEFINE A == Tensor(d, a, b)
           W == Tensor(d, b, e)
<1>4. A.shape[1] = a /\ A.shape[2] = b /\ W.shape[2] = e /\ A.dtype = mlir /\ W.dtype = mlir
  BY DEF Tensor, mlir
<1> HIDE DEF A, W
<1>5. MxGemmPlan(A, W, InName(i), WName(i), c, P) = PlanOf(K, d, P, i)
  BY <1>1, <1>2, <1>3, <1>4 DEF MxGemmPlan, PlanOf, a, b, e
<1> QED
  BY <1>5 DEF A, W, a, b, c, e

\* The planner after the commands of i stages.
After(K, d, P, i, s) ==
  /\ PlanState(s) /\ Len(s.plans) = i
  /\ \A j \in 1 .. i : s.plans[j] = PlanOf(K, d, P, j) /\ PlanRefusal(PlanOf(K, d, P, j), P) = ""
  /\ \A j \in 1 .. Len(K.stages) : /\ WName(j) \in DOMAIN s.tensors
                                   /\ s.tensors[WName(j)] = Tensor(d, Width(K, j - 1), Width(K, j))
  /\ i < Len(K.stages) => s.tensors[InName(i + 1)] = Tensor(d, K.x[1], Width(K, i))

\* The tensors the command buffer starts with.
LEMMA TensorsAre ==
  ASSUME NEW K \in KernelType, Plain(K), NEW d
  PROVE  LET t == command_buffer(K, d).tensors
         IN  /\ \A j \in 1 .. Len(K.stages) : /\ WName(j) \in DOMAIN t
                                              /\ t[WName(j)] = Tensor(d, Width(K, j - 1), Width(K, j))
             /\ t[XName] = Tensor(d, K.x[1], Width(K, 0))
<1> DEFINE n == Len(K.stages)
           t == command_buffer(K, d).tensors
           leaf(shape) == [shape |-> shape, dtype |-> FORMATS[d].mlir]
           W == {WName(j) : j \in 1 .. n}
           g == [w \in W |-> leaf(Tail(stage_mnk(K, w[2])))]
<1>1. t = Put(g, XName, leaf(K.x))
  BY DEF command_buffer
<1>2. \A j : WName(j) # XName /\ WName(j)[2] = j
  BY DEF WName, XName
<1>3. \A j \in 1 .. n : g[WName(j)] = Tensor(d, Width(K, j - 1), Width(K, j))
  <2> SUFFICES ASSUME NEW j \in 1 .. n PROVE g[WName(j)] = Tensor(d, Width(K, j - 1), Width(K, j))
    OBVIOUS
  <2>1. g[WName(j)] = leaf(Tail(stage_mnk(K, j)))
    BY <1>2
  <2>2. stage_mnk(K, j) = <<K.x[1], Width(K, j - 1), Width(K, j)>>
    BY ChainShapes
  <2>3. Tail(<<K.x[1], Width(K, j - 1), Width(K, j)>>) = <<Width(K, j - 1), Width(K, j)>>
    <3> DEFINE a == K.x[1]
               b == Width(K, j - 1)
               e == Width(K, j)
    <3> HIDE DEF a, b, e
    <3>1. Tail(<<a, b, e>>) = <<b, e>>
      OBVIOUS
    <3> QED BY <3>1 DEF a, b, e
  <2> QED BY <2>1, <2>2, <2>3 DEF Tensor
<1>4. leaf(K.x) = Tensor(d, K.x[1], Width(K, 0))
  <2>1. K.x = <<K.x[1], K.x[2]>>
    BY PlainTyped
  <2> QED BY <2>1 DEF Tensor, Width
<1> HIDE DEF t, g, leaf
<1>5. DOMAIN g = W
  BY DEF g
<1>6. t[XName] = leaf(K.x)
  BY <1>1 DEF Put
<1>7. \A j \in 1 .. n : WName(j) \in DOMAIN t /\ t[WName(j)] = g[WName(j)]
  BY <1>1, <1>2, <1>5 DEF Put
<1> QED
  BY <1>3, <1>4, <1>6, <1>7 DEF t

\* The planner starts after none.
LEMMA FirstState ==
  ASSUME NEW K \in KernelType, Plain(K), NEW d, NEW P
  PROVE  After(K, d, P, 0, [tensors |-> command_buffer(K, d).tensors, res_src |-> <<>>,
                            pending |-> <<>>, plans |-> <<>>, why |-> ""])
<1> DEFINE s == [tensors |-> command_buffer(K, d).tensors, res_src |-> <<>>,
                 pending |-> <<>>, plans |-> <<>>, why |-> ""]
<1>1. PlanState(s)
  BY Short DEF PlanState
<1>2. Len(s.plans) = 0 /\ s.tensors = command_buffer(K, d).tensors
  OBVIOUS
<1>3. /\ \A j \in 1 .. Len(K.stages) : /\ WName(j) \in DOMAIN s.tensors
                                       /\ s.tensors[WName(j)] = Tensor(d, Width(K, j - 1), Width(K, j))
      /\ s.tensors[XName] = Tensor(d, K.x[1], Width(K, 0))
  BY <1>2, TensorsAre
<1>4. InName(0 + 1) = XName
  BY DEF InName
<1> HIDE DEF s
<1>5. After(K, d, P, 0, s)
  BY <1>1, <1>2, <1>3, <1>4 DEF After
<1> QED
  BY <1>5 DEF s

\* The planner through the four commands of stage i.
Staging(K, d, P, i, s0, s1, s2, s3, s4) ==
  /\ s0.why = "" /\ s1.why = "" /\ s2.why = "" /\ s3.why = ""
  /\ s1 = PlanCommand(s0, Pack(i), P)
  /\ s2 = PlanCommand(s1, Multiply(i), P)
  /\ s3 = PlanCommand(s2, Keep(K, d, i), P)
  /\ s4 = PlanCommand(s3, Evict(i), P)

\* The commands of a stage take it from one stage to the next.
LEMMA StageAfter ==
  ASSUME NEW K, Len(K.stages) \in Nat, NEW d \in DOMAIN FORMATS, NEW P, NEW i \in 1 .. Len(K.stages),
         NEW s0, NEW s1, NEW s2, NEW s3, NEW s4,
         After(K, d, P, i - 1, s0), Staging(K, d, P, i, s0, s1, s2, s3, s4)
  PROVE  After(K, d, P, i, s4)
<1> DEFINE n == Len(K.stages)
           c == Keep(K, d, i)
           p == PlanOf(K, d, P, i)
<1>0. n \in Nat /\ i \in 1 .. n /\ i - 1 \in Nat /\ i - 1 < n /\ (i - 1) + 1 = i
      /\ (i < n => i # n /\ i + 1 # 1 /\ (i + 1) - 1 = i)
  OBVIOUS
<1>1. PlanState(s0) /\ Len(s0.plans) = i - 1
      /\ \A j \in 1 .. i - 1 : s0.plans[j] = PlanOf(K, d, P, j) /\ PlanRefusal(PlanOf(K, d, P, j), P) = ""
  BY DEF After
<1>2. PlanState(s1) /\ s1.tensors = s0.tensors /\ s1.plans = s0.plans
      /\ s1.res_src = Put(s0.res_src, Handle(i), WName(i))
  <2>1. s1 = PlanCommand(s0, Pack(i), P) /\ s0.why = "" /\ PlanState(s0)
    BY <1>1 DEF Staging
  <2> QED BY ONLY <2>1, PackedNext
<1>3. s1.res_src[Handle(i)] = WName(i) /\ Handle(i) \in DOMAIN s1.res_src
  BY ONLY <1>2 DEF Put
<1>4. /\ PlanState(s2) /\ s2.tensors = s0.tensors /\ s2.plans = s0.plans
      /\ Acc(i) \in DOMAIN s2.pending /\ s2.pending[Acc(i)] = <<InName(i), WName(i)>>
  <2>1. s2 = PlanCommand(s1, Multiply(i), P) /\ s1.why = ""
    BY DEF Staging
  <2>3. PlanState(s1)
    BY <1>2
  <2>2. LET t == PlanCommand(s1, Multiply(i), P)
        IN  /\ PlanState(t) /\ t.tensors = s1.tensors /\ t.plans = s1.plans
            /\ Acc(i) \in DOMAIN t.pending /\ t.pending[Acc(i)] = <<InName(i), WName(i)>>
    BY ONLY <1>3, <2>1, <2>3, MultipliedNext
  <2> QED BY ONLY <1>2, <2>1, <2>2
<1>5. /\ s0.tensors[WName(i)] = Tensor(d, Width(K, i - 1), Width(K, i))
      /\ s0.tensors[InName(i)] = Tensor(d, K.x[1], Width(K, i - 1))
  BY <1>0 DEF After
<1>6. MxGemmPlan(s2.tensors[InName(i)], s2.tensors[WName(i)], InName(i), WName(i), c, P) = p
  BY <1>4, <1>5, StagePlan
<1>7. /\ PlanState(s3) /\ PlanRefusal(p, P) = "" /\ s3.plans = Append(s2.plans, p)
      /\ s3.tensors = Put(s2.tensors, c.dst, [shape |-> <<p.m, p.n>>, dtype |-> c.dtype])
  <2> DEFINE q == MxGemmPlan(s2.tensors[InName(i)], s2.tensors[WName(i)], InName(i), WName(i), c, P)
  <2>3. s3 = PlanCommand(s2, Keep(K, d, i), P) /\ s2.why = "" /\ s3.why = ""
    BY DEF Staging
  <2>4. PlanCommand(s2, Keep(K, d, i), P).why = ""
    BY ONLY <2>3
  <2>5. Committing(s2, K, d, i, P)
    BY ONLY <1>4, <2>3, <2>4 DEF Committing
  <2>6. CommittedTo(PlanCommand(s2, Keep(K, d, i), P), s2, K, d, i, P)
    BY ONLY <2>5, KeptNext
  <2>7. CommittedTo(s3, s2, K, d, i, P)
    BY ONLY <2>3, <2>6
  <2>1. /\ PlanState(s3) /\ PlanRefusal(q, P) = "" /\ s3.plans = Append(s2.plans, q)
        /\ s3.tensors = Put(s2.tensors, c.dst, [shape |-> <<q.m, q.n>>, dtype |-> c.dtype])
    BY ONLY <2>7 DEF CommittedTo
  <2>2. q = p
    BY <1>6
  <2> HIDE DEF q, p, c
  <2> QED BY ONLY <2>1, <2>2
<1>8. PlanState(s4) /\ s4.tensors = s3.tensors /\ s4.plans = s3.plans
  <2>1. s4 = PlanCommand(s3, Evict(i), P) /\ s3.why = "" /\ PlanState(s3)
    BY <1>7 DEF Staging
  <2> QED BY ONLY <2>1, EvictedNext
<1>9. s4.plans = Append(s0.plans, p)
  BY <1>4, <1>7, <1>8
<1>10. Len(s4.plans) = i /\ s4.plans[i] = p /\ \A j \in 1 .. i - 1 : s4.plans[j] = s0.plans[j]
  <2>1. PICK S : s0.plans \in Seq(S)
    BY <1>1 DEF PlanState, Listed
  <2>5. i - 1 \in Nat /\ Len(s0.plans) = i - 1 /\ i \in Nat
    <3>1. Len(s0.plans) = i - 1
      BY <1>1
    <3>2. i - 1 \in Nat /\ i \in Nat
      BY ONLY <1>0
    <3> QED BY ONLY <3>1, <3>2
  <2> DEFINE q == s0.plans
             U == S \cup {p}
  <2>2. q \in Seq(U) /\ p \in U
    BY <2>1, SeqMonotonic
  <2>3. i - 1 \in Nat /\ Len(q) = i - 1 /\ i \in Nat
    BY ONLY <2>5
  <2> HIDE DEF p, q, U
  <2>4. Len(Append(q, p)) = i /\ Append(q, p)[i] = p /\ \A j \in 1 .. i - 1 : Append(q, p)[j] = q[j]
    BY ONLY <2>2, <2>3
  <2> QED BY <1>9, <2>4 DEF q
<1>11. c.dst = OutName(K, i) /\ (i < n => c.dtype = FORMATS[d].mlir)
  <2>1. c.dst = OutName(K, i)
        /\ c.dtype = (IF i = Len(K.stages) THEN BF16 ELSE FORMATS[d].mlir)
    BY DEF Keep, Cmd
  <2> QED BY ONLY <1>0, <2>1
<1>12. p.m = K.x[1] /\ p.n = Width(K, i)
  BY DEF PlanOf
<1> DEFINE v == [shape |-> <<p.m, p.n>>, dtype |-> c.dtype]
<1> HIDE DEF c, p
<1>13. s4.tensors = Put(s0.tensors, OutName(K, i), v)
  BY <1>4, <1>7, <1>8, <1>11
<1>14. i < n => v = Tensor(d, K.x[1], Width(K, i))
  BY <1>11, <1>12 DEF Tensor
<1>15. \A j : WName(j) # OutName(K, i)
  BY DEF WName, OutName, TName, YName
<1>16. i < n => OutName(K, i) = InName(i + 1)
  BY <1>0 DEF OutName, InName
<1> HIDE DEF v
<1>17. \A j \in 1 .. n : /\ WName(j) \in DOMAIN s4.tensors
                        /\ s4.tensors[WName(j)] = Tensor(d, Width(K, j - 1), Width(K, j))
  <2> SUFFICES ASSUME NEW j \in 1 .. n
               PROVE  /\ WName(j) \in DOMAIN s4.tensors
                      /\ s4.tensors[WName(j)] = Tensor(d, Width(K, j - 1), Width(K, j))
    OBVIOUS
  <2>1. WName(j) \in DOMAIN s0.tensors /\ s0.tensors[WName(j)] = Tensor(d, Width(K, j - 1), Width(K, j))
    BY DEF After
  <2>2. WName(j) # OutName(K, i)
    BY <1>15
  <2> QED BY ONLY <1>13, <2>1, <2>2 DEF Put
<1>18. i < n => s4.tensors[InName(i + 1)] = Tensor(d, K.x[1], Width(K, i))
  <2>1. s4.tensors[OutName(K, i)] = v
    BY ONLY <1>13 DEF Put
  <2> QED BY ONLY <2>1, <1>14, <1>16
<1>19. \A j \in 1 .. i : s4.plans[j] = PlanOf(K, d, P, j) /\ PlanRefusal(PlanOf(K, d, P, j), P) = ""
  <2>1. \A j \in 1 .. i : j \in 1 .. i - 1 \/ j = i
    BY <1>0
  <2>2. s4.plans[i] = PlanOf(K, d, P, i) /\ PlanRefusal(PlanOf(K, d, P, i), P) = ""
    BY <1>7, <1>10 DEF p
  <2> QED BY ONLY <1>1, <1>10, <2>1, <2>2
<1> QED
  BY <1>8, <1>10, <1>17, <1>18, <1>19 DEF After

\* The plans q of all the stages, none refused, before memory is assigned.
Unplaced(K, d, P, q) ==
  /\ Listed(q) /\ Len(q) = Len(K.stages)
  /\ \A i \in 1 .. Len(K.stages) : /\ q[i] = PlanOf(K, d, P, i)
                                   /\ PlanRefusal(PlanOf(K, d, P, i), P) = ""

\* They are what _assign_smem is given.
LEMMA ChainPlanned ==
  ASSUME NEW K \in KernelType, Plain(K), NEW d \in DOMAIN FORMATS, NEW P,
         plan_chain(command_buffer(K, d), P).why = ""
  PROVE  /\ Len(K.stages) \in Nat \ {0}
         /\ \E q : Unplaced(K, d, P, q) /\ plan_chain(command_buffer(K, d), P) = _assign_smem(q)
<1> DEFINE n == Len(K.stages)
           cb == command_buffer(K, d)
           cs == cb.commands
           N == 4 * n
           first == [tensors |-> cb.tensors, res_src |-> <<>>, pending |-> <<>>, plans |-> <<>>, why |-> ""]
<1>1. n \in Nat
  BY PlainTyped
<1>2. Len(cs) = N
  <2>1. cs = [c \in 1 .. 4 * n |-> cs[c]] /\ DOMAIN cs = 1 .. 4 * n
    BY DEF command_buffer
  <2>2. 4 * n \in Nat
    BY ONLY <1>1
  <2> QED BY <2>1, <2>2, ListOf
<1>3. N \in Nat
  BY ONLY <1>1
<1>4. PICK f : /\ f = [c \in 0 .. N |-> IF c = 0 THEN first ELSE PlanCommand(f[c - 1], cs[c], P)]
               /\ plan_chain(cb, P) = ChainOf(f[N])
  BY <1>2, <1>3, PlanUnfold
<1> HIDE DEF cs, first, n
<1>5. f[0] = first /\ \A c \in 1 .. N : f[c] = PlanCommand(f[c - 1], cs[c], P)
  BY ONLY <1>3, <1>4
<1>6. /\ ChainOf(f[N]).why = "" => f[N].why = ""
  BY DEF ChainOf
<1>7. f[N].why = ""
  <2> DEFINE a == plan_chain(cb, P)
             b == ChainOf(f[N])
  <2>1. a.why = "" /\ a = b /\ (b.why = "" => f[N].why = "")
    <3>1. a = b
      BY <1>4
    <3>2. b.why = "" => f[N].why = ""
      BY <1>6
    <3> QED BY ONLY <3>1, <3>2, plan_chain(command_buffer(K, d), P).why = ""
  <2> HIDE DEF a, b
  <2> QED BY ONLY <2>1
<1>8. Loops(N, f, cs, P)
  BY <1>3, <1>5 DEF Loops
<1>9. \A c \in 0 .. N : f[c].why = ""
  BY ONLY <1>7, <1>8, RefusalStays
<1> DEFINE Ok(i) == After(K, d, P, i, f[4 * i])
           Bad == {i \in 0 .. n : ~Ok(i)}
<1>10. Ok(0)
  <2>1. After(K, d, P, 0, first)
    BY FirstState DEF first
  <2>2. 4 * 0 = 0
    BY ONLY TRUE
  <2> QED BY ONLY <1>5, <2>1, <2>2
<1>11. ASSUME NEW i \in 1 .. n, Ok(i - 1) PROVE Ok(i)
  <2> DEFINE b == 4 * (i - 1)
  <2>1. /\ b \in 0 .. N /\ b + 1 \in 1 .. N /\ b + 2 \in 1 .. N /\ b + 3 \in 1 .. N /\ b + 4 \in 1 .. N
        /\ b + 1 \in 0 .. N /\ b + 2 \in 0 .. N /\ b + 3 \in 0 .. N /\ b + 4 \in 0 .. N
        /\ (b + 1) - 1 = b /\ (b + 2) - 1 = b + 1 /\ (b + 3) - 1 = b + 2 /\ (b + 4) - 1 = b + 3
        /\ b + 4 = 4 * i
    BY ONLY <1>1, i \in 1 .. n
  <2>2. cs[b + 1] = Pack(i) /\ cs[b + 2] = Multiply(i) /\ cs[b + 3] = Keep(K, d, i)
        /\ cs[b + 4] = Evict(i)
    BY <1>1, CommandsAre DEF cs, n
  <2> HIDE DEF b
  <2>3. Staging(K, d, P, i, f[b], f[b + 1], f[b + 2], f[b + 3], f[b + 4])
    <3>1. f[b].why = "" /\ f[b + 1].why = "" /\ f[b + 2].why = "" /\ f[b + 3].why = ""
      BY ONLY <1>9, <2>1
    <3>2. f[b + 1] = PlanCommand(f[b], Pack(i), P)
      BY ONLY <1>5, <2>1, <2>2
    <3>3. f[b + 2] = PlanCommand(f[b + 1], Multiply(i), P)
      BY ONLY <1>5, <2>1, <2>2
    <3>4. f[b + 3] = PlanCommand(f[b + 2], Keep(K, d, i), P)
      BY ONLY <1>5, <2>1, <2>2
    <3>5. f[b + 4] = PlanCommand(f[b + 3], Evict(i), P)
      BY ONLY <1>5, <2>1, <2>2
    <3> QED BY ONLY <3>1, <3>2, <3>3, <3>4, <3>5 DEF Staging
  <2>4. After(K, d, P, i - 1, f[b])
    BY <1>11 DEF b
  <2>5. After(K, d, P, i, f[b + 4])
    <3>1. Len(K.stages) \in Nat /\ i \in 1 .. Len(K.stages) /\ d \in DOMAIN FORMATS
      BY <1>1 DEF n
    <3> QED BY ONLY <2>3, <2>4, <3>1, StageAfter
  <2> QED BY <2>1, <2>5
<1>12. Ok(n)
  <2> HIDE DEF Ok
  <2>1. Bad = {}
    <3> SUFFICES ASSUME Bad # {} PROVE FALSE
      OBVIOUS
    <3>1. Bad \in SUBSET Nat
      BY ONLY <1>1
    <3>2. PICK m \in Bad : \A k \in Bad : m <= k
      BY <3>1, Least
    <3>3. m \in 0 .. n /\ ~Ok(m) /\ m # 0
      BY <1>10, <3>2
    <3>4. m \in 1 .. n /\ m - 1 \in 0 .. n /\ ~(m <= m - 1)
      BY ONLY <1>1, <3>3
    <3>5. Ok(m - 1)
      BY <3>2, <3>4
    <3> QED BY <1>11, <3>3, <3>4, <3>5
  <2>2. n \in 0 .. n
    BY ONLY <1>1
  <2> QED BY ONLY <2>1, <2>2
<1> DEFINE s == f[N]
           q == s.plans
<1>13. /\ Listed(q) /\ Len(q) = n
       /\ \A i \in 1 .. n : q[i] = PlanOf(K, d, P, i) /\ PlanRefusal(PlanOf(K, d, P, i), P) = ""
  BY <1>12 DEF After, PlanState
<1> HIDE DEF s
<1>14. ChainOf(s).why = ""
  BY <1>4 DEF s
<1>15. ChainOf(s) = _assign_smem(q) /\ q # <<>>
  <2>1. \A why : [why |-> why, plans |-> <<>>].why = why
    OBVIOUS
  <2> QED BY <1>14, <2>1 DEF ChainOf
<1>16. n # 0
  <2>1. PICK S : q \in Seq(S)
    BY <1>13 DEF Listed
  <2> QED BY <1>13, <1>15, <2>1, EmptySeq
<1>17. plan_chain(cb, P) = _assign_smem(q)
  BY <1>4, <1>15 DEF s
<1> HIDE DEF q
<1>18. Unplaced(K, d, P, q)
  BY <1>13 DEF Unplaced, n
<1> QED
  BY <1>1, <1>16, <1>17, <1>18 DEF n

-----------------------------------------------------------------------------
(***************************************************************************)
(* The compiler: where the plans put their results.                        *)
(***************************************************************************)
\* _assign_smem, from the destinations it computes.
AssignedBy(plans, dest) ==
  LET n == Len(plans)
      why == IF n = 1 THEN ""
             ELSE IF \E i \in 1 .. n : dest[i + 1] > plans[1].rows THEN "shared memory exhausted"
             ELSE IF \E i \in 1 .. n : dest[n + 1] > b_base(plans[i]) THEN "region overlaps B"
             ELSE ""
  IN  [why |-> why,
       plans |-> IF n = 1 THEN plans
                 ELSE [i \in 1 .. n |->
                        [plans[i] EXCEPT !.spad_dest = dest[i], !.chained_in = (i > 1),
                                         !.chained_out = (i < n),
                                         !.a_spad = IF i > 1 THEN dest[i - 1] ELSE 0]]]

\* The recursive function in _assign_smem exists, and satisfies its equation.
LEMMA DestUnfold ==
  ASSUME NEW plans, Len(plans) \in Nat
  PROVE  \E f : /\ f = [i \in 1 .. Len(plans) + 1 |->
                         IF i = 1 THEN plans[1].spad_dest ELSE f[i - 1] + smem_rows(plans[i - 1])]
                /\ _assign_smem(plans) = AssignedBy(plans, f)
<1> DEFINE first == plans[1].spad_dest
           more(d, i) == d + smem_rows(plans[i - 1])
           Solves(f, m) == f = [i \in 1 .. m + 1 |-> IF i = 1 THEN first ELSE more(f[i - 1], i)]
           Bad == {m \in Nat : ~\E f : Solves(f, m)}
<1> HIDE DEF first, more
<1>1. Bad = {}
  <2> SUFFICES ASSUME Bad # {} PROVE FALSE
    OBVIOUS
  <2>1. PICK m \in Bad : \A k \in Bad : m <= k
    BY Least
  <2>2. CASE m = 0
    <3>1. Solves([i \in 1 .. 0 + 1 |-> first], 0)
      OBVIOUS
    <3> QED BY <2>2, <3>1
  <2>3. CASE m # 0
    <3>0. m \in Nat /\ m - 1 \in Nat /\ ~(m <= m - 1) /\ (m - 1) + 1 = m
      BY <2>3
    <3>1. m - 1 \notin Bad
      BY <2>1, <3>0
    <3>2. PICK f : Solves(f, m - 1)
      BY <3>0, <3>1
    <3> DEFINE g == [i \in 1 .. m + 1 |-> IF i < m + 1 THEN f[i] ELSE more(f[m], m + 1)]
    <3>3. Solves(g, m)
      <4>1. \A i \in 1 .. m : f[i] = IF i = 1 THEN first ELSE more(f[i - 1], i)
        BY <3>0, <3>2
      <4>2. ASSUME NEW i \in 1 .. m + 1
            PROVE  g[i] = IF i = 1 THEN first ELSE more(g[i - 1], i)
        <5>1. CASE i < m + 1
          BY <3>0, <4>1, <5>1
        <5>2. CASE i = m + 1
          BY <3>0, <2>3, <5>2
        <5> QED BY <5>1, <5>2, <3>0
      <4> QED BY <4>2
    <3> QED BY <3>3, <3>0
  <2> QED BY <2>2, <2>3
<1>2. PICK h : Solves(h, Len(plans))
  BY <1>1
<1> DEFINE f == CHOOSE f : Solves(f, Len(plans))
<1>3. Solves(f, Len(plans))
  BY <1>2
<1>4. _assign_smem(plans) = AssignedBy(plans, f)
  BY DEF _assign_smem, AssignedBy, first, more
<1> QED BY <1>3, <1>4 DEF first, more

\* The plan of stage i, its result at a and its input at b.
FinalPlan(K, d, P, i, a, b) ==
  [m |-> K.x[1], k |-> Width(K, i - 1), n |-> Width(K, i), act_fmt |-> d, wgt_fmt |-> d,
   out_fmt |-> IF i = Len(K.stages) THEN BF16 ELSE d,
   lhs |-> InName(i), weight |-> WName(i), out |-> OutName(K, i),
   dim |-> P.dim, rows |-> spad_rows(P), spad_dest |-> a, a_spad |-> b,
   chained_in |-> (i > 1), chained_out |-> (i < Len(K.stages))]

\* It is what _assign_smem makes of the plan.
LEMMA PlanReplaced ==
  ASSUME NEW K, NEW d, NEW P, NEW i, NEW a, NEW b
  PROVE  [PlanOf(K, d, P, i) EXCEPT !.spad_dest = a, !.chained_in = (i > 1),
                                    !.chained_out = (i < Len(K.stages)), !.a_spad = b]
         = FinalPlan(K, d, P, i, a, b)
<1> DEFINE R(w, x, y, z) ==
  [m |-> K.x[1], k |-> Width(K, i - 1), n |-> Width(K, i), act_fmt |-> d, wgt_fmt |-> d,
   out_fmt |-> IF i = Len(K.stages) THEN BF16 ELSE d,
   lhs |-> InName(i), weight |-> WName(i), out |-> OutName(K, i),
   dim |-> P.dim, rows |-> spad_rows(P), spad_dest |-> w, a_spad |-> x, chained_in |-> y, chained_out |-> z]
<1>1. PlanOf(K, d, P, i) = R(spad_dest, 0, FALSE, FALSE)
  BY DEF PlanOf
<1>2. FinalPlan(K, d, P, i, a, b) = R(a, b, (i > 1), (i < Len(K.stages)))
  BY DEF FinalPlan
<1> DEFINE y == (i > 1)
           z == (i < Len(K.stages))
           s == spad_dest
           no == FALSE
<1> HIDE DEF y, z, s, no
<1>3. [R(s, 0, no, no) EXCEPT !.spad_dest = a] = R(a, 0, no, no)
  OBVIOUS
<1>4. [R(a, 0, no, no) EXCEPT !.chained_in = y] = R(a, 0, y, no)
  OBVIOUS
<1>5. [R(a, 0, y, no) EXCEPT !.chained_out = z] = R(a, 0, y, z)
  OBVIOUS
<1>6. [R(a, 0, y, z) EXCEPT !.a_spad = b] = R(a, b, y, z)
  OBVIOUS
<1> HIDE DEF R
<1> QED
  BY <1>1, <1>2, <1>3, <1>4, <1>5, <1>6 DEF y, z, s, no

\* Regions only grow.
LEMMA Grown ==
  ASSUME NEW n \in Nat, NEW f, NEW r,
         \A i \in 1 .. n : r[i] \in Nat, f[1] \in Nat,
         \A i \in 1 .. n : f[i + 1] = f[i] + r[i]
  PROVE  /\ \A i \in 1 .. n + 1 : f[i] \in Nat
         /\ \A i \in 1 .. n + 1, j \in 1 .. n + 1 : j <= i => f[j] <= f[i]
<1>1. \A i \in 1 .. n + 1 : f[i] \in Nat
  <2> DEFINE Bad == {i \in 1 .. n + 1 : f[i] \notin Nat}
  <2> SUFFICES ASSUME Bad # {} PROVE FALSE
    OBVIOUS
  <2>1. Bad \in SUBSET Nat
    OBVIOUS
  <2>2. PICK m \in Bad : \A k \in Bad : m <= k
    BY <2>1, Least
  <2>3. m \in 1 .. n + 1 /\ f[m] \notin Nat /\ m # 1
    BY <2>2
  <2>4. m - 1 \in 1 .. n /\ m - 1 \in 1 .. n + 1 /\ ~(m <= m - 1) /\ (m - 1) + 1 = m
    BY <2>3
  <2>5. f[m - 1] \in Nat
    BY <2>2, <2>4
  <2>6. f[m] = f[m - 1] + r[m - 1] /\ r[m - 1] \in Nat
    BY <2>4
  <2> QED BY <2>3, <2>5, <2>6
<1>2. ASSUME NEW j \in 1 .. n + 1 PROVE \A i \in 1 .. n + 1 : j <= i => f[j] <= f[i]
  <2> DEFINE Bad == {i \in j .. n + 1 : ~(f[j] <= f[i])}
  <2>0. Bad = {}
    <3> SUFFICES ASSUME Bad # {} PROVE FALSE
      OBVIOUS
    <3>1. Bad \in SUBSET Nat
      OBVIOUS
    <3>2. PICK m \in Bad : \A k \in Bad : m <= k
      BY <3>1, Least
    <3>3. m \in j .. n + 1 /\ ~(f[j] <= f[m]) /\ m # j
      BY <3>2, <1>1
    <3>4. m - 1 \in 1 .. n /\ m - 1 \in j .. n + 1 /\ ~(m <= m - 1) /\ (m - 1) + 1 = m
      BY <3>3
    <3>5. f[j] <= f[m - 1]
      BY <3>2, <3>4
    <3>6. f[m] = f[m - 1] + r[m - 1] /\ r[m - 1] \in Nat
      BY <3>4
    <3>7. f[j] \in Nat /\ f[m - 1] \in Nat /\ f[m] \in Nat
      BY <1>1, <3>3, <3>4
    <3> QED BY <3>3, <3>5, <3>6, <3>7
  <2> QED BY <2>0
<1> QED
  BY <1>1, <1>2

\* The rows _assign_smem keeps for the result of stage i.
Rows(K, i) == (K.x[1] * Width(K, i) + 15) \div 16

\* They are the rows of its plan.
LEMMA RowsOf ==
  ASSUME NEW K \in KernelType, Plain(K), NEW i \in 1 .. Len(K.stages), NEW p,
         p.m = K.x[1], p.n = Width(K, i), p.dim = 16
  PROVE  smem_rows(p) = Rows(K, i) /\ Rows(K, i) \in Nat
<1> DEFINE a == K.x[1]
           b == Width(K, i)
<1>1. a \in Nat /\ b \in Nat
  <2>1. i \in 0 .. Len(K.stages)
    BY PlainTyped
  <2> QED BY <2>1, PlainTyped
<1> HIDE DEF a, b
<1>2. a * b \in Nat
  BY <1>1
<1> DEFINE x == a * b
<1> HIDE DEF x
<1>3. x \in Nat
  BY <1>2 DEF x
<1>4. x + 16 - 1 = x + 15 /\ (x + 15) \div 16 \in Nat
  BY <1>3
<1>5. smem_rows(p) = (x + 16 - 1) \div 16
  BY DEF smem_rows, x, a, b
<1>6. Rows(K, i) = (x + 15) \div 16
  BY DEF Rows, x, a, b
<1> QED
  BY ONLY <1>4, <1>5, <1>6

\* The emitter's parameters are the machine's.
Machine(P) == P.dim = 16 /\ spad_rows(P) = SpadRows

\* The weights' base is a number.
LEMMA BaseTyped ==
  ASSUME NEW K \in KernelType, Plain(K), NEW d \in DOMAIN FORMATS, NEW P, Machine(P),
         NEW i \in 1 .. Len(K.stages)
  PROVE  b_base(PlanOf(K, d, P, i)) \in Int
<1> DEFINE p == PlanOf(K, d, P, i)
           b == Width(K, i - 1)
           e == Width(K, i)
           t == FORMATS[d].tile
<1>1. b \in Nat /\ e \in Nat
  <2>1. i \in 0 .. Len(K.stages) /\ i - 1 \in 0 .. Len(K.stages)
    BY PlainTyped
  <2> QED BY <2>1, PlainTyped
<1>2. t \in {16, 32}
  BY FormatFacts
<1>3. p.k = b /\ p.n = e /\ p.wgt_fmt = d /\ p.rows = SpadRows /\ p.dim = 16
  BY DEF PlanOf, Machine
<1>4. SpadRows \in Nat
  BY DeviceAssumption DEF SpadRows
<1> HIDE DEF p, b, e, t
<1>5. tiles_k(p) = b \div 16 /\ tiles_j(p) = e \div t
  BY <1>3 DEF tiles_k, tiles_j, TILE_K, t
<1>6. tiles_k(p) \in Nat /\ tiles_j(p) \in Nat
  BY ONLY <1>1, <1>2, <1>5
<1>7. tiles_k(p) * tiles_j(p) \in Nat
  BY ONLY <1>6
<1>8. b_base(p) = SpadRows - tiles_k(p) * tiles_j(p) * 16
  BY ONLY <1>3 DEF b_base
<1>9. b_base(p) \in Int
  BY ONLY <1>4, <1>7, <1>8
<1> QED
  BY <1>9 DEF p

\* The results lie one after the other, and below every weight of a chain.
Destined(K, d, P, f) ==
  /\ \A i \in 1 .. Len(K.stages) + 1 : f[i] \in Nat
  /\ \A i \in 1 .. Len(K.stages) + 1, j \in 1 .. Len(K.stages) + 1 : j <= i => f[j] <= f[i]
  /\ \A i \in 1 .. Len(K.stages) : f[i + 1] = f[i] + Rows(K, i)
  /\ Len(K.stages) > 1 =>
       \A i \in 1 .. Len(K.stages) : f[Len(K.stages) + 1] <= b_base(PlanOf(K, d, P, i))

\* The plans with their results there.
Placement(K, d, P, f, ps) ==
  /\ Listed(ps) /\ Len(ps) = Len(K.stages)
  /\ \A i \in 1 .. Len(K.stages) :
       ps[i] = FinalPlan(K, d, P, i, f[i], IF i > 1 THEN f[i - 1] ELSE 0)

\* The rows _assign_smem computes.
Destinations(q, f) ==
  f = [i \in 1 .. Len(q) + 1 |->
         IF i = 1 THEN q[1].spad_dest ELSE f[i - 1] + smem_rows(q[i - 1])]

\* Plans _assign_smem accepts.
Accepted(K, d, P, q, f) ==
  /\ K \in KernelType /\ Plain(K) /\ d \in DOMAIN FORMATS /\ Machine(P)
  /\ Unplaced(K, d, P, q) /\ Len(K.stages) \in Nat \ {0}
  /\ Destinations(q, f) /\ AssignedBy(q, f).why = ""

\* What the planner returns.
LEMMA ChainDestined ==
  ASSUME NEW K, NEW d, NEW P, NEW q, NEW f, Accepted(K, d, P, q, f)
  PROVE  Destined(K, d, P, f) /\ f[1] = 128
<1> DEFINE n == Len(K.stages)
           p(i) == PlanOf(K, d, P, i)
<1> /\ K \in KernelType /\ Plain(K) /\ d \in DOMAIN FORMATS /\ Machine(P)
    /\ Unplaced(K, d, P, q) /\ Len(K.stages) \in Nat \ {0}
    /\ Destinations(q, f) /\ AssignedBy(q, f).why = ""
  BY DEF Accepted
<1>1. n \in Nat \ {0}
  OBVIOUS
<1>2. Len(q) = n /\ \A i \in 1 .. n : q[i] = p(i)
  BY DEF Unplaced
<1>3. f = [i \in 1 .. n + 1 |-> IF i = 1 THEN q[1].spad_dest ELSE f[i - 1] + smem_rows(q[i - 1])]
  BY <1>2 DEF Destinations
<1>6. \A i \in 1 .. n : smem_rows(q[i]) = Rows(K, i) /\ Rows(K, i) \in Nat
  <2> SUFFICES ASSUME NEW i \in 1 .. n PROVE smem_rows(q[i]) = Rows(K, i) /\ Rows(K, i) \in Nat
    OBVIOUS
  <2>1. p(i).m = K.x[1] /\ p(i).n = Width(K, i) /\ p(i).dim = 16
    BY DEF Machine, PlanOf
  <2>2. q[i] = p(i)
    BY <1>2
  <2> HIDE DEF p
  <2>3. q[i].m = K.x[1] /\ q[i].n = Width(K, i) /\ q[i].dim = 16
    BY ONLY <2>1, <2>2
  <2> QED BY <2>3, RowsOf
<1>5. \A i \in 1 .. n : b_base(p(i)) \in Int
  BY BaseTyped
<1>4. \A i \in 1 .. n : p(i).spad_dest = 128
  BY DEF PlanOf, spad_dest
<1>11. AssignedBy(q, f).why = ""
  OBVIOUS
<1> HIDE DEF n, p
<1>7. f[1] = 128
  <2>1. 1 \in 1 .. n /\ 1 \in 1 .. n + 1
    BY ONLY <1>1
  <2>2. q[1].spad_dest = 128
    BY ONLY <1>2, <1>4, <2>1
  <2> QED BY ONLY <1>3, <2>1, <2>2
<1>8. \A i \in 1 .. n : f[i + 1] = f[i] + Rows(K, i)
  <2> SUFFICES ASSUME NEW i \in 1 .. n PROVE f[i + 1] = f[i] + Rows(K, i)
    OBVIOUS
  <2>1. i + 1 \in 1 .. n + 1 /\ i + 1 # 1 /\ (i + 1) - 1 = i
    BY ONLY <1>1, i \in 1 .. n
  <2>2. f[i + 1] = f[(i + 1) - 1] + smem_rows(q[(i + 1) - 1])
    BY ONLY <1>3, <2>1
  <2> QED BY ONLY <2>1, <2>2, <1>6, i \in 1 .. n
<1>9. /\ \A i \in 1 .. n + 1 : f[i] \in Nat
      /\ \A i \in 1 .. n + 1, j \in 1 .. n + 1 : j <= i => f[j] <= f[i]
  <2> DEFINE g == [i \in 1 .. n |-> Rows(K, i)]
  <2>1. \A i \in 1 .. n : g[i] = Rows(K, i)
    OBVIOUS
  <2> HIDE DEF g
  <2>2. n \in Nat /\ f[1] \in Nat
    BY ONLY <1>1, <1>7
  <2>3. \A i \in 1 .. n : g[i] \in Nat
    BY ONLY <1>6, <2>1
  <2>4. \A i \in 1 .. n : f[i + 1] = f[i] + g[i]
    BY ONLY <1>8, <2>1
  <2> QED BY ONLY <2>2, <2>3, <2>4, Grown
<1>10. n > 1 => \A i \in 1 .. n : f[n + 1] <= b_base(p(i))
  <2> SUFFICES ASSUME n > 1 PROVE \A i \in 1 .. n : f[n + 1] <= b_base(p(i))
    OBVIOUS
  <2>1. n # 1 /\ n + 1 \in 1 .. n + 1
    BY ONLY <1>1, n > 1
  <2>2. ~\E i \in 1 .. n : f[n + 1] > b_base(q[i])
    <3>1. Len(q) = n
      BY ONLY <1>2
    <3> QED BY ONLY <1>11, <2>1, <3>1 DEF AssignedBy
  <2>4. f[n + 1] \in Int
    BY ONLY <1>9, <2>1
  <2> QED BY ONLY <1>2, <1>5, <2>2, <2>4
<1> QED
  BY ONLY <1>7, <1>8, <1>9, <1>10 DEF Destined, n, p

\* And the plans it returns.
LEMMA ChainPlaced ==
  ASSUME NEW K, NEW d, NEW P, NEW q, Unplaced(K, d, P, q), Len(K.stages) \in Nat \ {0},
         NEW f, f[1] = 128
  PROVE  Placement(K, d, P, f, AssignedBy(q, f).plans)
<1> DEFINE n == Len(K.stages)
           ps == AssignedBy(q, f).plans
           at(i) == IF i > 1 THEN f[i - 1] ELSE 0
<1>1. n \in Nat \ {0}
  OBVIOUS
<1>2. Listed(q) /\ Len(q) = n /\ \A i \in 1 .. n : q[i] = PlanOf(K, d, P, i)
  BY DEF Unplaced
<1>3. CASE n = 1
  <2>1. ps = q
    BY ONLY <1>2, <1>3 DEF AssignedBy
  <2>2. PlanOf(K, d, P, 1) = FinalPlan(K, d, P, 1, 128, 0)
    <3> DEFINE y == (1 > 1)
               z == (1 < Len(K.stages))
    <3>1. y = FALSE /\ z = FALSE
      BY ONLY <1>3
    <3> HIDE DEF y, z
    <3>2. FinalPlan(K, d, P, 1, 128, 0) =
  [m |-> K.x[1], k |-> Width(K, 1 - 1), n |-> Width(K, 1), act_fmt |-> d, wgt_fmt |-> d,
   out_fmt |-> IF 1 = Len(K.stages) THEN BF16 ELSE d,
   lhs |-> InName(1), weight |-> WName(1), out |-> OutName(K, 1),
   dim |-> P.dim, rows |-> spad_rows(P), spad_dest |-> 128, a_spad |-> 0,
   chained_in |-> y, chained_out |-> z]
      BY ONLY TRUE DEF FinalPlan, y, z
    <3> QED BY ONLY <3>1, <3>2 DEF PlanOf, spad_dest
  <2>3. \A i \in 1 .. n : i = 1
    BY ONLY <1>3
  <2>4. at(1) = 0
    OBVIOUS
  <2>5. f[1] = 128
    OBVIOUS
  <2> HIDE DEF at, ps
  <2>6. ps[1] = FinalPlan(K, d, P, 1, f[1], at(1))
    <3>1. 1 \in 1 .. n
      BY ONLY <1>1
    <3> QED BY ONLY <1>2, <2>1, <2>2, <2>4, <2>5, <3>1
  <2>7. \A i \in 1 .. n : ps[i] = FinalPlan(K, d, P, i, f[i], at(i))
    BY ONLY <2>3, <2>6
  <2> QED BY ONLY <1>2, <2>1, <2>7 DEF Placement, n, ps, at
<1>4. CASE n # 1
  <2> DEFINE e(i) == [q[i] EXCEPT !.spad_dest = f[i], !.chained_in = (i > 1),
                                  !.chained_out = (i < n),
                                  !.a_spad = IF i > 1 THEN f[i - 1] ELSE 0]
  <2>1. ps = [i \in 1 .. n |-> e(i)]
    BY ONLY <1>2, <1>4 DEF AssignedBy
  <2>2. \A i \in 1 .. n : e(i) = FinalPlan(K, d, P, i, f[i], at(i))
    <3> SUFFICES ASSUME NEW i \in 1 .. n PROVE e(i) = FinalPlan(K, d, P, i, f[i], at(i))
      OBVIOUS
    <3>1. q[i] = PlanOf(K, d, P, i)
      BY <1>2
    <3> DEFINE a == f[i]
               b == at(i)
    <3>2. e(i) = [PlanOf(K, d, P, i) EXCEPT !.spad_dest = a, !.chained_in = (i > 1),
                                    !.chained_out = (i < Len(K.stages)), !.a_spad = b]
      BY ONLY <3>1
    <3> HIDE DEF a, b, e
    <3>3. e(i) = FinalPlan(K, d, P, i, a, b)
      BY ONLY <3>2, PlanReplaced
    <3> QED BY <3>3 DEF a, b
  <2> HIDE DEF e, ps, at
  <2>3. ps = [i \in 1 .. n |-> ps[i]] /\ DOMAIN ps = 1 .. n
    BY ONLY <2>1
  <2>4. Listed(ps) /\ Len(ps) = n
    BY ONLY <1>1, <2>3, ListOf
  <2>5. \A i \in 1 .. n : ps[i] = FinalPlan(K, d, P, i, f[i], at(i))
    BY ONLY <2>1, <2>2
  <2> QED BY ONLY <2>4, <2>5 DEF Placement, n, ps, at
<1> QED
  BY <1>3, <1>4

\* What plan_chain returns for a chain it does not refuse.
LEMMA ChainAssigned ==
  ASSUME NEW K \in KernelType, Plain(K), NEW d \in DOMAIN FORMATS, NEW P, Machine(P),
         plan_chain(command_buffer(K, d), P).why = ""
  PROVE  /\ Len(K.stages) \in Nat \ {0}
         /\ \A i \in 1 .. Len(K.stages) : PlanRefusal(PlanOf(K, d, P, i), P) = ""
         /\ \E f : Destined(K, d, P, f)
                  /\ Placement(K, d, P, f, plan_chain(command_buffer(K, d), P).plans)
<1> DEFINE r == plan_chain(command_buffer(K, d), P)
<1>1. PICK q : Unplaced(K, d, P, q) /\ r = _assign_smem(q)
  BY ChainPlanned
<1>2. Len(K.stages) \in Nat \ {0} /\ Len(q) \in Nat
  BY <1>1, ChainPlanned DEF Unplaced
<1>3. PICK f : /\ f = [i \in 1 .. Len(q) + 1 |->
                      IF i = 1 THEN q[1].spad_dest ELSE f[i - 1] + smem_rows(q[i - 1])]
               /\ _assign_smem(q) = AssignedBy(q, f)
  BY ONLY <1>2, DestUnfold
<1>4. r.why = ""
  OBVIOUS
<1> HIDE DEF r
<1>5. r = AssignedBy(q, f)
  BY ONLY <1>1, <1>3
<1>6. AssignedBy(q, f).why = ""
  BY ONLY <1>4, <1>5
<1>7. Destined(K, d, P, f) /\ f[1] = 128
  <2>1. Destinations(q, f)
    BY ONLY <1>3 DEF Destinations
  <2>2. Unplaced(K, d, P, q)
    BY <1>1
  <2>3. K \in KernelType /\ Plain(K) /\ d \in DOMAIN FORMATS /\ Machine(P)
    OBVIOUS
  <2>4. Accepted(K, d, P, q, f)
    BY ONLY <1>2, <1>6, <2>1, <2>2, <2>3 DEF Accepted
  <2> QED BY ONLY <2>4, ChainDestined
<1>8. Placement(K, d, P, f, r.plans)
  <2>1. Placement(K, d, P, f, AssignedBy(q, f).plans)
    BY ONLY <1>1, <1>2, <1>7, ChainPlaced
  <2> QED BY ONLY <1>5, <2>1
<1>9. \A i \in 1 .. Len(K.stages) : PlanRefusal(PlanOf(K, d, P, i), P) = ""
  BY ONLY <1>1 DEF Unplaced
<1> QED
  BY ONLY <1>2, <1>7, <1>8, <1>9 DEF r

-----------------------------------------------------------------------------
(***************************************************************************)
(* The compiler: the plans are those of a sound chain.                     *)
(***************************************************************************)
\* The fields of a plan of stage i that do not depend on where its results go.
Shaped(K, d, P, i, p) ==
  /\ p.m = K.x[1] /\ p.k = Width(K, i - 1) /\ p.n = Width(K, i)
  /\ p.act_fmt = d /\ p.wgt_fmt = d /\ p.out_fmt = (IF i = Len(K.stages) THEN BF16 ELSE d)
  /\ p.lhs = InName(i) /\ p.weight = WName(i) /\ p.out = OutName(K, i)
  /\ p.dim = 16 /\ p.rows = SpadRows

\* Both plans of a stage have them.
LEMMA PlansShaped ==
  ASSUME NEW K, NEW d, NEW P, Machine(P), NEW i, NEW a, NEW b
  PROVE  /\ Shaped(K, d, P, i, PlanOf(K, d, P, i))
         /\ Shaped(K, d, P, i, FinalPlan(K, d, P, i, a, b))
         /\ FinalPlan(K, d, P, i, a, b).spad_dest = a /\ FinalPlan(K, d, P, i, a, b).a_spad = b
         /\ FinalPlan(K, d, P, i, a, b).chained_in = (i > 1)
         /\ FinalPlan(K, d, P, i, a, b).chained_out = (i < Len(K.stages))
<1>1. P.dim = 16 /\ spad_rows(P) = SpadRows
  BY DEF Machine
<1> DEFINE p == PlanOf(K, d, P, i)
           q == FinalPlan(K, d, P, i, a, b)
<1>2. /\ p.m = K.x[1] /\ p.k = Width(K, i - 1) /\ p.n = Width(K, i)
      /\ p.act_fmt = d /\ p.wgt_fmt = d /\ p.out_fmt = (IF i = Len(K.stages) THEN BF16 ELSE d)
      /\ p.lhs = InName(i) /\ p.weight = WName(i) /\ p.out = OutName(K, i)
      /\ p.dim = P.dim /\ p.rows = spad_rows(P)
  BY DEF PlanOf
<1> DEFINE y == (i > 1)
           z == (i < Len(K.stages))
<1> HIDE DEF y, z
<1>3. q = [m |-> K.x[1], k |-> Width(K, i - 1), n |-> Width(K, i), act_fmt |-> d, wgt_fmt |-> d,
   out_fmt |-> IF i = Len(K.stages) THEN BF16 ELSE d,
   lhs |-> InName(i), weight |-> WName(i), out |-> OutName(K, i),
   dim |-> P.dim, rows |-> spad_rows(P), spad_dest |-> a, a_spad |-> b,
   chained_in |-> y, chained_out |-> z]
  BY DEF FinalPlan, y, z
<1> HIDE DEF p, q
<1>4. /\ q.m = K.x[1] /\ q.k = Width(K, i - 1) /\ q.n = Width(K, i)
      /\ q.act_fmt = d /\ q.wgt_fmt = d /\ q.out_fmt = (IF i = Len(K.stages) THEN BF16 ELSE d)
      /\ q.lhs = InName(i) /\ q.weight = WName(i) /\ q.out = OutName(K, i)
      /\ q.dim = P.dim /\ q.rows = spad_rows(P)
  BY <1>3
<1>5. q.spad_dest = a /\ q.a_spad = b /\ q.chained_in = y /\ q.chained_out = z
  BY <1>3
<1>6. Shaped(K, d, P, i, p) /\ Shaped(K, d, P, i, q)
  BY <1>1, <1>2, <1>4 DEF Shaped
<1> QED
  BY <1>5, <1>6 DEF p, q, y, z

\* Its tiles.
LEMMA ShapedTiles ==
  ASSUME NEW K, NEW d, NEW P, NEW i, NEW p, Shaped(K, d, P, i, p)
  PROVE  LET t == FORMATS[d].tile
         IN  /\ tiles_i(p) = K.x[1] \div t /\ tiles_j(p) = Width(K, i) \div t
             /\ tiles_k(p) = Width(K, i - 1) \div 16
             /\ b_base(p) = SpadRows - (Width(K, i - 1) \div 16) * (Width(K, i) \div t) * 16
<1>1. /\ p.m = K.x[1] /\ p.k = Width(K, i - 1) /\ p.n = Width(K, i)
      /\ p.act_fmt = d /\ p.wgt_fmt = d /\ p.dim = 16 /\ p.rows = SpadRows
  BY DEF Shaped
<1>2. /\ tiles_i(p) = K.x[1] \div FORMATS[d].tile /\ tiles_j(p) = Width(K, i) \div FORMATS[d].tile
      /\ tiles_k(p) = Width(K, i - 1) \div 16
  BY ONLY <1>1 DEF tiles_i, tiles_j, tiles_k, TILE_K
<1>3. b_base(p) = p.rows - tiles_k(p) * tiles_j(p) * p.dim
  BY DEF b_base
<1> QED
  BY ONLY <1>1, <1>2, <1>3

\* A legal stage.
LEMMA Legal ==
  ASSUME NEW p, NEW P, PlanRefusal(p, P) = ""
  PROVE  /\ p.m % FORMATS[p.act_fmt].tile = 0 /\ p.n % FORMATS[p.wgt_fmt].tile = 0
         /\ p.k % TILE_K = 0
         /\ ~(b_base(p) <= tiles_i(p) * tiles_k(p) * p.dim)
         /\ IsLut(p) => /\ ~(p.n \div 2 ^ P.lut_group > P.lut_tables[1])
                        /\ ~(p.m \div 2 ^ P.lut_group > P.lut_tables[2])
                        /\ ~(p.m \div 2 ^ P.lut_group > P.lut_tables[3])
<1>1. _validate(p, P) = ""
  BY DEF PlanRefusal
<1> DEFINE A == p.k % BLOCK # 0
           B1 == p.m % FORMATS[p.act_fmt].tile = 0
           B2 == p.n % FORMATS[p.wgt_fmt].tile = 0
           B3 == p.k % TILE_K = 0
           C == b_base(p) <= tiles_i(p) * tiles_k(p) * p.dim
           D == p.out_fmt # BF16 /\ p.n % BLOCK # 0
           L == IsLut(p)
           G == p.n % 2 ^ P.lut_group # 0 \/ p.m % 2 ^ P.lut_group # 0
           F1 == p.n \div 2 ^ P.lut_group > P.lut_tables[1]
           F2 == p.m \div 2 ^ P.lut_group > P.lut_tables[2]
           F3 == p.m \div 2 ^ P.lut_group > P.lut_tables[3]
<1>2. _validate(p, P) = IF A THEN "block-scale group"
                        ELSE IF ~B1 \/ ~B2 \/ ~B3 THEN "mesh tile"
                        ELSE IF C THEN "scratchpad overflow"
                        ELSE IF D THEN "output block"
                        ELSE IF ~L THEN ""
                        ELSE IF G THEN "LUT group"
                        ELSE IF F1 \/ F2 \/ F3 THEN "LUT capacity"
                        ELSE ""
  BY DEF _validate
<1> HIDE DEF A, B1, B2, B3, C, D, L, G, F1, F2, F3
<1>3. B1 /\ B2 /\ B3 /\ ~C /\ (L => ~F1 /\ ~F2 /\ ~F3)
  BY ONLY <1>1, <1>2
<1> QED
  BY <1>3 DEF B1, B2, B3, C, L, F1, F2, F3

\* The plans of c are those the compiler made of K.
Planned(c, K, d, P, f) ==
  /\ K \in KernelType /\ Plain(K) /\ d \in DOMAIN FORMATS /\ Machine(P)
  /\ Len(K.stages) \in Nat \ {0} /\ c.n = Len(K.stages) /\ c.f = d
  /\ Destined(K, d, P, f) /\ Placement(K, d, P, f, c.plans)
  /\ \A i \in 1 .. Len(K.stages) : PlanRefusal(PlanOf(K, d, P, i), P) = ""

\* A plan of c, by its fields.
LEMMA PlannedFields ==
  ASSUME NEW c, NEW K, NEW d, NEW P, NEW f, Planned(c, K, d, P, f), NEW i \in 1 .. c.n
  PROVE  /\ Shaped(K, d, P, i, c.plans[i])
         /\ c.plans[i].spad_dest = f[i]
         /\ c.plans[i].a_spad = (IF i = 1 THEN 0 ELSE f[i - 1])
         /\ c.plans[i].chained_in = (i > 1) /\ c.plans[i].chained_out = (i < c.n)
<1> DEFINE at == IF i > 1 THEN f[i - 1] ELSE 0
<1>1. c.n \in Nat \ {0} /\ c.n = Len(K.stages) /\ Machine(P)
  BY DEF Planned
<1>2. c.plans[i] = FinalPlan(K, d, P, i, f[i], at)
  BY <1>1 DEF Planned, Placement
<1>3. at = (IF i = 1 THEN 0 ELSE f[i - 1])
  BY ONLY <1>1, i \in 1 .. c.n
<1> HIDE DEF at
<1> DEFINE p == FinalPlan(K, d, P, i, f[i], at)
<1>4. /\ Shaped(K, d, P, i, p) /\ p.spad_dest = f[i] /\ p.a_spad = at
      /\ p.chained_in = (i > 1) /\ p.chained_out = (i < Len(K.stages))
  BY ONLY <1>1, PlansShaped
<1> HIDE DEF p
<1>5. c.plans[i] = p
  BY <1>2 DEF p
<1> QED
  BY ONLY <1>1, <1>3, <1>4, <1>5

\* Each is sound.
LEMMA PlannedSound ==
  ASSUME NEW c, NEW K, NEW d, NEW P, NEW f, Planned(c, K, d, P, f), NEW i \in 1 .. c.n
  PROVE  SoundPlan(c, i)
<1> DEFINE p == c.plans[i]
           q == PlanOf(K, d, P, i)
           t == FORMATS[d].tile
           a == K.x[1]
           b == Width(K, i - 1)
           e == Width(K, i)
<1>1. /\ K \in KernelType /\ Plain(K) /\ d \in DOMAIN FORMATS /\ Machine(P)
      /\ c.n = Len(K.stages) /\ c.n \in Nat \ {0} /\ c.f = d
  BY DEF Planned
<1>2. /\ \A j \in 1 .. c.n + 1 : f[j] \in Nat
      /\ PlanRefusal(q, P) = ""
  BY <1>1 DEF Planned, Destined
<1>3. /\ Shaped(K, d, P, i, p) /\ p.spad_dest = f[i] /\ p.a_spad = (IF i = 1 THEN 0 ELSE f[i - 1])
  BY PlannedFields
<1>4. Shaped(K, d, P, i, q)
  BY ONLY <1>1, PlansShaped
<1>5. a \in Nat \ {0} /\ b \in Nat \ {0} /\ e \in Nat \ {0}
  <2>1. i \in 0 .. Len(K.stages) /\ i - 1 \in 0 .. Len(K.stages)
    BY ONLY <1>1, i \in 1 .. c.n
  <2>2. a \in Nat \ {0} /\ \A j \in 0 .. Len(K.stages) : Width(K, j) \in Nat \ {0}
    BY <1>1, PlainTyped
  <2> QED BY ONLY <2>1, <2>2
<1>6. /\ q.m % FORMATS[q.act_fmt].tile = 0 /\ q.n % FORMATS[q.wgt_fmt].tile = 0
      /\ q.k % TILE_K = 0
      /\ ~(b_base(q) <= tiles_i(q) * tiles_k(q) * q.dim)
  BY <1>2, Legal
<1>7. a % t = 0 /\ e % t = 0 /\ b % 16 = 0
  BY <1>4, <1>6 DEF Shaped, TILE_K
<1>8. /\ tiles_i(p) = tiles_i(q) /\ tiles_k(p) = tiles_k(q) /\ b_base(p) = b_base(q) /\ q.dim = 16
      /\ tiles_i(q) = a \div t /\ tiles_k(q) = b \div 16
  <2>1. /\ tiles_i(p) = a \div t /\ tiles_k(p) = b \div 16
        /\ b_base(p) = SpadRows - (b \div 16) * (e \div t) * 16
    BY <1>3, ShapedTiles
  <2>2. /\ tiles_i(q) = a \div t /\ tiles_k(q) = b \div 16
        /\ b_base(q) = SpadRows - (b \div 16) * (e \div t) * 16
    BY <1>4, ShapedTiles
  <2>3. q.dim = 16
    BY <1>4 DEF Shaped
  <2> QED BY ONLY <2>1, <2>2, <2>3
<1>9. tiles_i(p) * tiles_k(p) * 16 < b_base(p)
  <2>1. t \in {16, 32}
    BY <1>1, FormatFacts
  <2> HIDE DEF t, a, b, e, q, p
  <2>2. tiles_i(q) \in Nat /\ tiles_k(q) \in Nat
    BY ONLY <1>5, <1>8, <2>1
  <2>3. tiles_i(q) * tiles_k(q) \in Nat
    BY ONLY <2>2
  <2>4. b_base(q) \in Int
    <3>1. i \in 1 .. Len(K.stages)
      BY ONLY <1>1, i \in 1 .. c.n
    <3> QED BY <1>1, <3>1, BaseTyped DEF q
  <2> QED BY ONLY <1>6, <1>8, <2>3, <2>4
<1>10. /\ p.spad_dest \in Nat
       /\ p.a_spad = (IF i = 1 THEN 0 ELSE c.plans[i - 1].spad_dest)
  <2>1. i \in 1 .. c.n + 1
    BY ONLY <1>1, i \in 1 .. c.n
  <2>2. i # 1 => c.plans[i - 1].spad_dest = f[i - 1]
    <3> SUFFICES ASSUME i # 1 PROVE c.plans[i - 1].spad_dest = f[i - 1]
      OBVIOUS
    <3>1. i - 1 \in 1 .. c.n
      BY ONLY <1>1, i \in 1 .. c.n, i # 1
    <3> QED BY ONLY Planned(c, K, d, P, f), <3>1, PlannedFields
  <2> QED BY <1>2, <1>3, <2>1, <2>2
<1>11. OutName(K, i) = (IF i = c.n THEN YName ELSE TName(i))
  BY <1>1 DEF OutName
<1>12. /\ p.m = a /\ p.k = b /\ p.n = e /\ p.act_fmt = d /\ p.wgt_fmt = d
       /\ p.out_fmt = (IF i = Len(K.stages) THEN BF16 ELSE d) /\ p.out = OutName(K, i)
       /\ p.dim = 16 /\ p.rows = SpadRows
  BY <1>3 DEF Shaped
<1> HIDE DEF t, a, b, e, p
<1>13. p.m \in Nat \ {0} /\ p.k \in Nat \ {0} /\ p.n \in Nat \ {0}
  BY <1>5, <1>12
<1>14. p.m % FORMATS[c.f].tile = 0 /\ p.n % FORMATS[c.f].tile = 0 /\ p.k % 16 = 0
  BY <1>1, <1>7, <1>12 DEF t
<1>15. /\ p.act_fmt = c.f /\ p.wgt_fmt = c.f /\ p.out_fmt = (IF i = c.n THEN BF16 ELSE c.f)
       /\ p.out = (IF i = c.n THEN YName ELSE TName(i))
  BY ONLY <1>1, <1>11, <1>12
<1> QED
  BY ONLY <1>9, <1>10, <1>12, <1>13, <1>14, <1>15 DEF SoundPlan, p

\* And together: each stage reads where the one before it wrote, and no weight lies over a result.
LEMMA PlannedSeams ==
  ASSUME NEW c, NEW K, NEW d, NEW P, NEW f, Planned(c, K, d, P, f)
  PROVE  SoundSeams(c)
<1> DEFINE n == c.n
<1>1. /\ n = Len(K.stages) /\ n \in Nat \ {0} /\ Machine(P)
      /\ K \in KernelType /\ Plain(K) /\ d \in DOMAIN FORMATS
  BY DEF Planned
<1>2. /\ \A i \in 1 .. n + 1 : f[i] \in Nat
      /\ \A i \in 1 .. n + 1, j \in 1 .. n + 1 : j <= i => f[j] <= f[i]
      /\ \A i \in 1 .. n : f[i + 1] = f[i] + Rows(K, i)
      /\ n > 1 => \A i \in 1 .. n : f[n + 1] <= b_base(PlanOf(K, d, P, i))
  BY <1>1 DEF Planned, Destined
<1>3. \A i \in 1 .. n : Shaped(K, d, P, i, c.plans[i]) /\ c.plans[i].spad_dest = f[i]
  BY PlannedFields
<1>4. \A i \in 1 .. n : /\ c.plans[i].spad_dest + smem_rows(c.plans[i]) = f[i + 1]
                        /\ b_base(c.plans[i]) = b_base(PlanOf(K, d, P, i))
                        /\ c.plans[i].m = K.x[1] /\ c.plans[i].k = Width(K, i - 1)
                        /\ c.plans[i].n = Width(K, i)
  <2> SUFFICES ASSUME NEW i \in 1 .. n
               PROVE  /\ c.plans[i].spad_dest + smem_rows(c.plans[i]) = f[i + 1]
                      /\ b_base(c.plans[i]) = b_base(PlanOf(K, d, P, i))
                      /\ c.plans[i].m = K.x[1] /\ c.plans[i].k = Width(K, i - 1)
                      /\ c.plans[i].n = Width(K, i)
    OBVIOUS
  <2> DEFINE p == c.plans[i]
             q == PlanOf(K, d, P, i)
  <2>1. Shaped(K, d, P, i, p)
    BY <1>3
  <2>2. Shaped(K, d, P, i, q)
    BY ONLY <1>1, PlansShaped
  <2>3. b_base(p) = b_base(q)
    BY ONLY <2>1, <2>2, ShapedTiles
  <2>4. p.m = K.x[1] /\ p.k = Width(K, i - 1) /\ p.n = Width(K, i) /\ p.dim = 16
    BY <2>1 DEF Shaped
  <2>5. smem_rows(p) = Rows(K, i)
    <3>1. i \in 1 .. Len(K.stages)
      BY <1>1
    <3> QED BY ONLY <1>1, <2>4, <3>1, RowsOf
  <2>6. p.spad_dest = f[i]
    BY <1>3
  <2>7. f[i + 1] = f[i] + Rows(K, i)
    BY <1>2
  <2> HIDE DEF p, q
  <2>8. p.spad_dest + smem_rows(p) = f[i + 1]
    BY ONLY <2>5, <2>6, <2>7
  <2> QED BY <2>3, <2>4, <2>8 DEF p, q
<1> HIDE DEF n
<1>5. \A i \in 2 .. n : c.plans[i].m = c.plans[i - 1].m /\ c.plans[i].k = c.plans[i - 1].n
  <2> SUFFICES ASSUME NEW i \in 2 .. n
               PROVE  c.plans[i].m = c.plans[i - 1].m /\ c.plans[i].k = c.plans[i - 1].n
    OBVIOUS
  <2>1. i \in 1 .. n /\ i - 1 \in 1 .. n
    BY ONLY <1>1, i \in 2 .. n
  <2> QED BY ONLY <1>4, <2>1
<1>6. ASSUME NEW i \in 1 .. n, NEW j \in 1 .. n, j < i
      PROVE  c.plans[j].spad_dest + smem_rows(c.plans[j]) <= c.plans[i].spad_dest
  <2>1. j + 1 \in 1 .. n + 1 /\ i \in 1 .. n + 1 /\ j + 1 <= i
    BY ONLY <1>1, <1>6, i \in 1 .. n, j \in 1 .. n
  <2>2. f[j + 1] <= f[i]
    BY ONLY <1>2, <2>1
  <2> QED BY ONLY <1>3, <1>4, <2>2, i \in 1 .. n, j \in 1 .. n
<1>7. ASSUME NEW i \in 1 .. n, NEW j \in 1 .. n, j < n
      PROVE  c.plans[j].spad_dest + smem_rows(c.plans[j]) <= b_base(c.plans[i])
  <2>1. j + 1 \in 1 .. n + 1 /\ n + 1 \in 1 .. n + 1 /\ j + 1 <= n + 1 /\ n > 1
    BY ONLY <1>1, <1>7, j \in 1 .. n
  <2>2. f[j + 1] <= f[n + 1] /\ f[n + 1] <= b_base(PlanOf(K, d, P, i))
        /\ f[j + 1] \in Nat /\ f[n + 1] \in Nat
    BY ONLY <1>2, <2>1, i \in 1 .. n
  <2>3. b_base(PlanOf(K, d, P, i)) \in Int
    <3>1. i \in 1 .. Len(K.stages)
      BY ONLY <1>1, i \in 1 .. n
    <3> QED BY <1>1, <3>1, BaseTyped
  <2>4. c.plans[j].spad_dest + smem_rows(c.plans[j]) = f[j + 1]
        /\ b_base(c.plans[i]) = b_base(PlanOf(K, d, P, i))
    BY ONLY <1>4, i \in 1 .. n, j \in 1 .. n
  <2> QED BY ONLY <2>2, <2>3, <2>4
<1> QED
  BY ONLY <1>5, <1>6, <1>7 DEF SoundSeams, n

-----------------------------------------------------------------------------
(***************************************************************************)
(* The compiler: the instructions of one stage.                            *)
(***************************************************************************)
\* The fields of plan i the emitters read.
Wired(c, i) ==
  LET p == c.plans[i]
  IN  /\ c.n \in Nat \ {0} /\ i \in 1 .. c.n /\ c.f \in DOMAIN FORMATS
      /\ p.act_fmt = c.f /\ p.wgt_fmt = c.f /\ p.out_fmt = (IF i = c.n THEN BF16 ELSE c.f)
      /\ p.weight = WName(i) /\ p.dim = 16 /\ p.rows = SpadRows
      /\ i = 1 => p.lhs = XName /\ p.a_spad = 0
      /\ p.chained_in = (IF i = 1 THEN FALSE ELSE TRUE)
      /\ p.chained_out = (IF i = c.n THEN FALSE ELSE TRUE)

\* The plans of the compiler have them.
LEMMA PlannedWired ==
  ASSUME NEW c, NEW K, NEW d, NEW P, NEW f, Planned(c, K, d, P, f), NEW i \in 1 .. c.n
  PROVE  Wired(c, i)
<1>1. c.n \in Nat \ {0} /\ c.n = Len(K.stages) /\ c.f = d /\ d \in DOMAIN FORMATS
  BY DEF Planned
<1>2. /\ Shaped(K, d, P, i, c.plans[i])
      /\ c.plans[i].a_spad = (IF i = 1 THEN 0 ELSE f[i - 1])
      /\ c.plans[i].chained_in = (i > 1) /\ c.plans[i].chained_out = (i < c.n)
  BY PlannedFields
<1>3. /\ c.plans[i].act_fmt = d /\ c.plans[i].wgt_fmt = d
      /\ c.plans[i].out_fmt = (IF i = Len(K.stages) THEN BF16 ELSE d)
      /\ c.plans[i].lhs = InName(i) /\ c.plans[i].weight = WName(i)
      /\ c.plans[i].dim = 16 /\ c.plans[i].rows = SpadRows
  BY ONLY <1>2 DEF Shaped
<1>4. i = 1 => InName(i) = XName
  BY DEF InName
<1> DEFINE y == i > 1
           z == i < c.n
<1>5. (i = 1 => y = FALSE) /\ (i # 1 => y = TRUE) /\ (i = c.n => z = FALSE) /\ (i # c.n => z = TRUE)
  <2>1. (i = 1 => ~y) /\ (i # 1 => y) /\ (i = c.n => ~z) /\ (i # c.n => z)
    BY ONLY <1>1, i \in 1 .. c.n
  <2>2. y \in BOOLEAN /\ z \in BOOLEAN
    OBVIOUS
  <2> HIDE DEF y, z
  <2> QED BY ONLY <2>1, <2>2
<1>6. c.plans[i].chained_in = y /\ c.plans[i].chained_out = z
  BY <1>2
<1> HIDE DEF y, z
<1>7. /\ c.plans[i].chained_in = (IF i = 1 THEN FALSE ELSE TRUE)
      /\ c.plans[i].chained_out = (IF i = c.n THEN FALSE ELSE TRUE)
  BY ONLY <1>5, <1>6
<1> QED
  BY ONLY <1>1, <1>2, <1>3, <1>4, <1>7, i \in 1 .. c.n DEF Wired

\* One instruction after another.
LEMMA Appending ==
  ASSUME NEW x, NEW y
  PROVE  <<x>> \o <<y>> = <<x, y>>
<1> DEFINE S == {x, y}
           a == <<x>>
           b == <<y>>
           e == <<x, y>>
<1>1. a \in Seq(S) /\ b \in Seq(S) /\ e \in Seq(S)
  OBVIOUS
<1>2. Len(a) = 1 /\ Len(b) = 1 /\ Len(e) = 2 /\ a[1] = x /\ b[1] = y /\ e[1] = x /\ e[2] = y
  OBVIOUS
<1> HIDE DEF a, b, e, S
<1>3. a \o b \in Seq(S) /\ Len(a \o b) = 2
  BY ONLY <1>1, <1>2, ConcatProperties
<1>4. (a \o b)[1] = x /\ (a \o b)[2] = y
  BY ONLY <1>1, <1>2, ConcatProperties
<1>5. \A i \in 1 .. 2 : i = 1 \/ i = 2
  OBVIOUS
<1>6. a \o b = e
  BY ONLY <1>1, <1>2, <1>3, <1>4, <1>5, SeqEqual
<1> QED
  BY <1>6 DEF a, b, e

\* A program t of two parts.
Joined(a, b, s, t) == Listed(a) /\ Listed(b) /\ Listed(s) /\ b \o s = t

\* One part more.
LEMMA Regroup ==
  ASSUME NEW a, NEW b, NEW s, NEW t, Joined(a, b, s, t)
  PROVE  (a \o b) \o s = a \o t
<1>1. Listed(a) /\ Listed(b) /\ Listed(s)
  BY DEF Joined
<1>2. (a \o b) \o s = a \o (b \o s)
  BY ONLY <1>1, Associates
<1>3. b \o s = t
  BY DEF Joined
<1> QED
  BY ONLY <1>2, <1>3

\* Two instructions before a program.
LEMMA TwoBefore ==
  ASSUME NEW x, NEW y, NEW s, Listed(s)
  PROVE  <<x, y>> \o s = Cons(x, Cons(y, s))
<1>1. Listed(<<x>>) /\ Listed(<<y>>)
  BY Short
<1>2. (<<x>> \o <<y>>) \o s = <<x>> \o (<<y>> \o s)
  BY ONLY <1>1, Listed(s), Associates
<1>3. <<x>> \o <<y>> = <<x, y>>
  BY Appending
<1> QED
  BY <1>2, <1>3 DEF Cons

\* Every program on the way is a sequence, with what follows it.
LEMMA PhasesListed ==
  ASSUME NEW c, NEW i, Listed(c.rest[i])
  PROVE  /\ Listed(P9(c, i)) /\ Listed(P8(c, i)) /\ Listed(P7(c, i)) /\ Listed(P6(c, i))
         /\ Listed(P5(c, i)) /\ Listed(P4(c, i)) /\ Listed(P3(c, i)) /\ Listed(P2(c, i))
         /\ Listed(P1(c, i)) /\ Listed(P0(c, i))
<1>9. Listed(P9(c, i))
  BY ConsFacts DEF P9
<1>8. Listed(P8(c, i))
  <2>1. Listed(Cons(ReadOut(c, i, FALSE), P9(c, i)))
    BY <1>9, ConsFacts
  <2>2. Listed(Cons(Fence, Cons(ReadOut(c, i, FALSE), P9(c, i))))
    BY <2>1, ConsFacts
  <2> QED BY <1>9, <2>2 DEF P8
<1>7. Listed(P7(c, i))
  BY <1>8, ConsFacts DEF P7
<1>6. Listed(P6(c, i))
  BY <1>7, ConsFacts DEF P6
<1>5. Listed(P5(c, i))
  BY <1>6, ConsFacts DEF P5
<1>4. Listed(P4(c, i))
  BY <1>5, ConsFacts DEF P4
<1>3. Listed(P3(c, i))
  BY <1>4, ConsFacts DEF P3
<1>2. Listed(P2(c, i))
  BY <1>3, ConsFacts DEF P2
<1>10. Listed(P1(c, i))
  BY <1>2, ConsFacts DEF P1
<1>11. Listed(P0(c, i))
  BY <1>10, ConsFacts DEF P0
<1> QED
  BY <1>2, <1>3, <1>4, <1>5, <1>6, <1>7, <1>8, <1>9, <1>10, <1>11

\* One matmul before the rest of the program.
LEMMA MatmulBefore ==
  ASSUME NEW c, NEW i, NEW P, Wired(c, i), Listed(c.rest[i]), c.group = P.lut_group
  PROVE  Matmul(c.plans[i], c.bundles[i], P) \o c.rest[i] = P0(c, i)
<1> DEFINE p == c.plans[i]
           bundle == c.bundles[i]
           s == c.rest[i]
           A == <<config_ex(p.act_fmt, p.wgt_fmt, p.out_fmt)>>
           B == _emit_load_luts(p, bundle, P)
           C == emit_load_scales(p)
           D == _emit_mvin(p)
           E == _emit_mesh(p)
           F == IF p.chained_out THEN <<>> ELSE emit_drain(p)
           G == <<Fence>>
<1>0. /\ c.n \in Nat \ {0} /\ i \in 1 .. c.n /\ c.f \in DOMAIN FORMATS
      /\ p.act_fmt = c.f /\ p.wgt_fmt = c.f /\ p.out_fmt = (IF i = c.n THEN BF16 ELSE c.f)
      /\ p.weight = WName(i) /\ p.dim = 16 /\ p.rows = SpadRows
      /\ i = 1 => p.lhs = XName /\ p.a_spad = 0
      /\ p.chained_in = (IF i = 1 THEN FALSE ELSE TRUE)
      /\ p.chained_out = (IF i = c.n THEN FALSE ELSE TRUE)
  BY DEF Wired
<1>1. /\ Listed(P9(c, i)) /\ Listed(P8(c, i)) /\ Listed(P7(c, i)) /\ Listed(P6(c, i))
      /\ Listed(P5(c, i)) /\ Listed(P4(c, i)) /\ Listed(P3(c, i)) /\ Listed(P2(c, i))
      /\ Listed(P1(c, i)) /\ Listed(P0(c, i))
  BY PhasesListed
<1>2. A \o P1(c, i) = P0(c, i) /\ Listed(A)
  <2>1. config_ex(p.act_fmt, p.wgt_fmt, p.out_fmt) = Config(c, i)
    BY DEF Config
  <2> QED BY <2>1, Short DEF P0, Cons
<1>3. B \o P2(c, i) = P1(c, i) /\ Listed(B)
  <2>1. IsLut(p) = FORMATS[c.f].lut
    <3>1. FORMATS[c.f].lut \in BOOLEAN
      BY <1>0, FormatFacts
    <3> DEFINE z == FORMATS[c.f].lut
    <3>2. IsLut(p) = (z \/ z)
      BY ONLY <1>0 DEF IsLut
    <3> HIDE DEF z
    <3>3. IsLut(p) = z
      BY <3>1, <3>2 DEF z
    <3> QED BY <3>3 DEF z
  <2>2. CASE FORMATS[c.f].lut
    <3>1. B = <<LoadBooks(c, i)>>
      BY <2>1, <2>2 DEF _emit_load_luts, LoadBooks, BooksOf
    <3> HIDE DEF B
    <3> QED BY <2>2, <3>1, Short DEF P1, Cons
  <2>3. CASE ~FORMATS[c.f].lut
    <3>1. B = <<>>
      BY <2>1, <2>3 DEF _emit_load_luts
    <3> HIDE DEF B
    <3> QED BY <1>1, <2>3, <3>1, Nothing DEF P1
  <2> QED BY <2>2, <2>3
<1>4. C \o P5(c, i) = P2(c, i) /\ Listed(C)
  <2> DEFINE y == <<load_scales(<<p.weight, "b">>, 1), Fence>>
             x == IF p.chained_in THEN <<>> ELSE <<load_scales(<<p.lhs, "a">>, 0)>>
  <2>1. C = x \o y
    BY DEF emit_load_scales
  <2>2. y \o P5(c, i) = P3(c, i)
    <3>1. y = <<LoadW(i), Fence>>
      BY <1>0 DEF LoadW, WBuf
    <3> HIDE DEF y
    <3>2. <<LoadW(i), Fence>> \o P5(c, i) = Cons(LoadW(i), Cons(Fence, P5(c, i)))
      BY <1>1, TwoBefore
    <3> QED BY <3>1, <3>2 DEF P3, P4
  <2>3. x \o P3(c, i) = P2(c, i)
    <3>1. CASE i = 1
      <4>1. ~p.chained_in
        BY ONLY <1>0, <3>1
      <4> HIDE DEF p
      <4>2. x = <<LoadX>>
        BY <1>0, <3>1, <4>1 DEF LoadX, XBuf
      <4> HIDE DEF x
      <4> QED BY <3>1, <4>2 DEF P2, Cons
    <3>2. CASE i # 1
      <4>1. p.chained_in
        BY ONLY <1>0, <3>2
      <4>2. x = <<>>
        BY <4>1
      <4> HIDE DEF x
      <4> QED BY <1>1, <3>2, <4>2, Nothing DEF P2
    <3> QED BY <3>1, <3>2
  <2>4. Listed(x) /\ Listed(y)
    BY Short
  <2> HIDE DEF x, y, C
  <2>5. Listed(C) /\ C \o P5(c, i) = x \o P3(c, i)
    <3>1. (x \o y) \o P5(c, i) = x \o P3(c, i)
      <4>1. Joined(x, y, P5(c, i), P3(c, i))
        BY ONLY <1>1, <2>2, <2>4 DEF Joined
      <4> QED BY ONLY <4>1, Regroup
    <3>2. Listed(x \o y)
      BY ONLY <2>4, Join
    <3> QED BY ONLY <2>1, <3>1, <3>2
  <2> QED BY ONLY <2>2, <2>3, <2>5
<1>5. D \o P7(c, i) = P5(c, i) /\ Listed(D)
  <2> DEFINE row == p.n \div packed_per_byte(p.wgt_fmt)
             y == <<mvin_B(<<p.weight, "b">>, b_base(p), tiles_k(p), tiles_j(p), row, row, p.dim, 0)>>
             x == IF p.chained_in THEN <<>>
                  ELSE <<mvin_A(<<p.lhs, "a">>, p.a_spad, tiles_i(p), tiles_k(p), p.k, p.k, p.dim)>>
  <2>1. D = x \o y
    BY DEF _emit_mvin
  <2>2. y \o P7(c, i) = P6(c, i)
    <3>1. y = <<MoveW(c, i)>>
      BY ONLY <1>0 DEF MoveW, WBuf
    <3> HIDE DEF y
    <3> QED BY ONLY <3>1 DEF P6, Cons
  <2>3. x \o P6(c, i) = P5(c, i)
    <3>1. CASE i = 1
      <4>1. p.chained_in = FALSE
        BY ONLY <1>0, <3>1
      <4>2. x = <<MoveX(c)>>
        <5>1. p.lhs = XName /\ p.a_spad = 0 /\ p.dim = 16 /\ p = c.plans[1]
          BY <1>0, <3>1
        <5>2. x = <<mvin_A(<<p.lhs, "a">>, p.a_spad, tiles_i(p), tiles_k(p), p.k, p.k, p.dim)>>
          BY ONLY <4>1
        <5> QED BY ONLY <5>1, <5>2 DEF MoveX, XBuf
      <4> HIDE DEF x
      <4> QED BY ONLY <3>1, <4>2 DEF P5, Cons
    <3>2. CASE i # 1
      <4>1. p.chained_in = TRUE
        BY ONLY <1>0, <3>2
      <4>2. x = <<>>
        BY ONLY <4>1
      <4> HIDE DEF x
      <4>3. P5(c, i) = P6(c, i)
        BY ONLY <3>2 DEF P5
      <4> QED BY ONLY <1>1, <4>2, <4>3, Nothing
    <3> QED BY ONLY <3>1, <3>2
  <2>4. Listed(x) /\ Listed(y)
    BY Short
  <2> HIDE DEF x, y, D
  <2>5. Listed(D) /\ D \o P7(c, i) = x \o P6(c, i)
    <3>1. (x \o y) \o P7(c, i) = x \o P6(c, i)
      <4>1. Joined(x, y, P7(c, i), P6(c, i))
        BY ONLY <1>1, <2>2, <2>4 DEF Joined
      <4> QED BY ONLY <4>1, Regroup
    <3>2. Listed(x \o y)
      BY ONLY <2>4, Join
    <3> QED BY ONLY <2>1, <3>1, <3>2
  <2> QED BY ONLY <2>2, <2>3, <2>5
<1>6. E \o P8(c, i) = P7(c, i) /\ Listed(E)
  <2> DEFINE z == i < c.n
             o == p.chained_out
  <2>1. o = z
    <3>1. (i = c.n => z = FALSE) /\ (i # c.n => z = TRUE)
      <4>1. (i = c.n => ~z) /\ (i # c.n => z)
        BY ONLY <1>0
      <4>2. z \in BOOLEAN
        OBVIOUS
      <4> HIDE DEF z
      <4> QED BY ONLY <4>1, <4>2
    <3>2. o = (IF i = c.n THEN FALSE ELSE TRUE)
      BY ONLY <1>0
    <3> HIDE DEF z, o
    <3> QED BY ONLY <3>1, <3>2
  <2> HIDE DEF z, o
  <2>2. E = <<loop_ws(tiles_i(p), tiles_j(p), tiles_k(p), p.a_spad, p.rows, p.spad_dest, o, o,
                      <<p.out, "scales">>)>>
    BY DEF _emit_mesh, o
  <2>3. MeshOf(c, i) = loop_ws(tiles_i(p), tiles_j(p), tiles_k(p), p.a_spad, SpadRows, p.spad_dest, z, z,
                               <<p.out, "scales">>)
    BY DEF MeshOf, z
  <2>4. p.rows = SpadRows
    BY ONLY <1>0
  <2> HIDE DEF E, p
  <2>5. E = <<MeshOf(c, i)>>
    BY ONLY <2>1, <2>2, <2>3, <2>4
  <2>6. Listed(E)
    BY ONLY <2>5, Short
  <2> QED BY ONLY <2>5, <2>6 DEF P7, Cons
<1>7. F \o P9(c, i) = P8(c, i) /\ Listed(F)
  <2>1. CASE i = c.n
    <3>1. p.chained_out = FALSE /\ ~(i < c.n)
      BY ONLY <1>0, <2>1
    <3>2. F = <<Fence, ReadOut(c, i, FALSE)>>
      BY <3>1 DEF emit_drain, ReadOut, OutBuf
    <3> HIDE DEF F
    <3>3. F \o P9(c, i) = Cons(Fence, Cons(ReadOut(c, i, FALSE), P9(c, i)))
      <4> DEFINE t == P9(c, i)
      <4>1. Listed(t)
        BY ONLY <1>1
      <4> DEFINE r == ReadOut(c, i, FALSE)
                 e == Fence
      <4> HIDE DEF t, r, e
      <4>2. <<e, r>> \o t = Cons(e, Cons(r, t))
        BY ONLY <4>1, TwoBefore
      <4>3. F = <<e, r>>
        BY ONLY <3>2 DEF e, r
      <4>4. F \o t = Cons(e, Cons(r, t))
        BY ONLY <4>2, <4>3
      <4> QED BY ONLY <4>4 DEF t, e, r
    <3>4. Listed(F)
      BY ONLY <3>2, Short
    <3> QED BY ONLY <3>1, <3>3, <3>4 DEF P8
  <2>2. CASE i # c.n
    <3>1. p.chained_out = TRUE /\ i < c.n
      BY ONLY <1>0, <2>2
    <3>2. F = <<>>
      BY ONLY <3>1
    <3>3. <<>> \o P9(c, i) = P9(c, i)
      <4> DEFINE t == P9(c, i)
      <4>1. Listed(t)
        BY ONLY <1>1
      <4> HIDE DEF t
      <4>2. <<>> \o t = t
        BY ONLY <4>1, Nothing
      <4> QED BY ONLY <4>2 DEF t
    <3>4. P8(c, i) = P9(c, i)
      BY ONLY <3>1 DEF P8
    <3>5. Listed(F)
      BY ONLY <3>2, Short
    <3> HIDE DEF F
    <3> QED BY <3>2, <3>3, <3>4, <3>5, Zenon
  <2> QED BY ONLY <2>1, <2>2
<1>8. G \o s = P9(c, i) /\ Listed(G) /\ Listed(s)
  BY Short DEF P9, Cons
<1>9. Matmul(p, bundle, P) = A \o B \o C \o D \o E \o F \o G
  BY DEF Matmul
<1> HIDE DEF A, B, C, D, E, F, G, s
<1>10. /\ Listed(A \o B) /\ Listed(A \o B \o C) /\ Listed(A \o B \o C \o D)
       /\ Listed(A \o B \o C \o D \o E) /\ Listed(A \o B \o C \o D \o E \o F)
  <2>1. Listed(A \o B)
    BY ONLY <1>2, <1>3, Join
  <2>2. Listed(A \o B \o C)
    BY ONLY <1>4, <2>1, Join
  <2>3. Listed(A \o B \o C \o D)
    BY ONLY <1>5, <2>2, Join
  <2>4. Listed(A \o B \o C \o D \o E)
    BY ONLY <1>6, <2>3, Join
  <2>5. Listed(A \o B \o C \o D \o E \o F)
    BY ONLY <1>7, <2>4, Join
  <2> QED BY ONLY <2>1, <2>2, <2>3, <2>4, <2>5
<1> DEFINE p9 == P9(c, i)
           p8 == P8(c, i)
           p7 == P7(c, i)
           p5 == P5(c, i)
           p2 == P2(c, i)
           p1 == P1(c, i)
           p0 == P0(c, i)
           AF == A \o B \o C \o D \o E \o F
           AE == A \o B \o C \o D \o E
           AD == A \o B \o C \o D
           AC == A \o B \o C
           AB == A \o B
<1>11. /\ A \o p1 = p0 /\ B \o p2 = p1 /\ C \o p5 = p2 /\ D \o p7 = p5 /\ E \o p8 = p7
       /\ F \o p9 = p8 /\ G \o s = p9
  BY ONLY <1>2, <1>3, <1>4, <1>5, <1>6, <1>7, <1>8
<1>12. /\ Listed(p9) /\ Listed(p8) /\ Listed(p7) /\ Listed(p5) /\ Listed(p2) /\ Listed(p1)
  BY ONLY <1>1
<1>13. AF = AE \o F /\ AE = AD \o E /\ AD = AC \o D /\ AC = AB \o C /\ AB = A \o B
  OBVIOUS
<1>14. Matmul(p, bundle, P) \o s = (AF \o G) \o s
  BY ONLY <1>9
<1> HIDE DEF p9, p8, p7, p5, p2, p1, p0, AF, AE, AD, AC, AB
<1>15. /\ Joined(AF, G, s, p9) /\ Joined(AE, F, p9, p8) /\ Joined(AD, E, p8, p7)
       /\ Joined(AC, D, p7, p5) /\ Joined(AB, C, p5, p2) /\ Joined(A, B, p2, p1)
  BY ONLY <1>2, <1>3, <1>4, <1>5, <1>6, <1>7, <1>8, <1>10, <1>11, <1>12
     DEF Joined, AF, AE, AD, AC, AB
<1>16. (AF \o G) \o s = AF \o p9
  BY ONLY <1>15, Regroup
<1>17. AF \o p9 = AE \o p8
  <2>1. Joined(AE, F, p9, p8)
    BY ONLY <1>15
  <2>2. (AE \o F) \o p9 = AE \o p8
    BY ONLY <2>1, Regroup
  <2> QED BY ONLY <1>13, <2>2
<1>18. AE \o p8 = AD \o p7
  <2>1. Joined(AD, E, p8, p7)
    BY ONLY <1>15
  <2>2. (AD \o E) \o p8 = AD \o p7
    BY ONLY <2>1, Regroup
  <2> QED BY ONLY <1>13, <2>2
<1>19. AD \o p7 = AC \o p5
  <2>1. Joined(AC, D, p7, p5)
    BY ONLY <1>15
  <2>2. (AC \o D) \o p7 = AC \o p5
    BY ONLY <2>1, Regroup
  <2> QED BY ONLY <1>13, <2>2
<1>20. AC \o p5 = AB \o p2
  <2>1. Joined(AB, C, p5, p2)
    BY ONLY <1>15
  <2>2. (AB \o C) \o p5 = AB \o p2
    BY ONLY <2>1, Regroup
  <2> QED BY ONLY <1>13, <2>2
<1>21. AB \o p2 = A \o p1
  <2>1. Joined(A, B, p2, p1)
    BY ONLY <1>15
  <2>2. (A \o B) \o p2 = A \o p1
    BY ONLY <2>1, Regroup
  <2> QED BY ONLY <1>13, <2>2
<1>22. Matmul(p, bundle, P) \o s = p0
  BY ONLY <1>11, <1>14, <1>16, <1>17, <1>18, <1>19, <1>20, <1>21
<1> QED
  BY ONLY <1>22 DEF s, p0

-----------------------------------------------------------------------------
(***************************************************************************)
(* The compiler: the report of one stage, and the program as a whole.      *)
(***************************************************************************)
\* The instructions of the report of stage i.
LEMMA ReportBefore ==
  ASSUME NEW c, NEW i, Wired(c, i), Listed(c.reps[i])
  PROVE  _emit_report(c.plans[i]) \o c.reps[i] = R0(c, i)
<1> DEFINE p == c.plans[i]
           s == c.reps[i]
           e == Fence
           ro == ReadOut(c, i, TRUE)
           x == IF p.chained_out
                THEN <<mvout(<<p.out, "out">>, p.spad_dest, out_rows(p), p.n, TRUE), Fence>> ELSE <<>>
           y == <<report(<<p.out, "out">>, <<p.out, "out">>, p.n)>>
           z == IF p.out_fmt = BF16 THEN <<>> ELSE <<report(<<p.out, "scales">>, <<p.out, "scales">>, p.m)>>
           a == ReportOut(c, i)
           b == ReportScales(c, i)
<1>1. /\ c.n \in Nat \ {0} /\ i \in 1 .. c.n /\ c.f \in DOMAIN FORMATS
      /\ p.out_fmt = (IF i = c.n THEN BF16 ELSE c.f)
      /\ p.chained_out = (IF i = c.n THEN FALSE ELSE TRUE)
  BY DEF Wired
<1>2. c.f # BF16
  BY <1>1, FormatFacts
<1>3. _emit_report(p) = (x \o y) \o z
  BY DEF _emit_report
<1>4. y = <<a>> /\ Listed(y)
  BY Short DEF ReportOut, OutBuf
<1>5. Listed(x) /\ Listed(z)
  BY Short
<1>6. Listed(s) /\ Listed(<<>>)
  BY Short
<1>7. (i = c.n => ~(i < c.n)) /\ (i # c.n => i < c.n)
  BY ONLY <1>1
<1>8. i = c.n => x = <<>> /\ z = <<>>
  BY ONLY <1>1
<1>9. i # c.n => x = <<ro, e>> /\ z = <<b>>
  <2> SUFFICES ASSUME i # c.n PROVE x = <<ro, e>> /\ z = <<b>>
    OBVIOUS
  <2>1. p.chained_out = TRUE /\ p.out_fmt # BF16
    BY ONLY <1>1, <1>2, i # c.n
  <2>2. x = <<ro, e>>
    BY <2>1 DEF ReadOut, OutBuf
  <2>3. z = <<b>>
    BY <2>1 DEF ReportScales, ScaleBuf
  <2> QED BY <2>2, <2>3
<1> HIDE DEF x, y, z, s, a, b, ro, e, p
<1> DEFINE xy == x \o y
<1>10. Listed(xy)
  BY ONLY <1>4, <1>5, Join
<1>13. xy = x \o y
  OBVIOUS
<1> HIDE DEF xy
<1>11. CASE i = c.n
  <2>1. z \o s = s
    BY ONLY <1>6, <1>8, <1>11, Nothing
  <2>2. Joined(xy, z, s, s)
    BY ONLY <1>5, <1>6, <1>10, <2>1 DEF Joined
  <2>3. (xy \o z) \o s = xy \o s
    BY ONLY <2>2, Regroup
  <2>4. x \o y = y
    BY ONLY <1>4, <1>8, <1>11, Nothing
  <2>5. y \o s = Cons(a, s)
    BY ONLY <1>4 DEF Cons
  <2>6. R0(c, i) = Cons(a, s)
    BY ONLY <1>7, <1>11 DEF R0, a, s
  <2> QED BY ONLY <1>3, <1>13, <2>3, <2>4, <2>5, <2>6 DEF s, p
<1>12. CASE i # c.n
  <2> DEFINE r3 == Cons(b, s)
             r2 == Cons(a, r3)
  <2>1. z \o s = r3 /\ y \o r3 = r2
    BY ONLY <1>4, <1>9, <1>12 DEF Cons
  <2>2. Listed(r3) /\ Listed(r2)
    BY ONLY <1>6, ConsFacts
  <2>3. R0(c, i) = Cons(ro, Cons(e, r2))
    BY ONLY <1>7, <1>12 DEF R0, R1, R2, R3, a, s, b, ro, e
  <2> HIDE DEF r3, r2
  <2>4. Joined(xy, z, s, r3) /\ Joined(x, y, r3, r2)
    BY ONLY <1>4, <1>5, <1>6, <1>10, <2>1, <2>2 DEF Joined
  <2>5. (xy \o z) \o s = xy \o r3
    BY ONLY <2>4, Regroup
  <2>6. (x \o y) \o r3 = x \o r2
    BY ONLY <2>4, Regroup
  <2>7. <<ro, e>> \o r2 = Cons(ro, Cons(e, r2))
    BY ONLY <2>2, TwoBefore
  <2>8. x \o r2 = Cons(ro, Cons(e, r2))
    BY ONLY <1>9, <1>12, <2>7
  <2> QED BY ONLY <1>3, <1>13, <2>3, <2>5, <2>6, <2>8 DEF s, p
<1> QED
  BY ONLY <1>11, <1>12

\* The program of a driver, stage by stage and report by report.
Unrolled(plans, bundles, P, n, rest, reps) ==
  /\ \A i \in 0 .. n : Listed(rest[i]) /\ Listed(reps[i])
  /\ \A i \in 1 .. n : /\ rest[i - 1] = Matmul(plans[i], bundles[i], P) \o rest[i]
                       /\ reps[i - 1] = _emit_report(plans[i]) \o reps[i]
  /\ rest[n] = reps[0] /\ reps[n] = <<>>
  /\ generate_driver(plans, bundles, P) = rest[0]

\* Every driver's is.
LEMMA DriverUnrolled ==
  ASSUME NEW plans, NEW bundles, NEW P, Listed(plans), Len(plans) \in Nat \ {0}
  PROVE  \E rest, reps : Unrolled(plans, bundles, P, Len(plans), rest, reps)
<1> DEFINE n == Len(plans)
           s == [i \in DOMAIN plans |-> Matmul(plans[i], bundles[i], P)]
           t == [i \in DOMAIN plans |-> _emit_report(plans[i])]
<1>1. n \in Nat \ {0} /\ DOMAIN plans = 1 .. n
  BY DEF Listed
<1>2. Listed(s) /\ Len(s) = n /\ Listed(t) /\ Len(t) = n
  BY <1>1, ListOf
<1>3. \A i \in 1 .. n : /\ s[i] = Matmul(plans[i], bundles[i], P) /\ Listed(s[i])
                        /\ t[i] = _emit_report(plans[i]) /\ Listed(t[i])
  BY <1>1, MatmulGuarded, ReportGuarded DEF Guarded
<1>4. generate_driver(plans, bundles, P) =
        IF n = 1 THEN s[1] \o t[1] ELSE FlattenSeq(s) \o FlattenSeq(t)
  <2>1. n = 1 => s[1] = Matmul(plans[1], bundles[1], P) /\ t[1] = _emit_report(plans[1])
    BY <1>1, <1>3
  <2>2. n = 1 => generate_driver(plans, bundles, P) = s[1] \o t[1]
    <3> SUFFICES ASSUME n = 1 PROVE generate_driver(plans, bundles, P) = s[1] \o t[1]
      OBVIOUS
    <3>1. generate_driver(plans, bundles, P) = Matmul(plans[1], bundles[1], P) \o _emit_report(plans[1])
      BY DEF generate_driver, _emit_single
    <3> HIDE DEF s, t, n
    <3> QED BY <2>1, <3>1
  <2>3. n # 1 => generate_driver(plans, bundles, P) = FlattenSeq(s) \o FlattenSeq(t)
    BY DEF generate_driver, _emit_chain
  <2> HIDE DEF n, s, t
  <2> QED BY <2>2, <2>3
<1> HIDE DEF n, s, t
<1>5. PICK r : /\ \A i \in 1 .. n + 1 : Listed(r[i])
               /\ r[n + 1] = <<>>
               /\ \A i \in 1 .. n : r[i] = s[i] \o r[i + 1]
               /\ FlattenSeq(s) = r[1]
  <2>1. n \in Nat /\ Listed(s) /\ Len(s) = n /\ \A i \in 1 .. n : Listed(s[i])
    BY ONLY <1>1, <1>2, <1>3
  <2> QED BY ONLY <2>1, LeftOf
<1>6. PICK q : /\ \A i \in 1 .. n + 1 : Listed(q[i])
               /\ q[n + 1] = <<>>
               /\ \A i \in 1 .. n : q[i] = t[i] \o q[i + 1]
               /\ FlattenSeq(t) = q[1]
  <2>1. n \in Nat /\ Listed(t) /\ Len(t) = n /\ \A i \in 1 .. n : Listed(t[i])
    BY ONLY <1>1, <1>2, <1>3
  <2> QED BY ONLY <2>1, LeftOf
<1> DEFINE q1 == q[1]
           rest == [i \in 0 .. n |-> r[i + 1] \o q1]
           reps == [i \in 0 .. n |-> q[i + 1]]
<1>7. Listed(q1) /\ \A i \in 0 .. n : Listed(r[i + 1]) /\ Listed(q[i + 1])
  <2>1. 1 \in 1 .. n + 1 /\ \A i \in 0 .. n : i + 1 \in 1 .. n + 1
    BY ONLY <1>1
  <2> QED BY ONLY <1>5, <1>6, <2>1
<1>8. \A i \in 0 .. n : rest[i] = r[i + 1] \o q1 /\ reps[i] = q[i + 1]
  OBVIOUS
<1> HIDE DEF rest, reps
<1>9. \A i \in 0 .. n : Listed(rest[i]) /\ Listed(reps[i])
  <2> SUFFICES ASSUME NEW i \in 0 .. n PROVE Listed(rest[i]) /\ Listed(reps[i])
    OBVIOUS
  <2> DEFINE u == r[i + 1]
  <2>1. Listed(u) /\ Listed(q1)
    BY <1>7
  <2>2. rest[i] = u \o q1 /\ reps[i] = q[i + 1]
    BY <1>8
  <2> HIDE DEF u, q1
  <2>3. Listed(u \o q1)
    BY ONLY <2>1, Join
  <2> QED BY <1>7, <2>2, <2>3
<1>10. \A i \in 1 .. n : /\ rest[i - 1] = Matmul(plans[i], bundles[i], P) \o rest[i]
                         /\ reps[i - 1] = _emit_report(plans[i]) \o reps[i]
  <2> SUFFICES ASSUME NEW i \in 1 .. n
               PROVE  /\ rest[i - 1] = Matmul(plans[i], bundles[i], P) \o rest[i]
                      /\ reps[i - 1] = _emit_report(plans[i]) \o reps[i]
    OBVIOUS
  <2>1. i - 1 \in 0 .. n /\ i \in 0 .. n /\ (i - 1) + 1 = i
    BY ONLY <1>1, i \in 1 .. n
  <2> DEFINE u == r[i + 1]
             w == s[i]
  <2>2. rest[i - 1] = r[i] \o q1 /\ rest[i] = u \o q1 /\ reps[i - 1] = q[i] /\ reps[i] = q[i + 1]
    BY <1>8, <2>1
  <2>3. r[i] = w \o u /\ q[i] = t[i] \o q[i + 1]
    BY <1>5, <1>6
  <2>4. Listed(w) /\ Listed(u) /\ Listed(q1)
    BY <1>3, <1>7, <2>1
  <2>5. w = Matmul(plans[i], bundles[i], P) /\ t[i] = _emit_report(plans[i])
    BY <1>3
  <2> HIDE DEF u, w, q1
  <2>6. (w \o u) \o q1 = w \o (u \o q1)
    BY ONLY <2>4, Associates
  <2> QED BY ONLY <2>2, <2>3, <2>5, <2>6
<1>11. rest[n] = reps[0] /\ reps[n] = <<>>
  <2>1. n \in 0 .. n /\ 0 \in 0 .. n /\ 0 + 1 = 1
    BY ONLY <1>1
  <2>2. rest[n] = <<>> \o q1 /\ reps[0] = q1 /\ reps[n] = <<>>
    BY <1>5, <1>6, <1>8, <2>1
  <2> HIDE DEF q1
  <2>3. <<>> \o q1 = q1
    BY ONLY <1>7, Nothing
  <2> QED BY ONLY <2>2, <2>3
<1>12. generate_driver(plans, bundles, P) = rest[0]
  <2>1. rest[0] = r[1] \o q[1]
    <3>1. 0 \in 0 .. n /\ 0 + 1 = 1
      BY ONLY <1>1
    <3> QED BY <1>8, <3>1
  <2>2. CASE n # 1
    BY ONLY <1>4, <1>5, <1>6, <2>1, <2>2
  <2>3. CASE n = 1
    <3>1. r[1] = s[1] \o <<>> /\ q[1] = t[1] \o <<>>
      <4>1. 1 \in 1 .. n /\ n + 1 = 2 /\ 1 + 1 = 2
        BY ONLY <2>3
      <4> QED BY ONLY <1>5, <1>6, <4>1
    <3> DEFINE a == s[1]
               b == t[1]
    <3>2. Listed(a) /\ Listed(b)
      <4>1. 1 \in 1 .. n
        BY ONLY <2>3
      <4> QED BY ONLY <1>3, <4>1
    <3> HIDE DEF a, b
    <3>3. a \o <<>> = a /\ b \o <<>> = b
      BY ONLY <3>2, Nothing
    <3>4. r[1] = a /\ q[1] = b
      BY ONLY <3>1, <3>3 DEF a, b
    <3> QED BY ONLY <1>4, <2>1, <2>3, <3>4 DEF a, b
  <2> QED BY ONLY <2>2, <2>3
<1>13. Unrolled(plans, bundles, P, n, rest, reps)
  BY ONLY <1>9, <1>10, <1>11, <1>12 DEF Unrolled
<1> QED
  BY <1>13 DEF n

\* So the program of c is its stages and reports.
LEMMA PlannedProgram ==
  ASSUME NEW c, NEW P, c.n \in Nat \ {0}, \A i \in 1 .. c.n : Wired(c, i), c.group = P.lut_group,
         Unrolled(c.plans, c.bundles, P, c.n, c.rest, c.reps)
  PROVE  SoundProgram(c)
<1>1. /\ \A i \in 0 .. c.n : Listed(c.rest[i]) /\ Listed(c.reps[i])
      /\ \A i \in 1 .. c.n : /\ c.rest[i - 1] = Matmul(c.plans[i], c.bundles[i], P) \o c.rest[i]
                             /\ c.reps[i - 1] = _emit_report(c.plans[i]) \o c.reps[i]
      /\ c.rest[c.n] = c.reps[0] /\ c.reps[c.n] = <<>>
  BY DEF Unrolled
<1>2. ASSUME NEW i \in 1 .. c.n PROVE c.rest[i - 1] = P0(c, i) /\ c.reps[i - 1] = R0(c, i)
  <2>1. i \in 0 .. c.n
    OBVIOUS
  <2>2. Wired(c, i) /\ Listed(c.rest[i]) /\ Listed(c.reps[i]) /\ c.group = P.lut_group
    BY <1>1, <2>1
  <2>3. Matmul(c.plans[i], c.bundles[i], P) \o c.rest[i] = P0(c, i)
    BY ONLY <2>2, MatmulBefore
  <2>4. _emit_report(c.plans[i]) \o c.reps[i] = R0(c, i)
    BY ONLY <2>2, ReportBefore
  <2>5. c.rest[i - 1] = Matmul(c.plans[i], c.bundles[i], P) \o c.rest[i]
        /\ c.reps[i - 1] = _emit_report(c.plans[i]) \o c.reps[i]
    BY ONLY <1>1, i \in 1 .. c.n
  <2> QED BY ONLY <2>3, <2>4, <2>5
<1> QED
  BY ONLY <1>1, <1>2 DEF SoundProgram

-----------------------------------------------------------------------------
(***************************************************************************)
(* The compiler: the recipe, and the books of the operands.                *)
(***************************************************************************)
\* The unit u holds the tables of format d that the emitter was told of.
Served(d, P, u) ==
  FORMATS[d].lut =>
    /\ ~IsNull(u) /\ d \in LUT_SERVES[u.projFormat] /\ u.rdataWidth = FORMATS[d].entry_bits
    /\ P.lut_tables = u.numEntries /\ P.lut_group < 2 ^ u.lutUpdateRegularityWidth

\* A recipe the machine may run.
LEMMA RecipeChecked ==
  ASSUME NEW hw, NEW run, check(hw, run, "kernel", Scratchpad)
  PROVE  /\ run.operand_fmt \in DOMAIN FORMATS
         /\ Machine(emitter_params(hw, run))
         /\ Served(run.operand_fmt, emitter_params(hw, run), hw.lut)
<1> DEFINE d == run.operand_fmt
           P == emitter_params(hw, run)
           u == hw.lut
<1>1. /\ d \in mxq_format
      /\ ~IsNull(run.lut) => _check_lut(hw, run)
      /\ d \in CODEBOOK => ~IsNull(run.lut)
      /\ hw.dim = KERNEL_DIM
      /\ <<hw.banks, hw.rows>> = Scratchpad
  BY DEF check
<1>2. d \in DOMAIN FORMATS
  BY <1>1 DEF mxq_format
<1>3. P.dim = 16 /\ P.bank_num = hw.banks /\ P.bank_rows = hw.rows
  BY <1>1 DEF emitter_params, KERNEL_DIM
<1>4. hw.banks = Scratchpad[1] /\ hw.rows = Scratchpad[2]
  BY <1>1
<1>5. spad_rows(P) = SpadRows
  BY ONLY <1>3, <1>4 DEF spad_rows, SpadRows
<1>6. Machine(P)
  BY <1>3, <1>5 DEF Machine
<1>7. Served(d, P, u)
  <2> SUFFICES ASSUME FORMATS[d].lut
               PROVE  /\ ~IsNull(u) /\ d \in LUT_SERVES[u.projFormat] /\ u.rdataWidth = FORMATS[d].entry_bits
                      /\ P.lut_tables = u.numEntries /\ P.lut_group < 2 ^ u.lutUpdateRegularityWidth
    BY DEF Served
  <2>1. d \in CODEBOOK
    BY <1>2 DEF CODEBOOK, FORMATS, Direct, Indexed
  <2>2. ~IsNull(run.lut) /\ _check_lut(hw, run)
    BY ONLY <1>1, <2>1
  <2>3. /\ ~IsNull(u) /\ d \in LUT_SERVES[u.projFormat] /\ u.rdataWidth = FORMATS[d].entry_bits
        /\ run.lut.group < 2 ^ u.lutUpdateRegularityWidth
    BY ONLY <2>2 DEF _check_lut
  <2>4. P.lut_tables = u.numEntries /\ P.lut_group = run.lut.group
    <3> DEFINE g == run.lut.group
               e == u.numEntries
    <3> HIDE DEF g, e
    <3>1. P = [dim |-> hw.dim, bank_num |-> hw.banks, bank_rows |-> hw.rows,
               lut_group |-> IF IsNull(run.lut) THEN 0 ELSE g,
               lut_tables |-> IF IsNull(run.lut) THEN <<>> ELSE e]
      BY DEF emitter_params, g, e
    <3>2. P = [dim |-> hw.dim, bank_num |-> hw.banks, bank_rows |-> hw.rows, lut_group |-> g, lut_tables |-> e]
      BY ONLY <2>2, <3>1
    <3> HIDE DEF P
    <3>3. P.lut_tables = e /\ P.lut_group = g
      BY ONLY <3>2
    <3> QED BY <3>3 DEF g, e
  <2> HIDE DEF P
  <2> QED BY ONLY <2>3, <2>4
<1> QED
  BY <1>2, <1>6, <1>7

\* The book of the left operand of stage i,
BookA(K, d, i) == IF i = 1 THEN Book(d, Leaf(INPUT)) ELSE Book(d, <<"est", K.stages[i - 1].name>>)
\* and of its result.
BookC(K, d, i) == IF i = Len(K.stages) THEN BookA(K, d, i) ELSE Book(d, <<"est", K.stages[i].name>>)

\* What the bundle of stage i holds.
LEMMA BundleFields ==
  ASSUME NEW K, NEW d, NEW g, NEW i \in DOMAIN K.stages
  PROVE  LET b == Bundles(K, d, g)[i]
             s == stage_mnk(K, i)
         IN  /\ i = 1 => b.a = Leaf(INPUT)
             /\ b.b = Weight(K.stages[i].name)
             /\ b.a_lut = BookA(K, d, i)
             /\ b.b_lut = Book(d, Weight(K.stages[i].name))
             /\ b.c_lut = BookC(K, d, i)
             /\ FORMATS[d].lut => b.luts = <<s[3] \div 2 ^ g, s[1] \div 2 ^ g, lut_words(FORMATS[d].entry_bits)>>
<1> DEFINE st == K.stages[i]
           s == stage_mnk(K, i)
           a1 == IF i = 1 THEN Leaf(INPUT) ELSE <<>>
           b1 == Weight(st.name)
           ac == IF i = 1 THEN PackedA(K.x[1], K.x[2], d) ELSE <<>>
           bc == PackedB(st.weight[1], st.weight[2], d)
           al == BookA(K, d, i)
           bl == Book(d, Weight(st.name))
           cl == BookC(K, d, i)
           lt == IF FORMATS[d].lut
                 THEN <<s[3] \div 2 ^ g, s[1] \div 2 ^ g, lut_words(FORMATS[d].entry_bits)>> ELSE <<>>
           b == Bundles(K, d, g)[i]
<1>1. b = [a |-> a1, b |-> b1, a_codes |-> ac, b_codes |-> bc, a_lut |-> al, b_lut |-> bl,
           c_lut |-> cl, luts |-> lt]
  BY DEF Bundles, BookA, BookC
<1>2. FORMATS[d].lut => lt = <<s[3] \div 2 ^ g, s[1] \div 2 ^ g, lut_words(FORMATS[d].entry_bits)>>
  OBVIOUS
<1>3. i = 1 => a1 = Leaf(INPUT)
  OBVIOUS
<1> HIDE DEF a1, b1, ac, bc, al, bl, cl, lt, b
<1>4. b.a = a1 /\ b.b = b1 /\ b.a_lut = al /\ b.b_lut = bl /\ b.c_lut = cl /\ b.luts = lt
  BY ONLY <1>1
<1> QED
  BY <1>2, <1>3, <1>4 DEF b, b1, al, bl, cl

\* The books of c are sound, on a unit that serves its format.
LEMMA PlannedBooks ==
  ASSUME NEW c, NEW K, NEW d, NEW P, NEW f, Planned(c, K, d, P, f), Served(d, P, c.unit),
         c.bundles = Bundles(K, d, P.lut_group), c.group = P.lut_group
  PROVE  SoundBooks(c)
<1> DEFINE n == c.n
           u == c.unit
           g == P.lut_group
<1>1. /\ n = Len(K.stages) /\ n \in Nat \ {0} /\ Machine(P) /\ c.f = d
      /\ K \in KernelType /\ Plain(K) /\ d \in DOMAIN FORMATS
      /\ \A i \in 1 .. n : PlanRefusal(PlanOf(K, d, P, i), P) = ""
  BY DEF Planned
<1>2. DOMAIN K.stages = 1 .. n
  BY <1>1, PlainTyped
<1>3. \A i \in 1 .. n : /\ c.bundles[i].a_lut = BookA(K, d, i) /\ c.bundles[i].c_lut = BookC(K, d, i)
                        /\ c.bundles[i].b_lut = Book(d, Weight(K.stages[i].name))
                        /\ FORMATS[d].lut => c.bundles[i].luts =
                             <<Width(K, i) \div 2 ^ g, K.x[1] \div 2 ^ g, lut_words(FORMATS[d].entry_bits)>>
  <2> SUFFICES ASSUME NEW i \in 1 .. n
               PROVE  /\ c.bundles[i].a_lut = BookA(K, d, i) /\ c.bundles[i].c_lut = BookC(K, d, i)
                      /\ c.bundles[i].b_lut = Book(d, Weight(K.stages[i].name))
                      /\ FORMATS[d].lut => c.bundles[i].luts =
                           <<Width(K, i) \div 2 ^ g, K.x[1] \div 2 ^ g, lut_words(FORMATS[d].entry_bits)>>
    OBVIOUS
  <2>1. i \in DOMAIN K.stages /\ i \in 1 .. Len(K.stages)
    BY ONLY <1>1, <1>2, i \in 1 .. n
  <2> DEFINE b == Bundles(K, d, g)[i]
             s == stage_mnk(K, i)
  <2>2. /\ b.a_lut = BookA(K, d, i) /\ b.c_lut = BookC(K, d, i)
        /\ b.b_lut = Book(d, Weight(K.stages[i].name))
        /\ FORMATS[d].lut => b.luts = <<s[3] \div 2 ^ g, s[1] \div 2 ^ g, lut_words(FORMATS[d].entry_bits)>>
    BY ONLY <2>1, BundleFields
  <2>3. s = <<K.x[1], Width(K, i - 1), Width(K, i)>>
    BY ONLY <1>1, <2>1, ChainShapes
  <2>4. s[1] = K.x[1] /\ s[3] = Width(K, i)
    BY ONLY <2>3
  <2>5. c.bundles[i] = b
    OBVIOUS
  <2> HIDE DEF b, s
  <2> QED BY ONLY <2>2, <2>4, <2>5
<1>4. CASE FORMATS[d].lut
  <2>1. /\ ~IsNull(u) /\ d \in LUT_SERVES[u.projFormat] /\ u.rdataWidth = FORMATS[d].entry_bits
        /\ P.lut_tables = u.numEntries /\ g < 2 ^ u.lutUpdateRegularityWidth
    BY <1>4 DEF Served
  <2>2. ASSUME NEW i \in 1 .. n PROVE BooksFit(LoadBooks(c, i), u)
    <3> DEFINE q == PlanOf(K, d, P, i)
               b == c.bundles[i]
               x == Width(K, i) \div 2 ^ g
               y == K.x[1] \div 2 ^ g
               L == LoadBooks(c, i)
    <3>1. PlanRefusal(q, P) = ""
      BY <1>1
    <3>2. Shaped(K, d, P, i, q)
      BY ONLY <1>1, PlansShaped
    <3>3. q.m = K.x[1] /\ q.n = Width(K, i) /\ q.act_fmt = d
      BY ONLY <3>2 DEF Shaped
    <3>4. IsLut(q)
      BY <1>4, <3>3 DEF IsLut
    <3>5. ~(q.n \div 2 ^ g > P.lut_tables[1]) /\ ~(q.m \div 2 ^ g > P.lut_tables[2])
          /\ ~(q.m \div 2 ^ g > P.lut_tables[3])
      BY ONLY <3>1, <3>4, Legal
    <3> HIDE DEF q
    <3>6. ~(x > u.numEntries[1]) /\ ~(y > u.numEntries[2]) /\ ~(y > u.numEntries[3])
      BY ONLY <2>1, <3>3, <3>5
    <3>7. L.luts = b.luts /\ L.group = c.group
      BY DEF LoadBooks
    <3>8. b.luts = <<x, y, lut_words(FORMATS[d].entry_bits)>>
      BY ONLY <1>3, <1>4, i \in 1 .. n
    <3> HIDE DEF x, y, b, L
    <3>9. L.luts[1] = x /\ L.luts[2] = y /\ L.luts[3] = lut_words(FORMATS[d].entry_bits)
      BY ONLY <3>7, <3>8
    <3>10. c.group = g
      OBVIOUS
    <3> HIDE DEF g
    <3>11. L.luts[3] = lut_words(u.rdataWidth) /\ L.group < 2 ^ u.lutUpdateRegularityWidth
      BY ONLY <2>1, <3>7, <3>9, <3>10
    <3>12. ~(L.luts[1] > u.numEntries[1]) /\ ~(L.luts[2] > u.numEntries[2]) /\ ~(L.luts[2] > u.numEntries[3])
      BY ONLY <3>6, <3>9
    <3>13. BooksFit(L, u)
      BY ONLY <2>1, <3>11, <3>12 DEF BooksFit
    <3> QED BY <3>13 DEF L
  <2>3. ASSUME NEW i \in 2 .. n PROVE c.bundles[i].a_lut = c.bundles[i - 1].c_lut
    <3>1. i \in 1 .. n /\ i - 1 \in 1 .. n /\ i # 1 /\ i - 1 # Len(K.stages)
      <4> HIDE DEF n
      <4>1. n \in Nat
        BY ONLY <1>1
      <4>2. i \in 1 .. n /\ i - 1 \in 1 .. n /\ i # 1 /\ i - 1 # n
        BY ONLY <4>1, i \in 2 .. n
      <4> QED BY ONLY <1>1, <4>2
    <3>2. c.bundles[i].a_lut = BookA(K, d, i) /\ c.bundles[i - 1].c_lut = BookC(K, d, i - 1)
      BY ONLY <1>3, <3>1
    <3>3. BookA(K, d, i) = BookC(K, d, i - 1)
      BY ONLY <3>1 DEF BookA, BookC
    <3> QED BY ONLY <3>2, <3>3
  <2> QED BY ONLY <1>1, <1>4, <2>1, <2>2, <2>3 DEF SoundBooks, n, u
<1>5. CASE ~FORMATS[d].lut
  <2>1. \A t : Book(d, t) = <<>>
    BY ONLY <1>5 DEF Book
  <2>2. ASSUME NEW i \in 1 .. n PROVE BooksOf(c, i) = <<<<>>, <<>>, <<>>>>
    <3>1. BookA(K, d, i) = <<>> /\ BookC(K, d, i) = <<>> /\ Book(d, Weight(K.stages[i].name)) = <<>>
      BY ONLY <2>1 DEF BookA, BookC
    <3>2. c.bundles[i].a_lut = <<>> /\ c.bundles[i].b_lut = <<>> /\ c.bundles[i].c_lut = <<>>
      BY ONLY <1>3, <3>1, i \in 1 .. n
    <3> QED BY ONLY <3>2 DEF BooksOf
  <2> QED BY ONLY <1>1, <1>5, <2>2 DEF SoundBooks, n
<1> QED
  BY ONLY <1>4, <1>5

-----------------------------------------------------------------------------
(***************************************************************************)
(* The compiler: the reference walk of a chain.                            *)
(***************************************************************************)
\* The recursive function in Walk exists, and satisfies its equation.
LEMMA WalkUnfold ==
  ASSUME NEW K, NEW edges, Len(K.stages) \in Nat
  PROVE  \E f : /\ f = [i \in 0 .. Len(K.stages) |->
                         IF i = 0 THEN [y \in {INPUT} |-> Leaf(INPUT)]
                         ELSE Put(f[i - 1], K.stages[i].name, ValueOf(K, edges, i, f[i - 1]))]
                /\ Walk(K, edges) = f[Len(K.stages)]
<1> DEFINE More(v, i) == Put(v, K.stages[i].name, ValueOf(K, edges, i, v))
           first == [y \in {INPUT} |-> Leaf(INPUT)]
           Solves(f, m) == f = [i \in 0 .. m |-> IF i = 0 THEN first ELSE More(f[i - 1], i)]
           Bad == {m \in Nat : ~\E f : Solves(f, m)}
<1> HIDE DEF first, More
<1>1. Bad = {}
  <2> SUFFICES ASSUME Bad # {} PROVE FALSE
    OBVIOUS
  <2>1. PICK m \in Bad : \A k \in Bad : m <= k
    BY Least
  <2>2. CASE m = 0
    <3> Solves([i \in 0 .. 0 |-> first], 0)
      OBVIOUS
    <3> QED BY <2>2
  <2>3. CASE m # 0
    <3>0. m \in Nat /\ m - 1 \in Nat /\ ~(m <= m - 1)
      BY <2>3
    <3>1. m - 1 \notin Bad
      BY <2>1, <3>0
    <3>2. PICK f : Solves(f, m - 1)
      BY <3>0, <3>1
    <3> DEFINE g == [i \in 0 .. m |-> IF i < m THEN f[i] ELSE More(f[m - 1], m)]
    <3>3. Solves(g, m)
      <4>1. \A i \in 0 .. m - 1 : f[i] = IF i = 0 THEN first ELSE More(f[i - 1], i)
        BY <3>0, <3>2
      <4>2. ASSUME NEW i \in 0 .. m
            PROVE  g[i] = IF i = 0 THEN first ELSE More(g[i - 1], i)
        <5>1. CASE i < m
          BY <3>0, <4>1, <5>1
        <5>2. CASE i = m
          BY <3>0, <2>3, <5>2
        <5> QED BY <5>1, <5>2, <3>0
      <4> QED BY <4>2
    <3> QED BY <3>3, <3>0
  <2> QED BY <2>2, <2>3
<1>2. PICK h : Solves(h, Len(K.stages))
  BY <1>1
<1> DEFINE f == CHOOSE f : Solves(f, Len(K.stages))
<1>3. Solves(f, Len(K.stages))
  BY <1>2
<1>4. Walk(K, edges) = f[Len(K.stages)]
  BY DEF Walk, first, More
<1> QED BY <1>3, <1>4 DEF first, More

\* How a chain's values reach the next matmul: requantised.
Requants(K) == [s \in {K.stages[i].name : i \in MeshStages(K)} |-> "requant"]

\* The walk of a chain.
LEMMA ChainWalked ==
  ASSUME NEW K \in KernelType, Plain(K), NEW i \in 1 .. Len(K.stages)
  PROVE  Walk(K, Requants(K))[K.stages[i].name]
           = MM(IF i = 1 THEN QA(Leaf(INPUT)) ELSE Requant(Walk(K, Requants(K))[K.stages[i - 1].name]),
                QB(Weight(K.stages[i].name)))
<1> DEFINE n == Len(K.stages)
           x == Leaf(INPUT)
           E == Requants(K)
<1>1. /\ n \in Nat /\ DOMAIN K.stages = 1 .. n
      /\ \A k \in 1 .. n :
              /\ on_mesh(K.stages[k]) /\ K.stages[k].weight # <<>>
              /\ Lhs(K, k) = (IF k = 1 THEN INPUT ELSE K.stages[k - 1].name)
              /\ K.stages[k].name # INPUT
  BY PlainTyped
<1>2. PICK f : /\ f = [j \in 0 .. n |-> IF j = 0 THEN [y \in {INPUT} |-> x]
                                        ELSE Put(f[j - 1], K.stages[j].name, ValueOf(K, E, j, f[j - 1]))]
               /\ Walk(K, E) = f[n]
  BY <1>1, WalkUnfold
<1> DEFINE nm == [j \in 1 .. n |-> K.stages[j].name]
           v == [j \in 1 .. n |-> ValueOf(K, E, j, f[j - 1])]
<1>3. \A j \in 1 .. n : nm[j] = K.stages[j].name /\ v[j] = ValueOf(K, E, j, f[j - 1])
  OBVIOUS
<1>4. \A j, k \in 1 .. n : nm[j] = nm[k] => j = k
  BY <1>1, <1>3 DEF Plain
<1>20. INPUT \notin DOMAIN E /\ \A j \in 1 .. n : K.stages[j].name \in DOMAIN E /\ E[K.stages[j].name] = "requant"
  BY <1>1 DEF Requants, MeshStages
<1> HIDE DEF n, nm, v, x, E
<1>5. f[0] = [y \in {INPUT} |-> x]
  BY <1>1, <1>2
<1>6. \A j \in 1 .. n : f[j] = Put(f[j - 1], nm[j], v[j])
  <2> SUFFICES ASSUME NEW j \in 1 .. n PROVE f[j] = Put(f[j - 1], nm[j], v[j])
    OBVIOUS
  <2>1. j \in 0 .. n /\ j # 0
    BY <1>1
  <2> QED BY <1>2, <1>3, <2>1
<1>7. \A j \in 1 .. n : nm[j] # INPUT
  BY <1>1, <1>3
<1>8. \A j \in 0 .. n : /\ INPUT \in DOMAIN f[j] /\ f[j][INPUT] = x
                        /\ \A k \in 1 .. j : nm[k] \in DOMAIN f[j] /\ f[j][nm[k]] = v[k]
  <2>1. Grows(n, f, nm, v, x)
    BY <1>1, <1>4, <1>5, <1>6, <1>7 DEF Grows
  <2> QED BY ONLY <2>1, Growing
<1>9. \A j \in 1 .. n : Walk(K, E)[nm[j]] = v[j]
  <2>1. n \in 0 .. n
    BY ONLY <1>1
  <2> QED BY ONLY <1>2, <1>8, <2>1
<1>10. i \in 1 .. n
  BY DEF n
<1>11. v[i] = MM(IF i = 1 THEN QA(x) ELSE Requant(Walk(K, E)[nm[i - 1]]), QB(Weight(nm[i])))
  <2> DEFINE w == f[i - 1]
             l == Lhs(K, i)
             st == K.stages[i]
             a == IF l \in DOMAIN E /\ E[l] = "requant" THEN Requant(w[l]) ELSE QA(w[l])
             b == QB(IF st.weight # <<>> THEN Weight(st.name)
                     ELSE IF st.rT THEN T(w[st.rhs]) ELSE w[st.rhs])
  <2>1. on_mesh(st) /\ st.weight # <<>> /\ nm[i] = st.name
    BY <1>1, <1>3, <1>10
  <2>2. v[i] = IF on_mesh(st) THEN MM(a, b)
               ELSE Host(st.op, [s \in DOMAIN Srcs(K, i) |-> w[Srcs(K, i)[s]]])
    BY ONLY <1>3, <1>10 DEF ValueOf
  <2>3. b = QB(Weight(nm[i]))
    BY ONLY <2>1
  <2>4. a = IF i = 1 THEN QA(x) ELSE Requant(Walk(K, E)[nm[i - 1]])
    <3>1. CASE i = 1
      <4>1. l = INPUT /\ i - 1 = 0
        BY ONLY <1>1, <1>10, <3>1
      <4>2. w[INPUT] = x
        <5>1. 0 \in 0 .. n
          BY ONLY <1>1
        <5> QED BY ONLY <1>8, <4>1, <5>1
      <4>3. l \notin DOMAIN E
        BY ONLY <1>20, <4>1
      <4>4. a = QA(w[l])
        BY ONLY <4>3
      <4> HIDE DEF a, w, l
      <4> QED BY ONLY <3>1, <4>1, <4>2, <4>4
    <3>2. CASE i # 1
      <4>1. i - 1 \in 1 .. n /\ i - 1 \in 0 .. n /\ i - 1 \in 1 .. i - 1
        BY ONLY <1>1, <1>10, <3>2
      <4>2. l = nm[i - 1]
        BY ONLY <1>1, <1>3, <1>10, <3>2, <4>1
      <4>3. w[nm[i - 1]] = v[i - 1]
        BY ONLY <1>8, <4>1
      <4>4. l \in DOMAIN E /\ E[l] = "requant"
        BY ONLY <1>3, <1>20, <4>1, <4>2
      <4>5. a = Requant(w[l])
        BY ONLY <4>4
      <4>6. Walk(K, E)[nm[i - 1]] = v[i - 1]
        BY ONLY <1>9, <4>1
      <4> HIDE DEF a, w, l
      <4> QED BY ONLY <3>2, <4>2, <4>3, <4>5, <4>6
    <3> QED BY ONLY <3>1, <3>2
  <2> HIDE DEF a, b, st
  <2> QED BY ONLY <2>1, <2>2, <2>3, <2>4
<1>12. Walk(K, E)[nm[i]] = v[i]
  BY ONLY <1>9, <1>10
<1>13. i # 1 => nm[i - 1] = K.stages[i - 1].name
  <2> SUFFICES ASSUME i # 1 PROVE nm[i - 1] = K.stages[i - 1].name
    OBVIOUS
  <2>1. i - 1 \in 1 .. n
    BY ONLY <1>1, <1>10, i # 1
  <2> QED BY ONLY <1>3, <2>1
<1>14. nm[i] = K.stages[i].name
  BY ONLY <1>3, <1>10
<1> QED
  BY ONLY <1>11, <1>12, <1>13, <1>14 DEF E, x

-----------------------------------------------------------------------------
(***************************************************************************)
(* The chain a kernel is compiled to.                                      *)
(***************************************************************************)
\* The value of stage i in the walk of the reference.
WalkedTo(K, i) == Walk(K, Requants(K))[K.stages[i].name]

\* The chain a kernel is compiled to.
Compiled(c, K, d, P, u, f, ps) ==
  /\ Planned(c, K, d, P, f) /\ c.plans = ps
  /\ c.group = P.lut_group /\ c.bundles = Bundles(K, d, P.lut_group) /\ c.unit = u
  /\ c.val = [i \in 1 .. Len(K.stages) |-> WalkedTo(K, i)]
  /\ c.want = Wanted(K, "fused", Requants(K))
  /\ Unrolled(c.plans, c.bundles, P, c.n, c.rest, c.reps)

\* What it is put together from.
Parts(K, d, P, f, ps, rest, reps) ==
  /\ K \in KernelType /\ Plain(K) /\ d \in DOMAIN FORMATS /\ Machine(P) /\ Len(K.stages) \in Nat \ {0}
  /\ Destined(K, d, P, f) /\ Placement(K, d, P, f, ps)
  /\ \A i \in 1 .. Len(K.stages) : PlanRefusal(PlanOf(K, d, P, i), P) = ""
  /\ Unrolled(ps, Bundles(K, d, P.lut_group), P, Len(K.stages), rest, reps)

\* From its parts there is such a chain.
LEMMA CompiledOf ==
  ASSUME NEW K, NEW d, NEW P, NEW u, NEW f, NEW ps, NEW rest, NEW reps,
         Parts(K, d, P, f, ps, rest, reps)
  PROVE  \E c : Compiled(c, K, d, P, u, f, ps) /\ c.rest = rest
<1> DEFINE n == Len(K.stages)
           g == P.lut_group
           bs == Bundles(K, d, g)
           val == [i \in 1 .. n |-> WalkedTo(K, i)]
           w == Wanted(K, "fused", Requants(K))
           c == [n |-> n, f |-> d, group |-> g, plans |-> ps, bundles |-> bs, unit |-> u,
                 val |-> val, want |-> w, rest |-> rest, reps |-> reps]
<1> HIDE DEF n, g, bs, val, w
<1>1. /\ c.n = n /\ c.f = d /\ c.group = g /\ c.plans = ps /\ c.bundles = bs /\ c.unit = u
      /\ c.val = val /\ c.want = w /\ c.rest = rest /\ c.reps = reps
  OBVIOUS
<1> HIDE DEF c
<1>2. Planned(c, K, d, P, f)
  BY <1>1 DEF Parts, Planned, n
<1>3. Unrolled(c.plans, c.bundles, P, c.n, c.rest, c.reps)
  BY <1>1 DEF Parts, n, bs, g
<1>4. Compiled(c, K, d, P, u, f, ps) /\ c.rest = rest
  BY ONLY <1>1, <1>2, <1>3 DEF Compiled, n, g, bs, val, w
<1> QED
  BY <1>4

\* It wants what the reference walk computes.
LEMMA CompiledWants ==
  ASSUME NEW c, NEW K, NEW d, NEW P, NEW u, NEW f, NEW ps, Compiled(c, K, d, P, u, f, ps)
  PROVE  SoundWant(c)
<1> DEFINE n == c.n
<1>1. /\ n = Len(K.stages) /\ n \in Nat \ {0} /\ K \in KernelType /\ Plain(K)
      /\ c.bundles = Bundles(K, d, P.lut_group)
      /\ c.val = [i \in 1 .. Len(K.stages) |-> WalkedTo(K, i)]
      /\ c.want = Wanted(K, "fused", Requants(K))
  BY DEF Compiled, Planned
<1>2. DOMAIN K.stages = 1 .. n
  BY <1>1, PlainTyped
<1> HIDE DEF n
<1>3. \A i \in 1 .. n : c.val[i] = WalkedTo(K, i)
  BY ONLY <1>1
<1>4. \A i \in 1 .. n : /\ i = 1 => c.bundles[i].a = Leaf(INPUT)
                        /\ c.bundles[i].b = Weight(K.stages[i].name)
  BY ONLY <1>1, <1>2, BundleFields
<1>5. ASSUME NEW i \in 1 .. n PROVE c.val[i] = MM(InTerm(c, i), QB(c.bundles[i].b))
  <2> DEFINE a == IF i = 1 THEN QA(Leaf(INPUT)) ELSE Requant(WalkedTo(K, i - 1))
             b == QB(Weight(K.stages[i].name))
  <2>1. WalkedTo(K, i) = MM(a, b)
    <3>1. K \in KernelType /\ Plain(K) /\ i \in 1 .. Len(K.stages)
      BY ONLY <1>1, i \in 1 .. n
    <3> QED BY ONLY <3>1, ChainWalked DEF WalkedTo
  <2>2. b = QB(c.bundles[i].b)
    BY ONLY <1>4, i \in 1 .. n
  <2>3. InTerm(c, i) = a
    <3>1. CASE i = 1
      <4>1. c.bundles[1].a = Leaf(INPUT)
        BY ONLY <1>4, <3>1, i \in 1 .. n
      <4> QED BY ONLY <3>1, <4>1 DEF InTerm
    <3>2. CASE i # 1
      <4>1. i - 1 \in 1 .. n
        BY ONLY <1>1, <3>2, i \in 1 .. n
      <4>2. c.val[i - 1] = WalkedTo(K, i - 1)
        BY ONLY <1>3, <4>1
      <4> QED BY ONLY <3>2, <4>2 DEF InTerm
    <3> QED BY ONLY <3>1, <3>2
  <2>4. c.val[i] = WalkedTo(K, i)
    BY ONLY <1>3, i \in 1 .. n
  <2> HIDE DEF a, b
  <2> QED BY ONLY <2>1, <2>2, <2>3, <2>4
<1> DEFINE S == {TName(i) : i \in 1 .. n - 1} \X {"out", "scales"}
           y == <<YName, "out">>
           part(o) == Requant(WalkedTo(K, o[1][2]))
           g == [o \in S |-> part(o)]
<1>6. c.want = Put(g, y, WalkedTo(K, n))
  <2>1. Wanted(K, "fused", Requants(K)) =
          Put([o \in {TName(i) : i \in 1 .. Len(K.stages) - 1} \X {"out", "scales"} |->
                 Requant(WalkedTo(K, o[1][2]))],
              <<YName, "out">>, WalkedTo(K, Len(K.stages)))
    BY DEF Wanted, WalkedTo
  <2> QED BY ONLY <1>1, <2>1
<1>7. c.want = [o \in S \cup {y} |-> IF o = y THEN WalkedTo(K, n) ELSE part(o)]
  <2>1. y \notin S
    BY DEF TName, YName
  <2>2. DOMAIN g = S /\ \A o \in S : g[o] = part(o)
    OBVIOUS
  <2> HIDE DEF g, part, S, y
  <2> QED BY ONLY <1>6, <2>1, <2>2 DEF Put
<1>8. Reported(c, n) = S \cup {y}
  <2>1. \A j : (j \in 1 .. n /\ j < n) <=> j \in 1 .. n - 1
    BY ONLY <1>1
  <2>2. {k \in 1 .. n : k < n} = 1 .. n - 1
    BY ONLY <2>1
  <2>3. Reported(c, n) = ({TName(j) : j \in {k \in 1 .. n : k < n}} \X {"out", "scales"}) \cup {y}
    BY DEF Reported, n
  <2> QED BY ONLY <2>2, <2>3
<1>9. DOMAIN c.want = S \cup {y} /\ c.want = [o \in S \cup {y} |-> c.want[o]]
  <2> HIDE DEF S, y, part
  <2> QED BY ONLY <1>7
<1>10. ASSUME NEW i \in 1 .. n - 1, NEW s \in {"out", "scales"}
       PROVE  c.want[<<TName(i), s>>] = Requant(c.val[i])
  <2> DEFINE o == <<TName(i), s>>
  <2>1. o \in S /\ o # y
    BY DEF TName, YName
  <2>2. o[1][2] = i
    BY DEF TName
  <2>3. part(o) = Requant(WalkedTo(K, i))
    BY ONLY <2>2
  <2>4. c.val[i] = WalkedTo(K, i)
    <3>1. i \in 1 .. n
      BY ONLY <1>1, i \in 1 .. n - 1
    <3> QED BY ONLY <1>3, <3>1
  <2> HIDE DEF o, S, y, part
  <2>5. c.want[o] = part(o)
    BY ONLY <1>7, <2>1
  <2>6. c.want[o] = Requant(c.val[i])
    BY ONLY <2>3, <2>4, <2>5
  <2> QED BY ONLY <2>6 DEF o
<1>11. c.want[<<YName, "out">>] = c.val[n]
  <2>1. n \in 1 .. n
    BY ONLY <1>1
  <2> HIDE DEF S, part
  <2>2. c.want[y] = WalkedTo(K, n)
    <3> HIDE DEF y
    <3> QED BY ONLY <1>7
  <2> QED BY ONLY <1>3, <2>1, <2>2
<1>12. c.want = [o \in Reported(c, n) |-> c.want[o]]
  <2> HIDE DEF S, y
  <2> QED BY ONLY <1>8, <1>9
<1> QED
  BY ONLY <1>5, <1>10, <1>11, <1>12 DEF SoundWant, n

\* It is sound.
LEMMA CompiledSound ==
  ASSUME NEW c, NEW K, NEW d, NEW P, NEW u, NEW f, NEW ps, Compiled(c, K, d, P, u, f, ps),
         Served(d, P, u)
  PROVE  Sound(c)
<1>1. /\ Planned(c, K, d, P, f) /\ c.group = P.lut_group /\ c.bundles = Bundles(K, d, P.lut_group)
      /\ c.unit = u /\ Unrolled(c.plans, c.bundles, P, c.n, c.rest, c.reps)
  BY DEF Compiled
<1>2. c.n \in Nat \ {0} /\ c.f \in DOMAIN FORMATS
  BY <1>1 DEF Planned
<1>3. \A i \in 1 .. c.n : SoundPlan(c, i)
  BY ONLY <1>1, PlannedSound
<1>4. SoundSeams(c)
  BY ONLY <1>1, PlannedSeams
<1>5. SoundBooks(c)
  <2>1. Served(d, P, c.unit)
    BY ONLY <1>1, Served(d, P, u)
  <2> QED BY ONLY <1>1, <2>1, PlannedBooks
<1>6. SoundProgram(c)
  <2>1. \A i \in 1 .. c.n : Wired(c, i)
    BY ONLY <1>1, PlannedWired
  <2> QED BY ONLY <1>1, <1>2, <2>1, PlannedProgram
<1>7. SoundWant(c)
  BY CompiledWants
<1> QED
  BY ONLY <1>2, <1>3, <1>4, <1>5, <1>6, <1>7 DEF Sound

\* The baked operands.
LEMMA CompiledOperands ==
  ASSUME NEW c, NEW K, NEW d, NEW P, NEW u, NEW f, NEW ps, Compiled(c, K, d, P, u, f, ps),
         mem = ChainData(c.plans, c.bundles)
  PROVE  Operands(c)
<1> DEFINE n == c.n
           q == c.plans
           bs == c.bundles
           x == <<q[1].lhs, "a">>
           S == {<<q[i].weight, "b">> : i \in DOMAIN q}
           V(i) == Value(QB(bs[i].b), q[i].wgt_fmt, bs[i].b_lut, q[i].n)
           pick(w) == CHOOSE j \in DOMAIN q : q[j].weight = w
           xv == Value(QA(bs[1].a), q[1].act_fmt, bs[1].a_lut, q[1].m)
           g == [b \in S |-> V(pick(b[1]))]
<1>1. Planned(c, K, d, P, f) /\ n \in Nat \ {0} /\ n = Len(K.stages) /\ c.f = d
  BY DEF Compiled, Planned
<1>2. \A i \in 1 .. n : /\ q[i].weight = WName(i) /\ q[i].lhs = InName(i)
                        /\ q[i].wgt_fmt = c.f /\ q[i].act_fmt = c.f
  BY <1>1, PlannedFields DEF Shaped
<1>3. DOMAIN q = 1 .. n
  <2>1. Listed(q) /\ Len(q) = n
    BY <1>1 DEF Planned, Placement
  <2> QED BY <2>1 DEF Listed
<1>4. mem = Put(g, x, xv)
  BY DEF ChainData
<1>5. x = XBuf
  <2>1. 1 \in 1 .. n /\ InName(1) = XName
    BY <1>1 DEF InName
  <2>2. q[1].lhs = XName
    BY <1>2, <2>1
  <2> QED BY <2>2 DEF XBuf
<1>6. Buffer(XBuf) = Value(QA(bs[1].a), c.f, bs[1].a_lut, q[1].m)
  <2>1. q[1].act_fmt = c.f
    <3>1. 1 \in 1 .. n
      BY ONLY <1>1
    <3> QED BY ONLY <1>2, <3>1
  <2>2. xv = Value(QA(bs[1].a), c.f, bs[1].a_lut, q[1].m)
    BY ONLY <2>1
  <2> HIDE DEF x, xv, g
  <2>3. x \in DOMAIN mem /\ mem[x] = xv
    BY ONLY <1>4 DEF Put
  <2> QED BY ONLY <1>5, <2>2, <2>3 DEF Buffer, At
<1>7. ASSUME NEW i \in 1 .. n
      PROVE  Buffer(WBuf(i)) = Value(QB(bs[i].b), c.f, bs[i].b_lut, q[i].n)
  <2>1. WBuf(i) \in S
    <3>1. WBuf(i) = <<q[i].weight, "b">>
      BY ONLY <1>2, i \in 1 .. n DEF WBuf
    <3> QED BY <1>3, <3>1
  <2>2. WBuf(i) # x
    BY ONLY <1>5 DEF XBuf, WBuf
  <2>3. WBuf(i)[1] = WName(i)
    BY DEF WBuf
  <2>4. pick(WName(i)) = i
    <3>1. \A j \in DOMAIN q : q[j].weight = WName(i) <=> j = i
      <4>1. \A j \in 1 .. n : WName(j) = WName(i) <=> j = i
        BY ONLY TRUE DEF WName
      <4> QED BY ONLY <1>2, <1>3, <4>1
    <3>2. i \in DOMAIN q
      BY ONLY <1>3, i \in 1 .. n
    <3> QED BY ONLY <3>1, <3>2
  <2>5. V(i) = Value(QB(bs[i].b), c.f, bs[i].b_lut, q[i].n)
    BY ONLY <1>2, i \in 1 .. n
  <2> DEFINE w == WBuf(i)
  <2>6. g[w] = V(pick(w[1])) /\ w \in DOMAIN g
    <3> HIDE DEF V, pick, S, w
    <3>1. w \in S
      BY <2>1 DEF w
    <3> QED BY ONLY <3>1
  <2>7. V(pick(w[1])) = V(i)
    <3> HIDE DEF V, pick
    <3> QED BY ONLY <2>3, <2>4
  <2> HIDE DEF V, pick, S, g, w, x, xv
  <2>8. w # x
    BY ONLY <2>2 DEF w
  <2>9. w \in DOMAIN mem /\ mem[w] = g[w]
    BY ONLY <1>4, <2>6, <2>8 DEF Put
  <2>10. Buffer(w) = V(i)
    BY ONLY <2>6, <2>7, <2>9 DEF Buffer, At
  <2> QED BY ONLY <2>5, <2>10 DEF w
<1> QED
  BY ONLY <1>6, <1>7 DEF Operands, n, q, bs

-----------------------------------------------------------------------------
(***************************************************************************)
(* The compiler returns that chain, it is loaded, and it is what runs.     *)
(***************************************************************************)
\* What is loaded is a plain chain, none of its commands missing, whose output fits the scratchpad.
ChainInit ==
  \E K \in Kernels,
     hf \in {f \in HardwareFiles : parse_hardware(f)}, rf \in {f \in RunFiles : parse_run(f)} :
    LET out == Compile(K, Hardware(hf), Run(rf), 0)
    IN  Plain(K) /\ Fits(out.prog) /\ Loaded(out, hf.mx.lut)

\* Nothing else is ever loaded: the kernels are plain chains, no command is dropped from a command
\* buffer, and programs whose output does not fit are not run.
ChainsOnly == ~Oversize /\ Drops = {0} /\ \A K \in Kernels : Plain(K)

\* A compilation of K that was not refused.
Unrefused(K, d, P, out) ==
  LET plan == plan_chain(command_buffer(K, d), P)
      bs == Bundles(K, d, P.lut_group)
  IN  /\ d \in DOMAIN FORMATS /\ Machine(P) /\ plan.why = ""
      /\ out.prog = generate_driver(plan.plans, bs, P)
      /\ out.data = ChainData(plan.plans, bs)
      /\ out.want = Wanted(K, "fused", Requants(K))

\* A command buffer with no command dropped.
LEMMA NothingMissing ==
  ASSUME NEW K, NEW d, Len(K.stages) \in Nat
  PROVE  Malformed(command_buffer(K, d), 0) = command_buffer(K, d)
<1>1. DOMAIN command_buffer(K, d).commands = 1 .. 4 * Len(K.stages)
  BY DEF command_buffer
<1>2. 0 \notin 1 .. 4 * Len(K.stages)
  OBVIOUS
<1> HIDE DEF command_buffer
<1> QED
  BY <1>1, <1>2 DEF Malformed

\* A refusal has a reason.
LEMMA NotRefused ==
  ASSUME NEW why, why # ""
  PROVE  Refused(why).why # ""
  BY DEF Refused

\* A plain chain that is not refused was planned and checked as a chain.
LEMMA CompileAccepted ==
  ASSUME NEW K \in KernelType, Plain(K), NEW hw, NEW run, Compile(K, hw, run, 0).why = ""
  PROVE  /\ Unrefused(K, run.operand_fmt, emitter_params(hw, run), Compile(K, hw, run, 0))
         /\ Served(run.operand_fmt, emitter_params(hw, run), hw.lut)
<1> DEFINE d == run.operand_fmt
           P == emitter_params(hw, run)
           low == lower(K, d, run.allow_lossy_chain)
           out == Compile(K, hw, run, 0)
           bs == Bundles(K, d, P.lut_group)
           cb == command_buffer(K, d)
           plan == plan_chain(cb, P)
<1>0. out.why = ""
  OBVIOUS
<1>1. check(hw, run, "kernel", Scratchpad)
  <2> SUFFICES ASSUME ~check(hw, run, "kernel", Scratchpad) PROVE FALSE
    OBVIOUS
  <2>1. out = Refused("recipe")
    BY DEF Compile
  <2> HIDE DEF out
  <2> QED BY ONLY <1>0, <2>1, NotRefused
<1>2. validate(K)
  <2> SUFFICES ASSUME ~validate(K) PROVE FALSE
    OBVIOUS
  <2>1. out = Refused("validate")
    BY <1>1 DEF Compile
  <2> HIDE DEF out
  <2> QED BY ONLY <1>0, <2>1, NotRefused
<1>3. out = CompileLowered(K, low, d, P, 0)
  BY <1>1, <1>2 DEF Compile
<1>4. d \in DOMAIN FORMATS /\ Machine(P) /\ Served(d, P, hw.lut)
  BY <1>1, RecipeChecked
<1>5. is_chain(K) /\ Len(K.stages) \in Nat
  BY PlainTyped DEF Plain
<1>6. (low.kind = "fused" \/ low.kind = "refused") /\ low.edges = Requants(K)
  BY <1>5 DEF lower, Requants
<1> HIDE DEF out, low, P
<1>7. low.kind = "fused"
  <2> SUFFICES ASSUME low.kind = "refused" PROVE FALSE
    BY <1>6
  <2>1. out = Refused("refused")
    BY ONLY <1>3, low.kind = "refused" DEF CompileLowered
  <2> QED BY ONLY <1>0, <2>1, NotRefused
<1>8. out = EmitChain(K, P, Requants(K), plan, bs)
  <2>1. out = CompileChain(K, d, P, 0, Requants(K))
    BY ONLY <1>3, <1>6, <1>7 DEF CompileLowered
  <2>2. Malformed(cb, 0) = cb
    BY ONLY <1>5, NothingMissing
  <2> HIDE DEF cb
  <2>3. CompileChain(K, d, P, 0, Requants(K)) = EmitChain(K, P, Requants(K), plan, bs)
    BY ONLY <2>2 DEF CompileChain, cb
  <2> QED BY ONLY <2>1, <2>3
<1> HIDE DEF plan, bs
<1>9. plan.why = ""
  <2> SUFFICES ASSUME plan.why # "" PROVE FALSE
    OBVIOUS
  <2>1. out = Refused(plan.why)
    BY ONLY <1>8, plan.why # "" DEF EmitChain
  <2> QED BY ONLY <1>0, <2>1, plan.why # "", NotRefused
<1>10. _mx_operands(bs, plan.plans, P) = ""
  <2> SUFFICES ASSUME _mx_operands(bs, plan.plans, P) # "" PROVE FALSE
    OBVIOUS
  <2>1. out = Refused("operands")
    BY ONLY <1>8, <1>9, _mx_operands(bs, plan.plans, P) # "" DEF EmitChain
  <2> QED BY ONLY <1>0, <2>1, NotRefused
<1>11. out = [why |-> "", prog |-> generate_driver(plan.plans, bs, P),
              data |-> ChainData(plan.plans, bs), want |-> Wanted(K, "fused", Requants(K))]
  BY ONLY <1>8, <1>9, <1>10 DEF EmitChain
<1>12. /\ out.prog = generate_driver(plan.plans, bs, P)
       /\ out.data = ChainData(plan.plans, bs)
       /\ out.want = Wanted(K, "fused", Requants(K))
  BY ONLY <1>11
<1>13. Unrefused(K, d, P, out)
  BY ONLY <1>4, <1>9, <1>12 DEF Unrefused, plan, bs, cb
<1> QED
  BY ONLY <1>4, <1>13 DEF out, P

\* The chain of an accepted kernel.
LEMMA AcceptedCompiled ==
  ASSUME NEW K \in KernelType, Plain(K), NEW d, NEW P, NEW out, NEW u, Unrefused(K, d, P, out)
  PROVE  \E c, f, ps : /\ Compiled(c, K, d, P, u, f, ps)
                       /\ out.prog = c.rest[0] /\ out.data = ChainData(c.plans, c.bundles)
                       /\ out.want = c.want
<1> DEFINE plan == plan_chain(command_buffer(K, d), P)
           ps == plan.plans
           bs == Bundles(K, d, P.lut_group)
           n == Len(K.stages)
<1>1. /\ d \in DOMAIN FORMATS /\ Machine(P) /\ plan.why = ""
      /\ out.prog = generate_driver(ps, bs, P)
      /\ out.data = ChainData(ps, bs)
      /\ out.want = Wanted(K, "fused", Requants(K))
  BY DEF Unrefused
<1>2. /\ n \in Nat \ {0}
      /\ \A i \in 1 .. n : PlanRefusal(PlanOf(K, d, P, i), P) = ""
      /\ \E f : Destined(K, d, P, f) /\ Placement(K, d, P, f, ps)
  <2>1. d \in DOMAIN FORMATS /\ Machine(P) /\ K \in KernelType /\ Plain(K)
        /\ plan_chain(command_buffer(K, d), P).why = ""
    BY <1>1
  <2> QED BY ONLY <2>1, ChainAssigned
<1> HIDE DEF ps
<1>3. PICK f : Destined(K, d, P, f) /\ Placement(K, d, P, f, ps)
  BY ONLY <1>2
<1>4. Listed(ps) /\ Len(ps) = n
  BY ONLY <1>3 DEF Placement
<1>5. PICK rest, reps : Unrolled(ps, bs, P, n, rest, reps)
  <2>1. Listed(ps) /\ Len(ps) \in Nat \ {0}
    BY ONLY <1>2, <1>4
  <2>2. \E rest, reps : Unrolled(ps, bs, P, Len(ps), rest, reps)
    BY ONLY <2>1, DriverUnrolled
  <2> QED BY ONLY <1>4, <2>2
<1>6. PICK c : Compiled(c, K, d, P, u, f, ps) /\ c.rest = rest
  <2>1. Parts(K, d, P, f, ps, rest, reps)
    BY <1>1, <1>2, <1>3, <1>5 DEF Parts
  <2> QED BY ONLY <2>1, CompiledOf
<1>7. c.plans = ps /\ c.bundles = bs /\ c.want = Wanted(K, "fused", Requants(K))
  BY ONLY <1>6 DEF Compiled
<1>8. out.prog = c.rest[0]
  <2>1. generate_driver(ps, bs, P) = rest[0]
    BY ONLY <1>5 DEF Unrolled
  <2> QED BY ONLY <1>1, <1>6, <2>1
<1>9. out.data = ChainData(c.plans, c.bundles) /\ out.want = c.want
  BY ONLY <1>1, <1>7
<1> QED
  BY ONLY <1>6, <1>8, <1>9

\* The machine as it is loaded with the chain c.
Starting(c, K, d, P, u, f, ps) ==
  /\ Compiled(c, K, d, P, u, f, ps) /\ Served(d, P, u)
  /\ Fits(prog) /\ prog = c.rest[0] /\ want = c.want /\ unit = u
  /\ mem = ChainData(c.plans, c.bundles)
  /\ outs = <<>> /\ scale = <<Zero, Zero>> /\ lut = <<>> /\ loads = {} /\ stores = {}

\* It is at the first point of the first stage.
LEMMA StartsChained ==
  ASSUME NEW c, NEW K, NEW d, NEW P, NEW u, NEW f, NEW ps, Starting(c, K, d, P, u, f, ps)
  PROVE  Chained(c)
<1>1. Compiled(c, K, d, P, u, f, ps) /\ Served(d, P, u)
  BY DEF Starting
<1>2. Sound(c)
  BY ONLY <1>1, CompiledSound
<1>3. Operands(c)
  <2>1. Compiled(c, K, d, P, u, f, ps) /\ mem = ChainData(c.plans, c.bundles)
    BY DEF Starting
  <2> QED BY ONLY <2>1, CompiledOperands
<1>4. Steady(c)
  <2>1. c.unit = u
    BY <1>1 DEF Compiled
  <2>2. want = c.want /\ unit = u /\ Fits(prog) /\ scale = <<Zero, Zero>> /\ lut = <<>>
    BY DEF Starting
  <2>3. DOMAIN scale = {1, 2}
    <3> DEFINE z == Zero
    <3>1. scale = <<z, z>>
      BY <2>2
    <3> HIDE DEF z
    <3>2. DOMAIN <<z, z>> = 1 .. 2
      OBVIOUS
    <3>3. 1 .. 2 = {1, 2}
      OBVIOUS
    <3> QED BY ONLY <3>1, <3>2, <3>3
  <2> QED BY ONLY <1>3, <2>1, <2>2, <2>3 DEF Steady
<1>5. L0(c, 1)
  <2>1. c.n \in Nat \ {0}
    BY <1>2 DEF Sound
  <2>2. 1 \in 1 .. c.n /\ 1 - 1 = 0 /\ 1 .. 0 = {} /\ 0 \notin 1 .. c.n - 1
    BY ONLY <2>1
  <2>3. c.rest[0] = P0(c, 1)
    BY <1>2, <2>2 DEF Sound, SoundProgram
  <2>4. Kept(c, 0) /\ Resident(c, 0)
    BY ONLY <2>2 DEF Kept, Resident
  <2>5. prog = c.rest[0] /\ stores = {} /\ outs = <<>> /\ loads = {}
    BY DEF Starting
  <2>6. InStage(c, 1)
    BY ONLY <2>2, <2>4, <2>5 DEF InStage
  <2> QED BY ONLY <2>3, <2>5, <2>6 DEF L0
<1>6. Located(c)
  <2>1. c.n \in Nat \ {0}
    BY <1>2 DEF Sound
  <2>2. 1 \in 1 .. c.n + 1
    BY ONLY <2>1
  <2> QED BY ONLY <1>5, <2>2 DEF Located
<1> QED
  BY ONLY <1>2, <1>4, <1>6 DEF Chained

\* A chain that was loaded is at its first point.
LEMMA InitChained ==
  ASSUME ChainInit
  PROVE  \E c : Chained(c)
<1>1. PICK K \in Kernels,
           hf \in {f \in HardwareFiles : parse_hardware(f)}, rf \in {f \in RunFiles : parse_run(f)} :
             /\ Plain(K) /\ Fits(Compile(K, Hardware(hf), Run(rf), 0).prog)
             /\ Loaded(Compile(K, Hardware(hf), Run(rf), 0), hf.mx.lut)
  BY DEF ChainInit
<1> DEFINE hw == Hardware(hf)
           run == Run(rf)
           d == run.operand_fmt
           P == emitter_params(hw, run)
           u == hf.mx.lut
           out == Compile(K, hw, run, 0)
<1>2. Plain(K) /\ K \in KernelType
  BY <1>1, DeviceAssumption
<1>3. hw.lut = u
  BY DEF Hardware
<1>4. Fits(out.prog) /\ Loaded(out, u)
  BY <1>1
<1> HIDE DEF hw, run, out, u, P
<1>5. /\ out.why = "" /\ Fits(out.prog)
      /\ prog = out.prog /\ want = out.want /\ unit = u /\ mem = out.data
      /\ outs = <<>> /\ scale = <<Zero, Zero>> /\ lut = <<>> /\ loads = {} /\ stores = {}
  BY ONLY <1>4 DEF Loaded
<1>6. Unrefused(K, d, P, out) /\ Served(d, P, u)
  <2>1. K \in KernelType /\ Plain(K) /\ Compile(K, hw, run, 0).why = ""
    BY ONLY <1>2, <1>5 DEF out
  <2>2. Unrefused(K, run.operand_fmt, emitter_params(hw, run), Compile(K, hw, run, 0))
        /\ Served(run.operand_fmt, emitter_params(hw, run), hw.lut)
    BY ONLY <2>1, CompileAccepted
  <2> QED BY ONLY <1>3, <2>2 DEF out, P
<1> HIDE DEF d
<1>7. PICK c, f, ps : /\ Compiled(c, K, d, P, u, f, ps)
                      /\ out.prog = c.rest[0] /\ out.data = ChainData(c.plans, c.bundles)
                      /\ out.want = c.want
  <2>1. K \in KernelType /\ Plain(K) /\ Unrefused(K, d, P, out)
    BY ONLY <1>2, <1>6
  <2> QED BY ONLY <2>1, AcceptedCompiled
<1>8. Starting(c, K, d, P, u, f, ps)
  BY ONLY <1>5, <1>6, <1>7 DEF Starting
<1>9. Chained(c)
  BY ONLY <1>8, StartsChained
<1> QED
  BY ONLY <1>9

\* The inductive invariant: what runs is a chain the compiler accepted, at one of its points.
ChainInv == \E c : Chained(c)

\* A chain of matmuls reports what the reference computes, of any length and shape, for whatever
\* recipe, format and scratchpad it is accepted, and in whatever order the DMAs land: a program
\* that ends has reported, for the output and for every intermediate, the value of the walk of
\* models/mxquant/kernel.py. For this the planner and the emitters of mxgemm_emit.py have to agree
\* on where a stage leaves its result, on which scales and books are in force when, and on every
\* fence.
THEOREM ChainsComputeKernel == Spec => (ChainInit => []ComputesKernel)
<1>1. ChainInit => ChainInv
  BY InitChained DEF ChainInv
<1>2. ChainInv /\ [Next]_vars => ChainInv'
  <2> SUFFICES ASSUME ChainInv, [Next]_vars PROVE ChainInv'
    OBVIOUS
  <2>1. PICK c : Chained(c)
    BY DEF ChainInv
  <2>2. Chained(c)'
    BY <2>1, ChainedStays
  <2> QED BY ONLY <2>2 DEF ChainInv
<1>3. ChainInv => ComputesKernel
  <2> SUFFICES ASSUME ChainInv PROVE ComputesKernel
    OBVIOUS
  <2>1. PICK c : Chained(c)
    BY DEF ChainInv
  <2> QED BY <2>1, ChainedComputes DEF Chained
<1> QED
  BY <1>1, <1>2, <1>3, PTL DEF Spec

\* With chains only, that is the invariant the run checks.
COROLLARY ComputesKernelHolds ==
  ASSUME ChainsOnly
  PROVE  Spec => []ComputesKernel
<1>1. Init => ChainInit
  <2> SUFFICES ASSUME Init PROVE ChainInit
    OBVIOUS
  <2>1. PICK K \in Kernels, drop \in Drops,
             hf \in {f \in HardwareFiles : parse_hardware(f)}, rf \in {f \in RunFiles : parse_run(f)} :
               Loaded(Compile(K, Hardware(hf), Run(rf), drop), hf.mx.lut)
    BY DEF Init
  <2> DEFINE out == Compile(K, Hardware(hf), Run(rf), 0)
  <2>2. drop = 0 /\ Plain(K)
    BY DEF ChainsOnly
  <2>3. Loaded(out, hf.mx.lut)
    BY <2>1, <2>2
  <2>4. Fits(out.prog)
    BY <2>3 DEF Loaded, ChainsOnly
  <2> QED BY <2>2, <2>3, <2>4 DEF ChainInit
<1> QED
  BY <1>1, ChainsComputeKernel, PTL DEF Spec
===============================================================================
