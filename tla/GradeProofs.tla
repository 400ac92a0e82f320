----------------------------- MODULE GradeProofs -----------------------------
(***************************************************************************)
(* For any number of processes, runs and recipes: what one process keeps   *)
(* from run to run, MX_LIBGEMMINI and the two globals of pipeline.py,      *)
(* never has a run simulated on another recipe's library or on a mesh of   *)
(* another size; what a call grades, reports and deploys is of one run,    *)
(* and of the library that the report names.                               *)
(***************************************************************************)
EXTENDS Grade, TLAPS

(* The part of TypeOK that the argument needs. *)
MemoryType ==
  /\ users \subseteq Procs
  /\ env \in [Procs -> Overrides] /\ set \in [Procs -> OwnLibs \cup {"none"}]
  /\ checked \in [Procs -> SUBSET Recipes]
  /\ runs \in Runs /\ recipeOf \in [Runs -> Recipes]
  /\ pc \in [Procs -> Points] /\ low \in [Procs -> Lowerings]
  /\ n \in [Procs -> Runs] /\ buildOnly \in [Procs -> BOOLEAN]
  /\ DOMAIN spike = Procs /\ DOMAIN ran = Procs

(* MX_LIBGEMMINI is what an earlier run has set it to, or what the user has, *)
(* and then every geometry checked was checked on the user's library.        *)
Override(p) ==
  /\ IF set[p] = "none" THEN env[p] = "none" \/ (env[p] = "user" /\ p \in users)
                        ELSE env[p] = set[p]
  /\ env[p] = "user" => \A r \in checked[p] : UserDim = Dim[r]

Simulating(p) == low[p] # "deploy" /\ ~buildOnly[p]

(* From resolve() on, the override is the recipe's. *)
Resolved(p) ==
  /\ pc[p] \in {"resolve"} \cup Running => Simulating(p)
  /\ pc[p] \in Building \cup Running /\ Simulating(p) =>
       IF recipe(p) \notin Stock THEN env[p] = recipe(p) ELSE set[p] = "none"

Serving(p) == IF recipe(p) \notin Stock THEN {recipe(p)} ELSE {"shipped"} \cup {l \in {"user"} : p \in users}

(* spike has loaded what the override names, and the stages that ran were served. *)
Served(p) ==
  /\ pc[p] \in {"spiking", "timing"} => spike[p].id.lib = Libgemmini(p)
  /\ pc[p] \in {"idle"} => ran[p] = {}
  /\ \A x \in ran[p] : /\ x.spike.id.lib \in Serving(p)
                       /\ LibDim(x.spike.id.lib) \in {0, Dim[recipe(p)]}

MachineOf(p) == n[p] <= runs /\ Override(p) /\ Resolved(p) /\ Served(p)

MachineInv == MemoryType /\ \A p \in Procs : MachineOf(p)

LEMMA MachineInit == Init => MachineInv
<1> SUFFICES ASSUME Init PROVE MachineInv
  OBVIOUS
<1>1. MemoryType
  <2>1. (CHOOSE r \in Recipes : TRUE) \in Recipes
    BY RecipesAssumption
  <2>2. recipeOf \in [Runs -> Recipes] /\ 0 \in Runs
    BY <2>1, BoundsAssumption DEF Init, Runs
  <2>3. low \in [Procs -> Lowerings] /\ n \in [Procs -> Runs] /\ runs \in Runs
    BY <2>2, DirsAssumption DEF Init, Lowerings
  <2> QED BY <2>2, <2>3 DEF Init, MemoryType, Overrides, OwnLibs, Points
<1>2. ASSUME NEW p \in Procs PROVE MachineOf(p)
  <2>1. /\ set[p] = "none" /\ checked[p] = {} /\ pc[p] = "idle" /\ ran[p] = {} /\ n[p] = 0 /\ runs = 0
        /\ env[p] = IF p \in users THEN "user" ELSE "none"
    BY DEF Init
  <2>2. n[p] <= runs
    BY <2>1
  <2> QED BY <2>1, <2>2 DEF MachineOf, Override, Resolved, Served, Building, Running
<1> QED BY <1>1, <1>2 DEF MachineInv

(* A call that does nothing keeps its part of the invariant, whatever run another one begins. *)
LEMMA Bystander ==
  ASSUME NEW q \in Procs, MachineOf(q), runs' >= runs, runs \in Nat, runs' \in Nat, n[q] \in Nat,
         env'[q] = env[q], set'[q] = set[q], checked'[q] = checked[q], pc'[q] = pc[q],
         low'[q] = low[q], n'[q] = n[q], buildOnly'[q] = buildOnly[q], spike'[q] = spike[q],
         ran'[q] = ran[q], users' = users, recipeOf'[n[q]] = recipeOf[n[q]]
  PROVE  MachineOf(q)'
<1>1. n'[q] <= runs'
  BY DEF MachineOf
<1>2. Override(q)'
  BY DEF MachineOf, Override
<1>3. recipe(q)' = recipe(q) /\ Simulating(q)' = Simulating(q) /\ Libgemmini(q)' = Libgemmini(q)
  BY DEF recipe, Simulating, Libgemmini
<1>4. Resolved(q)'
  BY <1>3 DEF MachineOf, Resolved
<1>5. Served(q)'
  BY <1>3 DEF MachineOf, Served, Serving
<1> QED BY <1>1, <1>2, <1>4, <1>5 DEF MachineOf

(* The end of a call. *)
LEMMA LeaveMachine ==
  ASSUME MachineInv, NEW p \in Procs, Leave(p), UNCHANGED <<memory, users, runs, recipeOf>>
  PROVE  MachineInv'
<1>1. MemoryType'
  BY DirsAssumption, BoundsAssumption
     DEF MachineInv, MemoryType, memory, Leave, Points, Runs, Lowerings
<1>2. ASSUME NEW q \in Procs, q # p PROVE MachineOf(q)'
  <2>1. /\ pc'[q] = pc[q] /\ low'[q] = low[q] /\ n'[q] = n[q] /\ buildOnly'[q] = buildOnly[q]
        /\ spike'[q] = spike[q] /\ ran'[q] = ran[q]
    BY <1>2 DEF MachineInv, MemoryType, Leave
  <2>2. n[q] \in Nat /\ runs \in Nat /\ runs' = runs /\ recipeOf' = recipeOf
    BY BoundsAssumption DEF MachineInv, MemoryType, Runs
  <2> QED BY <2>1, <2>2, Bystander DEF MachineInv, memory
<1>3. MachineOf(p)'
  <2>1. pc'[p] = "idle" /\ n'[p] = 0 /\ ran'[p] = {}
    BY DEF MachineInv, MemoryType, Leave
  <2>2. Override(p)'
    BY DEF MachineInv, MachineOf, Override, memory
  <2> QED BY <2>1, <2>2, BoundsAssumption
          DEF MachineInv, MemoryType, MachineOf, Resolved, Served, Building, Running, Runs
<1> QED BY <1>1, <1>2, <1>3 DEF MachineInv

(* A step of the call that goes on, and leaves what was resolved as it is. *)
LEMMA StepMachine ==
  ASSUME MachineInv, NEW p \in Procs, NEW to \in Points, pc' = [pc EXCEPT ![p] = to],
         UNCHANGED <<memory, users, runs, recipeOf, low, n, buildOnly, ran>>,
         DOMAIN spike' = Procs, \A q \in Procs \ {p} : spike'[q] = spike[q],
         Resolved(p)', Served(p)'
  PROVE  MachineInv'
<1>1. MemoryType'
  BY DEF MachineInv, MemoryType, memory
<1>2. ASSUME NEW q \in Procs, q # p PROVE MachineOf(q)'
  BY <1>2, Bystander DEF MachineInv, MemoryType, memory, Runs
<1>3. MachineOf(p)'
  BY DEF MachineInv, MachineOf, Override, memory
<1> QED BY <1>1, <1>2, <1>3 DEF MachineInv

(* What the override names is the library for the recipe, of the recipe's dim once the banner *)
(* or an earlier check says so.                                                               *)
LEMMA OverrideServes ==
  ASSUME MachineInv, NEW p \in Procs, pc[p] \in Running
  PROVE  /\ Libgemmini(p) \in Serving(p)
         /\ LibDim(Libgemmini(p)) # Dim[recipe(p)] => env[p] = "user"
         /\ env[p] = "user" => Libgemmini(p) = "user"
<1>1. recipe(p) \in Recipes /\ env[p] \in Overrides
  BY DEF MachineInv, MemoryType, recipe
<1>2. CASE recipe(p) \notin Stock
  <2>1. env[p] = recipe(p)
    BY <1>2 DEF MachineInv, MachineOf, Resolved, Running, Building
  <2> QED BY <1>1, <1>2, <2>1, NamesAssumption DEF Libgemmini, Serving, LibDim
<1>3. CASE recipe(p) \in Stock
  <2>1. env[p] = "none" \/ (env[p] = "user" /\ p \in users)
    BY <1>3 DEF MachineInv, MachineOf, Resolved, Override, Running, Building
  <2>2. CASE env[p] = "none"
    BY <1>3, <2>2, ShippedAssumption DEF Libgemmini, Serving, LibDim
  <2>3. CASE env[p] = "user" /\ p \in users
    BY <1>3, <2>3 DEF Libgemmini, Serving
  <2> QED BY <2>1, <2>2, <2>3
<1> QED BY <1>2, <1>3

LEMMA BeginMachine == ASSUME MachineInv, NEW p \in Procs, Begin(p) PROVE MachineInv'
<1>1. PICK r \in Recipes, l \in Lowerings, b \in BOOLEAN :
         /\ b => l # "deploy"
         /\ recipeOf' = [recipeOf EXCEPT ![runs'] = r]
         /\ low' = [low EXCEPT ![p] = l] /\ n' = [n EXCEPT ![p] = runs']
         /\ buildOnly' = [buildOnly EXCEPT ![p] = b]
         /\ pc' = [pc EXCEPT ![p] = IF b \/ l = "deploy" THEN "main" ELSE "resolve"]
  BY DEF Begin
<1>2. runs \in Nat /\ runs' = runs + 1 /\ runs' \in Runs
  BY BoundsAssumption DEF Begin, MachineInv, MemoryType, Runs
<1>3. UNCHANGED <<env, set, checked, users, spike, ran>>
  BY DEF Begin, memory, clock
<1>4. MemoryType'
  BY <1>1, <1>2, <1>3 DEF MachineInv, MemoryType, Points, Building
<1>5. ASSUME NEW q \in Procs, q # p PROVE MachineOf(q)'
  <2>1. n[q] \in Nat /\ n[q] # runs' /\ n'[q] = n[q]
    BY <1>1, <1>2, <1>5, BoundsAssumption DEF MachineInv, MemoryType, MachineOf, Runs
  <2>2. recipeOf'[n[q]] = recipeOf[n[q]] /\ low'[q] = low[q] /\ buildOnly'[q] = buildOnly[q] /\ pc'[q] = pc[q]
    BY <1>1, <1>5, <2>1 DEF MachineInv, MemoryType
  <2> QED BY <1>2, <1>3, <2>1, <2>2, Bystander DEF MachineInv
<1>6. MachineOf(p)'
  <2>1. n'[p] = runs' /\ Override(p)'
    BY <1>1, <1>3 DEF MachineInv, MemoryType, MachineOf, Override
  <2>2. Resolved(p)'
    BY <1>1 DEF MachineInv, MemoryType, Resolved, Simulating, Running, Building
  <2>3. ran'[p] = {} /\ pc'[p] \in {"main", "resolve"}
    BY <1>1, <1>3 DEF Begin, MachineInv, MemoryType, MachineOf, Served
  <2> QED BY <1>2, <2>1, <2>2, <2>3 DEF MachineOf, Served
<1> QED BY <1>4, <1>5, <1>6 DEF MachineInv

LEMMA ResolveMachine == ASSUME MachineInv, NEW p \in Procs, Resolve(p) PROVE MachineInv'
<1>1. /\ pc[p] = "resolve" /\ pc' = [pc EXCEPT ![p] = "main"]
      /\ UNCHANGED <<checked, users, runs, recipeOf, low, n, buildOnly, spike, ran>>
  BY DEF Resolve, Goto, clock, locals, call
<1>2. recipe(p) \in Recipes /\ recipe(p)' = recipe(p)
  BY <1>1 DEF MachineInv, MemoryType, recipe
<1>3. PICK e \in Overrides, s \in OwnLibs \cup {"none"} :
         /\ env' = [env EXCEPT ![p] = e] /\ set' = [set EXCEPT ![p] = s]
         /\ IF recipe(p) \notin Stock THEN e = recipe(p) /\ s = recipe(p)
            ELSE s = "none" /\ e = IF set[p] # "none" /\ env[p] = set[p] THEN "none" ELSE env[p]
  <2>1. CASE recipe(p) \notin Stock
    BY <1>2, <2>1 DEF Resolve, OwnLibs, Overrides
  <2>2. CASE recipe(p) \in Stock
    <3> DEFINE e == IF set[p] # "none" /\ env[p] = set[p] THEN "none" ELSE env[p]
    <3>1. e \in Overrides
      BY DEF MachineInv, MemoryType, Overrides
    <3> QED BY <2>2, <3>1 DEF Resolve
  <2> QED BY <2>1, <2>2
<1>4. MemoryType'
  BY <1>1, <1>3 DEF MachineInv, MemoryType, Points, Building
<1>5. ASSUME NEW q \in Procs, q # p PROVE MachineOf(q)'
  BY <1>1, <1>3, <1>5, Bystander DEF MachineInv, MemoryType, Runs
<1>6. Override(p)'
  <2>1. env'[p] = e /\ set'[p] = s /\ checked'[p] = checked[p] /\ users' = users
    BY <1>1, <1>3 DEF MachineInv, MemoryType
  <2>2. CASE recipe(p) \notin Stock
    BY <1>2, <1>3, <2>1, <2>2, NamesAssumption DEF Override
  <2>3. CASE recipe(p) \in Stock
    <3>1. s = "none" /\ (e = "none" \/ (e = env[p] /\ env[p] = "user" /\ p \in users))
      BY <1>3, <2>3 DEF MachineInv, MachineOf, Override
    <3> QED BY <2>1, <3>1 DEF MachineInv, MachineOf, Override
  <2> QED BY <2>2, <2>3
<1>7. Resolved(p)'
  <2>1. Simulating(p) /\ Simulating(p)' /\ pc'[p] = "main"
    BY <1>1 DEF MachineInv, MemoryType, MachineOf, Resolved, Simulating
  <2> QED BY <1>2, <1>3, <2>1 DEF Resolved, MachineInv, MemoryType
<1>8. Served(p)'
  BY <1>1, <1>2 DEF MachineInv, MemoryType, MachineOf, Served, Serving
<1> QED BY <1>1, <1>4, <1>5, <1>6, <1>7, <1>8 DEF MachineInv, MachineOf

(* At timing the library's dim is known to be the recipe's, or there was no banner. *)
LEMMA GeometryMachine == ASSUME MachineInv, NEW p \in Procs, AssertGeometry(p) PROVE MachineInv'
<1> DEFINE dim == LibDim(spike[p].id.lib)
           new == [spike |-> spike[p], summary |-> summary[Dir(p)], config |-> config[Dir(p)]]
<1>1. /\ pc[p] = "timing"
      /\ recipe(p) \in checked[p] \/ dim \in {0, Dim[recipe(p)]}
      /\ checked' = IF dim = 0 THEN checked ELSE [checked EXCEPT ![p] = @ \cup {recipe(p)}]
      /\ UNCHANGED <<env, set, users, runs, recipeOf, low, n, buildOnly>>
      /\ ran' = [ran EXCEPT ![p] = @ \cup {new}]
      /\ spike' = [spike EXCEPT ![p] = NotLoaded]
  BY DEF AssertGeometry, StageDone, clock, call
<1>2. PICK to \in {"report", "main"} : pc' = [pc EXCEPT ![p] = to]
  BY DEF AssertGeometry, StageDone
<1>3. recipe(p) \in Recipes /\ recipe(p)' = recipe(p)
  BY <1>1 DEF MachineInv, MemoryType, recipe
<1>4. spike[p].id.lib = Libgemmini(p) /\ Libgemmini(p) \in Serving(p)
  BY <1>1, OverrideServes DEF MachineInv, MachineOf, Served, Running
<1>5. dim \in {0, Dim[recipe(p)]} /\ (env[p] = "user" /\ dim # 0 => UserDim = Dim[recipe(p)])
  <2>1. CASE env[p] # "user"
    BY <1>1, <1>4, <2>1, OverrideServes DEF Running
  <2>2. CASE env[p] = "user"
    <3>1. dim = UserDim
      BY <1>1, <1>4, <2>2, OverrideServes DEF Running, LibDim
    <3>2. recipe(p) \in checked[p] => UserDim = Dim[recipe(p)]
      BY <2>2 DEF MachineInv, MachineOf, Override
    <3> QED BY <1>1, <3>1, <3>2
  <2> QED BY <2>1, <2>2
<1>6. MemoryType'
  <2>1. checked' \in [Procs -> SUBSET Recipes]
    BY <1>1, <1>3 DEF MachineInv, MemoryType
  <2> QED BY <1>1, <1>2, <2>1 DEF MachineInv, MemoryType, Points, Reporting, Building
<1>7. ASSUME NEW q \in Procs, q # p PROVE MachineOf(q)'
  <2>1. checked'[q] = checked[q] /\ pc'[q] = pc[q] /\ ran'[q] = ran[q] /\ spike'[q] = spike[q]
    BY <1>1, <1>2, <1>7 DEF MachineInv, MemoryType
  <2> QED BY <1>1, <2>1, Bystander DEF MachineInv, MemoryType, Runs
<1>8. Override(p)'
  <2>1. \A r \in checked'[p] : r \in checked[p] \/ (dim # 0 /\ r = recipe(p))
    BY <1>1 DEF MachineInv, MemoryType
  <2> QED BY <1>1, <1>5, <2>1 DEF MachineInv, MachineOf, Override
<1>9. Resolved(p)'
  <2>1. Simulating(p) /\ Simulating(p)' /\ pc'[p] \in {"report", "main"}
    BY <1>1, <1>2 DEF MachineInv, MemoryType, MachineOf, Resolved, Simulating, Running
  <2>2. IF recipe(p) \notin Stock THEN env[p] = recipe(p) ELSE set[p] = "none"
    BY <1>1, <2>1 DEF MachineInv, MachineOf, Resolved, Running
  <2> QED BY <1>1, <1>3, <2>1, <2>2 DEF Resolved, Running
<1>10. Served(p)'
  <2>1. \A x \in ran'[p] : x \in ran[p] \/ x.spike.id.lib = spike[p].id.lib
    BY <1>1 DEF MachineInv, MemoryType
  <2>2. Serving(p)' = Serving(p) /\ pc'[p] \in {"report", "main"}
    BY <1>1, <1>2, <1>3 DEF Serving, MachineInv, MemoryType
  <2>3. \A x \in ran'[p] : /\ x.spike.id.lib \in Serving(p)
                           /\ LibDim(x.spike.id.lib) \in {0, Dim[recipe(p)]}
    BY <1>4, <1>5, <2>1 DEF MachineInv, MachineOf, Served
  <2> QED BY <1>3, <2>2, <2>3 DEF Served
<1> QED BY <1>1, <1>6, <1>7, <1>8, <1>9, <1>10 DEF MachineInv, MachineOf

LEMMA MachineStep == MachineInv /\ [Next]_vars => MachineInv'
<1> SUFFICES ASSUME MachineInv, [Next]_vars PROVE MachineInv'
  OBVIOUS
<1> USE DEF locals, call, clock, history, marks, deploy, files
<1>1. ASSUME NEW p \in Procs, WriteMain(p) PROVE MachineInv'
  <2>1. pc[p] = "main" /\ pc' = [pc EXCEPT ![p] = "gcc"] /\ UNCHANGED <<memory, users, runs, recipeOf, low, n, buildOnly, spike, ran>>
    BY <1>1 DEF WriteMain, Goto
  <2>2. Resolved(p)' /\ Served(p)'
    BY <2>1 DEF MachineInv, MemoryType, MachineOf, Resolved, Served, Serving, Simulating, recipe,
                Libgemmini, memory, Building, Running
  <2> QED BY <2>1, <2>2, StepMachine DEF MachineInv, MemoryType, Points, Building
<1>2. ASSUME NEW p \in Procs, Gcc(p) PROVE MachineInv'
  <2>1. pc[p] = "gcc" /\ UNCHANGED <<memory, users, runs, recipeOf>>
    BY <1>2 DEF Gcc
  <2>2. CASE buildOnly[p]
    BY <1>2, <2>1, <2>2, LeaveMachine DEF Gcc
  <2>3. CASE ~buildOnly[p]
    <3>1. UNCHANGED <<low, n, buildOnly, spike, ran>>
      BY <1>2, <2>3 DEF Gcc
    <3>2. PICK to \in {"expected", "spike"} : pc' = [pc EXCEPT ![p] = to] /\ (to = "spike" => low[p] # "deploy")
      BY <1>2, <2>3 DEF Gcc
    <3>3. Resolved(p)' /\ Served(p)'
      BY <2>1, <2>3, <3>1, <3>2
         DEF MachineInv, MemoryType, MachineOf, Resolved, Served, Serving, Simulating, recipe,
             Libgemmini, memory, Building, Running
    <3> QED BY <2>1, <3>1, <3>2, <3>3, StepMachine DEF MachineInv, MemoryType, Points, Running, Deploying
  <2> QED BY <2>2, <2>3
<1>3. ASSUME NEW p \in Procs, RunSpike(p) PROVE MachineInv'
  <2>1. /\ pc[p] = "spike" /\ pc' = [pc EXCEPT ![p] = "spiking"]
        /\ UNCHANGED <<memory, users, runs, recipeOf, low, n, buildOnly, ran>>
        /\ spike' = [spike EXCEPT ![p] = [elf |-> elf[Dir(p)], id |-> Id(p)]]
    BY <1>3 DEF RunSpike, Goto
  <2>2. spike'[p].id.lib = Libgemmini(p)
    BY <2>1 DEF MachineInv, MemoryType, Id
  <2>3. Resolved(p)' /\ Served(p)'
    BY <2>1, <2>2 DEF MachineInv, MemoryType, MachineOf, Resolved, Served, Serving, Simulating, recipe,
                      Libgemmini, memory, Building, Running
  <2> QED BY <2>1, <2>3, StepMachine DEF MachineInv, MemoryType, Points, Running
<1>4. ASSUME NEW p \in Procs, SpikeEnds(p) PROVE MachineInv'
  <2>1. pc[p] = "spiking" /\ pc' = [pc EXCEPT ![p] = "timing"] /\ UNCHANGED <<memory, users, runs, recipeOf, low, n, buildOnly, spike, ran>>
    BY <1>4 DEF SpikeEnds, Goto
  <2>2. Resolved(p)' /\ Served(p)'
    BY <2>1 DEF MachineInv, MemoryType, MachineOf, Resolved, Served, Serving, Simulating, recipe,
                Libgemmini, memory, Building, Running
  <2> QED BY <2>1, <2>2, StepMachine DEF MachineInv, MemoryType, Points, Running
<1>5. ASSUME NEW p \in Procs, NEW to \in {"metrics", "copy", "manifest"}, pc' = [pc EXCEPT ![p] = to],
             UNCHANGED <<memory, users, runs, recipeOf, low, n, buildOnly, spike, ran>>
      PROVE  MachineInv'
  <2>1. Resolved(p)' /\ Served(p)'
    BY <1>5 DEF MachineInv, MemoryType, MachineOf, Resolved, Served, Serving, recipe,
                memory, Building, Running
  <2> QED BY <1>5, <2>1, StepMachine DEF MachineInv, MemoryType, Points, Reporting, Deploying
<1>6. ASSUME NEW p \in Procs, Report(p) \/ ReportMetrics(p) \/ WriteExpected(p) PROVE MachineInv'
  BY <1>5, <1>6 DEF Report, ReportMetrics, WriteExpected, Goto
<1>7. ASSUME NEW p \in Procs, CopyTiming(p) \/ WriteManifest(p) \/ Fail(p) PROVE MachineInv'
  BY <1>7, LeaveMachine DEF CopyTiming, WriteManifest, Fail
<1>8. CASE Rebuild \/ UNCHANGED vars
  <2>1. UNCHANGED <<memory, users, runs, recipeOf, pc, low, n, buildOnly, spike, ran>>
    BY <1>8 DEF Rebuild, vars
  <2>2. MemoryType'
    BY <2>1 DEF MachineInv, MemoryType, memory
  <2>3. ASSUME NEW q \in Procs PROVE MachineOf(q)'
    BY <2>1, Bystander DEF MachineInv, MemoryType, memory, Runs
  <2> QED BY <2>2, <2>3 DEF MachineInv
<1> QED BY <1>1, <1>2, <1>3, <1>4, <1>6, <1>7, <1>8, BeginMachine, ResolveMachine, GeometryMachine
        DEF Next, Step

LEMMA MachineAlways == Spec => []MachineInv
BY MachineInit, MachineStep, PTL DEF Spec

(* Whatever recipes a process graded before, and however those calls ended, *)
(* every stage runs on the library of its own recipe.                       *)
THEOREM OwnMachineHolds == Spec => []OwnMachine
<1>1. MachineInv => OwnMachine
  BY DEF MachineInv, MachineOf, Served, Serving, OwnMachine
<1> QED BY <1>1, MachineAlways, PTL

(* The banner is looked at once for a recipe; every later run of the recipe *)
(* has the same mesh all the same.                                          *)
THEOREM GeometryHolds == Spec => []GeometryHeld
<1>1. MachineInv => GeometryHeld
  BY DEF MachineInv, MachineOf, Served, GeometryHeld
<1> QED BY <1>1, MachineAlways, PTL

-----------------------------------------------------------------------------
(* The part of TypeOK that the argument about the files needs. *)
FilesType ==
  /\ DOMAIN mainc = AllDirs /\ DOMAIN elf = AllDirs /\ DOMAIN summary = AllDirs /\ DOMAIN config = AllDirs
  /\ pc \in [Procs -> Points] /\ low \in [Procs -> Lowerings]
  /\ stage \in [Procs -> Nat] /\ \A p \in Procs : stage[p] \in DOMAIN Dirs[low[p]]
  /\ DOMAIN n = Procs /\ DOMAIN spike = Procs /\ DOMAIN ran = Procs /\ crossed \in [Procs -> BOOLEAN]

(* Two calls in the directories of one lowering know of each other. *)
Alone ==
  \A p, q \in Procs : p # q /\ pc[p] # "idle" /\ pc[q] # "idle" /\ low[p] = low[q] => crossed[p]

(* From one step of a call to the next its files are its own. *)
OwnFiles(p) ==
  /\ pc[p] = "idle" => ran[p] = {} /\ stage[p] = 1
  /\ ~crossed[p] =>
       /\ pc[p] = "gcc" => mainc[Dir(p)] = n[p]
       /\ pc[p] = "spike" => elf[Dir(p)] = n[p]
       /\ pc[p] \in {"spiking", "timing"} => spike[p].elf = n[p]
       /\ pc[p] = "spiking" => summary[Dir(p)] = 0
       /\ pc[p] = "timing" => summary[Dir(p)] \in {0, n[p]} /\ config[Dir(p)] = n[p]
       /\ \A x \in ran[p] : {x.spike.elf, x.summary, x.config} = {n[p]}

FilesInv == FilesType /\ Alone /\ \A p \in Procs : OwnFiles(p)

LEMMA FilesInit == Init => FilesInv
<1> SUFFICES ASSUME Init PROVE FilesInv
  OBVIOUS
<1>1. low \in [Procs -> Lowerings] /\ \A p \in Procs : low[p] = "deploy" /\ stage[p] = 1
  BY DirsAssumption DEF Init, Lowerings
<1>2. 1 \in DOMAIN Dirs["deploy"]
  BY DirsAssumption
<1>3. FilesType
  BY <1>1, <1>2 DEF Init, FilesType, Points
<1>4. Alone /\ \A p \in Procs : OwnFiles(p)
  BY DEF Init, Alone, OwnFiles
<1> QED BY <1>3, <1>4 DEF FilesInv

LEMMA DirType == FilesType => \A p \in Procs : Dir(p) \in AllDirs
<1> SUFFICES ASSUME FilesType, NEW p \in Procs PROVE Dir(p) \in AllDirs
  OBVIOUS
<1>1. low[p] \in Lowerings /\ stage[p] \in DOMAIN Dirs[low[p]]
  BY DEF FilesType
<1>2. Dir(p) \in {Dirs[low[p]][i] : i \in DOMAIN Dirs[low[p]]}
  BY <1>1 DEF Dir
<1> QED BY <1>1, <1>2 DEF AllDirs

(* Calls that know nothing of each other are in different directories. *)
LEMMA Apart ==
  ASSUME FilesType, Alone, NEW p \in Procs, NEW q \in Procs, p # q,
         pc[p] # "idle", pc[q] # "idle", ~crossed[q]
  PROVE  Dir(q) # Dir(p)
<1>1. low[p] # low[q] /\ low[p] \in DOMAIN Dirs /\ low[q] \in DOMAIN Dirs
  BY DEF FilesType, Alone, Lowerings
<1>2. stage[p] \in DOMAIN Dirs[low[p]] /\ stage[q] \in DOMAIN Dirs[low[q]]
  BY DEF FilesType
<1> QED BY <1>1, <1>2, ApartAssumption DEF Dir

(* A call that does nothing keeps its files. *)
LEMMA BystanderFiles ==
  ASSUME NEW q \in Procs, OwnFiles(q),
         pc'[q] = pc[q], low'[q] = low[q], stage'[q] = stage[q], n'[q] = n[q],
         spike'[q] = spike[q], ran'[q] = ran[q], ~crossed'[q] => ~crossed[q],
         pc[q] # "idle" /\ ~crossed[q] =>
           /\ mainc'[Dir(q)] = mainc[Dir(q)] /\ elf'[Dir(q)] = elf[Dir(q)]
           /\ summary'[Dir(q)] = summary[Dir(q)] /\ config'[Dir(q)] = config[Dir(q)]
  PROVE  OwnFiles(q)'
<1>1. Dir(q)' = Dir(q)
  BY DEF Dir
<1>2. CASE crossed'[q]
  BY <1>2 DEF OwnFiles
<1>3. CASE ~crossed'[q] /\ ~crossed[q] /\ pc[q] # "idle"
  BY <1>1, <1>3 DEF OwnFiles
<1>4. CASE ~crossed'[q] /\ ~crossed[q] /\ pc[q] = "idle"
  BY <1>4 DEF OwnFiles
<1> QED BY <1>2, <1>3, <1>4

(* A step of a call that goes on in its directory. *)
LEMMA StepFiles ==
  ASSUME FilesInv, NEW p \in Procs, pc[p] # "idle", NEW to \in Points, pc' = [pc EXCEPT ![p] = to],
         UNCHANGED <<low, n, crossed>>, stage' \in [Procs -> Nat], stage'[p] \in DOMAIN Dirs[low[p]],
         DOMAIN mainc' = AllDirs, DOMAIN elf' = AllDirs, DOMAIN summary' = AllDirs, DOMAIN config' = AllDirs,
         DOMAIN spike' = Procs, DOMAIN ran' = Procs,
         \A q \in Procs \ {p} : spike'[q] = spike[q] /\ ran'[q] = ran[q] /\ stage'[q] = stage[q],
         \A d \in AllDirs \ {Dir(p)} : /\ mainc'[d] = mainc[d] /\ elf'[d] = elf[d]
                                      /\ summary'[d] = summary[d] /\ config'[d] = config[d],
         OwnFiles(p)'
  PROVE  FilesInv'
<1>1. FilesType'
  BY DEF FilesInv, FilesType
<1>2. Alone'
  BY DEF FilesInv, FilesType, Alone
<1>3. ASSUME NEW q \in Procs, q # p PROVE OwnFiles(q)'
  <2>1. pc'[q] = pc[q]
    BY <1>3 DEF FilesInv, FilesType
  <2>2. pc[q] # "idle" /\ ~crossed[q] => Dir(q) \in AllDirs \ {Dir(p)}
    BY <1>3, Apart, DirType DEF FilesInv
  <2> QED BY <1>3, <2>1, <2>2, BystanderFiles DEF FilesInv
<1> QED BY <1>1, <1>2, <1>3 DEF FilesInv

(* The end of a call. *)
LEMMA LeaveFiles ==
  ASSUME FilesInv, NEW p \in Procs, pc[p] # "idle", Leave(p),
         UNCHANGED <<mainc, summary, config>>, DOMAIN elf' = AllDirs,
         \A d \in AllDirs \ {Dir(p)} : elf'[d] = elf[d]
  PROVE  FilesInv'
<1>1. \A q \in Procs \ {p} : /\ pc'[q] = pc[q] /\ low'[q] = low[q] /\ stage'[q] = stage[q] /\ n'[q] = n[q]
                             /\ spike'[q] = spike[q] /\ ran'[q] = ran[q] /\ crossed'[q] = crossed[q]
  BY DEF FilesInv, FilesType, Leave
<1>2. pc'[p] = "idle" /\ low'[p] = "deploy" /\ stage'[p] = 1 /\ ran'[p] = {}
  BY DEF FilesInv, FilesType, Leave
<1>3. FilesType'
  <2>1. low' \in [Procs -> Lowerings] /\ 1 \in DOMAIN Dirs["deploy"]
    BY DirsAssumption DEF FilesInv, FilesType, Leave, Lowerings
  <2>2. \A q \in Procs : stage'[q] \in DOMAIN Dirs[low'[q]]
    BY <1>1, <1>2, <2>1 DEF FilesInv, FilesType
  <2> QED BY <2>1, <2>2 DEF FilesInv, FilesType, Leave, Points
<1>4. Alone'
  BY <1>1, <1>2 DEF FilesInv, Alone
<1>5. ASSUME NEW q \in Procs, q # p PROVE OwnFiles(q)'
  <2>1. pc[q] # "idle" /\ ~crossed[q] => Dir(q) \in AllDirs \ {Dir(p)}
    BY <1>5, Apart, DirType DEF FilesInv
  <2> QED BY <1>1, <1>5, <2>1, BystanderFiles DEF FilesInv
<1>6. OwnFiles(p)'
  BY <1>2 DEF OwnFiles
<1> QED BY <1>3, <1>4, <1>5, <1>6 DEF FilesInv


LEMMA BeginFiles == ASSUME FilesInv, NEW p \in Procs, Begin(p) PROVE FilesInv'
<1>1. PICK l \in Lowerings, to \in {"main", "resolve"} :
         /\ low' = [low EXCEPT ![p] = l] /\ pc' = [pc EXCEPT ![p] = to]
         /\ n' = [n EXCEPT ![p] = runs']
         /\ crossed' = [q \in Procs |-> IF q = p THEN Guests(p, l) # {} ELSE crossed[q] \/ q \in Guests(p, l)]
  BY DEF Begin
<1>2. pc[p] = "idle" /\ UNCHANGED <<mainc, elf, summary, config, stage, spike, ran>>
  BY DEF Begin, files
<1>3. stage'[p] \in DOMAIN Dirs[l]
  <2>1. DOMAIN Dirs[l] = 1 .. Len(Dirs[l]) /\ Len(Dirs[l]) > 0
    BY DirsAssumption DEF Lowerings
  <2>2. stage[p] = 1
    BY <1>2 DEF FilesInv, OwnFiles
  <2> QED BY <1>2, <2>1, <2>2
<1>4. FilesType'
  BY <1>1, <1>2, <1>3 DEF FilesInv, FilesType, Points, Building
<1>5. Alone'
  BY <1>1 DEF FilesInv, FilesType, Alone, Guests
<1>6. ASSUME NEW q \in Procs, q # p PROVE OwnFiles(q)'
  <2>1. pc'[q] = pc[q] /\ low'[q] = low[q] /\ n'[q] = n[q] /\ (~crossed'[q] => ~crossed[q])
    BY <1>1, <1>6 DEF FilesInv, FilesType
  <2> QED BY <1>2, <2>1, BystanderFiles DEF FilesInv
<1>7. OwnFiles(p)'
  BY <1>1, <1>2 DEF FilesInv, FilesType, OwnFiles
<1> QED BY <1>4, <1>5, <1>6, <1>7 DEF FilesInv

(* The stage that is done is one more of the call's own. *)
LEMMA DoneFiles ==
  ASSUME FilesInv, NEW p \in Procs, pc[p] = "timing", Timed(p), StageDone(p)
  PROVE  FilesInv'
<1> DEFINE new == [spike |-> spike[p], summary |-> summary[Dir(p)], config |-> config[Dir(p)]]
<1>1. /\ ran' = [ran EXCEPT ![p] = @ \cup {new}] /\ spike' = [spike EXCEPT ![p] = NotLoaded]
      /\ UNCHANGED <<mainc, elf, summary, config, low, n, crossed>>
  BY DEF StageDone, files, call, history, marks
<1>2. ~crossed[p] => \A x \in ran'[p] : {x.spike.elf, x.summary, x.config} = {n[p]}
  <2> SUFFICES ASSUME ~crossed[p], NEW x \in ran'[p] PROVE {x.spike.elf, x.summary, x.config} = {n[p]}
    OBVIOUS
  <2>1. x \in ran[p] \/ x = new
    BY <1>1 DEF FilesInv, FilesType
  <2>2. new.spike.elf = n[p] /\ new.summary = n[p] /\ new.config = n[p]
    BY DEF FilesInv, OwnFiles, Timed
  <2> QED BY <2>1, <2>2 DEF FilesInv, OwnFiles
<1>3. CASE LastStage(p)
  <2>1. pc' = [pc EXCEPT ![p] = "report"] /\ UNCHANGED stage
    BY <1>3 DEF StageDone
  <2>2. OwnFiles(p)'
    BY <1>1, <1>2, <2>1 DEF FilesInv, FilesType, OwnFiles
  <2> QED BY <1>1, <2>1, <2>2, StepFiles DEF FilesInv, FilesType, Points, Reporting
<1>4. CASE ~LastStage(p)
  <2>1. pc' = [pc EXCEPT ![p] = "main"] /\ stage' = [stage EXCEPT ![p] = @ + 1]
    BY <1>4 DEF StageDone
  <2>2. OwnFiles(p)'
    BY <1>1, <1>2, <2>1 DEF FilesInv, FilesType, OwnFiles
  <2>3. stage'[p] \in DOMAIN Dirs[low[p]]
    <3>1. Dirs[low[p]] \in Seq(STRING) /\ stage[p] \in DOMAIN Dirs[low[p]] /\ stage[p] # Len(Dirs[low[p]])
      BY <1>4, DirsAssumption DEF FilesInv, FilesType, Lowerings, LastStage
    <3> QED BY <2>1, <3>1 DEF FilesInv, FilesType
  <2>4. stage' \in [Procs -> Nat]
    BY <2>1 DEF FilesInv, FilesType
  <2> QED BY <1>1, <2>1, <2>2, <2>3, <2>4, StepFiles DEF FilesInv, FilesType, Points, Building
<1> QED BY <1>3, <1>4

LEMMA FilesStep == FilesInv /\ [Next]_vars => FilesInv'
<1> SUFFICES ASSUME FilesInv, [Next]_vars PROVE FilesInv'
  OBVIOUS
<1> USE DEF locals, call, history, marks, files
<1>1. ASSUME NEW p \in Procs, WriteMain(p) PROVE FilesInv'
  <2>1. /\ pc[p] = "main" /\ pc' = [pc EXCEPT ![p] = "gcc"] /\ mainc' = [mainc EXCEPT ![Dir(p)] = n[p]]
        /\ UNCHANGED <<elf, summary, config, low, n, stage, spike, ran, crossed>>
    BY <1>1 DEF WriteMain, Goto
  <2>2. OwnFiles(p)'
    BY <2>1, DirType DEF FilesInv, FilesType, OwnFiles, Dir
  <2> QED BY <2>1, <2>2, StepFiles DEF FilesInv, FilesType, Points, Building
<1>2. ASSUME NEW p \in Procs, Gcc(p) PROVE FilesInv'
  <2>1. pc[p] = "gcc" /\ elf' = [elf EXCEPT ![Dir(p)] = mainc[Dir(p)]] /\ UNCHANGED <<mainc, summary, config>>
    BY <1>2 DEF Gcc
  <2>2. CASE buildOnly[p]
    BY <1>2, <2>1, <2>2, LeaveFiles DEF Gcc, FilesInv, FilesType
  <2>3. CASE ~buildOnly[p]
    <3>1. UNCHANGED <<low, n, stage, spike, ran, crossed>>
      BY <1>2, <2>3 DEF Gcc
    <3>2. PICK to \in {"expected", "spike"} : pc' = [pc EXCEPT ![p] = to]
      BY <1>2, <2>3 DEF Gcc
    <3>3. OwnFiles(p)'
      BY <2>1, <3>1, <3>2, DirType DEF FilesInv, FilesType, OwnFiles, Dir
    <3> QED BY <2>1, <3>1, <3>2, <3>3, StepFiles DEF FilesInv, FilesType, Points, Running, Deploying
  <2> QED BY <2>2, <2>3
<1>3. ASSUME NEW p \in Procs, RunSpike(p) PROVE FilesInv'
  <2>1. /\ pc[p] = "spike" /\ pc' = [pc EXCEPT ![p] = "spiking"]
        /\ summary' = [summary EXCEPT ![Dir(p)] = 0] /\ config' = [config EXCEPT ![Dir(p)] = 0]
        /\ spike' = [spike EXCEPT ![p] = [elf |-> elf[Dir(p)], id |-> Id(p)]]
        /\ UNCHANGED <<mainc, elf, low, n, stage, ran, crossed>>
    BY <1>3 DEF RunSpike, Goto
  <2>2. Dir(p)' = Dir(p) /\ Dir(p) \in AllDirs
    BY <2>1, DirType DEF FilesInv, Dir
  <2>3. OwnFiles(p)'
    BY <2>1, <2>2 DEF FilesInv, FilesType, OwnFiles
  <2> QED BY <2>1, <2>3, StepFiles DEF FilesInv, FilesType, Points, Running
<1>4. ASSUME NEW p \in Procs, SpikeEnds(p) PROVE FilesInv'
  <2>1. /\ pc[p] = "spiking" /\ pc' = [pc EXCEPT ![p] = "timing"]
        /\ summary' = IF LibTimes(spike[p].id.lib) THEN [summary EXCEPT ![Dir(p)] = spike[p].elf] ELSE summary
        /\ config' = [config EXCEPT ![Dir(p)] = n[p]]
        /\ UNCHANGED <<mainc, elf, low, n, stage, spike, ran, crossed>>
    BY <1>4 DEF SpikeEnds, Goto
  <2>2. Dir(p)' = Dir(p) /\ Dir(p) \in AllDirs
    BY <2>1, DirType DEF FilesInv, Dir
  <2>3. OwnFiles(p)'
    <3> SUFFICES ASSUME ~crossed[p]
                 PROVE  /\ spike[p].elf = n[p] /\ summary'[Dir(p)] \in {0, n[p]} /\ config'[Dir(p)] = n[p]
                        /\ \A x \in ran[p] : {x.spike.elf, x.summary, x.config} = {n[p]}
      BY <2>1, <2>2 DEF FilesInv, FilesType, OwnFiles
    <3> QED BY <2>1, <2>2 DEF FilesInv, FilesType, OwnFiles
  <2>4. DOMAIN summary' = AllDirs /\ \A d \in AllDirs \ {Dir(p)} : summary'[d] = summary[d]
    BY <2>1 DEF FilesInv, FilesType
  <2> QED BY <2>1, <2>3, <2>4, StepFiles DEF FilesInv, FilesType, Points, Running
<1>5. ASSUME NEW p \in Procs, Resolve(p) \/ Report(p) \/ ReportMetrics(p) \/ WriteExpected(p) PROVE FilesInv'
  <2>1. /\ pc[p] # "idle" /\ UNCHANGED <<files, low, n, stage, spike, ran, crossed>>
        /\ \E to \in {"main", "metrics", "copy", "manifest"} : pc' = [pc EXCEPT ![p] = to]
    BY <1>5 DEF Resolve, Report, ReportMetrics, WriteExpected, Goto
  <2>2. PICK to \in {"main", "metrics", "copy", "manifest"} : pc' = [pc EXCEPT ![p] = to]
    BY <2>1
  <2>3. OwnFiles(p)'
    BY <2>1, <2>2 DEF FilesInv, FilesType, OwnFiles
  <2> QED BY <2>1, <2>2, <2>3, StepFiles DEF FilesInv, FilesType, Points, Building, Reporting, Deploying
<1>6. ASSUME NEW p \in Procs, CopyTiming(p) \/ WriteManifest(p) PROVE FilesInv'
  BY <1>6, LeaveFiles DEF CopyTiming, WriteManifest, FilesInv, FilesType
<1>7. ASSUME NEW p \in Procs, Fail(p) PROVE FilesInv'
  <2>1. DOMAIN elf' = AllDirs /\ \A d \in AllDirs \ {Dir(p)} : elf'[d] = elf[d]
    BY <1>7 DEF Fail, FilesInv, FilesType
  <2> QED BY <1>7, <2>1, LeaveFiles DEF Fail
<1>8. ASSUME NEW p \in Procs, AssertGeometry(p) PROVE FilesInv'
  BY <1>8, DoneFiles DEF AssertGeometry
<1>9. CASE Rebuild \/ UNCHANGED vars
  <2>1. UNCHANGED <<files, pc, low, n, stage, spike, ran, crossed>>
    BY <1>9 DEF Rebuild, vars
  <2>2. FilesType' /\ Alone'
    BY <2>1 DEF FilesInv, FilesType, Alone
  <2>3. ASSUME NEW q \in Procs PROVE OwnFiles(q)'
    BY <2>1, BystanderFiles DEF FilesInv
  <2> QED BY <2>2, <2>3 DEF FilesInv
<1> QED BY <1>1, <1>2, <1>3, <1>4, <1>5, <1>6, <1>7, <1>8, <1>9, BeginFiles DEF Next, Step

(* A call that is alone in its directories grades the outputs, and counts  *)
(* the cycles, of its own ELFs, whatever calls before it left behind.      *)
THEOREM OwnRunHolds == Spec => []OwnRun
<1>1. FilesInv => OwnRun
  BY DEF FilesInv, OwnFiles, OwnRun
<1> QED BY <1>1, FilesInit, FilesStep, PTL DEF Spec
-----------------------------------------------------------------------------
(* What TypeOK says beyond MemoryType and FilesType. *)
ValuesType ==
  /\ {mainc, elf, summary, config} \subseteq [AllDirs -> Runs]
  /\ expected \in Runs /\ manifest \in [elf : Runs, expected : Runs]
  /\ results \in [Seconds -> [config : Runs, id : Identity, arrays : Runs, metrics : Runs,
                              timing : SUBSET Runs]]
  /\ rebuilds \in Versions /\ version \in [Libs -> Versions] /\ now \in Seconds
  /\ spike \in [Procs -> Loaded] /\ \A p \in Procs : ran[p] \subseteq StageRun
  /\ second \in [Procs -> Seconds]
  /\ {crossed, stale} \subseteq [Procs -> BOOLEAN]
  /\ shared \subseteq Seconds /\ spoiled \in BOOLEAN

LEMMA TypeParts == MachineInv /\ FilesInv => (TypeOK <=> ValuesType)
BY DEF MachineInv, MemoryType, FilesInv, FilesType, TypeOK, ValuesType

LEMMA Constants == 0 \in Runs /\ 0 \in Seconds /\ 0 \in Versions /\ NoId \in Identity /\ NotLoaded \in Loaded
BY BoundsAssumption DEF Runs, Seconds, Versions, NoId, Identity, Libs, NotLoaded, Loaded

LEMMA ValuesInit == Init => ValuesType
<1> SUFFICES ASSUME Init PROVE ValuesType
  OBVIOUS
<1>1. mainc \in [AllDirs -> Runs] /\ elf = mainc /\ summary = mainc /\ config = mainc
  BY Constants DEF Init
<1>2. manifest \in [elf : Runs, expected : Runs]
  BY Constants DEF Init, NoManifest
<1>3. NoResult \in [config : Runs, id : Identity, arrays : Runs, metrics : Runs, timing : SUBSET Runs]
  BY Constants DEF NoResult
<1> QED BY <1>1, <1>2, <1>3, Constants DEF Init, ValuesType

LEMMA IdentityType == MachineInv /\ ValuesType => \A p \in Procs : Id(p) \in Identity
BY DEF MachineInv, MemoryType, ValuesType, Id, Libgemmini, Identity, Overrides, Libs

LEMMA LeaveValues ==
  ASSUME ValuesType, MachineInv, NEW p \in Procs, Leave(p)
  PROVE  /\ spike' \in [Procs -> Loaded] /\ \A q \in Procs : ran'[q] \subseteq StageRun
         /\ second' \in [Procs -> Seconds] /\ {crossed', stale'} \subseteq [Procs -> BOOLEAN]
BY Constants DEF ValuesType, MachineInv, MemoryType, Leave

LEMMA ValuesStep == ValuesType /\ MachineInv /\ FilesInv /\ [Next]_vars => ValuesType'
<1> SUFFICES ASSUME ValuesType, MachineInv, FilesInv, [Next]_vars PROVE ValuesType'
  OBVIOUS
<1> USE DEF locals, call, history, marks, files, deploy, clock
<1>1. ASSUME NEW p \in Procs, Begin(p) PROVE ValuesType'
  <2>1. crossed' \in [Procs -> BOOLEAN] /\ spoiled' \in BOOLEAN
    BY <1>1 DEF Begin, ValuesType
  <2> QED BY <1>1, <2>1 DEF Begin, ValuesType
<1>2. ASSUME NEW p \in Procs, Resolve(p) PROVE ValuesType'
  BY <1>2 DEF Resolve, ValuesType
<1>3. ASSUME NEW p \in Procs, WriteMain(p) PROVE ValuesType'
  <2>1. mainc' \in [AllDirs -> Runs]
    BY <1>3 DEF WriteMain, ValuesType, MachineInv, MemoryType
  <2> QED BY <1>3, <2>1 DEF WriteMain, ValuesType
<1>4. ASSUME NEW p \in Procs, Gcc(p) PROVE ValuesType'
  <2>1. elf' \in [AllDirs -> Runs]
    BY <1>4, DirType DEF Gcc, ValuesType, FilesInv
  <2>2. CASE buildOnly[p]
    BY <1>4, <2>1, <2>2, LeaveValues DEF Gcc, ValuesType
  <2>3. CASE ~buildOnly[p]
    BY <1>4, <2>1, <2>3 DEF Gcc, ValuesType
  <2> QED BY <2>2, <2>3
<1>5. ASSUME NEW p \in Procs, RunSpike(p) PROVE ValuesType'
  <2>1. summary' \in [AllDirs -> Runs] /\ config' \in [AllDirs -> Runs]
    BY <1>5, Constants DEF RunSpike, ValuesType
  <2>2. [elf |-> elf[Dir(p)], id |-> Id(p)] \in Loaded
    BY DirType, IdentityType DEF FilesInv, ValuesType, Loaded
  <2>3. spike' \in [Procs -> Loaded]
    BY <1>5, <2>2 DEF RunSpike, ValuesType
  <2> QED BY <1>5, <2>1, <2>3 DEF RunSpike, ValuesType
<1>6. ASSUME NEW p \in Procs, SpikeEnds(p) PROVE ValuesType'
  <2>1. spike[p].elf \in Runs /\ n[p] \in Runs
    BY DEF ValuesType, Loaded, MachineInv, MemoryType
  <2>2. summary' \in [AllDirs -> Runs] /\ config' \in [AllDirs -> Runs]
    BY <1>6, <2>1 DEF SpikeEnds, ValuesType
  <2> QED BY <1>6, <2>2 DEF SpikeEnds, ValuesType
<1>7. ASSUME NEW p \in Procs, AssertGeometry(p) PROVE ValuesType'
  <2>1. [spike |-> spike[p], summary |-> summary[Dir(p)], config |-> config[Dir(p)]] \in StageRun
    BY DirType DEF FilesInv, ValuesType, StageRun
  <2>2. \A q \in Procs : ran'[q] \subseteq StageRun
    BY <1>7, <2>1 DEF AssertGeometry, StageDone, ValuesType, FilesInv, FilesType
  <2>3. spike' \in [Procs -> Loaded]
    BY <1>7, Constants DEF AssertGeometry, StageDone, ValuesType
  <2> QED BY <1>7, <2>2, <2>3 DEF AssertGeometry, StageDone, ValuesType
<1>8. ASSUME NEW p \in Procs, Report(p) PROVE ValuesType'
  <2>1. now' \in Seconds /\ shared' \subseteq Seconds /\ second' \in [Procs -> Seconds]
    BY <1>8, BoundsAssumption DEF Report, Clock, ValuesType, Seconds
  <2>2. Id(p) \in Identity /\ n[p] \in Runs
    BY IdentityType DEF MachineInv, MemoryType
  <2>3. results' \in [Seconds -> [config : Runs, id : Identity, arrays : Runs, metrics : Runs,
                                  timing : SUBSET Runs]]
    BY <1>8, <2>1, <2>2 DEF Report, ValuesType
  <2> QED BY <1>8, <2>1, <2>3 DEF Report, ValuesType
<1>9. ASSUME NEW p \in Procs, ReportMetrics(p) PROVE ValuesType'
  <2>1. second[p] \in Seconds /\ n[p] \in Runs
    BY DEF ValuesType, MachineInv, MemoryType
  <2>2. results' \in [Seconds -> [config : Runs, id : Identity, arrays : Runs, metrics : Runs,
                                  timing : SUBSET Runs]]
    BY <1>9, <2>1 DEF ReportMetrics, ValuesType
  <2> QED BY <1>9, <2>2 DEF ReportMetrics, ValuesType
<1>10. ASSUME NEW p \in Procs, CopyTiming(p) PROVE ValuesType'
  <2> DEFINE found == {summary[Dirs[low[p]][i]] : i \in DOMAIN Dirs[low[p]]}
  <2>1. found \subseteq Runs
    <3>1. ASSUME NEW i \in DOMAIN Dirs[low[p]] PROVE Dirs[low[p]][i] \in AllDirs
      <4>1. Dirs[low[p]][i] \in {Dirs[low[p]][j] : j \in DOMAIN Dirs[low[p]]} /\ low[p] \in Lowerings
        BY DEF FilesInv, FilesType
      <4> QED BY <4>1 DEF AllDirs
    <3> QED BY <3>1 DEF ValuesType
  <2>2. results' = [results EXCEPT ![second[p]].timing = found \ {0}]
    BY <1>10 DEF CopyTiming
  <2> HIDE DEF found
  <2>3. results' \in [Seconds -> [config : Runs, id : Identity, arrays : Runs, metrics : Runs,
                                  timing : SUBSET Runs]]
    BY <2>1, <2>2 DEF ValuesType
  <2>4. shared' \subseteq Seconds
    BY <1>10 DEF CopyTiming, ValuesType
  <2> QED BY <1>10, <2>3, <2>4, LeaveValues DEF CopyTiming, ValuesType
<1>11. ASSUME NEW p \in Procs, WriteExpected(p) PROVE ValuesType'
  BY <1>11 DEF WriteExpected, ValuesType, MachineInv, MemoryType
<1>12. ASSUME NEW p \in Procs, WriteManifest(p) PROVE ValuesType'
  <2>1. manifest' \in [elf : Runs, expected : Runs]
    BY <1>12, DirType DEF WriteManifest, ValuesType, FilesInv, MachineInv, MemoryType
  <2>2. spoiled' \in BOOLEAN
    BY <1>12 DEF WriteManifest
  <2> QED BY <1>12, <2>1, <2>2, LeaveValues DEF WriteManifest, ValuesType
<1>13. ASSUME NEW p \in Procs, Fail(p) PROVE ValuesType'
  <2>1. elf' \in [AllDirs -> Runs] /\ spoiled' \in BOOLEAN
    BY <1>13, Constants DEF Fail, ValuesType
  <2> QED BY <1>13, <2>1, LeaveValues DEF Fail, ValuesType
<1>14. ASSUME Rebuild PROVE ValuesType'
  <2>1. rebuilds' \in Versions
    BY <1>14, BoundsAssumption DEF Rebuild, ValuesType, Versions
  <2>2. version' \in [Libs -> Versions] /\ stale' \in [Procs -> BOOLEAN]
    BY <1>14, <2>1 DEF Rebuild, ValuesType
  <2> QED BY <1>14, <2>1, <2>2 DEF Rebuild, ValuesType
<1>15. CASE UNCHANGED vars
  BY <1>15 DEF vars, ValuesType
<1> QED BY <1>1, <1>2, <1>3, <1>4, <1>5, <1>6, <1>7, <1>8, <1>9, <1>10, <1>11, <1>12, <1>13, <1>14,
           <1>15 DEF Next, Step

(* The files, the reports and the memories of the processes hold values of their kind. *)
THEOREM TypeCorrect == Spec => []TypeOK
<1>1. Init => MachineInv /\ FilesInv /\ ValuesType
  BY MachineInit, FilesInit, ValuesInit
<1>2. MachineInv /\ FilesInv /\ ValuesType /\ [Next]_vars => (MachineInv /\ FilesInv /\ ValuesType)'
  BY MachineStep, FilesStep, ValuesStep
<1> QED BY <1>1, <1>2, TypeParts, PTL DEF Spec

-----------------------------------------------------------------------------
(***************************************************************************)
(* The course of a call, and the library its stages ran on.                *)
(***************************************************************************)
(* What holds of the values of every state. *)
Base == MachineInv /\ FilesInv /\ ValuesType

(* A step of one call leaves the others where they are; at most they are now crossed. *)
OnlyCall(p) ==
  \A q \in Procs \ {p} :
    /\ pc'[q] = pc[q] /\ low'[q] = low[q] /\ n'[q] = n[q] /\ buildOnly'[q] = buildOnly[q]
    /\ stage'[q] = stage[q] /\ spike'[q] = spike[q] /\ ran'[q] = ran[q] /\ second'[q] = second[q]
    /\ stale'[q] = stale[q] /\ env'[q] = env[q] /\ (crossed[q] => crossed'[q])

LEMMA Domains ==
  Base => /\ DOMAIN pc = Procs /\ DOMAIN low = Procs /\ DOMAIN n = Procs /\ DOMAIN buildOnly = Procs
          /\ DOMAIN stage = Procs /\ DOMAIN spike = Procs /\ DOMAIN ran = Procs /\ DOMAIN second = Procs
          /\ DOMAIN stale = Procs /\ DOMAIN crossed = Procs /\ DOMAIN env = Procs
BY DEF Base, MachineInv, MemoryType, FilesInv, FilesType, ValuesType

LEMMA LeaveCall ==
  ASSUME Base, NEW p \in Procs, Leave(p), UNCHANGED env
  PROVE  OnlyCall(p) /\ pc'[p] = "idle" /\ low'[p] = "deploy" /\ stage'[p] = 1 /\ ~buildOnly'[p] /\ ran'[p] = {}
BY Domains DEF Leave, OnlyCall

LEMMA StepLocals == ASSUME Base, NEW p \in Procs, Step(p) PROVE OnlyCall(p)
<1> USE DEF locals, call, history, marks, memory
<1>1. CASE Leave(p) /\ UNCHANGED env
  BY <1>1, LeaveCall
<1>2. CASE Begin(p)
  BY <1>2, Domains DEF Begin, OnlyCall
<1>3. CASE Resolve(p)
  BY <1>3, Domains DEF Resolve, Goto, OnlyCall
<1>4. CASE WriteMain(p) \/ RunSpike(p) \/ SpikeEnds(p) \/ ReportMetrics(p) \/ WriteExpected(p)
  BY <1>4, Domains DEF WriteMain, RunSpike, SpikeEnds, ReportMetrics, WriteExpected, Goto, OnlyCall
<1>5. CASE Gcc(p) /\ ~buildOnly[p]
  BY <1>5, Domains DEF Gcc, OnlyCall
<1>6. CASE AssertGeometry(p)
  BY <1>6, Domains DEF AssertGeometry, StageDone, OnlyCall
<1>7. CASE Report(p)
  BY <1>7, Domains DEF Report, Clock, Goto, OnlyCall
<1>8. Gcc(p) /\ buildOnly[p] => Leave(p) /\ UNCHANGED env
  BY DEF Gcc
<1>9. CopyTiming(p) \/ WriteManifest(p) \/ Fail(p) => Leave(p) /\ UNCHANGED env
  BY DEF CopyTiming, WriteManifest, Fail
<1> QED BY <1>1, <1>2, <1>3, <1>4, <1>5, <1>6, <1>7, <1>8, <1>9 DEF Step

(* What a call can be at each of its points. *)
Shape(p) ==
  /\ pc[p] # "idle" => n[p] # 0
  /\ pc[p] \in {"idle", "resolve"} => ran[p] = {}
  /\ pc[p] \in Deploying => low[p] = "deploy"
  /\ pc[p] \in {"resolve"} \cup Running \cup Reporting => low[p] # "deploy"
  /\ low[p] = "deploy" => stage[p] = 1 /\ ~buildOnly[p]
  /\ pc[p] \in Reporting => LastStage(p)

Shapes == \A p \in Procs : Shape(p)

LEMMA ShapesInit == Init => Shapes
BY DEF Init, Shapes, Shape, Deploying, Running, Reporting

LEMMA OtherShapes ==
  ASSUME Shapes, NEW p \in Procs, OnlyCall(p), Shape(p)'
  PROVE  Shapes'
BY DEF Shapes, Shape, OnlyCall, LastStage

LEMMA ShapesStep == Base /\ Shapes /\ [Next]_vars => Shapes'
<1> SUFFICES ASSUME Base, Shapes, [Next]_vars PROVE Shapes'
  OBVIOUS
<1> USE DEF locals, call
<1>1. ASSUME NEW p \in Procs, Step(p) PROVE Shape(p)'
  <2> USE Domains DEF Shape, Deploying, Running, Reporting
  <2>1. CASE Begin(p)
    <3>1. PICK l \in Lowerings, b \in BOOLEAN :
            /\ b => l # "deploy"
            /\ low' = [low EXCEPT ![p] = l] /\ n' = [n EXCEPT ![p] = runs']
            /\ buildOnly' = [buildOnly EXCEPT ![p] = b]
            /\ pc' = [pc EXCEPT ![p] = IF b \/ l = "deploy" THEN "main" ELSE "resolve"]
      BY <2>1 DEF Begin
    <3>2. pc[p] = "idle" /\ UNCHANGED <<stage, ran>> /\ runs' = runs + 1
      BY <2>1 DEF Begin
    <3>3. runs' # 0
      BY <3>2, BoundsAssumption DEF Base, MachineInv, MemoryType, Runs
    <3>4. stage[p] = 1 /\ ran[p] = {}
      BY <3>2 DEF Base, FilesInv, OwnFiles
    <3> QED BY <3>1, <3>2, <3>3, <3>4
  <2>2. CASE Leave(p) /\ UNCHANGED env
    <3>1. pc'[p] = "idle" /\ low'[p] = "deploy" /\ stage'[p] = 1 /\ ~buildOnly'[p] /\ ran'[p] = {}
      BY <2>2, LeaveCall
    <3> QED BY <3>1
  <2>3. CASE Resolve(p) \/ WriteMain(p) \/ RunSpike(p) \/ SpikeEnds(p) \/ ReportMetrics(p) \/ WriteExpected(p)
    BY <2>3 DEF Resolve, WriteMain, RunSpike, SpikeEnds, ReportMetrics, WriteExpected, Goto, LastStage, Shapes
  <2>4. CASE Gcc(p) /\ ~buildOnly[p]
    BY <2>4 DEF Gcc, Shapes
  <2>5. CASE AssertGeometry(p)
    <3>1. /\ pc[p] = "timing" /\ UNCHANGED <<low, n, buildOnly>>
          /\ \/ LastStage(p) /\ pc' = [pc EXCEPT ![p] = "report"] /\ UNCHANGED stage
             \/ pc' = [pc EXCEPT ![p] = "main"]
      BY <2>5 DEF AssertGeometry, StageDone
    <3> QED BY <3>1 DEF Shapes, LastStage
  <2>6. CASE Report(p)
    BY <2>6 DEF Report, Goto, Shapes, LastStage
  <2>7. /\ Gcc(p) /\ buildOnly[p] => Leave(p) /\ UNCHANGED env
        /\ CopyTiming(p) \/ WriteManifest(p) \/ Fail(p) => Leave(p) /\ UNCHANGED env
    BY DEF Gcc, CopyTiming, WriteManifest, Fail, memory
  <2> QED BY <1>1, <2>1, <2>2, <2>3, <2>4, <2>5, <2>6, <2>7 DEF Step
<1>2. CASE Rebuild \/ UNCHANGED vars
  BY <1>2 DEF Rebuild, vars, Shapes, Shape, LastStage
<1> QED BY <1>1, <1>2, StepLocals, OtherShapes DEF Next

-----------------------------------------------------------------------------
(* Without a rebuild, all stages of a call ran on the library that is there now. *)
SameLibrary(p) ==
  pc[p] # "idle" /\ ~stale[p] =>
    /\ \A x \in ran[p] : x.spike.id = Id(p)
    /\ pc[p] \in {"spiking", "timing"} => spike[p].id = Id(p)

Libraries == \A p \in Procs : SameLibrary(p)

LEMMA LibrariesInit == Init => Libraries
BY DEF Init, Libraries, SameLibrary

LEMMA LibrariesStep == Base /\ Shapes /\ Libraries /\ [Next]_vars => Libraries'
<1> SUFFICES ASSUME Base, Shapes, Libraries, [Next]_vars PROVE Libraries'
  OBVIOUS
<1> USE DEF locals, call, clock, memory, marks, history
<1>1. ASSUME NEW p \in Procs, Step(p) PROVE Libraries'
  <2>1. UNCHANGED version
    BY <1>1 DEF Step, Begin, Resolve, WriteMain, Gcc, RunSpike, SpikeEnds, AssertGeometry, StageDone, Report,
                Clock, ReportMetrics, CopyTiming, WriteExpected, WriteManifest, Fail
  <2>2. ASSUME NEW q \in Procs \ {p} PROVE SameLibrary(q)'
    BY <1>1, <2>1, <2>2, StepLocals DEF OnlyCall, Libraries, SameLibrary, Id, Libgemmini
  <2>3. SameLibrary(p)'
    <3> USE Domains DEF SameLibrary
    <3>1. CASE pc[p] \in {"idle", "resolve"} /\ (Begin(p) \/ Resolve(p))
      BY <3>1 DEF Begin, Resolve, Goto, Shapes, Shape
    <3>2. CASE Leave(p)
      BY <3>2 DEF Leave
    <3>3. CASE \/ WriteMain(p) \/ SpikeEnds(p) \/ ReportMetrics(p) \/ WriteExpected(p)
               \/ (Gcc(p) /\ ~buildOnly[p])
      <4>1. pc[p] # "idle" /\ UNCHANGED <<env, spike, ran, stale>>
        BY <3>3 DEF WriteMain, SpikeEnds, ReportMetrics, WriteExpected, Gcc, Goto
      <4>2. pc'[p] \in {"spiking", "timing"} => pc[p] \in {"spiking", "timing"}
        BY <3>3 DEF WriteMain, SpikeEnds, ReportMetrics, WriteExpected, Gcc, Goto
      <4> QED BY <2>1, <4>1, <4>2 DEF Libraries, Id, Libgemmini
    <3>4. CASE RunSpike(p)
      <4>1. pc[p] = "spike" /\ UNCHANGED <<env, ran, stale>> /\ spike'[p].id = Id(p)
        BY <3>4 DEF RunSpike, Goto
      <4> QED BY <2>1, <4>1 DEF Libraries, Id, Libgemmini
    <3>5. CASE AssertGeometry(p)
      <4>1. /\ pc[p] = "timing" /\ pc'[p] \in {"report", "main"} /\ UNCHANGED <<env, stale>>
            /\ \A x \in ran'[p] : x \in ran[p] \/ x.spike = spike[p]
        BY <3>5 DEF AssertGeometry, StageDone
      <4> QED BY <2>1, <4>1 DEF Libraries, Id, Libgemmini
    <3>6. CASE Report(p)
      <4>1. pc[p] = "report" /\ pc'[p] = "metrics" /\ UNCHANGED <<env, ran, stale>>
        BY <3>6 DEF Report, Goto
      <4> QED BY <2>1, <4>1 DEF Libraries, Id, Libgemmini
    <3>7. /\ Gcc(p) /\ buildOnly[p] => Leave(p)
          /\ CopyTiming(p) \/ WriteManifest(p) \/ Fail(p) => Leave(p)
          /\ Begin(p) => pc[p] = "idle"
          /\ Resolve(p) => pc[p] = "resolve"
      BY DEF Gcc, CopyTiming, WriteManifest, Fail, Begin, Resolve, Goto
    <3> QED BY <1>1, <3>1, <3>2, <3>3, <3>4, <3>5, <3>6, <3>7 DEF Step
  <2> QED BY <2>2, <2>3 DEF Libraries
<1>2. CASE Rebuild
  BY <1>2, Domains DEF Rebuild, Libraries, SameLibrary
<1>3. CASE UNCHANGED vars
  BY <1>3 DEF vars, Libraries, SameLibrary, Id, Libgemmini
<1> QED BY <1>1, <1>2, <1>3 DEF Next

-----------------------------------------------------------------------------
(***************************************************************************)
(* The results directories.                                                *)
(***************************************************************************)
(* The stages whose summary is the call's own, or gone. *)
Done(p) == {i \in DOMAIN Dirs[low[p]] :
              i < stage[p] \/ (i = stage[p] /\ pc[p] \in {"spiking", "timing"} \cup Reporting)}

(* An uncrossed call finds no summary but its own in the directories of its finished stages, *)
(* even if two stages of a lowering have one directory.                                      *)
OwnSummaries(p) ==
  pc[p] # "idle" /\ ~crossed[p] => \A i \in Done(p) : summary[Dirs[low[p]][i]] \in {0, n[p]}

Summaries == \A p \in Procs : OwnSummaries(p)

LEMMA SummariesInit == Init => Summaries
BY DEF Init, Summaries, OwnSummaries

LEMMA StageNat ==
  FilesType => \A p \in Procs : DOMAIN Dirs[low[p]] \subseteq Nat \ {0} /\ stage[p] \in Nat
<1> SUFFICES ASSUME FilesType, NEW p \in Procs
             PROVE  DOMAIN Dirs[low[p]] \subseteq Nat \ {0} /\ stage[p] \in Nat
  OBVIOUS
<1>1. low[p] \in DOMAIN Dirs /\ stage[p] \in Nat
  BY DEF FilesType, Lowerings
<1>2. Dirs[low[p]] \in Seq(STRING)
  BY <1>1, DirsAssumption
<1> QED BY <1>1, <1>2

(* An uncrossed call shares none of its directories, of this stage or another, with a running call. *)
LEMMA ApartDirs ==
  ASSUME FilesType, Alone, NEW p \in Procs, NEW q \in Procs, p # q,
         pc[p] # "idle", pc[q] # "idle", ~crossed[q], NEW i \in DOMAIN Dirs[low[q]]
  PROVE  Dirs[low[q]][i] # Dir(p)
<1>1. low[p] # low[q] /\ low[p] \in DOMAIN Dirs /\ low[q] \in DOMAIN Dirs
  BY DEF FilesType, Alone, Lowerings
<1>2. stage[p] \in DOMAIN Dirs[low[p]]
  BY DEF FilesType
<1> QED BY <1>1, <1>2, ApartAssumption DEF Dir

LEMMA InAllDirs == FilesType => \A p \in Procs : \A i \in DOMAIN Dirs[low[p]] : Dirs[low[p]][i] \in AllDirs
<1> SUFFICES ASSUME FilesType, NEW p \in Procs, NEW i \in DOMAIN Dirs[low[p]] PROVE Dirs[low[p]][i] \in AllDirs
  OBVIOUS
<1>1. low[p] \in Lowerings /\ Dirs[low[p]][i] \in {Dirs[low[p]][j] : j \in DOMAIN Dirs[low[p]]}
  BY DEF FilesType
<1> QED BY <1>1 DEF AllDirs

(* No step touches a summary of another directory than that of the call that takes it. *)
LEMMA OneSummary ==
  ASSUME Base, NEW p \in Procs, Step(p), NEW d \in AllDirs, summary'[d] # summary[d]
  PROVE  d = Dir(p) /\ pc[p] # "idle"
<1> USE DEF files
<1>1. UNCHANGED summary \/ RunSpike(p) \/ SpikeEnds(p)
  BY DEF Step, Begin, Resolve, WriteMain, Gcc, AssertGeometry, StageDone, Report, ReportMetrics, CopyTiming,
         WriteExpected, WriteManifest, Fail
<1> QED BY <1>1 DEF RunSpike, SpikeEnds, Goto, Base, ValuesType

LEMMA SummariesStep == Base /\ Shapes /\ Summaries /\ [Next]_vars => Summaries'
<1> SUFFICES ASSUME Base, Shapes, Summaries, [Next]_vars PROVE Summaries'
  OBVIOUS
<1> USE DEF locals, call, files, marks, history
<1>1. ASSUME NEW p \in Procs, Step(p) PROVE Summaries'
  <2>1. ASSUME NEW q \in Procs \ {p} PROVE OwnSummaries(q)'
    <3> SUFFICES ASSUME pc'[q] # "idle", ~crossed'[q], NEW i \in Done(q)'
                 PROVE  summary'[Dirs[low'[q]][i]] \in {0, n'[q]}
      BY DEF OwnSummaries
    <3>1. /\ pc[q] # "idle" /\ ~crossed[q] /\ i \in Done(q) /\ low'[q] = low[q] /\ n'[q] = n[q]
          /\ i \in DOMAIN Dirs[low[q]]
      BY <1>1, <2>1, StepLocals DEF OnlyCall, Done
    <3>2. summary'[Dirs[low[q]][i]] = summary[Dirs[low[q]][i]]
      BY <1>1, <2>1, <3>1, OneSummary, ApartDirs, InAllDirs DEF Base, FilesInv
    <3> QED BY <3>1, <3>2 DEF Summaries, OwnSummaries
  <2>2. OwnSummaries(p)'
    <3> USE Domains DEF OwnSummaries, Done
    <3>1. CASE Leave(p)
      BY <3>1 DEF Leave
    <3>2. CASE Begin(p)
      <4>1. pc[p] = "idle" /\ UNCHANGED stage /\ pc'[p] \in {"main", "resolve"} /\ low'[p] \in Lowerings
        BY <3>2 DEF Begin
      <4>2. stage'[p] = 1
        BY <4>1 DEF Base, FilesInv, OwnFiles
      <4>3. \A i \in DOMAIN Dirs[low'[p]] : i \in Nat \ {0}
        BY <4>1, DirsAssumption DEF Lowerings
      <4> QED BY <4>1, <4>2, <4>3 DEF Reporting
    <3>3. CASE Resolve(p) \/ WriteMain(p) \/ ReportMetrics(p) \/ WriteExpected(p) \/ (Gcc(p) /\ ~buildOnly[p])
      <4>1. /\ pc[p] # "idle" /\ UNCHANGED <<summary, low, n, stage, crossed>>
            /\ pc'[p] \in {"spiking", "timing"} \cup Reporting => pc[p] \in {"spiking", "timing"} \cup Reporting
        BY <3>3 DEF Resolve, WriteMain, ReportMetrics, WriteExpected, Gcc, Goto, Reporting
      <4> QED BY <4>1 DEF Summaries
    <3>4. CASE Report(p)
      <4>1. pc[p] = "report" /\ UNCHANGED <<summary, low, n, stage, crossed>>
        BY <3>4 DEF Report, Goto
      <4> QED BY <4>1 DEF Summaries, Reporting
    <3>5. CASE RunSpike(p)
      <4>1. /\ pc[p] = "spike" /\ UNCHANGED <<low, n, stage, crossed>>
            /\ summary' = [summary EXCEPT ![Dir(p)] = 0]
        BY <3>5 DEF RunSpike, Goto
      <4>2. ASSUME NEW i \in DOMAIN Dirs[low[p]], i < stage[p] \/ i = stage[p], ~crossed[p]
            PROVE  summary'[Dirs[low[p]][i]] \in {0, n[p]}
        <5>1. Dirs[low[p]][i] \in AllDirs /\ Dir(p) \in AllDirs
          BY InAllDirs, DirType DEF Base, FilesInv
        <5>2. CASE Dirs[low[p]][i] = Dir(p)
          BY <4>1, <5>1, <5>2 DEF Base, ValuesType
        <5>3. CASE Dirs[low[p]][i] # Dir(p)
          BY <4>1, <4>2, <5>1, <5>3 DEF Base, ValuesType, Summaries, Dir
        <5> QED BY <5>2, <5>3
      <4> QED BY <4>1, <4>2
    <3>6. CASE SpikeEnds(p)
      <4>1. /\ pc[p] = "spiking" /\ UNCHANGED <<low, n, stage, crossed>>
            /\ summary' = summary \/ summary' = [summary EXCEPT ![Dir(p)] = spike[p].elf]
        BY <3>6 DEF SpikeEnds, Goto
      <4>2. ~crossed[p] => spike[p].elf = n[p]
        BY <4>1 DEF Base, FilesInv, OwnFiles
      <4>3. ASSUME NEW i \in Done(p), ~crossed[p] PROVE summary'[Dirs[low[p]][i]] \in {0, n[p]}
        BY <4>1, <4>2, <4>3, InAllDirs, DirType DEF Base, FilesInv, ValuesType, Summaries
      <4> QED BY <4>1, <4>3
    <3>7. CASE AssertGeometry(p)
      <4>1. /\ pc[p] = "timing" /\ UNCHANGED <<summary, low, n, crossed>>
            /\ \/ pc'[p] = "report" /\ UNCHANGED stage
               \/ pc'[p] = "main" /\ stage'[p] = stage[p] + 1
        BY <3>7 DEF AssertGeometry, StageDone
      <4>2. \A i \in DOMAIN Dirs[low[p]] : i < stage[p] + 1 => i < stage[p] \/ i = stage[p]
        BY StageNat DEF Base, FilesInv
      <4> QED BY <4>1, <4>2 DEF Summaries, Reporting
    <3>8. /\ Gcc(p) /\ buildOnly[p] => Leave(p)
          /\ CopyTiming(p) \/ WriteManifest(p) \/ Fail(p) => Leave(p)
      BY DEF Gcc, CopyTiming, WriteManifest, Fail
    <3> QED BY <1>1, <3>1, <3>2, <3>3, <3>4, <3>5, <3>6, <3>7, <3>8 DEF Step
  <2> QED BY <2>1, <2>2 DEF Summaries
<1>2. CASE Rebuild \/ UNCHANGED vars
  BY <1>2 DEF Rebuild, vars, Summaries, OwnSummaries, Done
<1> QED BY <1>1, <1>2 DEF Next

-----------------------------------------------------------------------------
(* A second in which nobody has reported has no files. *)
Unwritten ==
  \A s \in Seconds \ shared : results[s].config = 0 =>
    results[s].arrays = 0 /\ results[s].metrics = 0 /\ results[s].timing = {}

(* A call that writes its report in a second of its own has written all that is there. *)
OwnReport(p) ==
  LET s == second[p] IN
  pc[p] \in {"metrics", "copy"} =>
    /\ results[s].config # 0
    /\ s \notin shared =>
         /\ results[s].config = n[p] /\ results[s].timing = {}
         /\ results[s].arrays = IF pc[p] = "copy" THEN n[p] ELSE 0
         /\ results[s].metrics = results[s].arrays
         /\ ~stale[p] => results[s].id = Id(p)
         /\ \A q \in Procs \ {p} : pc[q] \in {"metrics", "copy"} => second[q] # s

Reports == Unwritten /\ ReportOfOneRun /\ \A p \in Procs : OwnReport(p)

LEMMA ReportsInit == Init => Reports
BY DEF Init, Reports, Unwritten, ReportOfOneRun, OwnReport, NoResult

(* Calls that write no report, and a step that only begins or ends a call. *)
LEMMA ReportsKept ==
  ASSUME Base, Reports, NEW p \in Procs, OnlyCall(p), UNCHANGED <<results, version>>,
         shared' = shared, pc'[p] \notin {"metrics", "copy"}
  PROVE  Reports'
<1>1. ASSUME NEW q \in Procs, pc'[q] \in {"metrics", "copy"} PROVE OwnReport(q)'
  <2>1. q # p /\ pc'[q] = pc[q] /\ second'[q] = second[q] /\ n'[q] = n[q] /\ stale'[q] = stale[q] /\ Id(q)' = Id(q)
    BY <1>1 DEF OnlyCall, Id, Libgemmini
  <2>2. \A x \in Procs : pc'[x] \in {"metrics", "copy"} => pc[x] = pc'[x] /\ second'[x] = second[x]
    BY DEF OnlyCall
  <2> QED BY <1>1, <2>1, <2>2 DEF Reports, OwnReport
<1>2. \A q \in Procs : OwnReport(q)'
  BY <1>1 DEF OwnReport
<1> QED BY <1>2 DEF Reports, Unwritten, ReportOfOneRun

LEMMA ReportReports == ASSUME Base, Shapes, Reports, NEW p \in Procs, Report(p) PROVE Reports'
<1> DEFINE s == now'
<1>1. /\ pc[p] = "report" /\ pc' = [pc EXCEPT ![p] = "metrics"] /\ second' = [second EXCEPT ![p] = s]
      /\ shared' = IF results[s].config # 0 THEN shared \cup {s} ELSE shared
      /\ results' = [results EXCEPT ![s].config = n[p], ![s].id = Id(p)]
      /\ UNCHANGED <<version, stale, n, env>>
  BY DEF Report, Goto, Clock, call, marks, memory
<1>2. s \in Seconds
  BY BoundsAssumption DEF Report, Clock, Base, ValuesType, Seconds
<1> HIDE DEF s
<1>3. /\ results'[s].config = n[p] /\ results'[s].id = Id(p) /\ results'[s].arrays = results[s].arrays
      /\ results'[s].metrics = results[s].metrics /\ results'[s].timing = results[s].timing
      /\ \A t \in Seconds \ {s} : results'[t] = results[t]
  BY <1>1, <1>2 DEF Base, ValuesType
<1>4. n[p] # 0 /\ OnlyCall(p) /\ pc'[p] = "metrics" /\ second'[p] = s
  BY <1>1, StepLocals, Domains DEF Shapes, Shape, Step
<1>5. \A q \in Procs : Id(q)' = Id(q)
  BY <1>1 DEF Id, Libgemmini
<1>6. s \notin shared' => /\ results[s].config = 0 /\ s \notin shared /\ results[s].arrays = 0
                          /\ results[s].metrics = 0 /\ results[s].timing = {}
  BY <1>1, <1>2 DEF Reports, Unwritten
<1>7. \A q \in Procs \ {p} : pc[q] \in {"metrics", "copy"} => results[second[q]].config # 0 /\ second[q] \in Seconds
  BY DEF Reports, OwnReport, Base, ValuesType
<1>8. shared \subseteq shared'
  BY <1>1
<1>9. Unwritten'
  BY <1>3, <1>4, <1>8 DEF Reports, Unwritten
<1>10. ReportOfOneRun'
  BY <1>3, <1>6, <1>8 DEF Reports, ReportOfOneRun
<1>11. OwnReport(p)'
  <2>1. n'[p] = n[p] /\ Id(p)' = Id(p)
    BY <1>1, <1>5
  <2>2. ASSUME NEW q \in Procs \ {p}, pc'[q] \in {"metrics", "copy"}, s \notin shared' PROVE second'[q] # s
    <3>1. pc[q] \in {"metrics", "copy"} /\ second'[q] = second[q]
      BY <1>4, <2>2 DEF OnlyCall
    <3> QED BY <1>6, <1>7, <2>2, <3>1
  <2>3. s \notin shared' => results'[s].timing = {} /\ results'[s].arrays = 0 /\ results'[s].metrics = 0
    BY <1>3, <1>6
  <2> QED BY <1>3, <1>4, <2>1, <2>2, <2>3 DEF OwnReport
<1>12. ASSUME NEW q \in Procs \ {p}, pc'[q] \in {"metrics", "copy"} PROVE OwnReport(q)'
  <2>1. /\ pc'[q] = pc[q] /\ second'[q] = second[q] /\ n'[q] = n[q] /\ stale'[q] = stale[q]
        /\ second[q] \in Seconds /\ results[second[q]].config # 0 /\ OwnReport(q)
    BY <1>4, <1>7, <1>12 DEF OnlyCall, Reports
  <2>2. CASE second[q] = s
    <3>1. second'[q] = s /\ s \in shared' /\ results'[s].config # 0
      BY <1>1, <1>3, <1>4, <2>1, <2>2
    <3> QED BY <3>1 DEF OwnReport
  <2>3. CASE second[q] # s
    <3>1. results'[second[q]] = results[second[q]]
      BY <1>3, <2>1, <2>3
    <3>2. \A x \in Procs \ {q} : pc'[x] \in {"metrics", "copy"} =>
                                   (x = p \/ (pc[x] \in {"metrics", "copy"} /\ second'[x] = second[x]))
      BY <1>4 DEF OnlyCall
    <3> QED BY <1>4, <1>5, <1>8, <1>12, <2>1, <2>3, <3>1, <3>2 DEF OwnReport
  <2> QED BY <2>2, <2>3
<1> QED BY <1>9, <1>10, <1>11, <1>12 DEF Reports, OwnReport

LEMMA MetricsReports == ASSUME Base, Shapes, Reports, NEW p \in Procs, ReportMetrics(p) PROVE Reports'
<1> DEFINE s == second[p]
<1>1. /\ pc[p] = "metrics" /\ pc' = [pc EXCEPT ![p] = "copy"]
      /\ results' = [results EXCEPT ![s].arrays = n[p], ![s].metrics = n[p]]
      /\ UNCHANGED <<version, stale, n, env, second, shared>>
  BY DEF ReportMetrics, Goto, locals, call, marks, memory, clock, history
<1>2. s \in Seconds /\ n[p] # 0
  BY <1>1 DEF Base, ValuesType, Shapes, Shape
<1>3. OwnReport(p) /\ pc'[p] = "copy" /\ \A q \in Procs \ {p} : pc'[q] = pc[q]
  BY <1>1, Domains DEF Reports
<1> HIDE DEF s
<1>4. /\ results'[s].config = results[s].config /\ results'[s].id = results[s].id /\ results'[s].arrays = n[p]
      /\ results'[s].metrics = n[p] /\ results'[s].timing = results[s].timing
      /\ \A t \in Seconds \ {s} : results'[t] = results[t]
  BY <1>1, <1>2 DEF Base, ValuesType
<1>5. \A q \in Procs : Id(q)' = Id(q)
  BY <1>1 DEF Id, Libgemmini
<1>6. /\ results[s].config # 0
      /\ s \notin shared =>
           /\ results[s].config = n[p] /\ results[s].timing = {}
           /\ ~stale[p] => results[s].id = Id(p)
           /\ \A q \in Procs \ {p} : pc[q] \in {"metrics", "copy"} => second[q] # s
  BY <1>1, <1>3 DEF OwnReport, s
<1>7. Unwritten'
  BY <1>1, <1>4, <1>6 DEF Reports, Unwritten
<1>8. ReportOfOneRun'
  <2>1. s \notin shared =>
          /\ {results'[s].config, results'[s].arrays} = {results'[s].metrics}
          /\ results'[s].timing \subseteq {results'[s].metrics}
    BY <1>4, <1>6
  <2>2. ASSUME NEW t \in Seconds \ shared, t # s, results'[t].metrics # 0
        PROVE  /\ {results'[t].config, results'[t].arrays} = {results'[t].metrics}
               /\ results'[t].timing \subseteq {results'[t].metrics}
    <3>1. results'[t] = results[t]
      BY <1>4, <2>2
    <3> QED BY <2>2, <3>1 DEF Reports, ReportOfOneRun
  <2>3. shared' = shared
    BY <1>1
  <2> QED BY <2>1, <2>2, <2>3 DEF ReportOfOneRun
<1>9. OwnReport(p)'
  <2>1. second'[p] = s /\ n'[p] = n[p] /\ stale'[p] = stale[p] /\ Id(p)' = Id(p)
    BY <1>1, <1>5 DEF s
  <2>2. \A q \in Procs \ {p} : pc'[q] \in {"metrics", "copy"} => pc[q] \in {"metrics", "copy"} /\ second'[q] = second[q]
    BY <1>1, <1>3
  <2> QED BY <1>1, <1>3, <1>4, <1>6, <2>1, <2>2 DEF OwnReport
<1>10. ASSUME NEW q \in Procs \ {p}, pc[q] \in {"metrics", "copy"} PROVE OwnReport(q)'
  <2>1. OwnReport(q) /\ second[q] \in Seconds
    BY DEF Reports, Base, ValuesType
  <2>2. CASE second[q] = s
    <3>1. second'[q] = s /\ s \in shared' /\ results'[s].config # 0
      BY <1>1, <1>4, <1>6, <1>10, <2>2
    <3> QED BY <3>1 DEF OwnReport
  <2>3. CASE second[q] # s
    <3>1. results'[second[q]] = results[second[q]]
      BY <1>4, <2>1, <2>3
    <3>2. \A x \in Procs : pc'[x] \in {"metrics", "copy"} => pc[x] \in {"metrics", "copy"}
      BY <1>1, <1>3
    <3> QED BY <1>1, <1>3, <1>5, <1>10, <2>1, <3>1, <3>2 DEF OwnReport
  <2> QED BY <2>2, <2>3
<1> QED BY <1>3, <1>7, <1>8, <1>9, <1>10 DEF Reports, OwnReport

LEMMA TimingReports ==
  ASSUME Base, Shapes, Summaries, Reports, NEW p \in Procs, CopyTiming(p) PROVE Reports'
<1> DEFINE s == second[p]
           found == {summary[Dirs[low[p]][i]] : i \in DOMAIN Dirs[low[p]]}
<1>1. /\ pc[p] = "copy" /\ results' = [results EXCEPT ![s].timing = found \ {0}]
      /\ shared' = IF crossed[p] THEN shared \cup {s} ELSE shared
      /\ UNCHANGED version
  BY DEF CopyTiming, clock
<1>2. OnlyCall(p) /\ pc'[p] = "idle"
  BY LeaveCall DEF CopyTiming, memory
<1>3. s \in Seconds /\ OwnReport(p)
  BY DEF Base, ValuesType, Reports
<1>4. ~crossed[p] => found \ {0} \subseteq {n[p]}
  <2>1. ASSUME NEW i \in DOMAIN Dirs[low[p]] PROVE i \in Done(p)
    <3>1. Dirs[low[p]] \in Seq(STRING) /\ stage[p] = Len(Dirs[low[p]])
      BY <1>1, DirsAssumption DEF Base, FilesInv, FilesType, Lowerings, Shapes, Shape, Reporting, LastStage
    <3>2. i < stage[p] \/ i = stage[p]
      BY <3>1
    <3> QED BY <1>1, <3>2 DEF Done, Reporting
  <2> QED BY <1>1, <2>1 DEF Summaries, OwnSummaries
<1> HIDE DEF found, s
<1>5. /\ results'[s].config = results[s].config /\ results'[s].arrays = results[s].arrays
      /\ results'[s].metrics = results[s].metrics /\ results'[s].timing = found \ {0}
      /\ \A t \in Seconds \ {s} : results'[t] = results[t]
  BY <1>1, <1>3 DEF Base, ValuesType
<1>6. \A q \in Procs \ {p} : Id(q)' = Id(q)
  BY <1>1, <1>2 DEF OnlyCall, Id, Libgemmini
<1>7. /\ results[s].config # 0
      /\ s \notin shared =>
           /\ results[s].config = n[p] /\ results[s].arrays = n[p] /\ results[s].metrics = n[p]
           /\ \A q \in Procs \ {p} : pc[q] \in {"metrics", "copy"} => second[q] # s
  BY <1>1, <1>3 DEF OwnReport, s
<1>8. shared \subseteq shared' /\ (s \notin shared' => ~crossed[p])
  BY <1>1
<1>9. Unwritten'
  BY <1>5, <1>7, <1>8 DEF Reports, Unwritten
<1>10. ReportOfOneRun'
  <2>1. s \notin shared' => /\ results[s].config = n[p] /\ results[s].arrays = n[p] /\ results[s].metrics = n[p]
                            /\ found \ {0} \subseteq {n[p]}
    BY <1>4, <1>7, <1>8
  <2>2. s \notin shared' /\ results'[s].metrics # 0 =>
          /\ {results'[s].config, results'[s].arrays} = {results'[s].metrics}
          /\ results'[s].timing \subseteq {results'[s].metrics}
    BY <1>5, <2>1
  <2>3. ASSUME NEW t \in Seconds \ shared', t # s, results'[t].metrics # 0
        PROVE  /\ {results'[t].config, results'[t].arrays} = {results'[t].metrics}
               /\ results'[t].timing \subseteq {results'[t].metrics}
    <3>1. results'[t] = results[t] /\ t \in Seconds \ shared
      BY <1>5, <1>8, <2>3
    <3> QED BY <2>3, <3>1 DEF Reports, ReportOfOneRun
  <2> QED BY <2>2, <2>3 DEF ReportOfOneRun
<1>11. ASSUME NEW q \in Procs \ {p}, pc'[q] \in {"metrics", "copy"} PROVE OwnReport(q)'
  <2>1. /\ OwnReport(q) /\ second[q] \in Seconds /\ pc'[q] = pc[q] /\ second'[q] = second[q] /\ n'[q] = n[q]
        /\ stale'[q] = stale[q]
    BY <1>2 DEF Reports, Base, ValuesType, OnlyCall
  <2>2. \A x \in Procs : pc'[x] \in {"metrics", "copy"} => pc[x] = pc'[x] /\ second'[x] = second[x]
    BY <1>2 DEF OnlyCall
  <2>3. CASE second[q] = s
    BY <1>5, <1>7, <1>8, <1>11, <2>1, <2>3 DEF OwnReport
  <2>4. CASE second[q] # s
    <3>1. results'[second[q]] = results[second[q]]
      BY <1>5, <2>1, <2>4
    <3> QED BY <1>6, <1>8, <1>11, <2>1, <2>2, <3>1 DEF OwnReport
  <2> QED BY <2>3, <2>4
<1> QED BY <1>2, <1>9, <1>10, <1>11 DEF Reports, OwnReport

LEMMA ReportsStep == Base /\ Shapes /\ Summaries /\ Reports /\ [Next]_vars => Reports'
<1> SUFFICES ASSUME Base, Shapes, Summaries, Reports, [Next]_vars PROVE Reports'
  OBVIOUS
<1> USE DEF locals, call, clock, history, marks
<1>1. ASSUME NEW p \in Procs, Step(p) PROVE Reports'
  <2>1. CASE Report(p) \/ ReportMetrics(p) \/ CopyTiming(p)
    BY <2>1, ReportReports, MetricsReports, TimingReports
  <2>2. CASE \/ Begin(p) \/ Resolve(p) \/ WriteMain(p) \/ Gcc(p) \/ RunSpike(p) \/ SpikeEnds(p)
             \/ AssertGeometry(p) \/ WriteExpected(p) \/ WriteManifest(p) \/ Fail(p)
    <3>1. UNCHANGED <<results, version, shared>>
      BY <2>2 DEF Begin, Resolve, WriteMain, Gcc, RunSpike, SpikeEnds, AssertGeometry, StageDone, WriteExpected,
                  WriteManifest, Fail
    <3>2. pc'[p] \notin {"metrics", "copy"}
      BY <2>2, Domains DEF Begin, Resolve, WriteMain, Gcc, RunSpike, SpikeEnds, AssertGeometry, StageDone,
                           WriteExpected, WriteManifest, Fail, Leave, Goto
    <3> QED BY <1>1, <3>1, <3>2, StepLocals, ReportsKept
  <2> QED BY <1>1, <2>1, <2>2 DEF Step
<1>2. CASE Rebuild
  <2>1. UNCHANGED <<results, shared, pc, second, n>> /\ \A p \in Procs : pc[p] # "idle" => stale'[p]
    BY <1>2, Domains DEF Rebuild
  <2> QED BY <2>1 DEF Reports, Unwritten, ReportOfOneRun, OwnReport
<1>3. CASE UNCHANGED vars
  BY <1>3 DEF vars, memory, Reports, Unwritten, ReportOfOneRun, OwnReport, Id, Libgemmini
<1> QED BY <1>1, <1>2, <1>3 DEF Next

-----------------------------------------------------------------------------
(***************************************************************************)
(* The deployable directory.                                               *)
(***************************************************************************)
DeployDir == Dirs["deploy"][1]

(* The overlap of two compiles is remembered beyond their end. *)
CrossedSpoils == \A p \in Procs : pc[p] # "idle" /\ low[p] = "deploy" /\ crossed[p] => spoiled

(* A compile that nobody crossed finds what it has written. *)
OwnDeploy(p) ==
  ~crossed[p] => /\ pc[p] \in Deploying => elf[DeployDir] = n[p]
                 /\ pc[p] = "manifest" => expected = n[p]

Deploys == CrossedSpoils /\ Deployed /\ \A p \in Procs : OwnDeploy(p)

LEMMA DeploysInit == Init => Deploys
BY DEF Init, Deploys, CrossedSpoils, Deployed, OwnDeploy, Deploying

LEMMA DeployDirs ==
  Base /\ Shapes => /\ DeployDir \in AllDirs
                    /\ \A p \in Procs : IF low[p] = "deploy" THEN Dir(p) = DeployDir ELSE Dir(p) # DeployDir
<1> SUFFICES ASSUME Base, Shapes
             PROVE  /\ DeployDir \in AllDirs
                    /\ \A p \in Procs : IF low[p] = "deploy" THEN Dir(p) = DeployDir ELSE Dir(p) # DeployDir
  OBVIOUS
<1>1. "deploy" \in DOMAIN Dirs /\ 1 \in DOMAIN Dirs["deploy"]
  BY DirsAssumption
<1>2. DeployDir \in AllDirs
  <2>1. DeployDir \in {Dirs["deploy"][i] : i \in DOMAIN Dirs["deploy"]}
    BY <1>1 DEF DeployDir
  <2> QED BY <1>1, <2>1 DEF AllDirs, Lowerings
<1>3. ASSUME NEW p \in Procs, low[p] = "deploy" PROVE Dir(p) = DeployDir
  BY <1>3 DEF Shapes, Shape, Dir, DeployDir
<1>4. ASSUME NEW p \in Procs, low[p] # "deploy" PROVE Dir(p) # DeployDir
  <2>1. low[p] \in DOMAIN Dirs /\ stage[p] \in DOMAIN Dirs[low[p]]
    BY DEF Base, FilesInv, FilesType, Lowerings
  <2> QED BY <1>1, <1>4, <2>1, ApartAssumption DEF Dir, DeployDir
<1> QED BY <1>2, <1>3, <1>4

(* A step that leaves the deployable directory alone, and compiles it neither before nor after. *)
LEMMA DeploysKept ==
  ASSUME Base, Shapes, Deploys, NEW p \in Procs, OnlyCall(p), pc[p] \notin Deploying, pc'[p] \notin Deploying,
         spoiled => spoiled', UNCHANGED deploy, elf'[DeployDir] = elf[DeployDir],
         pc'[p] # "idle" /\ low'[p] = "deploy" /\ crossed'[p] => spoiled',
         \A q \in Procs \ {p} : pc[q] # "idle" /\ low[q] = "deploy" /\ crossed'[q] => crossed[q] \/ spoiled'
  PROVE  Deploys'
<1>1. CrossedSpoils'
  BY DEF Deploys, CrossedSpoils, OnlyCall
<1>2. ASSUME NEW q \in Procs PROVE OwnDeploy(q)'
  <2>1. CASE q = p
    BY <2>1 DEF OwnDeploy, Deploying
  <2>2. CASE q # p
    <3>1. /\ pc'[q] = pc[q] /\ n'[q] = n[q] /\ (crossed[q] => crossed'[q]) /\ DeployDir' = DeployDir
          /\ expected' = expected
      BY <2>2 DEF OnlyCall, deploy, DeployDir
    <3> QED BY <3>1 DEF Deploys, OwnDeploy
  <2> QED BY <2>1, <2>2
<1>3. Deployed'
  <2>1. (\A q \in Procs : pc'[q] \notin Deploying) => \A q \in Procs : pc[q] \notin Deploying
    BY DEF OnlyCall
  <2> QED BY <2>1 DEF Deploys, Deployed, deploy, DeployDir
<1> QED BY <1>1, <1>2, <1>3 DEF Deploys

(* A step of the compile itself: while it is between its link and its manifest nothing is said of *)
(* the directory, and another compile that is there knows.                                        *)
LEMMA DeploysBusy ==
  ASSUME Base, Shapes, Deploys, NEW p \in Procs, OnlyCall(p), pc[p] # "idle", low[p] = "deploy",
         low'[p] = "deploy", UNCHANGED <<spoiled, crossed>>, pc'[p] \in Deploying, OwnDeploy(p)'
  PROVE  Deploys'
<1> "idle" \notin Deploying
  BY DEF Deploying
<1>1. CrossedSpoils'
  BY DEF Deploys, CrossedSpoils, OnlyCall
<1>2. ASSUME NEW q \in Procs \ {p} PROVE OwnDeploy(q)'
  <2>1. pc'[q] \in Deploying => crossed'[q]
    BY DEF OnlyCall, Base, FilesInv, Alone, Shapes, Shape
  <2> QED BY <2>1 DEF OwnDeploy, Deploying
<1>3. Deployed'
  BY DEF Deployed
<1> QED BY <1>1, <1>2, <1>3 DEF Deploys

(* A compile that breaks off, or anybody who leaves the directory spoiled. *)
LEMMA DeploysSpoiled ==
  ASSUME Base, Shapes, Deploys, NEW p \in Procs, pc[p] # "idle", low[p] = "deploy", OnlyCall(p),
         pc'[p] = "idle", spoiled', UNCHANGED crossed \/ \A q \in Procs \ {p} : crossed'[q] = crossed[q]
  PROVE  Deploys'
<1> "idle" \notin Deploying
  BY DEF Deploying
<1>1. CrossedSpoils'
  BY DEF CrossedSpoils
<1>2. ASSUME NEW q \in Procs PROVE OwnDeploy(q)'
  <2>1. pc'[q] \in Deploying => crossed'[q]
    BY DEF OnlyCall, Base, FilesInv, Alone, Shapes, Shape
  <2> QED BY <2>1 DEF OwnDeploy, Deploying
<1>3. Deployed'
  BY DEF Deployed
<1> QED BY <1>1, <1>2, <1>3 DEF Deploys

LEMMA BeginDeploys == ASSUME Base, Shapes, Deploys, NEW p \in Procs, Begin(p) PROVE Deploys'
<1>1. PICK l \in Lowerings :
        /\ low' = [low EXCEPT ![p] = l]
        /\ crossed' = [q \in Procs |-> IF q = p THEN Guests(p, l) # {} ELSE crossed[q] \/ q \in Guests(p, l)]
        /\ spoiled' = (spoiled \/ (l = "deploy" /\ Guests(p, l) # {}))
  BY DEF Begin
<1>2. OnlyCall(p) /\ pc[p] = "idle" /\ pc'[p] \in {"main", "resolve"} /\ low'[p] = l
      /\ UNCHANGED <<deploy, elf>>
  BY <1>1, StepLocals, Domains DEF Begin, Step, files
<1>3. \A q \in Procs \ {p} : q \in Guests(p, l) => low[q] = l
  BY DEF Guests
<1> QED BY <1>1, <1>2, <1>3, DeploysKept DEF Deploying

(* An undisturbed compile makes up for whatever was there before. *)
LEMMA ManifestDeploys == ASSUME Base, Shapes, Deploys, NEW p \in Procs, WriteManifest(p) PROVE Deploys'
<1> "idle" \notin Deploying /\ "manifest" \in Deploying
  BY DEF Deploying
<1>1. /\ pc[p] = "manifest" /\ manifest' = [elf |-> elf[Dir(p)], expected |-> n[p]]
      /\ spoiled' = (spoiled /\ crossed[p]) /\ UNCHANGED <<elf, expected>>
  BY DEF WriteManifest, files
<1>2. OnlyCall(p) /\ pc'[p] = "idle"
  BY LeaveCall DEF WriteManifest, memory
<1>3. low[p] = "deploy" /\ Dir(p) = DeployDir
  BY <1>1, DeployDirs DEF Shapes, Shape
<1>4. \A q \in Procs \ {p} : crossed'[q] = crossed[q]
  BY Domains DEF WriteManifest, Leave
<1>5. CASE crossed[p]
  <2>1. spoiled'
    BY <1>1, <1>3, <1>5 DEF Deploys, CrossedSpoils
  <2> QED BY <1>1, <1>2, <1>3, <1>4, <2>1, DeploysSpoiled
<1>6. CASE ~crossed[p]
  <2>1. \A q \in Procs \ {p} : pc[q] # "idle" => low[q] # "deploy"
    BY <1>1, <1>3, <1>6 DEF Base, FilesInv, Alone
  <2>2. \A q \in Procs : pc'[q] # "idle" => low'[q] # "deploy" /\ pc'[q] \notin Deploying
    BY <1>2, <2>1 DEF OnlyCall, Shapes, Shape
  <2>3. elf[DeployDir] = n[p] /\ expected = n[p]
    BY <1>1, <1>6 DEF Deploys, OwnDeploy
  <2>4. Deployed'
    BY <1>1, <1>3, <2>3 DEF Deployed, DeployDir
  <2> QED BY <2>2, <2>4 DEF Deploys, CrossedSpoils, OwnDeploy, Deploying
<1> QED BY <1>5, <1>6

LEMMA GccDeploys == ASSUME Base, Shapes, Deploys, NEW p \in Procs, Gcc(p) PROVE Deploys'
<1> "idle" \notin Deploying /\ "spike" \notin Deploying /\ "gcc" \notin Deploying
  BY DEF Deploying
<1>1. /\ OnlyCall(p) /\ pc[p] = "gcc" /\ elf' = [elf EXCEPT ![Dir(p)] = mainc[Dir(p)]]
      /\ UNCHANGED <<deploy, expected, manifest, spoiled>>
  BY StepLocals DEF Gcc, Step, deploy
<1>2. \A q \in Procs \ {p} : crossed'[q] = crossed[q]
  BY Domains DEF Gcc, Leave, marks
<1>3. CASE low[p] = "deploy"
  <2>1. ~buildOnly[p] /\ Dir(p) = DeployDir /\ DeployDir \in AllDirs
    BY <1>3, DeployDirs DEF Shapes, Shape
  <2>2. pc'[p] = "expected" /\ UNCHANGED <<low, n, crossed>>
    BY <1>3, <2>1, Domains DEF Gcc, locals, call, marks
  <2>3. ~crossed[p] => mainc[DeployDir] = n[p]
    BY <1>1, <2>1 DEF Base, FilesInv, OwnFiles
  <2>4. elf'[DeployDir] = mainc[DeployDir]
    BY <1>1, <2>1 DEF Base, FilesInv, FilesType
  <2>5. OwnDeploy(p)'
    BY <2>2, <2>3, <2>4 DEF OwnDeploy, DeployDir
  <2> QED BY <1>1, <1>3, <2>2, <2>5, DeploysBusy DEF Deploying
<1>4. CASE low[p] # "deploy"
  <2>1. elf'[DeployDir] = elf[DeployDir]
    BY <1>1, <1>4, DeployDirs DEF Base, FilesInv, FilesType
  <2>2. pc'[p] \in {"idle", "spike"} /\ (pc'[p] # "idle" => low'[p] = low[p])
    BY <1>4, Domains DEF Gcc, Leave, locals, call
  <2> QED BY <1>1, <1>2, <1>4, <2>1, <2>2, DeploysKept
<1> QED BY <1>3, <1>4

LEMMA FailDeploys == ASSUME Base, Shapes, Deploys, NEW p \in Procs, Fail(p) PROVE Deploys'
<1> "idle" \notin Deploying /\ "gcc" \notin Deploying
  BY DEF Deploying
<1>1. /\ OnlyCall(p) /\ pc[p] # "idle" /\ pc'[p] = "idle" /\ UNCHANGED <<deploy, expected, manifest>>
      /\ \A q \in Procs \ {p} : crossed'[q] = crossed[q]
  BY LeaveCall, Domains DEF Fail, Leave, memory, deploy
<1>2. spoiled' = (spoiled \/ pc[p] \in Deploying \/ (pc[p] = "gcc" /\ low[p] = "deploy"))
  BY DEF Fail
<1>3. CASE pc[p] \in Deploying \/ (pc[p] = "gcc" /\ low[p] = "deploy")
  <2>1. low[p] = "deploy"
    BY <1>3 DEF Shapes, Shape
  <2> QED BY <1>1, <1>2, <1>3, <2>1, DeploysSpoiled
<1>4. CASE pc[p] \notin Deploying /\ ~(pc[p] = "gcc" /\ low[p] = "deploy")
  <2>1. elf'[DeployDir] = elf[DeployDir]
    BY <1>4, DeployDirs DEF Fail, Base, FilesInv, FilesType
  <2> QED BY <1>1, <1>2, <1>4, <2>1, DeploysKept
<1> QED BY <1>3, <1>4

LEMMA DeploysStep == Base /\ Shapes /\ Deploys /\ [Next]_vars => Deploys'
<1> SUFFICES ASSUME Base, Shapes, Deploys, [Next]_vars PROVE Deploys'
  OBVIOUS
<1> USE DEF locals, call, history, marks, files
<1>1. ASSUME NEW p \in Procs, WriteExpected(p) PROVE Deploys'
  <2>1. /\ OnlyCall(p) /\ pc[p] = "expected" /\ pc'[p] = "manifest" /\ expected' = n[p]
        /\ UNCHANGED <<elf, low, n, spoiled, crossed>>
    BY <1>1, StepLocals, Domains DEF WriteExpected, Goto, Step
  <2>2. low[p] = "deploy"
    BY <2>1 DEF Shapes, Shape, Deploying
  <2>3. OwnDeploy(p)'
    BY <2>1 DEF Deploys, OwnDeploy, Deploying, DeployDir
  <2> QED BY <2>1, <2>2, <2>3, DeploysBusy DEF Deploying
<1>2. ASSUME NEW p \in Procs,
             Resolve(p) \/ WriteMain(p) \/ RunSpike(p) \/ SpikeEnds(p) \/ AssertGeometry(p) \/ Report(p) \/ ReportMetrics(p)
      PROVE  Deploys'
  <2>1. /\ pc[p] \notin Deploying \cup {"idle"} /\ pc'[p] \notin Deploying
        /\ UNCHANGED <<low, crossed, spoiled, deploy, elf>>
    BY <1>2, Domains DEF Resolve, WriteMain, RunSpike, SpikeEnds, AssertGeometry, StageDone, Report, ReportMetrics,
                         Goto, Deploying, deploy
  <2> QED BY <1>2, <2>1, StepLocals, DeploysKept DEF Deploys, CrossedSpoils, Step
<1>3. ASSUME NEW p \in Procs, CopyTiming(p) PROVE Deploys'
  <2>1. /\ OnlyCall(p) /\ pc[p] = "copy" /\ pc'[p] = "idle" /\ UNCHANGED <<deploy, elf, spoiled>>
        /\ \A q \in Procs \ {p} : crossed'[q] = crossed[q]
    BY <1>3, LeaveCall, Domains DEF CopyTiming, Leave, memory
  <2> QED BY <2>1, DeploysKept DEF Deploying
<1>4. CASE Rebuild \/ UNCHANGED vars
  BY <1>4 DEF Rebuild, vars, deploy, Deploys, CrossedSpoils, Deployed, OwnDeploy, DeployDir
<1> QED BY <1>1, <1>2, <1>3, <1>4, BeginDeploys, ManifestDeploys, GccDeploys, FailDeploys DEF Next, Step

-----------------------------------------------------------------------------
(* The inductive invariant of the grade: the values, the course of each call, its library, *)
(* its summaries, its results directory and the deployable one.                            *)
GradeInv == Base /\ Shapes /\ Libraries /\ Summaries /\ Reports /\ Deploys

LEMMA GradeAlways == Spec => []GradeInv
<1>1. Init => GradeInv
  BY MachineInit, FilesInit, ValuesInit, ShapesInit, LibrariesInit, SummariesInit, ReportsInit, DeploysInit
     DEF GradeInv, Base
<1>2. GradeInv /\ [Next]_vars => GradeInv'
  BY MachineStep, FilesStep, ValuesStep, ShapesStep, LibrariesStep, SummariesStep, ReportsStep, DeploysStep
     DEF GradeInv, Base
<1> QED BY <1>1, <1>2, PTL DEF Spec

(* The library that the report hashes when it is written is the one every stage ran on, in *)
(* whatever order other calls set and clear their overrides, unless one was rebuilt.       *)
THEOREM LibraryRecordedHolds == Spec => []LibraryRecorded
<1>1. GradeInv => LibraryRecorded
  <2> SUFFICES ASSUME GradeInv, NEW p \in Procs, pc[p] \in {"metrics", "copy"}, ~stale[p],
                      second[p] \notin shared, NEW x \in ran[p]
               PROVE  x.spike.id = results[second[p]].id
    BY DEF LibraryRecorded, Reporting
  <2>1. x.spike.id = Id(p)
    BY DEF GradeInv, Libraries, SameLibrary
  <2>2. results[second[p]].id = Id(p)
    BY DEF GradeInv, Reports, OwnReport
  <2> QED BY <2>1, <2>2
<1> QED BY <1>1, GradeAlways, PTL

(* All files of a results directory that has a metrics.json are of one run, however many *)
(* processes report and wherever a call fails, unless two runs meet in one second.       *)
THEOREM ReportOfOneRunHolds == Spec => []ReportOfOneRun
<1>1. GradeInv => ReportOfOneRun
  BY DEF GradeInv, Reports
<1> QED BY <1>1, GradeAlways, PTL

(* The ELF, the expected bits and the manifest of a deployable directory are of one compile, *)
(* unless two compiles overlapped in it or one broke off after its link began.               *)
THEOREM DeployedHolds == Spec => []Deployed
<1>1. GradeInv => Deployed
  BY DEF GradeInv, Deploys
<1> QED BY <1>1, GradeAlways, PTL
===============================================================================
