------------------------------ MODULE Workload ------------------------------
(***************************************************************************)
(* evaluate() of models/mxquant/workload.py and its workers: perplexities  *)
(* cached under results/accuracy, measured by several processes at once.   *)
(*                                                                         *)
(* A call takes two measurements, of the recipe and of the bf16 model.     *)
(* Each is read from its cache file, or measured by one worker per device  *)
(* on a slice of the samples; the parts are merged and published by        *)
(* writing a temporary file and renaming it.  The temporary file of a key  *)
(* has one name for everybody, and so has the copy of a recipe that the    *)
(* workers read.                                                           *)
(***************************************************************************)
EXTENDS Integers, FiniteSets

CONSTANTS Procs,        \* processes that call evaluate() or bf16()
          Recipes,      \* hardware and run recipe in one
          NSamples,     \* the sample counts asked for; 0 means the whole split
          Split,        \* the samples the test split has
          DeviceCounts, \* how many devices a call may be given
          MaxCalls      \* bound: calls in all

ASSUME SamplesAssumption == NSamples \subseteq Nat /\ NSamples # {} /\ Split \in Nat \ {0}
ASSUME DevicesAssumption == DeviceCounts \subseteq Nat \ {0} /\ DeviceCounts # {}
ASSUME BoundsAssumption  == MaxCalls \in Nat
ASSUME RecipesAssumption == "bf16" \notin Recipes

Keys    == (Recipes \cup {"bf16"}) \X NSamples  \* what _settings() tells apart
Args    == [recipe : Recipes \cup {"bf16"}, n : NSamples, devices : DeviceCounts, force : BOOLEAN]
Devices == UNION {1..d : d \in DeviceCounts}
Workers == {"none", "load", "run", "done", "failed"}
Phases  == {"recipe", "bf16"}

VARIABLES cache, tmp,  \* per key: <key>.json and <key>.json.tmp
          content,     \* per recipe: the copy of it that the workers read
          parts,       \* the part files there are
          calls,       \* how many calls there have been
          pc, arg, phase,  \* where each process is, in which call
          worker,      \* per process and device: the worker
          got,         \* the record a process has merged
          open,        \* which name the temporary file it has open goes by now
          result,      \* per phase: the record it has
          excuse,      \* history: a reason for the call to fail
          raced,       \* history: keys that two calls have published at once
          torn         \* history: recipes whose copy was left half written

files   == <<cache, tmp, content, parts>>
call    == <<pc, arg, phase>>
locals  == <<worker, got, open, result>>
history == <<excuse, raced, torn>>
vars    == <<files, calls, call, locals, history>>

AnyKey == CHOOSE k \in Keys : TRUE
Blank(state) == [state |-> state, of |-> AnyKey, samples |-> <<>>]
NoFile == Blank("none")
AnyArg == [recipe |-> "bf16", n |-> CHOOSE n \in NSamples : TRUE,
           devices |-> CHOOSE d \in DeviceCounts : TRUE, force |-> FALSE]
NoWorkers == [i \in Devices |-> "none"]

\* The points of a measurement: those inside its try block, and the others.
Guarded == {"spawn", "wait", "merge"}
Points  == {"idle", "look", "test", "opencopy", "writecopy", "tmp", "fill", "replace", "unlink",
            "return", "failed"} \cup Guarded

Init ==
  /\ cache = [k \in Keys |-> NoFile] /\ tmp = [k \in Keys |-> NoFile]
  /\ content = [r \in Recipes |-> "none"]
  /\ parts = {}
  /\ calls = 0
  /\ pc = [p \in Procs |-> "idle"]
  /\ arg = [p \in Procs |-> AnyArg]
  /\ phase = [p \in Procs |-> "recipe"]
  /\ worker = [p \in Procs |-> NoWorkers]
  /\ got = [p \in Procs |-> NoFile]
  /\ open = [p \in Procs |-> "none"]
  /\ result = [p \in Procs |-> [f \in Phases |-> NoFile]]
  /\ excuse = [p \in Procs |-> FALSE]
  /\ raced = {} /\ torn = {}

Goto(p, to) == pc' = [pc EXCEPT ![p] = to]
At(p, from) == pc[p] = from
Excuse(ps)  == excuse' = [q \in Procs |-> excuse[q] \/ q \in ps]

-----------------------------------------------------------------------------
(***************************************************************************)
(* Keys and slices.                                                        *)
(***************************************************************************)
Subject(p) == IF phase[p] = "recipe" THEN arg[p].recipe ELSE "bf16"

\* Mutant of Key: the sample count is not among the settings.
SubjectKey(p) == <<Subject(p), CHOOSE n \in NSamples : TRUE>>

Key(p) == <<Subject(p), arg[p].n>>

\* nsamples = 0 is the whole split.
Total(n) == IF n = 0 THEN Split ELSE n

\* round(a / b): a half goes to the even side.
Round(a, b) ==
  LET q == (2 * a + b) \div (2 * b)
  IN  IF (2 * a + b) % (2 * b) = 0 /\ q % 2 = 1 THEN q - 1 ELSE q

\* Mutant of Bound: slices of equal length, and the remainder is nobody's.
EvenBound(i, total, devices) == i * (total \div devices)

Bound(i, total, devices) == Round(i * total, devices)

\* The samples of device i's worker, the first being sample 0; a device may get none.
Slice(p, i) ==
  LET total == Total(arg[p].n)
  IN  IF i > arg[p].devices THEN {}
      ELSE Bound(i - 1, total, arg[p].devices)..(Bound(i, total, arg[p].devices) - 1)
Busy(p) == {i \in Devices : Slice(p, i) # {}}

\* Mutant of PartName: the name does not carry the process.
SharedPartName(p, i) == [key |-> Key(p), slice |-> Slice(p, i), by |-> "anyone"]

PartName(p, i) == [key |-> Key(p), slice |-> Slice(p, i), by |-> p]

PartsOf(p) == {PartName(p, i) : i \in Busy(p)}

-----------------------------------------------------------------------------
(***************************************************************************)
(* The call and the cache.                                                 *)
(***************************************************************************)
\* evaluate(), or bf16() for the bf16 model alone, once the refusals are past.
Call(p) ==
  /\ At(p, "idle") /\ calls < MaxCalls
  /\ calls' = calls + 1
  /\ \E a \in Args :
       /\ arg' = [arg EXCEPT ![p] = a]
       /\ phase' = [phase EXCEPT ![p] = IF a.recipe = "bf16" THEN "bf16" ELSE "recipe"]
  /\ Goto(p, "look")
  /\ UNCHANGED <<files, locals, history>>

\* A measurement is there: the next one, or the end of the call.
Have(p, file) ==
  /\ result' = [result EXCEPT ![p][phase[p]] = file]
  /\ IF phase[p] = "recipe" THEN Goto(p, "look") /\ phase' = [phase EXCEPT ![p] = "bf16"]
                            ELSE Goto(p, "return") /\ UNCHANGED phase
  /\ UNCHANGED <<arg, got, open>>

\* The cache file is read if it is there, and json.loads raises if it is not whole.
Look(p) ==
  /\ At(p, "look")
  /\ LET file == cache[Key(p)] IN
     IF file.state = "none" \/ arg[p].force
       THEN /\ Goto(p, IF Subject(p) = "bf16" THEN "spawn" ELSE "test")
            /\ UNCHANGED <<arg, phase, got, open, result, excuse>>
       ELSE IF file.state = "whole" THEN Have(p, file) /\ UNCHANGED excuse
       ELSE /\ Goto(p, "failed")
            /\ Excuse(IF Key(p) \in raced THEN {p} ELSE {})
            /\ UNCHANGED <<arg, phase, got, open, result>>
  /\ UNCHANGED <<files, calls, worker, raced, torn>>

\* _content_file: the copy of the recipe is written unless it is there.
TestCopy(p) ==
  /\ At(p, "test")
  /\ Goto(p, IF content[Subject(p)] = "none" THEN "opencopy" ELSE "spawn")
  /\ UNCHANGED <<files, calls, arg, phase, locals, history>>

OpenCopy(p) ==
  /\ At(p, "opencopy") /\ Goto(p, "writecopy")
  /\ content' = [content EXCEPT ![Subject(p)] = "empty"]
  /\ UNCHANGED <<cache, tmp, parts, calls, arg, phase, locals, history>>

WriteCopy(p) ==
  /\ At(p, "writecopy") /\ Goto(p, "spawn")
  /\ content' = [content EXCEPT ![Subject(p)] = "whole"]
  /\ torn' = torn \ {Subject(p)}
  /\ UNCHANGED <<cache, tmp, parts, calls, arg, phase, locals, excuse, raced>>

-----------------------------------------------------------------------------
(***************************************************************************)
(* The workers.                                                            *)
(***************************************************************************)
Spawn(p) ==
  /\ At(p, "spawn") /\ Goto(p, "wait")
  /\ worker' = [worker EXCEPT ![p] = [i \in Devices |-> IF i \in Busy(p) THEN "load" ELSE "none"]]
  /\ UNCHANGED <<files, calls, arg, phase, got, open, result, history>>

Becomes(p, i, from, to) == worker[p][i] = from /\ worker' = [worker EXCEPT ![p][i] = to]

\* Somebody else is writing the copy of the recipe, or died or was interrupted doing it.
CopyExcuse(p) == Subject(p) \in torn \/ \E q \in Procs \ {p} : At(q, "writecopy") /\ Subject(q) = Subject(p)

\* A worker reads the copy of the recipe; a half-written one is an error.
Load(p, i) ==
  /\ \/ Subject(p) = "bf16" /\ Becomes(p, i, "load", "run") /\ UNCHANGED excuse
     \/ /\ Subject(p) # "bf16"
        /\ IF content[Subject(p)] = "whole"
             THEN Becomes(p, i, "load", "run") /\ UNCHANGED excuse
             ELSE Becomes(p, i, "load", "failed") /\ Excuse(IF CopyExcuse(p) THEN {p} ELSE {})
  /\ UNCHANGED <<files, calls, call, got, open, result, raced, torn>>

\* It refuses a slice beyond the split, and otherwise measures and writes its part.
Measure(p, i) ==
  /\ IF \E s \in Slice(p, i) : s >= Split
       THEN Becomes(p, i, "run", "failed") /\ UNCHANGED parts
       ELSE Becomes(p, i, "run", "done") /\ parts' = parts \cup {PartName(p, i)}
  /\ UNCHANGED <<cache, tmp, content, calls, call, got, open, result, history>>

\* Out of memory, a lost GPU, a full disk.
Break(p, i) ==
  /\ Becomes(p, i, "run", "failed")
  /\ Excuse({p})
  /\ UNCHANGED <<files, calls, call, got, open, result, raced, torn>>

\* The handler of the try block kills the workers that live and unlinks the parts.
CleanUp(p) ==
  /\ worker' = [worker EXCEPT ![p] = NoWorkers]
  /\ parts' = parts \ PartsOf(p)

\* Mutant of Wait: the first worker that is done with an error ends the wait, and is not an error
\* for the handler.
WaitForOne(p) ==
  /\ At(p, "wait")
  /\ \E i \in Busy(p) : worker[p][i] \in {"done", "failed"}
  /\ Goto(p, IF \E i \in Busy(p) : worker[p][i] = "failed" THEN "failed" ELSE "merge")
  /\ UNCHANGED <<files, calls, arg, phase, locals, history>>

\* All workers are waited for; one exit code that is not 0 fails the measurement.
Wait(p) ==
  /\ At(p, "wait")
  /\ \A i \in Busy(p) : worker[p][i] \in {"done", "failed"}
  /\ IF \E i \in Busy(p) : worker[p][i] = "failed"
       THEN Goto(p, "failed") /\ CleanUp(p)
       ELSE Goto(p, "merge") /\ UNCHANGED <<worker, parts>>
  /\ UNCHANGED <<cache, tmp, content, calls, arg, phase, got, open, result, history>>

\* The parts are read, and their samples put together; a sample that is in two of them counts twice.
\* (sorted() then gives them the order of a single process.)
Merged(p) ==
  [s \in UNION {PartName(p, i).slice : i \in Busy(p)} |->
     Cardinality({i \in Busy(p) : s \in PartName(p, i).slice})]

Merge(p) ==
  /\ At(p, "merge")
  /\ IF PartsOf(p) \subseteq parts
       THEN /\ Goto(p, "tmp")
            /\ got' = [got EXCEPT ![p] =
                 [state |-> "whole", of |-> Key(p), samples |-> Merged(p)]]
            /\ worker' = [worker EXCEPT ![p] = NoWorkers]
            /\ UNCHANGED parts
       ELSE Goto(p, "failed") /\ CleanUp(p) /\ UNCHANGED got
  /\ UNCHANGED <<cache, tmp, content, calls, arg, phase, open, result, history>>

-----------------------------------------------------------------------------
(***************************************************************************)
(* Publishing.                                                             *)
(***************************************************************************)
\* The other calls that have a temporary file of the same key.
Rivals(p) == {q \in Procs \ {p} : pc[q] \in {"fill", "replace"} /\ Key(q) = Key(p)}

\* The temporary file is created, or the one that is there cut to nothing.
OpenTmp(p) ==
  /\ At(p, "tmp") /\ Goto(p, "fill")
  /\ tmp' = [tmp EXCEPT ![Key(p)] = Blank("empty")]
  /\ open' = [open EXCEPT ![p] = "tmp"]
  /\ Excuse(IF Rivals(p) # {} THEN {p} \cup Rivals(p) ELSE {})
  /\ raced' = IF Rivals(p) # {} THEN raced \cup {Key(p)} ELSE raced
  /\ UNCHANGED <<cache, content, parts, calls, arg, phase, worker, got, result, torn>>

\* It is filled, wherever a rename has taken it; what a rival has put there meanwhile may be longer.
Filled(p, old) == {got[p]} \cup (IF old.state = "empty" THEN {} ELSE {Blank("garbled")})

Fill(p) ==
  /\ At(p, "fill") /\ Goto(p, "replace")
  /\ \/ open[p] = "tmp" /\ UNCHANGED cache
        /\ \E f \in Filled(p, tmp[Key(p)]) : tmp' = [tmp EXCEPT ![Key(p)] = f]
     \/ open[p] = "cache" /\ UNCHANGED tmp
        /\ \E f \in Filled(p, cache[Key(p)]) : cache' = [cache EXCEPT ![Key(p)] = f]
     \/ open[p] = "none" /\ UNCHANGED <<cache, tmp>>
  /\ open' = [open EXCEPT ![p] = "none"]
  /\ UNCHANGED <<content, parts, calls, arg, phase, worker, got, result, history>>

\* os.replace raises if a rival has renamed the temporary file already; what a rival has open
\* under its name goes with it.
Replace(p) ==
  /\ At(p, "replace")
  /\ IF tmp[Key(p)].state = "none"
       THEN Goto(p, "failed") /\ UNCHANGED <<cache, tmp, open>>
       ELSE /\ Goto(p, "unlink")
            /\ cache' = [cache EXCEPT ![Key(p)] = tmp[Key(p)]]
            /\ tmp' = [tmp EXCEPT ![Key(p)] = NoFile]
            /\ open' = [q \in Procs |->
                 IF q = p \/ Key(q) # Key(p) THEN open[q]
                 ELSE IF open[q] = "tmp" THEN "cache" ELSE "none"]
  /\ UNCHANGED <<content, parts, calls, arg, phase, worker, got, result, history>>

\* The parts go, and what was measured is the record of this phase.
Unlink(p) ==
  /\ At(p, "unlink")
  /\ parts' = parts \ PartsOf(p)
  /\ result' = [result EXCEPT ![p][phase[p]] = got[p]]
  /\ IF phase[p] = "recipe" THEN Goto(p, "look") /\ phase' = [phase EXCEPT ![p] = "bf16"]
                            ELSE Goto(p, "return") /\ UNCHANGED phase
  /\ got' = [got EXCEPT ![p] = NoFile]
  /\ UNCHANGED <<cache, tmp, content, calls, arg, worker, open, history>>

-----------------------------------------------------------------------------
(***************************************************************************)
(* The end of a call.                                                      *)
(***************************************************************************)
\* The locals of a process are gone.  A part it has left bears its number and is written anew before
\* anybody reads it: the model forgets it too.
Forget(p) ==
  /\ parts' = {n \in parts : n.by # p}
  /\ arg' = [arg EXCEPT ![p] = AnyArg]
  /\ phase' = [phase EXCEPT ![p] = "recipe"]
  /\ worker' = [worker EXCEPT ![p] = NoWorkers]
  /\ got' = [got EXCEPT ![p] = NoFile]
  /\ open' = [open EXCEPT ![p] = "none"]
  /\ result' = [result EXCEPT ![p] = [f \in Phases |-> NoFile]]
  /\ excuse' = [excuse EXCEPT ![p] = FALSE]

Leave(p) ==
  /\ pc[p] \in {"return", "failed"} /\ Goto(p, "idle")
  /\ Forget(p)
  /\ UNCHANGED <<cache, tmp, content, calls, raced, torn>>

\* Ctrl-C: the handler runs if the call is inside the try block.
Interrupt(p) ==
  /\ pc[p] \notin {"idle", "return", "failed"} /\ Goto(p, "failed")
  /\ IF pc[p] \in Guarded THEN CleanUp(p) ELSE UNCHANGED <<worker, parts>>
  /\ open' = [open EXCEPT ![p] = "none"]
  /\ Excuse({p})
  /\ torn' = IF At(p, "writecopy") THEN torn \cup {Subject(p)} ELSE torn
  /\ UNCHANGED <<cache, tmp, content, calls, arg, phase, got, result, raced>>

\* kill -9: no handler runs, and the workers go on, for nobody.
Kill(p) ==
  /\ pc[p] \notin {"idle", "return", "failed"} /\ Goto(p, "idle")
  /\ torn' = IF At(p, "writecopy") THEN torn \cup {Subject(p)} ELSE torn
  /\ Forget(p)
  /\ UNCHANGED <<cache, tmp, content, calls, raced>>

Next ==
  \E p \in Procs :
    \/ Call(p) \/ Look(p) \/ TestCopy(p) \/ OpenCopy(p) \/ WriteCopy(p) \/ Spawn(p)
    \/ \E i \in Devices : Load(p, i) \/ Measure(p, i) \/ Break(p, i)
    \/ Wait(p) \/ Merge(p) \/ OpenTmp(p) \/ Fill(p) \/ Replace(p) \/ Unlink(p)
    \/ Leave(p) \/ Interrupt(p) \/ Kill(p)

Spec == Init /\ [][Next]_vars

-----------------------------------------------------------------------------
(***************************************************************************)
(* What should hold.                                                       *)
(***************************************************************************)
\* A record of the key k: every sample counts once.
Right(file, k) ==
  file = [state |-> "whole", of |-> k, samples |-> [s \in 0..(Total(k[2]) - 1) |-> 1]]

\* Whoever publishes, and whenever, a cache file that can be read is a right record of its key.
CacheRight == \A k \in Keys : cache[k].state = "whole" => Right(cache[k], k)

\* The two perplexities a call compares are of its recipe and of the bf16 model, over the same samples.
ResultRight ==
  \A p \in Procs : At(p, "return") =>
    /\ Right(result[p]["bf16"], <<"bf16", arg[p].n>>)
    /\ arg[p].recipe # "bf16" => Right(result[p]["recipe"], <<arg[p].recipe, arg[p].n>>)

\* A call fails only if it was interrupted or asked for more samples than there are, a worker broke,
\* the copy of its recipe was being written, or somebody published the same key at the same time.
FailsForReason ==
  \A p \in Procs : At(p, "failed") => excuse[p] \/ Total(arg[p].n) > Split

\* workload.py: "a reader never sees a half-written cache file".
ReaderSeesWhole == \A k \in Keys : cache[k].state \in {"none", "whole"}
=============================================================================
