----------------------------- MODULE SpikeBuild -----------------------------
(***************************************************************************)
(* build() and resolve() of models/spike/build_spike.py: the cache of      *)
(* spike models, out/builds/<build_id>/, used by several processes while   *)
(* the libgemmini sources it is built from are updated.                    *)
(*                                                                         *)
(* A build directory holds a copy of the sources, the library and          *)
(* meta.json.  Nothing locks it, and each of its files is written in       *)
(* place.  The sources are two files here: gemmini.cc, which is patched,   *)
(* and one that stands for all the others.                                 *)
(***************************************************************************)
EXTENDS Integers

CONSTANTS Procs,      \* processes that ask for a library
          Recipes, Baseline,  \* hardware recipes, the one the shipped library is built for
          BuildId,    \* recipe -> build_id
          Patch,      \* recipe -> the literals patch() writes into gemmini.cc
          MaxVersion, \* versions of a source file are 1..MaxVersion
          BadShape,   \* the versions of gemmini.cc that patch() does not recognise
          CondaGxx,   \* is there a g++ in the toolchain's own environment?
          StockLib,   \* is there a stock libgemmini.so to compare with?
          MaxCalls, MaxUpdates  \* bounds: calls and updates of a source file in all

Versions == 1..MaxVersion

ASSUME RecipesAssumption == Baseline \in Recipes
\* build_id hashes every field that patch() reads.
ASSUME BuildIdAssumption ==
  \A r, s \in Recipes : BuildId[r] = BuildId[s] => Patch[r] = Patch[s]
ASSUME VersionsAssumption == MaxVersion \in Nat \ {0} /\ BadShape \subseteq Versions \ {1}
ASSUME SwitchesAssumption == CondaGxx \in BOOLEAN /\ StockLib \in BOOLEAN
ASSUME BoundsAssumption   == MaxCalls \in Nat /\ MaxUpdates \in Nat

Files   == {"gemmini.cc", "other"}
Sources == [Files -> Versions]          \* and what sources_fingerprint tells apart
Ids     == {BuildId[r] : r \in Recipes}
Stock   == "stock"                      \* the literals of an unpatched gemmini.cc
ASSUME PatchAssumption == \A r \in Recipes : Patch[r] # Stock

Gxxs    == {"path", "conda", "newer"}   \* "newer": its libstdc++ is newer than spike's
Text    == [version : Versions, patch : {Patch[r] : r \in Recipes} \cup {Stock}]
Program == [cc : Text, other : Versions]
Library == [state : {"none", "linking", "whole"}, by : Procs, program : Program, gxx : Gxxs]
Meta    == [state : {"none", "torn", "whole"}, of : Sources]

VARIABLES up, updates, calls,  \* the upstream sources, and how often what happened
          copy,        \* per build directory: src/gemmini.cc and the other copies
          lib,         \* per build directory: libgemmini.so
          meta,        \* per build directory: sources_sha256 of meta.json
          pc,          \* where each process is in its call
          recipe, gxx, \* the arguments of its call
          want,        \* the fingerprint the call goes by
          got,         \* what it has read: gemmini.cc to patch, then the sources g++ read
          disturbed,   \* history: something happened to its directory during the call
          tainted      \* history: something may have spoiled a build directory

source  == <<up, updates>>
dirs    == <<copy, lib, meta>>
args    == <<recipe, gxx>>
locals  == <<args, want, got>>
history == <<disturbed, tainted>>
vars    == <<source, calls, dirs, pc, locals, history>>

Id(p) == BuildId[recipe[p]]

\* The points at which a call is rewriting its directory, and those from the link on.
Linked    == {"linking", "check", "record"}
Rewriting == {"copy", "copyrest", "patch", "patched", "compile", "link", "recording"} \cup Linked
Points    == {"idle", "readmeta", "return"} \cup Rewriting

AnySources == [f \in Files |-> 1]
AnyProgram == [cc |-> [version |-> 1, patch |-> Stock], other |-> 1]

Init ==
  /\ up = AnySources /\ updates = 0 /\ calls = 0
  /\ copy = [b \in Ids |-> AnyProgram]
  /\ \E p \in Procs :
       lib = [b \in Ids |-> [state |-> "none", by |-> p, program |-> AnyProgram, gxx |-> "path"]]
  /\ meta = [b \in Ids |-> [state |-> "none", of |-> AnySources]]
  /\ pc = [p \in Procs |-> "idle"]
  /\ recipe = [p \in Procs |-> Baseline]
  /\ gxx = [p \in Procs |-> "path"]
  /\ want = [p \in Procs |-> AnySources]
  /\ got = [p \in Procs |-> AnyProgram]
  /\ disturbed = [p \in Procs |-> FALSE]
  /\ tainted = [b \in Ids |-> FALSE]

Goto(p, from, to) == pc[p] = from /\ pc' = [pc EXCEPT ![p] = to] /\ UNCHANGED locals

\* The call is over, with the library or with an exception, and its locals are gone.
Leave(p, from) ==
  /\ pc[p] = from
  /\ pc' = [pc EXCEPT ![p] = "idle"]
  /\ recipe' = [recipe EXCEPT ![p] = Baseline]
  /\ gxx' = [gxx EXCEPT ![p] = "path"]
  /\ want' = [want EXCEPT ![p] = AnySources]
  /\ got' = [got EXCEPT ![p] = AnyProgram]

-----------------------------------------------------------------------------
(***************************************************************************)
(* Interference, as the properties tell it.                                *)
(***************************************************************************)
\* The calls of others in the directory b.
Guests(p, b) == {q \in Procs \ {p} : pc[q] # "idle" /\ Id(q) = b}

\* p begins to rewrite the directory b, perhaps while others are in it.
BeginRewrite(p, b) ==
  /\ disturbed' = [q \in Procs |-> \/ q # p /\ (disturbed[q] \/ q \in Guests(p, b))
                                   \/ q = p /\ Guests(p, b) # {}]
  /\ tainted' = [tainted EXCEPT ![b] = @ \/ Guests(p, b) # {}]

\* p begins to read the directory b, perhaps while another call is rewriting it.
BeginRead(p, b) ==
  /\ disturbed' = [disturbed EXCEPT ![p] = \E q \in Guests(p, b) : pc[q] \in Rewriting]
  /\ UNCHANGED tainted

\* The library is left in a state that meta.json may not describe.
Spoil(p) == tainted' = [tainted EXCEPT ![Id(p)] = TRUE]

-----------------------------------------------------------------------------
(***************************************************************************)
(* The call.                                                               *)
(***************************************************************************)
\* default_gxx: $MX_HOST_GXX, the toolchain's own, or the one on PATH.
DefaultGxx(env) == IF env # "none" THEN env ELSE IF CondaGxx THEN "conda" ELSE "path"

\* patch() of an upstream gemmini.cc.
PatchedText(version, r) == [version |-> version, patch |-> Patch[r]]
Patchable(t) == t.patch = Stock /\ t.version \notin BadShape

\* program(): what spike would run for a recipe, from the upstream sources.
ProgramOf(r) == [cc |-> PatchedText(up["gemmini.cc"], r), other |-> up["other"]]

\* resolve: a recipe whose program is baseline's runs on the shipped library.
StockRecipe(r) == BuildId[r] = BuildId[Baseline] \/ ProgramOf(r) = ProgramOf(Baseline)

\* resolve, or the same test in main and then build(force, gxx), for a recipe that needs a build;
\* program() refuses sources of another shape.  Without --force a library that exists may be a hit.
Call(p) ==
  /\ pc[p] = "idle" /\ calls < MaxCalls
  /\ calls' = calls + 1
  /\ \E r \in Recipes, force \in BOOLEAN, env \in {"none", "newer"} :
       /\ ~StockRecipe(r) /\ up["gemmini.cc"] \notin BadShape
       /\ recipe' = [recipe EXCEPT ![p] = r]
       /\ gxx' = [gxx EXCEPT ![p] = DefaultGxx(env)]
       /\ IF lib[BuildId[r]].state # "none" /\ ~force
            THEN pc' = [pc EXCEPT ![p] = "readmeta"] /\ BeginRead(p, BuildId[r])
            ELSE pc' = [pc EXCEPT ![p] = "copy"] /\ BeginRewrite(p, BuildId[r])
  /\ want' = [want EXCEPT ![p] = up]
  /\ UNCHANGED <<source, dirs, got>>

\* Mutant of ReadMeta: any meta.json that can be read is a hit.
ReadAnyMeta(p) ==
  /\ IF meta[Id(p)].state = "whole"
       THEN Goto(p, "readmeta", "return") /\ UNCHANGED history
       ELSE Goto(p, "readmeta", "copy") /\ BeginRewrite(p, Id(p))
  /\ UNCHANGED <<source, calls, dirs>>

\* A meta.json that is missing, torn or of other sources is a miss.
ReadMeta(p) ==
  /\ IF meta[Id(p)] = [state |-> "whole", of |-> want[p]]
       THEN Goto(p, "readmeta", "return") /\ UNCHANGED history
       ELSE Goto(p, "readmeta", "copy") /\ BeginRewrite(p, Id(p))
  /\ UNCHANGED <<source, calls, dirs>>

\* The sources are copied one after the other, gemmini.cc first.
CopyCc(p) ==
  /\ Goto(p, "copy", "copyrest")
  /\ copy' = [copy EXCEPT ![Id(p)].cc = [version |-> up["gemmini.cc"], patch |-> Stock]]
  /\ UNCHANGED <<source, calls, lib, meta, history>>

CopyRest(p) ==
  /\ Goto(p, "copyrest", "patch")
  /\ copy' = [copy EXCEPT ![Id(p)].other = up["other"]]
  /\ UNCHANGED <<source, calls, lib, meta, history>>

\* patch() reads the copy back and counts its matches; a count that moved is a BuildError.
ReadCopy(p) ==
  /\ IF Patchable(copy[Id(p)].cc)
       THEN /\ pc[p] = "patch" /\ pc' = [pc EXCEPT ![p] = "patched"]
            /\ got' = [got EXCEPT ![p].cc = copy[Id(p)].cc]
            /\ UNCHANGED <<args, want>>
       ELSE Leave(p, "patch")
  /\ UNCHANGED <<source, calls, dirs, history>>

\* Mutant of WritePatched: the literals may be those of the recipe that somebody else is building.
WriteOthers(p) ==
  /\ Goto(p, "patched", "compile")
  /\ \E q \in Procs :
       copy' = [copy EXCEPT ![Id(p)].cc = PatchedText(got[p].cc.version, recipe[q])]
  /\ UNCHANGED <<source, calls, lib, meta, history>>

WritePatched(p) ==
  /\ Goto(p, "patched", "compile")
  /\ copy' = [copy EXCEPT ![Id(p)].cc = PatchedText(got[p].cc.version, recipe[p])]
  /\ UNCHANGED <<source, calls, lib, meta, history>>

\* g++ reads the directory; it may fail before it links.
Compile(p) ==
  /\ \/ /\ pc[p] = "compile" /\ pc' = [pc EXCEPT ![p] = "link"]
        /\ got' = [got EXCEPT ![p] = copy[Id(p)]]
        /\ UNCHANGED <<args, want>>
     \/ Leave(p, "compile")
  /\ UNCHANGED <<source, calls, dirs, history>>

\* The linker unlinks its output and creates it anew; if another linker does the same, the
\* first one goes on with a file that has no name any more.
LinkOpen(p) ==
  /\ Goto(p, "link", "linking")
  /\ lib' = [lib EXCEPT ![Id(p)] =
               [state |-> "linking", by |-> p, program |-> got[p], gxx |-> gxx[p]]]
  /\ UNCHANGED <<source, calls, copy, meta, history>>

LinkClose(p) ==
  /\ Goto(p, "linking", "check")
  /\ lib' = [lib EXCEPT ![Id(p)] = IF @.by = p THEN [@ EXCEPT !.state = "whole"] ELSE @]
  /\ UNCHANGED <<source, calls, copy, meta, history>>

\* Mutant of CheckGlibcxx: the check is dropped.
CheckNothing(p) ==
  /\ Goto(p, "check", "record")
  /\ UNCHANGED <<source, calls, dirs, history>>

\* The library must not need a newer libstdc++ than the stock one; the BuildError comes too
\* late for the library that was there.
CheckGlibcxx(p) ==
  /\ IF StockLib /\ lib[Id(p)].gxx = "newer"
       THEN Leave(p, "check") /\ Spoil(p)
       ELSE Goto(p, "check", "record") /\ UNCHANGED tainted
  /\ UNCHANGED <<source, calls, dirs, disturbed>>

\* meta.json: the fingerprint is taken now, the file truncated, then written.
RecordOpen(p) ==
  /\ pc[p] = "record" /\ pc' = [pc EXCEPT ![p] = "recording"]
  /\ want' = [want EXCEPT ![p] = up]
  /\ meta' = [meta EXCEPT ![Id(p)].state = "torn"]
  /\ UNCHANGED <<source, calls, copy, lib, args, got, history>>

RecordWrite(p) ==
  /\ Goto(p, "recording", "return")
  /\ meta' = [meta EXCEPT ![Id(p)] = [state |-> "whole", of |-> want[p]]]
  /\ tainted' = [tainted EXCEPT ![Id(p)] = @ /\ disturbed[p]]
  /\ UNCHANGED <<source, calls, copy, lib, disturbed>>

\* The caller has run spike on the path it was given.
Finish(p) ==
  /\ Leave(p, "return")
  /\ UNCHANGED <<source, calls, dirs, history>>

\* Ctrl-C, or the 1800 s of g++ are over: the compiler goes with the call.
Crash(p) ==
  /\ \E from \in Rewriting : Leave(p, from)
  /\ IF pc[p] \in Linked THEN Spoil(p) ELSE UNCHANGED tainted
  /\ UNCHANGED <<source, calls, dirs, disturbed>>

\* Somebody updates the sources, or goes back to an earlier version, file by file.
Update ==
  /\ updates < MaxUpdates
  /\ updates' = updates + 1
  /\ \E f \in Files, v \in Versions : v # up[f] /\ up' = [up EXCEPT ![f] = v]
  /\ LET during == {p \in Procs : pc[p] \in Rewriting \ {"recording"}}
     IN  /\ disturbed' = [p \in Procs |-> disturbed[p] \/ p \in during]
         /\ tainted' = [b \in Ids |-> tainted[b] \/ \E p \in during : Id(p) = b]
  /\ UNCHANGED <<calls, dirs, pc, locals>>

BuildStep(p) == \/ CopyCc(p) \/ CopyRest(p) \/ ReadCopy(p) \/ WritePatched(p) \/ Compile(p)
                \/ LinkOpen(p) \/ LinkClose(p) \/ CheckGlibcxx(p) \/ RecordOpen(p) \/ RecordWrite(p)

Next == \/ \E p \in Procs : Call(p) \/ ReadMeta(p) \/ BuildStep(p) \/ Finish(p) \/ Crash(p)
        \/ Update

Spec == Init /\ [][Next]_vars

-----------------------------------------------------------------------------
(***************************************************************************)
(* What should hold.                                                       *)
(***************************************************************************)
\* The variables hold values of their kind.
TypeOK ==
  /\ up \in Sources /\ updates \in 0..MaxUpdates /\ calls \in 0..MaxCalls
  /\ copy \in [Ids -> Program]
  /\ lib \in [Ids -> Library]
  /\ meta \in [Ids -> Meta]
  /\ pc \in [Procs -> Points]
  /\ recipe \in [Procs -> Recipes] /\ gxx \in [Procs -> Gxxs]
  /\ want \in [Procs -> Sources]
  /\ got \in [Procs -> Program]
  /\ disturbed \in [Procs -> BOOLEAN]
  /\ tainted \in [Ids -> BOOLEAN]

\* A whole library of these sources, with this recipe's literals, that spike can load.
Right(l, w, r) ==
  /\ l.state = "whole"
  /\ l.program = [cc |-> PatchedText(w["gemmini.cc"], r), other |-> w["other"]]
  /\ StockLib => l.gxx # "newer"

\* What build() returns, from the cache or not, is the library of the recipe and of the sources the
\* call went by, and stays it for as long as the caller may load it, unless another call or an update
\* came into this one, or an earlier one was disturbed, killed after its link began, or refused its
\* own library; one undisturbed build makes up for that.
HitIsBuild ==
  \A p \in Procs : pc[p] = "return" /\ ~disturbed[p] /\ ~tainted[Id(p)]
                      => Right(lib[Id(p)], want[p], recipe[p])

\* Between calls, a meta.json that can be read describes the library beside it, with the same exceptions.
MetaDescribes ==
  \A r \in Recipes :
    LET b == BuildId[r] IN
    /\ ~tainted[b] /\ meta[b].state = "whole"
    /\ \A p \in Procs : pc[p] \in Rewriting => Id(p) # b
    => Right(lib[b], meta[b].of, r)

\* Whatever happens, nobody runs the literals of another recipe: at worst those of the shipped model.
OwnLiterals ==
  \A p \in Procs : pc[p] = "return" => lib[Id(p)].program.cc.patch \in {Patch[recipe[p]], Stock}

=============================================================================
