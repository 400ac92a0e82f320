--------------------------- MODULE SpikeBuildProofs ---------------------------
(***************************************************************************)
(* For any number of processes, recipes and versions of the sources: the   *)
(* cache is typed, no library carries the literals of a recipe whose build *)
(* directory is another one, and what a call returns or meta.json records  *)
(* is the library of those sources and of that recipe.                     *)
(***************************************************************************)
EXTENDS SpikeBuild, TLAPS

LEMMA TypeInit == Init => TypeOK
BY VersionsAssumption, RecipesAssumption, BoundsAssumption
   DEF Init, TypeOK, Sources, Files, Versions, Ids, Program, Text, AnyProgram, AnySources, Library,
       Meta, Points, Rewriting, Linked, Gxxs

(* What the calls put into their variables is of the right kind. *)
LEMMA Kinds ==
  /\ Baseline \in Recipes /\ "path" \in Gxxs /\ AnySources \in Sources /\ AnyProgram \in Program
  /\ \A r \in Recipes : BuildId[r] \in Ids
  /\ \A env \in {"none", "newer"} : DefaultGxx(env) \in Gxxs
  /\ \A v \in Versions, r \in Recipes : PatchedText(v, r) \in Text
BY VersionsAssumption, RecipesAssumption
   DEF Sources, Files, Versions, Ids, Program, Text, AnyProgram, AnySources, Gxxs, DefaultGxx, PatchedText

(* Leaving a call resets its locals. *)
LEMMA LeaveType ==
  ASSUME TypeOK, NEW p \in Procs, NEW from, Leave(p, from)
  PROVE  /\ pc' \in [Procs -> Points] /\ recipe' \in [Procs -> Recipes] /\ gxx' \in [Procs -> Gxxs]
         /\ want' \in [Procs -> Sources] /\ got' \in [Procs -> Program]
BY Kinds DEF TypeOK, Leave, Points

LEMMA GotoType ==
  ASSUME TypeOK, NEW p \in Procs, NEW from, NEW to \in Points, Goto(p, from, to)
  PROVE  /\ pc' \in [Procs -> Points] /\ recipe' \in [Procs -> Recipes] /\ gxx' \in [Procs -> Gxxs]
         /\ want' \in [Procs -> Sources] /\ got' \in [Procs -> Program]
BY DEF TypeOK, Goto, locals, args

LEMMA HistoryType ==
  ASSUME TypeOK, NEW p \in Procs, NEW b \in Ids
  PROVE  /\ BeginRewrite(p, b) => disturbed' \in [Procs -> BOOLEAN] /\ tainted' \in [Ids -> BOOLEAN]
         /\ BeginRead(p, b) => disturbed' \in [Procs -> BOOLEAN] /\ tainted' \in [Ids -> BOOLEAN]
         /\ Spoil(p) => tainted' \in [Ids -> BOOLEAN]
BY DEF TypeOK, BeginRewrite, BeginRead, Spoil

LEMMA IdType == TypeOK => \A p \in Procs : Id(p) \in Ids
BY DEF TypeOK, Id, Ids

LEMMA TypeStep == TypeOK /\ [Next]_vars => TypeOK'
<1> SUFFICES ASSUME TypeOK, [Next]_vars PROVE TypeOK'
  OBVIOUS
<1> USE DEF source, dirs, args, locals, history
<1>1. ASSUME NEW p \in Procs, Call(p) PROVE TypeOK'
  <2>1. PICK r \in Recipes, force \in BOOLEAN, env \in {"none", "newer"} :
           /\ recipe' = [recipe EXCEPT ![p] = r]
           /\ gxx' = [gxx EXCEPT ![p] = DefaultGxx(env)]
           /\ \/ pc' = [pc EXCEPT ![p] = "readmeta"] /\ BeginRead(p, BuildId[r])
              \/ pc' = [pc EXCEPT ![p] = "copy"] /\ BeginRewrite(p, BuildId[r])
    BY <1>1 DEF Call
  <2>2. disturbed' \in [Procs -> BOOLEAN] /\ tainted' \in [Ids -> BOOLEAN]
    BY <2>1, Kinds, HistoryType
  <2>3. pc' \in [Procs -> Points] /\ recipe' \in [Procs -> Recipes] /\ gxx' \in [Procs -> Gxxs]
    BY <2>1, Kinds DEF TypeOK, Points, Rewriting, Linked
  <2>4. calls' \in 0..MaxCalls /\ want' \in [Procs -> Sources]
    BY <1>1, BoundsAssumption DEF Call, TypeOK
  <2> QED BY <1>1, <2>2, <2>3, <2>4 DEF Call, TypeOK
<1>2. ASSUME NEW p \in Procs, ReadMeta(p) PROVE TypeOK'
  <2>1. CASE Goto(p, "readmeta", "return") /\ UNCHANGED history
    BY <1>2, <2>1, GotoType DEF ReadMeta, TypeOK, Points
  <2>2. CASE Goto(p, "readmeta", "copy") /\ BeginRewrite(p, Id(p))
    BY <1>2, <2>2, GotoType, HistoryType, IdType DEF ReadMeta, TypeOK, Points, Rewriting
  <2> QED BY <1>2, <2>1, <2>2 DEF ReadMeta
<1>3. ASSUME NEW p \in Procs, CopyCc(p) PROVE TypeOK'
  <2>1. [version |-> up["gemmini.cc"], patch |-> Stock] \in Text
    BY DEF TypeOK, Sources, Files, Text
  <2>2. copy' \in [Ids -> Program]
    BY <1>3, <2>1 DEF CopyCc, TypeOK, Program
  <2> QED BY <1>3, <2>2, GotoType DEF CopyCc, TypeOK, Points, Rewriting
<1>4. ASSUME NEW p \in Procs, CopyRest(p) PROVE TypeOK'
  <2>1. up["other"] \in Versions
    BY DEF TypeOK, Sources, Files
  <2>2. copy' \in [Ids -> Program]
    BY <1>4, <2>1 DEF CopyRest, TypeOK, Program
  <2> QED BY <1>4, <2>2, GotoType DEF CopyRest, TypeOK, Points, Rewriting
<1>5. ASSUME NEW p \in Procs, ReadCopy(p) PROVE TypeOK'
  <2>1. CASE Leave(p, "patch")
    BY <1>5, <2>1, LeaveType DEF ReadCopy, TypeOK
  <2>2. CASE Patchable(copy[Id(p)].cc)
    <3>1. copy[Id(p)].cc \in Text
      BY IdType DEF TypeOK, Program
    <3>2. got' \in [Procs -> Program]
      BY <1>5, <2>2, <3>1 DEF ReadCopy, TypeOK, Program
    <3> QED BY <1>5, <2>2, <3>2 DEF ReadCopy, TypeOK, Points, Rewriting
  <2> QED BY <1>5, <2>1, <2>2 DEF ReadCopy
<1>6. ASSUME NEW p \in Procs, WritePatched(p) PROVE TypeOK'
  <2>1. PatchedText(got[p].cc.version, recipe[p]) \in Text
    BY Kinds DEF TypeOK, Program, Text
  <2>2. copy' \in [Ids -> Program]
    BY <1>6, <2>1 DEF WritePatched, TypeOK, Program
  <2> QED BY <1>6, <2>2, GotoType DEF WritePatched, TypeOK, Points, Rewriting
<1>7. ASSUME NEW p \in Procs, Compile(p) PROVE TypeOK'
  <2>1. CASE Leave(p, "compile")
    BY <1>7, <2>1, LeaveType DEF Compile, TypeOK
  <2>2. CASE pc' = [pc EXCEPT ![p] = "link"] /\ got' = [got EXCEPT ![p] = copy[Id(p)]] /\ UNCHANGED <<args, want>>
    BY <1>7, <2>2, IdType DEF Compile, TypeOK, Points, Rewriting
  <2> QED BY <1>7, <2>1, <2>2 DEF Compile
<1>8. ASSUME NEW p \in Procs, LinkOpen(p) PROVE TypeOK'
  <2>1. [state |-> "linking", by |-> p, program |-> got[p], gxx |-> gxx[p]] \in Library
    BY DEF TypeOK, Library
  <2> QED BY <1>8, <2>1, GotoType DEF LinkOpen, TypeOK, Points, Rewriting, Linked
<1>9. ASSUME NEW p \in Procs, LinkClose(p) PROVE TypeOK'
  <2>1. lib' \in [Ids -> Library]
    BY <1>9 DEF LinkClose, TypeOK, Library
  <2> QED BY <1>9, <2>1, GotoType DEF LinkClose, TypeOK, Points, Rewriting, Linked
<1>10. ASSUME NEW p \in Procs, CheckGlibcxx(p) PROVE TypeOK'
  <2>1. CASE Leave(p, "check") /\ Spoil(p)
    BY <1>10, <2>1, LeaveType, HistoryType, IdType DEF CheckGlibcxx, TypeOK
  <2>2. CASE Goto(p, "check", "record") /\ UNCHANGED tainted
    BY <1>10, <2>2, GotoType DEF CheckGlibcxx, TypeOK, Points, Rewriting, Linked
  <2> QED BY <1>10, <2>1, <2>2 DEF CheckGlibcxx
<1>11. ASSUME NEW p \in Procs, RecordOpen(p) PROVE TypeOK'
  <2>1. meta' \in [Ids -> Meta]
    BY <1>11 DEF RecordOpen, TypeOK, Meta
  <2> QED BY <1>11, <2>1 DEF RecordOpen, TypeOK, Points, Rewriting, Linked
<1>12. ASSUME NEW p \in Procs, RecordWrite(p) PROVE TypeOK'
  <2>1. meta' \in [Ids -> Meta] /\ tainted' \in [Ids -> BOOLEAN]
    BY <1>12 DEF RecordWrite, TypeOK, Meta
  <2> QED BY <1>12, <2>1, GotoType DEF RecordWrite, TypeOK, Points
<1>13. ASSUME NEW p \in Procs, Finish(p) PROVE TypeOK'
  BY <1>13, LeaveType DEF Finish, TypeOK
<1>14. ASSUME NEW p \in Procs, Crash(p) PROVE TypeOK'
  <2>1. PICK from \in Rewriting : Leave(p, from)
    BY <1>14 DEF Crash
  <2>2. tainted' \in [Ids -> BOOLEAN]
    BY <1>14, HistoryType, IdType DEF Crash, TypeOK
  <2> QED BY <1>14, <2>1, <2>2, LeaveType DEF Crash, TypeOK
<1>15. ASSUME Update PROVE TypeOK'
  <2>1. up' \in Sources /\ updates' \in 0..MaxUpdates
    BY <1>15, BoundsAssumption DEF Update, TypeOK, Sources
  <2>2. disturbed' \in [Procs -> BOOLEAN] /\ tainted' \in [Ids -> BOOLEAN]
    BY <1>15 DEF Update, TypeOK
  <2> QED BY <1>15, <2>1, <2>2 DEF Update, TypeOK
<1>16. CASE UNCHANGED vars
  BY <1>16 DEF vars, TypeOK
<1> QED BY <1>1, <1>2, <1>3, <1>4, <1>5, <1>6, <1>7, <1>8, <1>9, <1>10, <1>11, <1>12, <1>13, <1>14,
           <1>15, <1>16 DEF Next, BuildStep

(* The cache, the processes and their history are typed at all times. *)
THEOREM TypeCorrect == Spec => []TypeOK
BY TypeInit, TypeStep, PTL DEF Spec

-----------------------------------------------------------------------------
(* The literals a file of the directory b may carry: those a recipe of that *)
(* directory is patched with, or none yet.                                  *)
Owned(t, b) == t.patch = Stock \/ \E r \in Recipes : BuildId[r] = b /\ t.patch = Patch[r]

(* The copies, the libraries and what a compiler holds between its read and *)
(* the link are all of their own directory; no other state carries literals *)
(* from one step to the next.                                               *)
OwnedInv ==
  /\ \A b \in Ids : Owned(copy[b].cc, b)
  /\ \A b \in Ids : Owned(lib[b].program.cc, b)
  /\ \A p \in Procs : pc[p] = "link" => Owned(got[p].cc, Id(p))

LEMMA OwnedInit == Init => OwnedInv
BY DEF Init, OwnedInv, Owned, AnyProgram

(* A step that opens no link, leaves every other call where it is and writes no literals. *)
LEMMA OwnedKept ==
  ASSUME TypeOK, OwnedInv, NEW p \in Procs, NEW to,
         to # "link", pc' = [pc EXCEPT ![p] = to],
         \A q \in Procs \ {p} : got'[q] = got[q] /\ recipe'[q] = recipe[q],
         \A b \in Ids : copy'[b].cc = copy[b].cc,
         \A b \in Ids : lib'[b].program = lib[b].program
  PROVE  OwnedInv'
<1>1. ASSUME NEW q \in Procs, pc'[q] = "link" PROVE Owned(got'[q].cc, BuildId[recipe'[q]])
  <2>1. q # p /\ pc[q] = "link"
    BY <1>1 DEF TypeOK
  <2> QED BY <2>1 DEF OwnedInv, Id
<1>2. ASSUME NEW b \in Ids PROVE Owned(copy'[b].cc, b) /\ Owned(lib'[b].program.cc, b)
  BY DEF OwnedInv
<1> QED BY <1>1, <1>2 DEF OwnedInv, Id, Owned

LEMMA OwnedStep == TypeOK /\ OwnedInv /\ [Next]_vars => OwnedInv'
<1> SUFFICES ASSUME TypeOK, OwnedInv, [Next]_vars PROVE OwnedInv'
  OBVIOUS
<1> USE DEF source, dirs, args, locals, history
<1>1. ASSUME NEW p \in Procs, Call(p) PROVE OwnedInv'
  <2>1. PICK to \in {"readmeta", "copy"} : pc' = [pc EXCEPT ![p] = to]
    BY <1>1 DEF Call
  <2>2. \A q \in Procs \ {p} : got'[q] = got[q] /\ recipe'[q] = recipe[q]
    BY <1>1 DEF Call, TypeOK
  <2>3. UNCHANGED <<copy, lib>>
    BY <1>1 DEF Call
  <2> QED BY <2>1, <2>2, <2>3, OwnedKept
<1>2. ASSUME NEW p \in Procs, ReadMeta(p) PROVE OwnedInv'
  BY <1>2, OwnedKept DEF ReadMeta, Goto
<1>3. ASSUME NEW p \in Procs, CopyCc(p) PROVE OwnedInv'
  <2>1. Id(p) \in Ids /\ UNCHANGED <<recipe, got, lib>>
    BY <1>3, IdType DEF CopyCc, Goto
  <2>2. \A b \in Ids : Owned(copy'[b].cc, b)
    BY <1>3, <2>1 DEF CopyCc, TypeOK, OwnedInv, Owned, Program
  <2>3. \A q \in Procs : pc'[q] = "link" => pc[q] = "link"
    BY <1>3 DEF CopyCc, Goto, TypeOK
  <2> QED BY <2>1, <2>2, <2>3 DEF OwnedInv, Id, Owned
<1>4. ASSUME NEW p \in Procs, CopyRest(p) PROVE OwnedInv'
  <2>1. \A b \in Ids : copy'[b].cc = copy[b].cc
    BY <1>4 DEF CopyRest, TypeOK, Program
  <2> QED BY <1>4, <2>1, OwnedKept DEF CopyRest, Goto
<1>5. ASSUME NEW p \in Procs, ReadCopy(p) PROVE OwnedInv'
  <2>1. PICK to \in {"patched", "idle"} : pc' = [pc EXCEPT ![p] = to]
    BY <1>5 DEF ReadCopy, Leave
  <2>2. \A q \in Procs \ {p} : got'[q] = got[q] /\ recipe'[q] = recipe[q]
    BY <1>5 DEF ReadCopy, Leave, TypeOK
  <2> QED BY <1>5, <2>1, <2>2, OwnedKept DEF ReadCopy
<1>6. ASSUME NEW p \in Procs, WritePatched(p) PROVE OwnedInv'
  <2>1. Id(p) \in Ids /\ UNCHANGED <<recipe, got, lib>>
    BY <1>6, IdType DEF WritePatched, Goto
  <2>2. Owned(PatchedText(got[p].cc.version, recipe[p]), Id(p))
    BY DEF Owned, PatchedText, Id, TypeOK
  <2>3. \A b \in Ids : Owned(copy'[b].cc, b)
    BY <1>6, <2>1, <2>2 DEF WritePatched, TypeOK, OwnedInv, Program
  <2>4. \A q \in Procs : pc'[q] = "link" => pc[q] = "link"
    BY <1>6 DEF WritePatched, Goto, TypeOK
  <2> QED BY <2>1, <2>3, <2>4 DEF OwnedInv, Id, Owned
<1>7. ASSUME NEW p \in Procs, Compile(p) PROVE OwnedInv'
  <2>1. CASE Leave(p, "compile")
    <3>1. \A q \in Procs \ {p} : got'[q] = got[q] /\ recipe'[q] = recipe[q]
      BY <2>1 DEF Leave, TypeOK
    <3> QED BY <1>7, <2>1, <3>1, OwnedKept DEF Compile, Leave
  <2>2. CASE pc' = [pc EXCEPT ![p] = "link"] /\ got' = [got EXCEPT ![p] = copy[Id(p)]] /\ UNCHANGED <<args, want>>
    <3>1. Id(p) \in Ids /\ UNCHANGED <<recipe, copy, lib>>
      BY <1>7, <2>2, IdType DEF Compile
    <3>2. Owned(got'[p].cc, Id(p))
      BY <2>2, <3>1 DEF OwnedInv, TypeOK
    <3>3. \A q \in Procs \ {p} : got'[q] = got[q] /\ pc'[q] = pc[q]
      BY <2>2 DEF TypeOK
    <3> QED BY <3>1, <3>2, <3>3 DEF OwnedInv, Id, Owned
  <2> QED BY <1>7, <2>1, <2>2 DEF Compile
<1>8. ASSUME NEW p \in Procs, LinkOpen(p) PROVE OwnedInv'
  <2>1. Id(p) \in Ids /\ pc[p] = "link" /\ UNCHANGED <<recipe, got, copy>>
    BY <1>8, IdType DEF LinkOpen, Goto
  <2>2. \A b \in Ids : lib'[b].program = IF b = Id(p) THEN got[p] ELSE lib[b].program
    BY <1>8 DEF LinkOpen, TypeOK
  <2>3. \A b \in Ids : Owned(lib'[b].program.cc, b)
    BY <2>1, <2>2 DEF OwnedInv
  <2>4. \A q \in Procs : pc'[q] = "link" => pc[q] = "link"
    BY <1>8 DEF LinkOpen, Goto, TypeOK
  <2> QED BY <2>1, <2>3, <2>4 DEF OwnedInv, Id, Owned
<1>9. ASSUME NEW p \in Procs, LinkClose(p) PROVE OwnedInv'
  <2>1. \A b \in Ids : lib'[b].program = lib[b].program
    BY <1>9 DEF LinkClose, TypeOK, Library
  <2> QED BY <1>9, <2>1, OwnedKept DEF LinkClose, Goto
<1>10. ASSUME NEW p \in Procs, CheckGlibcxx(p) PROVE OwnedInv'
  <2>1. PICK to \in {"record", "idle"} : pc' = [pc EXCEPT ![p] = to]
    BY <1>10 DEF CheckGlibcxx, Leave, Goto
  <2>2. \A q \in Procs \ {p} : got'[q] = got[q] /\ recipe'[q] = recipe[q]
    BY <1>10 DEF CheckGlibcxx, Leave, Goto, TypeOK
  <2> QED BY <1>10, <2>1, <2>2, OwnedKept DEF CheckGlibcxx
<1>11. ASSUME NEW p \in Procs, RecordOpen(p) PROVE OwnedInv'
  BY <1>11, OwnedKept DEF RecordOpen
<1>12. ASSUME NEW p \in Procs, RecordWrite(p) PROVE OwnedInv'
  BY <1>12, OwnedKept DEF RecordWrite, Goto
<1>13. ASSUME NEW p \in Procs, Finish(p) PROVE OwnedInv'
  <2>1. \A q \in Procs \ {p} : got'[q] = got[q] /\ recipe'[q] = recipe[q]
    BY <1>13 DEF Finish, Leave, TypeOK
  <2> QED BY <1>13, <2>1, OwnedKept DEF Finish, Leave
<1>14. ASSUME NEW p \in Procs, Crash(p) PROVE OwnedInv'
  <2>1. PICK from \in Rewriting : Leave(p, from)
    BY <1>14 DEF Crash
  <2>2. \A q \in Procs \ {p} : got'[q] = got[q] /\ recipe'[q] = recipe[q]
    BY <2>1 DEF Leave, TypeOK
  <2> QED BY <1>14, <2>1, <2>2, OwnedKept DEF Crash, Leave
<1>15. ASSUME Update PROVE OwnedInv'
  BY <1>15 DEF Update, OwnedInv, Id, Owned
<1>16. CASE UNCHANGED vars
  BY <1>16 DEF vars, OwnedInv, Id, Owned
<1> QED BY <1>1, <1>2, <1>3, <1>4, <1>5, <1>6, <1>7, <1>8, <1>9, <1>10, <1>11, <1>12, <1>13, <1>14,
           <1>15, <1>16 DEF Next, BuildStep

(* Recipes of one directory have the same literals, so a library that is   *)
(* returned carries the recipe's own, or none.                             *)
LEMMA OwnedIsOwn == TypeOK /\ OwnedInv => OwnLiterals
<1> SUFFICES ASSUME TypeOK, OwnedInv, NEW p \in Procs
             PROVE  lib[Id(p)].program.cc.patch \in {Patch[recipe[p]], Stock}
  BY DEF OwnLiterals
<1>1. Id(p) \in Ids /\ recipe[p] \in Recipes
  BY IdType DEF TypeOK
<1>2. ASSUME NEW r \in Recipes, BuildId[r] = Id(p) PROVE Patch[r] = Patch[recipe[p]]
  BY <1>1, <1>2, BuildIdAssumption DEF Id
<1> QED BY <1>1, <1>2 DEF OwnedInv, Owned

(* Nobody runs the literals of another recipe, however many calls build in *)
(* one directory at once, are killed, or meet an update of the sources.    *)
THEOREM OwnLiteralsHold == Spec => []OwnLiterals
<1>1. Init => TypeOK /\ OwnedInv
  BY TypeInit, OwnedInit
<1>2. TypeOK /\ OwnedInv /\ [Next]_vars => (TypeOK /\ OwnedInv)'
  BY TypeStep, OwnedStep
<1> QED BY <1>1, <1>2, OwnedIsOwn, PTL DEF Spec
-----------------------------------------------------------------------------
(***************************************************************************)
(* What an undisturbed call may rely on.                                   *)
(***************************************************************************)
(* A call whose directory somebody else rewrites knows it. *)
Seen ==
  \A p, q \in Procs :
    p # q /\ pc[p] # "idle" /\ pc[q] \in Rewriting /\ Id(p) = Id(q) => disturbed[p]

(* A directory that is rewritten by a call that was disturbed is in doubt. *)
Doubted == \A p \in Procs : pc[p] \in Rewriting /\ disturbed[p] => tainted[Id(p)]

(* How far a call that nobody disturbed has come with its directory. *)
Holds(p) ==
  LET b == Id(p) IN
  /\ pc[p] \in {"copyrest", "patch", "patched"} =>
       copy[b].cc = [version |-> up["gemmini.cc"], patch |-> Stock]
  /\ pc[p] \in {"patch", "patched", "compile"} => copy[b].other = up["other"]
  /\ pc[p] = "patched" => got[p].cc = copy[b].cc
  /\ pc[p] = "compile" => copy[b].cc = PatchedText(up["gemmini.cc"], recipe[p])
  /\ pc[p] = "link" => got[p] = ProgramOf(recipe[p])
  /\ pc[p] = "linking" => lib[b].by = p
  /\ pc[p] \in {"check", "record"} => lib[b].state = "whole"
  /\ pc[p] \in Linked => lib[b].program = ProgramOf(recipe[p])
  /\ pc[p] = "record" /\ StockLib => lib[b].gxx # "newer"
  /\ pc[p] = "recording" => Right(lib[b], want[p], recipe[p])

Undisturbed == \A p \in Procs : ~disturbed[p] => Holds(p)

(* Where there is no doubt, a meta.json describes the library beside it from the moment it is *)
(* written until the next link, and also while a call copies, patches and compiles.           *)
Described ==
  \A r \in Recipes :
    LET b == BuildId[r] IN
    /\ ~tainted[b] /\ meta[b].state = "whole"
    /\ \A p \in Procs : pc[p] \in Linked => Id(p) # b
    => Right(lib[b], meta[b].of, r)

CacheInv == Seen /\ Doubted /\ Undisturbed /\ Described /\ HitIsBuild

LEMMA CacheInit == Init => CacheInv
BY DEF Init, CacheInv, Seen, Doubted, Undisturbed, Holds, Described, HitIsBuild, Linked, Rewriting, Ids

(* A step of one call leaves the locals of the others, *)
OnlyCall(p) ==
  \A q \in Procs \ {p} :
    pc'[q] = pc[q] /\ recipe'[q] = recipe[q] /\ want'[q] = want[q] /\ got'[q] = got[q]

(* and every directory but its own. *)
OnlyDir(p) ==
  \A b \in Ids : b # Id(p) => copy'[b] = copy[b] /\ lib'[b] = lib[b] /\ meta'[b] = meta[b]

LEMMA LeaveLocals ==
  ASSUME TypeOK, NEW p \in Procs, NEW from, Leave(p, from)
  PROVE  OnlyCall(p) /\ pc[p] = from /\ pc'[p] = "idle"
BY DEF TypeOK, OnlyCall, Leave

LEMMA GotoLocals ==
  ASSUME TypeOK, NEW p \in Procs, NEW from, NEW to, Goto(p, from, to)
  PROVE  OnlyCall(p) /\ pc[p] = from /\ pc'[p] = to /\ UNCHANGED <<recipe, want, got>>
BY DEF TypeOK, OnlyCall, Goto, locals, args

(* A step within a call that begins to rewrite nothing. *)
LEMMA SeenKept ==
  ASSUME TypeOK, Seen, NEW p \in Procs, OnlyCall(p), UNCHANGED disturbed,
         pc'[p] = "idle" \/ (pc[p] # "idle" /\ recipe'[p] = recipe[p]),
         pc'[p] \in Rewriting => pc[p] \in Rewriting
  PROVE  Seen'
<1> "idle" \notin Rewriting
  BY DEF Rewriting, Linked
<1> SUFFICES ASSUME NEW x \in Procs, NEW q \in Procs, x # q, pc'[x] # "idle", pc'[q] \in Rewriting,
                    BuildId[recipe'[x]] = BuildId[recipe'[q]]
             PROVE  disturbed[x]
  BY DEF Seen, Id
<1>1. pc[x] # "idle" /\ recipe'[x] = recipe[x]
  BY DEF OnlyCall
<1>2. pc[q] \in Rewriting /\ recipe'[q] = recipe[q]
  BY DEF OnlyCall
<1> QED BY <1>1, <1>2 DEF Seen, Id

LEMMA DoubtedKept ==
  ASSUME TypeOK, Doubted, NEW p \in Procs, OnlyCall(p), UNCHANGED disturbed,
         \A b \in Ids : tainted[b] => tainted'[b],
         pc'[p] \in Rewriting => pc[p] \in Rewriting /\ recipe'[p] = recipe[p]
  PROVE  Doubted'
<1> SUFFICES ASSUME NEW q \in Procs, pc'[q] \in Rewriting, disturbed[q]
             PROVE  tainted'[BuildId[recipe'[q]]]
  BY DEF Doubted, Id
<1>1. pc[q] \in Rewriting /\ recipe'[q] = recipe[q]
  BY DEF OnlyCall
<1> QED BY <1>1, IdType DEF Doubted, Id

(* The others rely on nothing that changes: those of the same directory know that it does. *)
LEMMA OthersHold ==
  ASSUME TypeOK, Seen, Undisturbed, NEW p \in Procs, OnlyCall(p), OnlyDir(p), UNCHANGED up,
         pc[p] \in Rewriting \/ UNCHANGED dirs,
         NEW q \in Procs \ {p}, disturbed[q] => disturbed'[q], ~disturbed'[q]
  PROVE  Holds(q)'
<1>1. CASE pc[q] = "idle"
  BY <1>1 DEF OnlyCall, Holds, Linked
<1>2. CASE pc[q] # "idle"
  <2>1. copy'[Id(q)] = copy[Id(q)] /\ lib'[Id(q)] = lib[Id(q)]
    BY <1>2, IdType DEF Seen, OnlyDir, dirs
  <2>2. Holds(q) /\ pc'[q] = pc[q] /\ recipe'[q] = recipe[q] /\ want'[q] = want[q] /\ got'[q] = got[q]
    BY DEF Undisturbed, OnlyCall
  <2>3. Id(q)' = Id(q) /\ ProgramOf(recipe[q])' = ProgramOf(recipe[q])
    BY <2>2 DEF Id, ProgramOf
  <2> QED BY <2>1, <2>2, <2>3 DEF Holds, ProgramOf, Right
<1> QED BY <1>1, <1>2

(* A record stays true when it is torn, or the library below it is linked anew or in doubt. *)
LEMMA DescribedKept ==
  ASSUME TypeOK, Described, NEW p \in Procs, OnlyCall(p),
         \A b \in Ids : tainted[b] => tainted'[b],
         \A b \in Ids : meta'[b] = meta[b] \/ meta'[b].state # "whole",
         \A b \in Ids : lib'[b] = lib[b] \/ (pc'[p] \in Linked /\ BuildId[recipe'[p]] = b),
         pc[p] \in Linked => \/ pc'[p] \in Linked /\ recipe'[p] = recipe[p]
                             \/ tainted'[Id(p)] \/ meta'[Id(p)].state # "whole"
  PROVE  Described'
<1> SUFFICES ASSUME NEW r \in Recipes, ~tainted'[BuildId[r]], meta'[BuildId[r]].state = "whole",
                    \A q \in Procs : pc'[q] \in Linked => BuildId[recipe'[q]] # BuildId[r]
             PROVE  Right(lib'[BuildId[r]], meta'[BuildId[r]].of, r)
  BY DEF Described, Id, Right, PatchedText
<1>1. BuildId[r] \in Ids
  BY Kinds
<1>2. meta'[BuildId[r]] = meta[BuildId[r]] /\ ~tainted[BuildId[r]] /\ lib'[BuildId[r]] = lib[BuildId[r]]
  BY <1>1
<1>3. ASSUME NEW q \in Procs, pc[q] \in Linked PROVE Id(q) # BuildId[r]
  BY <1>3 DEF OnlyCall, Id
<1> QED BY <1>2, <1>3 DEF Described

(* What the others have been given is not touched by a step of p. *)
LEMMA HitsKept ==
  ASSUME TypeOK, Seen, HitIsBuild, NEW p \in Procs, OnlyCall(p), OnlyDir(p),
         pc[p] \in Rewriting \/ UNCHANGED dirs,
         \A b \in Ids : tainted[b] => tainted'[b],
         NEW q \in Procs \ {p}, disturbed[q] => disturbed'[q],
         pc'[q] = "return", ~disturbed'[q], ~tainted'[BuildId[recipe'[q]]]
  PROVE  Right(lib'[BuildId[recipe'[q]]], want'[q], recipe'[q])
<1>1. pc[q] = "return" /\ recipe'[q] = recipe[q] /\ want'[q] = want[q] /\ ~disturbed[q]
  BY DEF OnlyCall
<1>2. lib'[Id(q)] = lib[Id(q)] /\ ~tainted[Id(q)]
  BY <1>1, IdType DEF Seen, OnlyDir, dirs, Id
<1> QED BY <1>1, <1>2 DEF HitIsBuild, Id

(* A step by which a call goes on rewriting its directory, or gives up. *)
LEMMA WithinCall ==
  ASSUME TypeOK, CacheInv, NEW p \in Procs, OnlyCall(p), OnlyDir(p), UNCHANGED <<up, disturbed>>,
         pc[p] \in Rewriting,
         pc'[p] = "idle" \/ (pc'[p] \in Rewriting /\ recipe'[p] = recipe[p]),
         \A b \in Ids : tainted[b] => tainted'[b],
         \A b \in Ids : meta'[b] = meta[b] \/ meta'[b].state # "whole",
         \A b \in Ids : lib'[b] = lib[b] \/ (pc'[p] \in Linked /\ BuildId[recipe'[p]] = b),
         pc[p] \in Linked => \/ pc'[p] \in Linked
                             \/ tainted'[Id(p)] \/ meta'[Id(p)].state # "whole",
         ~disturbed[p] => Holds(p)'
  PROVE  CacheInv'
<1> "idle" \notin Rewriting /\ "idle" \notin Linked /\ "return" \notin Rewriting
  BY DEF Rewriting, Linked
<1>1. Seen' /\ Doubted'
  BY SeenKept, DoubtedKept DEF CacheInv
<1>2. Undisturbed'
  BY OthersHold DEF CacheInv, Undisturbed
<1>3. Described'
  BY DescribedKept DEF CacheInv
<1>4. ASSUME NEW q \in Procs, pc'[q] = "return", ~disturbed'[q], ~tainted'[BuildId[recipe'[q]]]
      PROVE  Right(lib'[BuildId[recipe'[q]]], want'[q], recipe'[q])
  <2>1. q # p
    BY <1>4
  <2> QED BY <1>4, <2>1, HitsKept DEF CacheInv
<1>5. HitIsBuild'
  BY <1>4 DEF HitIsBuild, Id, Right, PatchedText
<1> QED BY <1>1, <1>2, <1>3, <1>5 DEF CacheInv

LEMMA GiveUp ==
  ASSUME TypeOK, CacheInv, NEW p \in Procs, NEW from \in Rewriting, Leave(p, from),
         UNCHANGED <<up, disturbed, copy, lib, meta>>,
         \A b \in Ids : tainted[b] => tainted'[b],
         pc[p] \in Linked => tainted'[Id(p)]
  PROVE  CacheInv'
<1>1. OnlyCall(p) /\ pc[p] = from /\ pc'[p] = "idle"
  BY LeaveLocals
<1>2. OnlyDir(p)
  BY DEF OnlyDir
<1>3. Holds(p)'
  BY <1>1 DEF Holds, Linked
<1> QED BY <1>1, <1>2, <1>3, WithinCall

LEMMA CopyCcKeeps == ASSUME TypeOK, CacheInv, NEW p \in Procs, CopyCc(p) PROVE CacheInv'
<1> USE DEF history
<1>1. /\ OnlyCall(p) /\ pc[p] = "copy" /\ pc'[p] = "copyrest"
      /\ UNCHANGED <<recipe, want, got, up, disturbed, tainted, lib, meta>>
  BY GotoLocals DEF CopyCc, source
<1>2. OnlyDir(p)
  BY <1>1 DEF CopyCc, OnlyDir, TypeOK
<1>3. copy'[Id(p)].cc = [version |-> up["gemmini.cc"], patch |-> Stock]
  BY IdType DEF CopyCc, TypeOK, Program
<1>4. Holds(p)'
  BY <1>1, <1>3 DEF Holds, Id, Linked
<1> QED BY <1>1, <1>2, <1>4, WithinCall DEF Rewriting, Linked

LEMMA CopyRestKeeps == ASSUME TypeOK, CacheInv, NEW p \in Procs, CopyRest(p) PROVE CacheInv'
<1> USE DEF history
<1>1. /\ OnlyCall(p) /\ pc[p] = "copyrest" /\ pc'[p] = "patch"
      /\ UNCHANGED <<recipe, want, got, up, disturbed, tainted, lib, meta>>
  BY GotoLocals DEF CopyRest, source
<1>2. OnlyDir(p)
  BY <1>1 DEF CopyRest, OnlyDir, TypeOK
<1>3. copy'[Id(p)].other = up["other"] /\ copy'[Id(p)].cc = copy[Id(p)].cc
  BY IdType DEF CopyRest, TypeOK, Program
<1>4. ~disturbed[p] => Holds(p)'
  BY <1>1, <1>3 DEF CacheInv, Undisturbed, Holds, Id, Linked
<1> QED BY <1>1, <1>2, <1>4, WithinCall DEF Rewriting, Linked

LEMMA ReadCopyKeeps == ASSUME TypeOK, CacheInv, NEW p \in Procs, ReadCopy(p) PROVE CacheInv'
<1> USE DEF history
<1>1. UNCHANGED <<up, disturbed, tainted, copy, lib, meta>>
  BY DEF ReadCopy, source, dirs
<1>2. CASE Leave(p, "patch")
  BY <1>1, <1>2, GiveUp, LeaveLocals DEF Rewriting, Linked
<1>3. CASE /\ pc[p] = "patch" /\ pc' = [pc EXCEPT ![p] = "patched"]
           /\ got' = [got EXCEPT ![p].cc = copy[Id(p)].cc]
           /\ UNCHANGED <<args, want>>
  <2>1. /\ OnlyCall(p) /\ pc'[p] = "patched" /\ UNCHANGED <<recipe, want>>
        /\ got'[p].cc = copy[Id(p)].cc
    BY <1>3 DEF TypeOK, OnlyCall, args, Program
  <2>2. ~disturbed[p] => Holds(p)'
    BY <1>1, <1>3, <2>1 DEF CacheInv, Undisturbed, Holds, Id, Linked
  <2> QED BY <1>1, <1>3, <2>1, <2>2, WithinCall DEF Rewriting, Linked, OnlyDir
<1> QED BY <1>2, <1>3 DEF ReadCopy

LEMMA WritePatchedKeeps == ASSUME TypeOK, CacheInv, NEW p \in Procs, WritePatched(p) PROVE CacheInv'
<1> USE DEF history
<1>1. /\ OnlyCall(p) /\ pc[p] = "patched" /\ pc'[p] = "compile"
      /\ UNCHANGED <<recipe, want, got, up, disturbed, tainted, lib, meta>>
  BY GotoLocals DEF WritePatched, source
<1>2. OnlyDir(p)
  BY <1>1 DEF WritePatched, OnlyDir, TypeOK
<1>3. /\ copy'[Id(p)].cc = PatchedText(got[p].cc.version, recipe[p])
      /\ copy'[Id(p)].other = copy[Id(p)].other
  BY IdType DEF WritePatched, TypeOK, Program
<1>4. ~disturbed[p] => got[p].cc.version = up["gemmini.cc"] /\ copy[Id(p)].other = up["other"]
  BY <1>1 DEF CacheInv, Undisturbed, Holds
<1>5. ~disturbed[p] => Holds(p)'
  BY <1>1, <1>3, <1>4 DEF Holds, Id, Linked, PatchedText
<1> QED BY <1>1, <1>2, <1>5, WithinCall DEF Rewriting, Linked

LEMMA CompileKeeps == ASSUME TypeOK, CacheInv, NEW p \in Procs, Compile(p) PROVE CacheInv'
<1> USE DEF history
<1>1. UNCHANGED <<up, disturbed, tainted, copy, lib, meta>>
  BY DEF Compile, source, dirs
<1>2. CASE Leave(p, "compile")
  BY <1>1, <1>2, GiveUp, LeaveLocals DEF Rewriting, Linked
<1>3. CASE /\ pc[p] = "compile" /\ pc' = [pc EXCEPT ![p] = "link"]
           /\ got' = [got EXCEPT ![p] = copy[Id(p)]]
           /\ UNCHANGED <<args, want>>
  <2>1. /\ OnlyCall(p) /\ pc'[p] = "link" /\ UNCHANGED <<recipe, want>>
        /\ got'[p] = copy[Id(p)]
    BY <1>3 DEF TypeOK, OnlyCall, args
  <2>2. copy[Id(p)] = [cc |-> copy[Id(p)].cc, other |-> copy[Id(p)].other]
    BY IdType DEF TypeOK, Program
  <2>3. ~disturbed[p] => got'[p] = ProgramOf(recipe[p])
    BY <1>3, <2>1, <2>2 DEF CacheInv, Undisturbed, Holds, ProgramOf
  <2>4. ~disturbed[p] => Holds(p)'
    BY <1>1, <2>1, <2>3 DEF Holds, Id, Linked, ProgramOf
  <2> QED BY <1>1, <1>3, <2>1, <2>4, WithinCall DEF Rewriting, Linked, OnlyDir
<1> QED BY <1>2, <1>3 DEF Compile

LEMMA LinkOpenKeeps == ASSUME TypeOK, CacheInv, NEW p \in Procs, LinkOpen(p) PROVE CacheInv'
<1> USE DEF history
<1>1. /\ OnlyCall(p) /\ pc[p] = "link" /\ pc'[p] = "linking"
      /\ UNCHANGED <<recipe, want, got, up, disturbed, tainted, copy, meta>>
  BY GotoLocals DEF LinkOpen, source
<1>2. OnlyDir(p)
  BY <1>1 DEF LinkOpen, OnlyDir, TypeOK
<1>3. lib'[Id(p)].by = p /\ lib'[Id(p)].program = got[p]
  BY IdType DEF LinkOpen, TypeOK
<1>4. ~disturbed[p] => Holds(p)'
  BY <1>1, <1>3 DEF CacheInv, Undisturbed, Holds, Id, Linked, ProgramOf
<1>5. \A b \in Ids : lib'[b] = lib[b] \/ BuildId[recipe'[p]] = b
  BY <1>1, <1>2 DEF OnlyDir, Id
<1> QED BY <1>1, <1>2, <1>4, <1>5, WithinCall DEF Rewriting, Linked

LEMMA LinkCloseKeeps == ASSUME TypeOK, CacheInv, NEW p \in Procs, LinkClose(p) PROVE CacheInv'
<1> USE DEF history
<1>1. /\ OnlyCall(p) /\ pc[p] = "linking" /\ pc'[p] = "check"
      /\ UNCHANGED <<recipe, want, got, up, disturbed, tainted, copy, meta>>
  BY GotoLocals DEF LinkClose, source
<1>2. OnlyDir(p)
  BY <1>1 DEF LinkClose, OnlyDir, TypeOK
<1>3. lib[Id(p)].by = p => lib'[Id(p)].state = "whole" /\ lib'[Id(p)].program = lib[Id(p)].program
  BY IdType DEF LinkClose, TypeOK, Library
<1>4. ~disturbed[p] => Holds(p)'
  BY <1>1, <1>3 DEF CacheInv, Undisturbed, Holds, Id, Linked, ProgramOf
<1>5. \A b \in Ids : lib'[b] = lib[b] \/ BuildId[recipe'[p]] = b
  BY <1>1, <1>2 DEF OnlyDir, Id
<1> QED BY <1>1, <1>2, <1>4, <1>5, WithinCall DEF Rewriting, Linked

LEMMA CheckGlibcxxKeeps == ASSUME TypeOK, CacheInv, NEW p \in Procs, CheckGlibcxx(p) PROVE CacheInv'
<1>1. UNCHANGED <<up, disturbed, copy, lib, meta>>
  BY DEF CheckGlibcxx, source, dirs
<1>2. CASE Leave(p, "check") /\ Spoil(p)
  <2>1. tainted'[Id(p)] /\ \A b \in Ids : tainted[b] => tainted'[b]
    BY <1>2, IdType DEF Spoil, TypeOK
  <2> QED BY <1>1, <1>2, <2>1, GiveUp DEF Rewriting, Linked
<1>3. CASE Goto(p, "check", "record") /\ UNCHANGED tainted /\ ~(StockLib /\ lib[Id(p)].gxx = "newer")
  <2>1. OnlyCall(p) /\ pc[p] = "check" /\ pc'[p] = "record" /\ UNCHANGED <<recipe, want, got, tainted>>
    BY <1>3, GotoLocals
  <2>2. ~disturbed[p] => Holds(p)'
    BY <1>1, <1>3, <2>1 DEF CacheInv, Undisturbed, Holds, Id, Linked, ProgramOf
  <2> QED BY <1>1, <2>1, <2>2, WithinCall DEF Rewriting, Linked, OnlyDir
<1> QED BY <1>2, <1>3 DEF CheckGlibcxx

LEMMA RecordOpenKeeps == ASSUME TypeOK, CacheInv, NEW p \in Procs, RecordOpen(p) PROVE CacheInv'
<1> USE DEF history
<1>1. UNCHANGED <<up, disturbed, tainted, copy, lib>>
  BY DEF RecordOpen, source
<1>2. /\ OnlyCall(p) /\ pc[p] = "record" /\ pc'[p] = "recording"
      /\ recipe'[p] = recipe[p] /\ want'[p] = up
  BY DEF RecordOpen, TypeOK, OnlyCall, args
<1>3. OnlyDir(p) /\ meta'[Id(p)].state = "torn"
  BY <1>1, IdType DEF RecordOpen, TypeOK, OnlyDir, Meta
<1>4. ~disturbed[p] => Right(lib[Id(p)], up, recipe[p])
  BY <1>2 DEF CacheInv, Undisturbed, Holds, Right, Linked, ProgramOf
<1>5. ~disturbed[p] => Holds(p)'
  BY <1>1, <1>2, <1>4 DEF Holds, Id, Linked, Right, PatchedText
<1> QED BY <1>1, <1>2, <1>3, <1>5, WithinCall DEF Rewriting, Linked, OnlyDir

(* An undisturbed call that finishes its record clears the directory of doubt: no other call *)
(* that goes by this directory is left undisturbed.                                          *)
LEMMA RecordWriteKeeps == ASSUME TypeOK, CacheInv, NEW p \in Procs, RecordWrite(p) PROVE CacheInv'
<1> "idle" \notin Rewriting /\ "recording" \in Rewriting /\ "return" \notin Rewriting /\ "recording" \notin Linked
     /\ "return" \notin Linked
  BY DEF Rewriting, Linked
<1>1. /\ OnlyCall(p) /\ pc[p] = "recording" /\ pc'[p] = "return"
      /\ UNCHANGED <<recipe, want, got, up, disturbed, copy, lib>>
  BY GotoLocals DEF RecordWrite, source
<1>2. OnlyDir(p) /\ meta'[Id(p)] = [state |-> "whole", of |-> want[p]]
  BY <1>1, IdType DEF RecordWrite, TypeOK, OnlyDir
<1>3. /\ \A b \in Ids : b # Id(p) => tainted'[b] = tainted[b]
      /\ tainted'[Id(p)] = (tainted[Id(p)] /\ disturbed[p])
  BY IdType DEF RecordWrite, TypeOK
<1>4. Id(p) \in Ids /\ Id(p)' = Id(p)
  BY <1>1, IdType DEF Id
<1>5. tainted'[Id(p)] = disturbed[p]
  BY <1>1, <1>3 DEF CacheInv, Doubted, TypeOK
<1>6. ~disturbed[p] => Right(lib[Id(p)], want[p], recipe[p])
  BY <1>1 DEF CacheInv, Undisturbed, Holds
<1>7. ASSUME NEW q \in Procs \ {p}, pc[q] # "idle", Id(q) = Id(p) PROVE disturbed[q]
  BY <1>1, <1>7 DEF CacheInv, Seen
<1>8. Seen'
  BY <1>1, SeenKept DEF CacheInv
<1>9. Doubted'
  <2> SUFFICES ASSUME NEW q \in Procs, pc'[q] \in Rewriting, disturbed[q]
               PROVE  tainted'[BuildId[recipe'[q]]]
    BY <1>1 DEF Doubted, Id
  <2>1. q # p /\ pc[q] \in Rewriting /\ recipe'[q] = recipe[q]
    BY <1>1 DEF OnlyCall
  <2>2. tainted[Id(q)] /\ Id(q) \in Ids
    BY <2>1, IdType DEF CacheInv, Doubted
  <2>3. CASE Id(q) # Id(p)
    BY <1>3, <2>1, <2>2, <2>3 DEF Id
  <2>4. CASE Id(q) = Id(p)
    <3>1. disturbed[p]
      BY <1>1, <2>1, <2>4 DEF CacheInv, Seen
    <3> QED BY <1>5, <2>1, <2>4, <3>1 DEF Id
  <2> QED BY <2>3, <2>4
<1>10. Undisturbed'
  <2>1. Holds(p)'
    BY <1>1 DEF Holds, Linked
  <2> QED BY <1>1, <1>2, <2>1, OthersHold DEF CacheInv, Undisturbed
<1>11. Described'
  <2> SUFFICES ASSUME NEW r \in Recipes, ~tainted'[BuildId[r]], meta'[BuildId[r]].state = "whole",
                      \A q \in Procs : pc'[q] \in Linked => BuildId[recipe'[q]] # BuildId[r]
               PROVE  Right(lib[BuildId[r]], meta'[BuildId[r]].of, r)
    BY <1>1 DEF Described, Id, Right, PatchedText
  <2>1. CASE BuildId[r] = Id(p)
    <3>1. ~disturbed[p] /\ meta'[BuildId[r]].of = want[p]
      BY <1>2, <1>5, <2>1
    <3>2. Patch[r] = Patch[recipe[p]]
      BY <2>1, BuildIdAssumption DEF Id, TypeOK
    <3> QED BY <1>6, <2>1, <3>1, <3>2 DEF Right, PatchedText
  <2>2. CASE BuildId[r] # Id(p)
    <3>1. meta'[BuildId[r]] = meta[BuildId[r]] /\ ~tainted[BuildId[r]]
      BY <1>2, <1>3, <2>2, Kinds DEF OnlyDir
    <3>2. \A q \in Procs : pc[q] \in Linked => Id(q) # BuildId[r]
      BY <1>1 DEF OnlyCall, Id
    <3> QED BY <3>1, <3>2 DEF CacheInv, Described
  <2> QED BY <2>1, <2>2
<1>12. ASSUME NEW q \in Procs, pc'[q] = "return", ~disturbed[q], ~tainted'[Id(q)]
       PROVE  Right(lib[Id(q)], want[q], recipe[q])
  <2>1. CASE q = p
    BY <1>6, <1>12, <2>1
  <2>2. CASE q # p
    <3>1. pc[q] = "return" /\ Id(q) # Id(p) /\ Id(q) \in Ids
      BY <1>1, <1>7, <1>12, <2>2, IdType DEF OnlyCall
    <3> QED BY <1>3, <1>12, <3>1 DEF CacheInv, HitIsBuild
  <2> QED BY <2>1, <2>2
<1>13. HitIsBuild'
  BY <1>1, <1>12 DEF HitIsBuild, Id, Right, PatchedText
<1> QED BY <1>8, <1>9, <1>10, <1>11, <1>13 DEF CacheInv

(* Whoever begins to rewrite a directory disturbs those that are in it, and is disturbed by them. *)
LEMMA RewriteBegins ==
  ASSUME TypeOK, CacheInv, NEW p \in Procs, NEW b \in Ids, OnlyCall(p), UNCHANGED <<up, dirs>>,
         pc[p] \in {"idle", "readmeta"}, pc'[p] = "copy", BuildId[recipe'[p]] = b, BeginRewrite(p, b)
  PROVE  CacheInv'
<1> "idle" \notin Rewriting /\ "copy" \in Rewriting /\ "copy" \notin Linked /\ pc[p] \notin Linked
  BY DEF Rewriting, Linked
<1> UNCHANGED <<copy, lib, meta>>
  BY DEF dirs
<1>1. /\ \A q \in Procs \ {p} : disturbed'[q] = (disturbed[q] \/ q \in Guests(p, b))
      /\ disturbed'[p] = (Guests(p, b) # {})
      /\ \A c \in Ids : tainted[c] => tainted'[c]
      /\ tainted'[b] = (tainted[b] \/ Guests(p, b) # {})
  BY DEF BeginRewrite, TypeOK
<1>2. \A q \in Procs \ {p} : q \in Guests(p, b) <=> pc[q] # "idle" /\ Id(q) = b
  BY DEF Guests
<1>3. OnlyDir(p)
  BY DEF OnlyDir
<1>4. Seen'
  <2> SUFFICES ASSUME NEW x \in Procs, NEW y \in Procs, x # y, pc'[x] # "idle", pc'[y] \in Rewriting,
                      BuildId[recipe'[x]] = BuildId[recipe'[y]]
               PROVE  disturbed'[x]
    BY DEF Seen, Id
  <2>1. CASE x = p
    <3>1. y \in Guests(p, b)
      BY <1>2, <2>1 DEF OnlyCall, Id
    <3> QED BY <1>1, <2>1, <3>1
  <2>2. CASE y = p
    <3>1. x \in Guests(p, b)
      BY <1>2, <2>2 DEF OnlyCall, Id
    <3> QED BY <1>1, <2>2, <3>1
  <2>3. CASE x # p /\ y # p
    <3>1. disturbed[x]
      BY <2>3 DEF OnlyCall, Id, CacheInv, Seen
    <3> QED BY <1>1, <2>3, <3>1
  <2> QED BY <2>1, <2>2, <2>3
<1>5. Doubted'
  <2> SUFFICES ASSUME NEW q \in Procs, pc'[q] \in Rewriting, disturbed'[q]
               PROVE  tainted'[BuildId[recipe'[q]]]
    BY DEF Doubted, Id
  <2>1. CASE q = p
    BY <1>1, <2>1
  <2>2. CASE q # p /\ q \in Guests(p, b)
    BY <1>1, <1>2, <2>2 DEF OnlyCall, Id
  <2>3. CASE q # p /\ disturbed[q]
    <3>1. tainted[Id(q)] /\ Id(q) \in Ids /\ recipe'[q] = recipe[q]
      BY <2>3, IdType DEF OnlyCall, CacheInv, Doubted
    <3> QED BY <1>1, <3>1 DEF Id
  <2> QED BY <1>1, <2>1, <2>2, <2>3
<1>6. Undisturbed'
  <2>1. Holds(p)'
    BY DEF Holds, Linked
  <2>2. ASSUME NEW q \in Procs \ {p}, ~disturbed'[q] PROVE Holds(q)'
    BY <1>1, <1>3, <2>2, OthersHold DEF CacheInv
  <2> QED BY <2>1, <2>2 DEF Undisturbed
<1>7. Described'
  BY <1>1, DescribedKept DEF CacheInv
<1>8. ASSUME NEW q \in Procs, pc'[q] = "return", ~disturbed'[q], ~tainted'[BuildId[recipe'[q]]]
      PROVE  Right(lib'[BuildId[recipe'[q]]], want'[q], recipe'[q])
  <2>1. q # p
    BY <1>8
  <2> QED BY <1>1, <1>3, <1>8, <2>1, HitsKept DEF CacheInv
<1>9. HitIsBuild'
  BY <1>8 DEF HitIsBuild, Id, Right, PatchedText
<1> QED BY <1>4, <1>5, <1>6, <1>7, <1>9 DEF CacheInv

(* Whoever begins to read a directory that is being rewritten is disturbed. *)
LEMMA ReadBegins ==
  ASSUME TypeOK, CacheInv, NEW p \in Procs, NEW b \in Ids, OnlyCall(p), UNCHANGED <<up, dirs>>,
         pc[p] = "idle", pc'[p] = "readmeta", BuildId[recipe'[p]] = b, BeginRead(p, b)
  PROVE  CacheInv'
<1> /\ "idle" \notin Rewriting /\ "readmeta" \notin Rewriting /\ "readmeta" \notin Linked
    /\ pc[p] \notin Linked
  BY DEF Rewriting, Linked
<1> UNCHANGED <<copy, lib, meta>>
  BY DEF dirs
<1>1. /\ \A q \in Procs \ {p} : disturbed'[q] = disturbed[q]
      /\ disturbed'[p] = (\E q \in Guests(p, b) : pc[q] \in Rewriting)
      /\ UNCHANGED tainted
  BY DEF BeginRead, TypeOK
<1>2. OnlyDir(p)
  BY DEF OnlyDir
<1>3. Seen'
  <2> SUFFICES ASSUME NEW x \in Procs, NEW y \in Procs, x # y, pc'[x] # "idle", pc'[y] \in Rewriting,
                      BuildId[recipe'[x]] = BuildId[recipe'[y]]
               PROVE  disturbed'[x]
    BY DEF Seen, Id
  <2>1. y # p /\ pc[y] \in Rewriting /\ recipe'[y] = recipe[y]
    BY DEF OnlyCall
  <2>2. CASE x = p
    <3>1. y \in Guests(p, b)
      BY <2>1, <2>2 DEF Id, Guests
    <3> QED BY <1>1, <2>1, <2>2, <3>1
  <2>3. CASE x # p
    BY <1>1, <2>1, <2>3 DEF OnlyCall, Id, CacheInv, Seen
  <2> QED BY <2>2, <2>3
<1>4. Doubted'
  <2> SUFFICES ASSUME NEW q \in Procs, pc'[q] \in Rewriting, disturbed'[q]
               PROVE  tainted[BuildId[recipe'[q]]]
    BY <1>1 DEF Doubted, Id
  <2>1. q # p /\ pc[q] \in Rewriting /\ recipe'[q] = recipe[q]
    BY DEF OnlyCall
  <2> QED BY <1>1, <2>1 DEF CacheInv, Doubted, Id
<1>5. Undisturbed'
  <2>1. Holds(p)'
    BY DEF Holds, Linked
  <2>2. ASSUME NEW q \in Procs \ {p}, ~disturbed'[q] PROVE Holds(q)'
    BY <1>1, <1>2, <2>2, OthersHold DEF CacheInv
  <2> QED BY <2>1, <2>2 DEF Undisturbed
<1>6. Described'
  BY <1>1, DescribedKept DEF CacheInv
<1>7. ASSUME NEW q \in Procs, pc'[q] = "return", ~disturbed'[q], ~tainted'[BuildId[recipe'[q]]]
      PROVE  Right(lib'[BuildId[recipe'[q]]], want'[q], recipe'[q])
  <2>1. q # p
    BY <1>7
  <2> QED BY <1>1, <1>2, <1>7, <2>1, HitsKept DEF CacheInv
<1>8. HitIsBuild'
  BY <1>7 DEF HitIsBuild, Id, Right, PatchedText
<1> QED BY <1>3, <1>4, <1>5, <1>6, <1>8 DEF CacheInv

LEMMA CallKeeps == ASSUME TypeOK, CacheInv, NEW p \in Procs, Call(p) PROVE CacheInv'
<1>1. PICK r \in Recipes :
        /\ recipe' = [recipe EXCEPT ![p] = r]
        /\ \/ pc' = [pc EXCEPT ![p] = "readmeta"] /\ BeginRead(p, BuildId[r])
           \/ pc' = [pc EXCEPT ![p] = "copy"] /\ BeginRewrite(p, BuildId[r])
  BY DEF Call
<1>2. OnlyCall(p) /\ UNCHANGED <<up, dirs>> /\ pc[p] = "idle"
  BY <1>1 DEF Call, OnlyCall, TypeOK, source
<1>3. BuildId[r] \in Ids /\ BuildId[recipe'[p]] = BuildId[r]
  BY <1>1, Kinds DEF TypeOK
<1>4. CASE pc' = [pc EXCEPT ![p] = "readmeta"] /\ BeginRead(p, BuildId[r])
  <2>1. pc'[p] = "readmeta"
    BY <1>4 DEF TypeOK
  <2> QED BY <1>2, <1>3, <1>4, <2>1, ReadBegins
<1>5. CASE pc' = [pc EXCEPT ![p] = "copy"] /\ BeginRewrite(p, BuildId[r])
  <2>1. pc'[p] = "copy"
    BY <1>5 DEF TypeOK
  <2> QED BY <1>2, <1>3, <1>5, <2>1, RewriteBegins
<1> QED BY <1>1, <1>4, <1>5

(* A hit: nobody has rewritten the directory since the call began, so its record describes it. *)
LEMMA ReadMetaKeeps == ASSUME TypeOK, CacheInv, NEW p \in Procs, ReadMeta(p) PROVE CacheInv'
<1>1. UNCHANGED <<up, dirs>>
  BY DEF ReadMeta, source
<1>2. CASE Goto(p, "readmeta", "copy") /\ BeginRewrite(p, Id(p))
  <2>1. /\ OnlyCall(p) /\ pc[p] = "readmeta" /\ pc'[p] = "copy" /\ BuildId[recipe'[p]] = Id(p)
        /\ Id(p) \in Ids
    BY <1>2, GotoLocals, IdType DEF Id
  <2> QED BY <1>1, <1>2, <2>1, RewriteBegins
<1>3. CASE /\ meta[Id(p)] = [state |-> "whole", of |-> want[p]]
           /\ Goto(p, "readmeta", "return") /\ UNCHANGED history
  <2> "idle" \notin Rewriting /\ "return" \notin Rewriting /\ "return" \notin Linked /\ "readmeta" \notin Linked
       /\ Linked \subseteq Rewriting
    BY DEF Rewriting, Linked
  <2>1. /\ OnlyCall(p) /\ pc[p] = "readmeta" /\ pc'[p] = "return"
        /\ UNCHANGED <<recipe, want, got, disturbed, tainted, copy, lib, meta>>
    BY <1>1, <1>3, GotoLocals DEF history, dirs
  <2>2. OnlyDir(p)
    BY <2>1 DEF OnlyDir
  <2>3. Seen' /\ Doubted'
    BY <2>1, SeenKept, DoubtedKept DEF CacheInv
  <2>4. Holds(p)'
    BY <2>1 DEF Holds, Linked
  <2>5. Undisturbed'
    BY <1>1, <2>1, <2>2, <2>4, OthersHold DEF CacheInv, Undisturbed
  <2>6. Described'
    BY <2>1, DescribedKept DEF CacheInv
  <2>7. ASSUME ~disturbed[p], ~tainted[Id(p)] PROVE Right(lib[Id(p)], want[p], recipe[p])
    <3>1. \A q \in Procs : pc[q] \in Linked => Id(q) # Id(p)
      BY <2>1, <2>7 DEF CacheInv, Seen
    <3>2. recipe[p] \in Recipes /\ Id(p) = BuildId[recipe[p]]
      BY DEF TypeOK, Id
    <3> QED BY <1>3, <2>7, <3>1, <3>2 DEF CacheInv, Described
  <2>8. ASSUME NEW q \in Procs, pc'[q] = "return", ~disturbed[q], ~tainted[Id(q)]
        PROVE  Right(lib[Id(q)], want[q], recipe[q])
    BY <2>1, <2>7, <2>8 DEF CacheInv, HitIsBuild, OnlyCall
  <2>9. HitIsBuild'
    BY <2>1, <2>8 DEF HitIsBuild, Id, Right, PatchedText
  <2> QED BY <2>3, <2>5, <2>6, <2>9 DEF CacheInv
<1> QED BY <1>2, <1>3 DEF ReadMeta

LEMMA FinishKeeps == ASSUME TypeOK, CacheInv, NEW p \in Procs, Finish(p) PROVE CacheInv'
<1> "idle" \notin Rewriting /\ "idle" \notin Linked /\ "return" \notin Linked
  BY DEF Rewriting, Linked
<1>1. UNCHANGED <<up, dirs, copy, lib, meta, disturbed, tainted>>
  BY DEF Finish, source, dirs, history
<1>2. OnlyCall(p) /\ pc[p] = "return" /\ pc'[p] = "idle"
  BY LeaveLocals DEF Finish
<1>3. OnlyDir(p)
  BY <1>1 DEF OnlyDir
<1>4. Seen' /\ Doubted'
  BY <1>1, <1>2, SeenKept, DoubtedKept DEF CacheInv
<1>5. Holds(p)'
  BY <1>2 DEF Holds, Linked
<1>6. Undisturbed'
  BY <1>1, <1>2, <1>3, <1>5, OthersHold DEF CacheInv, Undisturbed
<1>7. Described'
  BY <1>1, <1>2, DescribedKept DEF CacheInv
<1>8. HitIsBuild'
  <2> SUFFICES ASSUME NEW q \in Procs, pc'[q] = "return", ~disturbed[q], ~tainted[BuildId[recipe'[q]]]
               PROVE  Right(lib[BuildId[recipe'[q]]], want'[q], recipe'[q])
    BY <1>1 DEF HitIsBuild, Id, Right, PatchedText
  <2>1. q # p
    BY <1>2
  <2> QED BY <1>1, <1>2, <1>3, <2>1, HitsKept DEF CacheInv
<1> QED BY <1>4, <1>6, <1>7, <1>8 DEF CacheInv

LEMMA CrashKeeps == ASSUME TypeOK, CacheInv, NEW p \in Procs, Crash(p) PROVE CacheInv'
<1>1. PICK from \in Rewriting : Leave(p, from)
  BY DEF Crash
<1>2. /\ UNCHANGED <<up, disturbed, copy, lib, meta>>
      /\ \A b \in Ids : tainted[b] => tainted'[b]
      /\ pc[p] \in Linked => tainted'[Id(p)]
  BY IdType DEF Crash, Spoil, TypeOK, source, dirs
<1> QED BY <1>1, <1>2, GiveUp

(* An update disturbs whoever has read, or has yet to fingerprint, the sources. *)
LEMMA UpdateKeeps == ASSUME TypeOK, CacheInv, Update PROVE CacheInv'
<1>1. UNCHANGED <<copy, lib, meta, pc, recipe, want, got>>
  BY DEF Update, dirs, locals, args
<1> DEFINE during == {p \in Procs : pc[p] \in Rewriting \ {"recording"}}
<1>2. /\ \A p \in Procs : disturbed'[p] = (disturbed[p] \/ p \in during)
      /\ \A b \in Ids : tainted'[b] = (tainted[b] \/ \E p \in during : Id(p) = b)
  BY DEF Update
<1>3. Seen'
  BY <1>1, <1>2 DEF CacheInv, Seen, Id
<1>4. Doubted'
  <2> SUFFICES ASSUME NEW q \in Procs, pc[q] \in Rewriting, disturbed'[q] PROVE tainted'[Id(q)]
    BY <1>1 DEF Doubted, Id
  <2> QED BY <1>2, IdType DEF CacheInv, Doubted
<1>5. Undisturbed'
  <2> SUFFICES ASSUME NEW q \in Procs, ~disturbed'[q] PROVE Holds(q)'
    BY DEF Undisturbed
  <2>1. ~disturbed[q] /\ pc[q] \notin Rewriting \ {"recording"}
    BY <1>2
  <2>2. Holds(q)
    BY <2>1 DEF CacheInv, Undisturbed
  <2> QED BY <1>1, <2>1, <2>2 DEF Holds, Rewriting, Linked, Id, Right, PatchedText
<1>6. Described' /\ HitIsBuild'
  BY <1>1, <1>2, IdType, Kinds DEF CacheInv, Described, HitIsBuild, Id, Right, PatchedText
<1> QED BY <1>3, <1>4, <1>5, <1>6 DEF CacheInv

LEMMA CacheStep == TypeOK /\ CacheInv /\ [Next]_vars => CacheInv'
<1> SUFFICES ASSUME TypeOK, CacheInv, [Next]_vars PROVE CacheInv'
  OBVIOUS
<1>1. ASSUME NEW p \in Procs, BuildStep(p) PROVE CacheInv'
  BY <1>1, CopyCcKeeps, CopyRestKeeps, ReadCopyKeeps, WritePatchedKeeps, CompileKeeps, LinkOpenKeeps,
     LinkCloseKeeps, CheckGlibcxxKeeps, RecordOpenKeeps, RecordWriteKeeps DEF BuildStep
<1>2. CASE UNCHANGED vars
  BY <1>2 DEF vars, source, dirs, args, locals, history, CacheInv, Seen, Doubted, Undisturbed, Holds,
              Described, HitIsBuild, Id, Right, ProgramOf, PatchedText
<1> QED BY <1>1, <1>2, CallKeeps, ReadMetaKeeps, FinishKeeps, CrashKeeps, UpdateKeeps DEF Next

LEMMA CacheCorrect == Spec => [](TypeOK /\ CacheInv)
<1>1. Init => TypeOK /\ CacheInv
  BY TypeInit, CacheInit
<1>2. TypeOK /\ CacheInv /\ [Next]_vars => (TypeOK /\ CacheInv)'
  BY TypeStep, CacheStep
<1> QED BY <1>1, <1>2, PTL DEF Spec

(* What build() returns, from the cache or not, is the library of the recipe and of the     *)
(* sources the call went by, for any number of concurrent calls, kills and updates of the   *)
(* sources, unless the call was disturbed or its directory left in doubt by an earlier one. *)
THEOREM HitIsBuildHolds == Spec => []HitIsBuild
<1>1. TypeOK /\ CacheInv => HitIsBuild
  BY DEF CacheInv
<1> QED BY <1>1, CacheCorrect, PTL

(* Between calls a meta.json that can be read describes the library beside it, for every    *)
(* recipe that shares the directory.                                                        *)
THEOREM MetaDescribesHolds == Spec => []MetaDescribes
<1>1. TypeOK /\ CacheInv => MetaDescribes
  BY DEF CacheInv, Described, MetaDescribes, Rewriting
<1> QED BY <1>1, CacheCorrect, PTL
===============================================================================
