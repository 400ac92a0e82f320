------------------------------- MODULE MxKernel -------------------------------
(***************************************************************************)
(* A kernel and its lowering: kernels/spec.py (the stages and the fp32     *)
(* walk), compiler/graph.py (the step list), compiler/lower.py (the        *)
(* command buffer and the edges) and the walk of models/mxquant/kernel.py  *)
(* the device is graded against.                                           *)
(*                                                                         *)
(* A kernel is [x |-> <<M, K>>, stages |-> Seq(stage)]; a stage on the     *)
(* mesh has op "mesh", and either the shape of its weight or the name of a *)
(* computed right-hand side (rT: used transposed).  A value is the term    *)
(* that computes it, in prefix notation: a sequence of strings.            *)
(***************************************************************************)
EXTENDS MxFormats, FiniteSets, TLC

INPUT == "x"

Stage(name, weight, lhs, rhs, rT) ==
  [name |-> name, op |-> "mesh", weight |-> weight, lhs |-> lhs, rhs |-> rhs, rT |-> rT,
   srcs |-> <<>>, fn |-> FALSE]

HostStage(name, op, srcs, fn) ==
  [name |-> name, op |-> op, weight |-> <<>>, lhs |-> "", rhs |-> "", rT |-> FALSE,
   srcs |-> srcs, fn |-> fn]

on_mesh(st) == st.op = "mesh"

MeshStages(K) == {i \in DOMAIN K.stages : on_mesh(K.stages[i])}

Prev(K, i) == IF i = 1 THEN INPUT ELSE K.stages[i - 1].name
Lhs(K, i)  == IF K.stages[i].lhs = "" THEN Prev(K, i) ELSE K.stages[i].lhs
Srcs(K, i) == IF K.stages[i].srcs = <<>> THEN <<Prev(K, i)>> ELSE K.stages[i].srcs

Flip(shape) == <<shape[2], shape[1]>>

(* What the dataclasses hold: every stage has its fields, and shapes are pairs. *)
KernelType ==
  [x : Nat \X Nat,
   stages : Seq([name : STRING, op : STRING, weight : {<<>>} \cup Nat \X Nat, lhs : STRING, rhs : STRING,
                 rT : BOOLEAN, srcs : Seq(STRING), fn : BOOLEAN])]

(* What a stage may refer to, and what shapes looks up; anything else is a KeyError. *)
Before(K, i) == {INPUT} \cup {K.stages[j].name : j \in 1 .. i - 1}

resolved(K) ==
  \A i \in DOMAIN K.stages :
    LET st == K.stages[i]
    IN  IF on_mesh(st) THEN {Lhs(K, i)} \cup (IF st.weight = <<>> THEN {st.rhs} ELSE {}) \subseteq Before(K, i)
        ELSE Srcs(K, i)[1] \in Before(K, i)

(* out[name] = v in a dict that starts with the input. *)
Put(out, name, v) == [y \in DOMAIN out \cup {name} |-> IF y = name THEN v ELSE out[y]]

(* {**g, **f}: the entries of f over those of g. *)
Over(f, g) == [y \in DOMAIN f \cup DOMAIN g |-> IF y \in DOMAIN f THEN f[y] ELSE g[y]]

(* The shape a stage produces from the shapes before it. *)
ShapeOf(K, i, sh) ==
  LET st == K.stages[i]
      rhs == IF st.weight # <<>> THEN st.weight
             ELSE IF st.rT THEN Flip(sh[st.rhs]) ELSE sh[st.rhs]
  IN  IF on_mesh(st) THEN <<sh[Lhs(K, i)][1], rhs[2]>> ELSE sh[Srcs(K, i)[1]]

(* The shape of every value. *)
shapes(K) ==
  LET upto[i \in 0 .. Len(K.stages)] ==
        IF i = 0 THEN [y \in {INPUT} |-> K.x]
        ELSE Put(upto[i - 1], K.stages[i].name, ShapeOf(K, i, upto[i - 1]))
  IN  upto[Len(K.stages)]

(* <<M, K, N>> of a mesh stage. *)
stage_mnk(K, i) ==
  LET sh == shapes(K)
      st == K.stages[i]
  IN  <<sh[Lhs(K, i)][1], sh[Lhs(K, i)][2], sh[st.name][2]>>

is_chain(K) ==
  \A i \in DOMAIN K.stages :
    /\ on_mesh(K.stages[i])
    /\ K.stages[i].weight # <<>>
    /\ Lhs(K, i) = Prev(K, i)

(* The legality check made before any build: no unresolved reference, dim 16, groups of 32. *)
validate(K) ==
  /\ resolved(K)
  /\ \A i \in MeshStages(K) :
       LET s == stage_mnk(K, i)
       IN  /\ s[1] % 16 = 0
           /\ s[2] % BLOCK = 0
           /\ s[3] % 16 = 0
           /\ is_chain(K) /\ i < Len(K.stages) => s[3] % BLOCK = 0

----------------------------------------------------------------------------
(* Terms: what a value is computed from. *)

Leaf(name)   == <<name>>
Weight(name) == <<"W", name>>
T(t)         == <<"T">> \o t                  \* a transpose on the scalar core
QA(t)        == <<"qa">> \o t                 \* quantized on the host, blocked by rows
QB(t)        == <<"qb">> \o t                 \* quantized on the host, blocked by columns
Requant(t)   == <<"rq">> \o t                 \* quantized by the device's requantizer
MM(a, b)     == <<"mm">> \o a \o b            \* one matmul on the mesh
Host(op, ts) == <<op>> \o IF Len(ts) = 1 THEN ts[1] ELSE ts[1] \o ts[2]

(* The value a stage computes from the values v before it, when edges says of *)
(* each how it reached the next matmul.                                       *)
ValueOf(K, edges, i, v) ==
  LET st == K.stages[i]
      a == IF Lhs(K, i) \in DOMAIN edges /\ edges[Lhs(K, i)] = "requant"
           THEN Requant(v[Lhs(K, i)]) ELSE QA(v[Lhs(K, i)])
      b == QB(IF st.weight # <<>> THEN Weight(st.name)
              ELSE IF st.rT THEN T(v[st.rhs]) ELSE v[st.rhs])
  IN  IF on_mesh(st) THEN MM(a, b)
      ELSE Host(st.op, [s \in DOMAIN Srcs(K, i) |-> v[Srcs(K, i)[s]]])

(* models/mxquant/kernel.py _walk: the value of every stage. *)
Walk(K, edges) ==
  LET upto[i \in 0 .. Len(K.stages)] ==
        IF i = 0 THEN [y \in {INPUT} |-> Leaf(INPUT)]
        ELSE Put(upto[i - 1], K.stages[i].name, ValueOf(K, edges, i, upto[i - 1]))
  IN  upto[Len(K.stages)]

----------------------------------------------------------------------------
(* The wire bytes of an operand (compiler/operands.py quantize_operand): the *)
(* packed shape of the codes, the shape of the scales, the book they index.  *)

PackedA(m, k, f) == <<m \div packed_per_byte(f), k>>
PackedB(k, n, f) == <<k, n \div packed_per_byte(f)>>

Book(f, t)  == IF FORMATS[f].lut THEN <<"book">> \o t ELSE <<>>

----------------------------------------------------------------------------
(* The fused lowering: a chain becomes one command buffer. *)

Handle(i) == <<"res", i>>
Acc(i)    == <<"acc", i>>
WName(i)  == <<"W", i>>
TName(i)  == <<"T", i>>
XName     == <<"X", 0>>
YName     == <<"Y", 0>>
OutName(K, i) == IF i = Len(K.stages) THEN YName ELSE TName(i)
InName(i)     == IF i = 1 THEN XName ELSE TName(i - 1)

Cmd(op, dst, src, lhs, rhs, dtype) ==
  [opcode |-> op, dst |-> dst, src |-> src, lhs |-> lhs, rhs |-> rhs, dtype |-> dtype]

(* Leaf tensors only, four commands per matmul; an intermediate is named by *)
(* its COMMIT and carries the operand format, the last one bf16.            *)
command_buffer(K, dtype) ==
  LET n == Len(K.stages)
      mlir == FORMATS[dtype].mlir
      leaf(shape) == [shape |-> shape, dtype |-> mlir]
      four(i) ==
        << Cmd("RES_PACK", Handle(i), WName(i), "", "", ""),
           Cmd("MATMUL_RESIDENT", Acc(i), "", InName(i), Handle(i), ""),
           Cmd("COMMIT", OutName(K, i), Acc(i), "", "", IF i = n THEN BF16 ELSE mlir),
           Cmd("EVICT", "", Handle(i), "", "", "") >>
  IN  [tensors  |-> Put([w \in {WName(i) : i \in 1 .. n} |-> leaf(Tail(stage_mnk(K, w[2])))],
                        XName, leaf(K.x)),
       commands |-> [c \in 1 .. 4 * n |-> four((c - 1) \div 4 + 1)[((c - 1) % 4) + 1]]]

(* One bundle of wire bytes per stage.  Only the first carries an A operand; *)
(* a chained stage's A book is the book the previous stage committed with,   *)
(* chosen beforehand from an estimate, and the last stage's C book is unused *)
(* but loaded.  luts: how many books each side has, and their words.         *)
Bundles(K, dtype, g) ==
  LET est(i) == Book(dtype, <<"est", K.stages[i].name>>)
      bookA(i) == IF i = 1 THEN Book(dtype, Leaf(INPUT)) ELSE est(i - 1)
      bundle(i) ==
        LET s == stage_mnk(K, i)
        IN  [a |-> IF i = 1 THEN Leaf(INPUT) ELSE <<>>,
             b |-> Weight(K.stages[i].name),
             a_codes |-> IF i = 1 THEN PackedA(K.x[1], K.x[2], dtype) ELSE <<>>,
             b_codes |-> PackedB(K.stages[i].weight[1], K.stages[i].weight[2], dtype),
             a_lut |-> bookA(i),
             b_lut |-> Book(dtype, Weight(K.stages[i].name)),
             c_lut |-> IF i = Len(K.stages) THEN bookA(i) ELSE est(i),
             luts |-> IF FORMATS[dtype].lut
                      THEN <<s[3] \div 2 ^ g, s[1] \div 2 ^ g, lut_words(FORMATS[dtype].entry_bits)>>
                      ELSE <<>>]
  IN  [i \in DOMAIN K.stages |-> bundle(i)]

----------------------------------------------------------------------------
(* The graph lowering: every edge goes through fp32 in host memory. *)

(* How the mesh consumes a value: A by rows, B by columns, B transposed. *)
Uses(K) ==
  UNION {{<<Lhs(K, i), "a">>} \cup
         (IF K.stages[i].weight # <<>> THEN {}
          ELSE {<<K.stages[i].rhs, IF K.stages[i].rT THEN "bT" ELSE "b">>})
         : i \in MeshStages(K)}

MeshStep(K, i) ==
  LET s == stage_mnk(K, i)
      st == K.stages[i]
  IN  [op |-> "mesh", out |-> st.name, srcs |-> <<Lhs(K, i)>>, m |-> s[1], k |-> s[2], n |-> s[3],
       rhs |-> IF st.weight # <<>> THEN <<"W", st.name>> ELSE <<st.rhs>>,
       how |-> IF st.rT THEN "bT" ELSE "b"]

HostStep(K, i) ==
  LET st == K.stages[i]
      s == shapes(K)[st.name]
  IN  [op |-> st.op, out |-> st.name, srcs |-> Srcs(K, i), m |-> s[1], k |-> 0, n |-> s[2],
       rhs |-> <<>>, how |-> ""]

from_spec(K) ==
  [i \in DOMAIN K.stages |-> IF on_mesh(K.stages[i]) THEN MeshStep(K, i) ELSE HostStep(K, i)]

----------------------------------------------------------------------------
GRAPH_DTYPE == "fp8_e4m3"   \* the only format the host re-quantizes

(* Which lowering, or the refusal that stops it: a python closure cannot be *)
(* emitted, a graph is re-quantized in one format only, and a codebook      *)
(* format may be unfit for a chain.                                         *)
lower(K, dtype, allow_lossy_chain) ==
  LET kind == IF is_chain(K) THEN "fused"
              ELSE IF \E i \in DOMAIN K.stages : K.stages[i].fn THEN "per_stage"
              ELSE "graph"
      refused == \/ kind = "graph" /\ dtype # GRAPH_DTYPE
                 \/ kind = "fused" /\ Len(K.stages) > 1 /\ chain_refusal(dtype)
                    /\ ~allow_lossy_chain
  IN  [kind |-> IF refused THEN "refused" ELSE kind,
       edges |-> [s \in {K.stages[i].name : i \in MeshStages(K)} |->
                    IF kind = "fused" THEN "requant" ELSE "host"]]
===============================================================================
