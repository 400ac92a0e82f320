-------------------------------- MODULE MxEmit --------------------------------
(***************************************************************************)
(* The backend: a command buffer becomes the program of one ELF.           *)
(*                                                                         *)
(* mxgemm_emit.py plans a chain (plan_chain, _plan_stage, _validate,       *)
(* _assign_smem), holds the operand bundles to the plan (_mx_operands) and *)
(* emits it; mxgraph_emit.py emits a graph step by step.  A refusal        *)
(* (MxEmitError) is a plan whose field "why" is not "".  A program is a    *)
(* sequence of instructions; a scratchpad address is counted in rows of    *)
(* dim bytes, a host buffer is <<name, view>>.                             *)
(***************************************************************************)
EXTENDS MxKernel, MxRecipe, SequencesExt

(* P is cb["params"] (emitter_params); DEFAULT_GEOMETRY holds spad_dest 128. *)
spad_rows(P) == P.bank_num * P.bank_rows
spad_dest == 128

----------------------------------------------------------------------------
(* MxGemmPlan and what it derives. *)

tiles_i(p) == p.m \div FORMATS[p.act_fmt].tile
tiles_j(p) == p.n \div FORMATS[p.wgt_fmt].tile
tiles_k(p) == p.k \div TILE_K
b_base(p)  == p.rows - tiles_k(p) * tiles_j(p) * p.dim
out_bits(p) == IF p.out_fmt = BF16 THEN 16 ELSE FORMATS[p.out_fmt].bits
out_rows(p) == (p.m * p.n * out_bits(p)) \div (8 * p.dim)  \* of the drained output, in scratchpad rows
smem_rows(p) == (p.m * p.n + p.dim - 1) \div p.dim
IsLut(p) == FORMATS[p.act_fmt].lut \/ FORMATS[p.wgt_fmt].lut

(* The contract's legality block. *)
_validate(p, P) ==
  IF p.k % BLOCK # 0 THEN "block-scale group"
  ELSE IF \/ p.m % FORMATS[p.act_fmt].tile # 0
          \/ p.n % FORMATS[p.wgt_fmt].tile # 0
          \/ p.k % TILE_K # 0 THEN "mesh tile"
  ELSE IF b_base(p) <= tiles_i(p) * tiles_k(p) * p.dim THEN "scratchpad overflow"
  ELSE IF p.out_fmt # BF16 /\ p.n % BLOCK # 0 THEN "output block"
  ELSE IF ~IsLut(p) THEN ""
  ELSE IF \/ p.n % 2 ^ P.lut_group # 0
          \/ p.m % 2 ^ P.lut_group # 0 THEN "LUT group"
  ELSE IF \/ p.n \div 2 ^ P.lut_group > P.lut_tables[1]
          \/ p.m \div 2 ^ P.lut_group > P.lut_tables[2]
          \/ p.m \div 2 ^ P.lut_group > P.lut_tables[3] THEN "LUT capacity"
  ELSE ""

MxGemmPlan(a, w, lhs, weight, cmd, P) ==
  [m |-> a.shape[1], k |-> a.shape[2], n |-> w.shape[2],
   act_fmt |-> get(a.dtype), wgt_fmt |-> get(w.dtype),
   out_fmt |-> IF cmd.dtype = BF16 THEN BF16 ELSE get(cmd.dtype),
   lhs |-> lhs, weight |-> weight, out |-> cmd.dst,
   dim |-> P.dim, rows |-> spad_rows(P), spad_dest |-> spad_dest, a_spad |-> 0,
   chained_in |-> FALSE, chained_out |-> FALSE]

PlanRefusal(p, P) ==
  IF "none" \in {p.out_fmt, p.act_fmt, p.wgt_fmt} THEN "dtype"
  ELSE IF IsLut(p) /\ P.lut_tables = <<>> THEN "no LUT plan"
  ELSE _validate(p, P)

Staged(s, p, why, cmd) ==
  IF why # "" THEN [s EXCEPT !.why = why]
  ELSE [s EXCEPT !.plans = Append(@, p),
                 !.tensors = Put(@, cmd.dst, [shape |-> <<p.m, p.n>>, dtype |-> cmd.dtype])]

StageOf(s, p, cmd, P) == Staged(s, p, PlanRefusal(p, P), cmd)

(* One stage; the commit's output becomes a tensor for the stage after it. *)
_plan_stage(s, lhs, weight, cmd, P) ==
  LET a == s.tensors[lhs]
      w == s.tensors[weight]
  IN  IF ~({lhs, weight} \subseteq DOMAIN s.tensors) THEN [s EXCEPT !.why = "missing tensor"]
      ELSE IF s.plans # <<>> /\ lhs # Last(s.plans).out THEN [s EXCEPT !.why = "not a chain"]
      ELSE IF a.shape[2] # w.shape[1] THEN [s EXCEPT !.why = "contraction mismatch"]
      ELSE StageOf(s, MxGemmPlan(a, w, lhs, weight, cmd, P), cmd, P)

Drop(f, x) == [y \in DOMAIN f \ {x} |-> f[y]]

(* plan_chain's loop over the commands. *)
PlanCommand(s, cmd, P) ==
  IF s.why # "" THEN s
  ELSE CASE cmd.opcode = "RES_PACK" ->
              [s EXCEPT !.res_src = Put(@, cmd.dst, cmd.src)]
         [] cmd.opcode = "MATMUL_RESIDENT" ->
              IF cmd.rhs \notin DOMAIN s.res_src THEN [s EXCEPT !.why = "rhs not packed"]
              ELSE [s EXCEPT !.pending = Put(@, cmd.dst, <<cmd.lhs, s.res_src[cmd.rhs]>>)]
         [] cmd.opcode = "COMMIT" ->
              IF cmd.src \notin DOMAIN s.pending THEN [s EXCEPT !.why = "no accumulator"]
              ELSE _plan_stage([s EXCEPT !.pending = Drop(@, cmd.src)],
                               s.pending[cmd.src][1], s.pending[cmd.src][2], cmd, P)
         [] cmd.opcode = "EVICT" -> [s EXCEPT !.res_src = Drop(@, cmd.src)]

(* Disjoint output regions growing up, checked against the B tiles growing *)
(* down, and the residency of the chain.                                   *)
_assign_smem(plans) ==
  LET n == Len(plans)
      dest[i \in 1 .. n + 1] == IF i = 1 THEN plans[1].spad_dest
                                ELSE dest[i - 1] + smem_rows(plans[i - 1])
      why == IF n = 1 THEN ""
             ELSE IF \E i \in 1 .. n : dest[i + 1] > plans[1].rows THEN "shared memory exhausted"
             ELSE IF \E i \in 1 .. n : dest[n + 1] > b_base(plans[i]) THEN "region overlaps B"
             ELSE ""
  IN  [why |-> why,
       plans |-> IF n = 1 THEN plans
                 ELSE [i \in 1 .. n |->
                        [plans[i] EXCEPT !.spad_dest = dest[i], !.chained_in = (i > 1),
                                         !.chained_out = (i < n),
                                         !.a_spad = IF i > 1 THEN dest[i - 1] ELSE 0]]]

ChainOf(s) ==
  LET seam == \E i \in 1 .. Len(s.plans) - 1 : \/ s.plans[i].out_fmt = BF16
                                               \/ s.plans[i].out_fmt # s.plans[i + 1].act_fmt
      refused(why) == [why |-> why, plans |-> <<>>]
  IN  IF s.why # "" THEN refused(s.why)
      ELSE IF s.plans = <<>> THEN refused("no matmul")
      ELSE IF DOMAIN s.pending # {} THEN refused("no commit")
      ELSE IF seam THEN refused("seam format")
      ELSE _assign_smem(s.plans)

plan_chain(cb, P) ==
  LET after[c \in 0 .. Len(cb.commands)] ==
        IF c = 0 THEN [tensors |-> cb.tensors, res_src |-> <<>>, pending |-> <<>>, plans |-> <<>>, why |-> ""]
        ELSE PlanCommand(after[c - 1], cb.commands[c], P)
  IN  ChainOf(after[Len(cb.commands)])

(* The bundles against the plan: packed shapes, the books' number and width, *)
(* one book per seam.                                                        *)
_mx_operands(bundles, plans, P) ==
  LET n == Len(plans)
      shapesOk(i) ==
        LET p == plans[i]
        IN  /\ bundles[i].b_codes = PackedB(p.k, p.n, p.wgt_fmt)
            /\ bundles[i].a_codes = IF i = 1 THEN PackedA(p.m, p.k, p.act_fmt) ELSE <<>>
      lutsOk(i) ==
        LET p == plans[i]
        IN  IsLut(p) => bundles[i].luts =
              <<p.n \div 2 ^ P.lut_group, p.m \div 2 ^ P.lut_group,
                lut_words(FORMATS[p.act_fmt].entry_bits)>>
  IN  IF Len(bundles) # n THEN "bundle count"
      ELSE IF \E i \in 1 .. n : ~shapesOk(i) THEN "operand shape"
      ELSE IF \E i \in 1 .. n : ~lutsOk(i) THEN "LUT shape"
      ELSE IF \E i \in 2 .. n : /\ FORMATS[plans[i].act_fmt].lut
                                /\ bundles[i].a_lut # bundles[i - 1].c_lut THEN "seam book"
      ELSE ""

----------------------------------------------------------------------------
(* Instructions.  Addresses of tiles: A slot i*tiles_K + k from a_base, B   *)
(* slot k*tiles_J + j from the base of the B tiles.                         *)

Fence == [op |-> "fence"]

config_ex(a, b, out) ==
  [op |-> "config_ex", code |-> FORMATS[a].fmt_code, altfmt |-> FORMATS[b].altfmt,
   out |-> IF out = BF16 THEN BF16_FMT_CODE ELSE FORMATS[out].fmt_code,
   out_fmt |-> out]

load_scales(buf, sel) == [op |-> "load_scales", buf |-> buf, sel |-> sel]

(* One mvin per tile: <<scratchpad row, row and column of the source in bytes>>; *)
(* the source is an array whose rows are width bytes, walked with stride.        *)
Moves(base, rows, cols, stride, width, dim, n0) ==
  {LET off == x[1] * dim * stride + n0 + x[2] * dim
   IN  <<base + (x[1] * cols + x[2]) * dim, off \div width, off % width>> : x \in (0 .. rows - 1) \X (0 .. cols - 1)}

mvin_A(buf, base, ti, tk, stride, width, dim) ==
  [op |-> "mvin", buf |-> buf, lay |-> "a", moves |-> Moves(base, ti, tk, stride, width, dim, 0)]

mvin_B(buf, base, tk, tj, stride, width, dim, n0) ==
  [op |-> "mvin", buf |-> buf, lay |-> "b", moves |-> Moves(base, tk, tj, stride, width, dim, n0)]

(* config_mvout and LOOP_WS: tiled is rs2 bit 10, resident rs1 bit 63. *)
loop_ws(I, J, K, a, b_end, c, tiled, resident, scales) ==
  [op |-> "loop_ws", I |-> I, J |-> J, K |-> K, a |-> a, b_end |-> b_end, c |-> c,
   tiled |-> tiled, resident |-> resident, scales |-> scales]

(* Contiguous rows of the scratchpad into dst; tiled: put back in row-major *)
(* order on the host afterwards.  cols: the width of dst.                   *)
mvout(dst, src, rows, cols, tiled) ==
  [op |-> "mvout", dst |-> dst, src |-> src, rows |-> rows, cols |-> cols, tiled |-> tiled]

report(name, buf, n) == [op |-> "report", name |-> name, buf |-> buf, n |-> n]

----------------------------------------------------------------------------
(* A single matmul and a chain. *)

(* A bug: the scales are loaded and not waited for. *)
emit_load_scales_NoFence(p) ==
  (IF p.chained_in THEN <<>> ELSE <<load_scales(<<p.lhs, "a">>, 0)>>)
  \o <<load_scales(<<p.weight, "b">>, 1)>>

emit_load_scales(p) ==
  (IF p.chained_in THEN <<>> ELSE <<load_scales(<<p.lhs, "a">>, 0)>>)
  \o <<load_scales(<<p.weight, "b">>, 1), Fence>>

_emit_load_luts(p, bundle, P) ==
  IF ~IsLut(p) THEN <<>>
  ELSE <<[op |-> "load_luts", books |-> <<bundle.b_lut, bundle.a_lut, bundle.c_lut>>,
          luts |-> bundle.luts, group |-> P.lut_group]>>

_emit_mvin(p) ==
  (IF p.chained_in THEN <<>>
   ELSE <<mvin_A(<<p.lhs, "a">>, p.a_spad, tiles_i(p), tiles_k(p), p.k, p.k, p.dim)>>)
  \o LET row == p.n \div packed_per_byte(p.wgt_fmt)
     IN  <<mvin_B(<<p.weight, "b">>, b_base(p), tiles_k(p), tiles_j(p), row, row, p.dim, 0)>>

_emit_mesh(p) ==
  <<loop_ws(tiles_i(p), tiles_j(p), tiles_k(p), p.a_spad, p.rows, p.spad_dest,
            p.chained_out, p.chained_out, <<p.out, "scales">>)>>

emit_drain(p) == <<Fence, mvout(<<p.out, "out">>, p.spad_dest, out_rows(p), p.n, FALSE)>>

(* What is reported; an intermediate is first read back and de-tiled. *)
_emit_report(p) ==
  (IF p.chained_out
   THEN <<mvout(<<p.out, "out">>, p.spad_dest, out_rows(p), p.n, TRUE), Fence>> ELSE <<>>)
  \o <<report(<<p.out, "out">>, <<p.out, "out">>, p.n)>>
  \o IF p.out_fmt = BF16 THEN <<>> ELSE <<report(<<p.out, "scales">>, <<p.out, "scales">>, p.m)>>

Matmul(p, bundle, P) ==
  <<config_ex(p.act_fmt, p.wgt_fmt, p.out_fmt)>>
  \o _emit_load_luts(p, bundle, P) \o emit_load_scales(p) \o _emit_mvin(p) \o _emit_mesh(p)
  \o (IF p.chained_out THEN <<>> ELSE emit_drain(p)) \o <<Fence>>

_emit_single(p, bundle, P) == Matmul(p, bundle, P) \o _emit_report(p)

(* Nothing sits between two stages; the reports follow the last of them. *)
_emit_chain(plans, bundles, P) ==
  FlattenSeq([i \in DOMAIN plans |-> Matmul(plans[i], bundles[i], P)])
  \o FlattenSeq([i \in DOMAIN plans |-> _emit_report(plans[i])])

generate_driver(plans, bundles, P) ==
  IF Len(plans) = 1 THEN _emit_single(plans[1], bundles[1], P) ELSE _emit_chain(plans, bundles, P)

(* A buffer's contents: the term, the format and book it is encoded with, *)
(* and the columns [lo, lo + cols) of the value it holds.                 *)
Value(t, f, bk, cols) == [t |-> t, f |-> f, bk |-> bk, lo |-> 0, cols |-> cols]

(* The baked operands. *)
ChainData(plans, bundles) ==
  Put([b \in {<<plans[i].weight, "b">> : i \in DOMAIN plans} |->
         LET i == CHOOSE j \in DOMAIN plans : plans[j].weight = b[1]
         IN  Value(QB(bundles[i].b), plans[i].wgt_fmt, bundles[i].b_lut, plans[i].n)],
      <<plans[1].lhs, "a">>, Value(QA(bundles[1].a), plans[1].act_fmt, bundles[1].a_lut, plans[1].m))

----------------------------------------------------------------------------
(* The graph: a sequence of host and mesh steps through host memory. *)

Float(v)   == <<v, "f32">>
ReadsBits  == {"softmax", "rope"}         \* host ops that read the bf16 of their source
OpSource(st, v) == IF st.op \in ReadsBits THEN <<v, "bf16">> ELSE Float(v)

(* Hand a produced value back to the mesh, on every side that uses it. *)
_emit_uses(v, m, n, uses, from_bf16, host_f32) ==
  LET quant(how) == IF <<v, how>> \notin uses THEN <<>>
                    ELSE <<[op |-> "quantize", how |-> how, src |-> Float(v), dst |-> <<v, how>>,
                            m |-> m, n |-> n]>>
  IN  (IF from_bf16 /\ (host_f32 \/ \E how \in {"a", "b", "bT"} : <<v, how>> \in uses)
       THEN <<[op |-> "to_f32", src |-> <<v, "bf16">>, dst |-> Float(v), n |-> n]>> ELSE <<>>)
      \o quant("a") \o quant("b") \o quant("bT")

_emit_host_step(st, uses) ==
  <<[op |-> "host", f |-> st.op, srcs |-> [i \in DOMAIN st.srcs |-> OpSource(st, st.srcs[i])],
     dst |-> Float(st.out), n |-> st.n]>>
  \o _emit_uses(st.out, st.m, st.n, uses, FALSE, FALSE)

(* N is halved until A, B and the bf16 output of a chunk fit together. *)
ChunkWidth(st, tile, rows, dim) ==
  LET fits(nc) == (st.m * st.k) \div dim + (st.k * nc) \div dim + (st.m * nc * 2) \div dim <= rows
      w[nc \in 0 .. st.n] == IF nc < tile \/ fits(nc) THEN nc ELSE w[nc \div 2]
  IN  w[st.n]

(* A bug (the code before 2026-09-29): a chunk's result lands on the A tiles. *)
ChunkDest_OnA(st, dim) == spad_dest

ChunkDest(st, dim) == LET a_rows == (st.m * st.k) \div dim
                      IN  IF a_rows > spad_dest THEN a_rows ELSE spad_dest

MeshRefused(st, tile, P) ==
  LET nc == ChunkWidth(st, tile, spad_rows(P), P.dim)
      b_spad == spad_rows(P) - (st.k \div P.dim) * (nc \div P.dim) * P.dim
  IN  \/ nc < tile
      \/ st.n % nc # 0
      \/ nc < st.n /\ ChunkDest(st, P.dim) + (st.m * nc * 2) \div P.dim > b_spad

(* One matmul on columns [n0, n0 + nc) of B, drained into dst. *)
MeshPart(st, b, n0, nc, tile, dest, dst, P) ==
  LET tj == nc \div P.dim
      tk == st.k \div P.dim
  IN  << mvin_B(b, spad_rows(P) - tk * tj * P.dim, tk, tj, st.n, st.n, P.dim, n0),
         loop_ws(st.m \div tile, nc \div tile, tk, 0, spad_rows(P), dest, FALSE, FALSE,
                 <<"scale_factors", "scales">>),
         Fence, Fence, mvout(dst, dest, (st.m * nc * 2) \div P.dim, nc, FALSE), Fence >>

_emit_mesh_step(st, uses, host_f32, P) ==
  LET tile == FORMATS[GRAPH_DTYPE].tile
      nc == ChunkWidth(st, tile, spad_rows(P), P.dim)
      a == <<st.srcs[1], "a">>
      b == <<st.rhs[Len(st.rhs)], IF Len(st.rhs) = 2 THEN "W" ELSE st.how>>
      out == <<st.out, "bf16">>
      chunk(c) == LET n0 == (c - 1) * nc
                  IN  << [op |-> "slice_scales", src |-> b, lo |-> n0, cols |-> nc],
                         load_scales(<<"bsc", "scales">>, 1), Fence >>
                      \o MeshPart(st, b, n0, nc, tile, ChunkDest(st, P.dim), <<"chunk", "part">>, P)
                      \o << [op |-> "paste_cols", dst |-> out, src |-> <<"chunk", "part">>, n0 |-> n0] >>
  IN  << config_ex(GRAPH_DTYPE, GRAPH_DTYPE, BF16),
         load_scales(a, 0),
         mvin_A(a, 0, st.m \div P.dim, st.k \div P.dim, st.k, st.k, P.dim) >>
      \o (IF nc < st.n THEN FlattenSeq([c \in 1 .. st.n \div nc |-> chunk(c)])
          ELSE <<load_scales(b, 1), Fence>> \o MeshPart(st, b, 0, nc, tile, spad_dest, out, P))
      \o _emit_uses(st.out, st.m, st.n, uses, TRUE, st.out \in host_f32)

generate_graph_driver(K, P) ==
  LET steps == from_spec(K)
      uses == Uses(K)
      host_f32 == UNION {ToSet(steps[i].srcs) :
                           i \in {j \in DOMAIN steps : steps[j].op \notin {"mesh"} \cup ReadsBits}}
  IN  FlattenSeq([i \in DOMAIN steps |->
                    IF steps[i].op = "mesh" THEN _emit_mesh_step(steps[i], uses, host_f32, P)
                    ELSE _emit_host_step(steps[i], uses)])
      \o <<report(<<YName, "out">>, <<steps[Len(steps)].out, "bf16">>, steps[Len(steps)].n)>>

(* The baked leaves: quantized on the side a matmul uses, as fp32 where a host *)
(* op reads one, and the weights.                                              *)
GraphData(K) ==
  LET leaf == Leaf(INPUT)
      hosts == {i \in DOMAIN K.stages : ~on_mesh(K.stages[i])}
      quantized == {u \in Uses(K) : u[1] = INPUT}
      weights == {i \in MeshStages(K) : K.stages[i].weight # <<>>}
      onMesh == [u \in quantized |->
         Value(IF u[2] = "a" THEN QA(leaf) ELSE QB(IF u[2] = "bT" THEN T(leaf) ELSE leaf),
               GRAPH_DTYPE, <<>>, IF u[2] = "b" THEN K.x[2] ELSE K.x[1])]
      onHost == [b \in {Float(INPUT) : i \in {j \in hosts : INPUT \in ToSet(Srcs(K, j))}} |->
                   Value(leaf, BF16, <<>>, K.x[2])]
  IN  Over(onMesh,
        Over([b \in {<<K.stages[i].name, "W">> : i \in weights} |->
                LET i == CHOOSE j \in weights : K.stages[j].name = b[1]
                IN  Value(QB(Weight(b[1])), GRAPH_DTYPE, <<>>, K.stages[i].weight[2])],
             onHost))

Emittable == {"softmax", "rmsnorm", "rope", "swiglu", "add"}

(* gcc refuses a driver that reads a buffer no step declares: the bf16 of a *)
(* value is declared only when the mesh produces it.  The emitter refuses a *)
(* host op it has no C for.                                                 *)
GraphCompiles(K) ==
  LET bits(v) == \E i \in MeshStages(K) : K.stages[i].name = v
  IN  /\ \A i \in DOMAIN K.stages : on_mesh(K.stages[i]) \/ K.stages[i].op \in Emittable
      /\ bits(K.stages[Len(K.stages)].name)
      /\ \A i \in DOMAIN K.stages :
           K.stages[i].op \in ReadsBits => bits(Srcs(K, i)[1])
===============================================================================
