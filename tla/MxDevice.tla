------------------------------- MODULE MxDevice -------------------------------
(***************************************************************************)
(* One ELF from its kernel to its console: the lowering and the backend    *)
(* compile a case, and the accelerator (external: gemmini) runs the        *)
(* program.  Commands take effect in order, except the two kinds of DMA    *)
(* the program has to fence: MX_LOAD_SCALES reads its host buffer and      *)
(* fills the scale window at any moment until a fence, and an MVOUT's      *)
(* bytes reach the host at any moment until a fence.                       *)
(***************************************************************************)
EXTENDS MxEmit

CONSTANTS
  Kernels,      \* the kernels compiled
  HardwareFiles, RunFiles,   \* the raw recipes
  Scratchpad,   \* KERNEL_SCRATCHPAD: the <<BANK_NUM, BANK_ROWS>> libgemmini is built with
  Drops,        \* 0, or the command a malformed command buffer lacks
  Oversize      \* are programs run whose output does not fit the scratchpad?

ASSUME DeviceAssumption == /\ Kernels \subseteq KernelType
                           /\ Scratchpad \in Nat \X Nat
                           /\ Drops \subseteq Nat /\ Oversize \in BOOLEAN

VARIABLES
  prog,         \* the instructions still to run
  want,         \* what must be reported: the walk of the reference
  unit,         \* the LUT unit the chip was built with
  mem,          \* host buffers
  spad,         \* scratchpad rows, by the address of their slot
  scale,        \* the two scale windows: <<activations, weights>>
  lut,          \* the books loaded, <<B, A, C>>; empty while lut_en is clear
  cfg,          \* the last CONFIG_EX
  loads,        \* scale loads in flight
  stores,       \* drained bytes in flight
  outs          \* what was reported

vars == <<prog, want, unit, mem, spad, scale, lut, cfg, loads, stores, outs>>

Dim == 16            \* of the mesh

Garbage == <<"?">>
Zero    == Value(<<"0">>, BF16, <<>>, 0)
At(f, x, default) == IF x \in DOMAIN f THEN f[x] ELSE default
Buffer(b) == At(mem, b, Zero)

----------------------------------------------------------------------------
(* Compilation. *)

Refused(why) == [why |-> why, prog |-> <<>>, data |-> <<>>, want |-> <<>>]

(* Every stage of a chain is reported, an intermediate as the requantizer's *)
(* codes and scales; a graph reports its result.                            *)
Wanted(K, kind, edges) ==
  LET v == Walk(K, edges)
      n == Len(K.stages)
      part(i) == Requant(v[K.stages[i].name])
  IN  Put(IF kind = "graph" THEN <<>>
          ELSE [o \in {TName(i) : i \in 1 .. n - 1} \X {"out", "scales"} |-> part(o[1][2])],
          <<YName, "out">>, v[K.stages[n].name])

Malformed(cb, drop) == IF drop \in DOMAIN cb.commands
                       THEN [cb EXCEPT !.commands = RemoveAt(@, drop)] ELSE cb

(* A fused lowering estimates the intermediates under the names T0, T1, ... *)
EmitChain(K, P, edges, plan, bundles) ==
  IF plan.why # "" THEN Refused(plan.why)
  ELSE IF _mx_operands(bundles, plan.plans, P) # "" THEN Refused("operands")
  ELSE [why |-> "", prog |-> generate_driver(plan.plans, bundles, P),
        data |-> ChainData(plan.plans, bundles), want |-> Wanted(K, "fused", edges)]

CompileChain(K, dtype, P, drop, edges) ==
  EmitChain(K, P, edges, plan_chain(Malformed(command_buffer(K, dtype), drop), P),
            Bundles(K, dtype, P.lut_group))

CompileGraph(K, P, edges) ==
  LET steps == from_spec(K)
      refused == \E i \in DOMAIN steps :
                   steps[i].op = "mesh" /\ MeshRefused(steps[i], FORMATS[GRAPH_DTYPE].tile, P)
  IN  IF refused THEN Refused("does not fit")
      ELSE IF ~GraphCompiles(K) THEN Refused("gcc")
      ELSE [why |-> "", prog |-> generate_graph_driver(K, P), data |-> GraphData(K),
            want |-> Wanted(K, "graph", edges)]

CompileLowered(K, low, dtype, P, drop) ==
  CASE low.kind = "fused" -> CompileChain(K, dtype, P, drop, low.edges)
    [] low.kind = "graph" -> CompileGraph(K, P, low.edges)
    [] OTHER -> Refused(low.kind)

Compile(K, hw, run, drop) ==
  IF ~check(hw, run, "kernel", Scratchpad) THEN Refused("recipe")
  ELSE IF ~validate(K) THEN Refused("validate")
  ELSE CompileLowered(K, lower(K, run.operand_fmt, run.allow_lossy_chain), run.operand_fmt,
                      emitter_params(hw, run), drop)

(* The emitters do not check that a drained output lies inside the scratchpad, *)
(* nor that a chunk of a graph is a whole number of tiles wide.                *)
Fits(p) ==
  \A i \in DOMAIN p :
    p[i].op = "mvout" => /\ p[i].src + p[i].rows <= Scratchpad[1] * Scratchpad[2]
                         /\ p[i].cols % Dim = 0

Loaded(c, lutUnit) ==
  /\ c.why = ""
  /\ Oversize \/ Fits(c.prog)
  /\ prog = c.prog
  /\ want = c.want
  /\ unit = lutUnit
  /\ mem = c.data
  /\ spad = <<>> /\ outs = <<>>
  /\ scale = <<Zero, Zero>> /\ lut = <<>>
  /\ cfg = config_ex("fp8_e4m3", "fp8_e4m3", BF16)
  /\ loads = {} /\ stores = {}

Init ==
  \E K \in Kernels, drop \in Drops,
     hf \in {f \in HardwareFiles : parse_hardware(f)}, rf \in {f \in RunFiles : parse_run(f)} :
    Loaded(Compile(K, Hardware(hf), Run(rf), drop), hf.mx.lut)

----------------------------------------------------------------------------
(* The accelerator. *)

Slot(t, f, bk, lay, p, q, cols) ==
  [t |-> t, f |-> f, bk |-> bk, lay |-> lay, p |-> p, q |-> q, cols |-> cols]
Empty == Slot(Garbage, BF16, <<>>, "none", 0, 0, 0)
Row(a) == At(spad, a, Empty)

Is(op) == prog # <<>> /\ Head(prog).op = op
Advance == prog' = Tail(prog) /\ UNCHANGED <<want, unit>>

ConfigEx ==
  /\ Is("config_ex")
  /\ cfg' = Head(prog)
  /\ Advance
  /\ UNCHANGED <<mem, spad, scale, lut, loads, stores, outs>>

(* The books are the chip's only when its unit holds that many entries of that *)
(* width; the requantizer indexes the C book through a finder of the format.   *)
BooksFit(i, u) ==
  /\ ~IsNull(u)
  /\ ~(\/ i.luts[1] > u.numEntries[1]
       \/ i.luts[2] > u.numEntries[2]
       \/ i.luts[2] > u.numEntries[3])
  /\ i.luts[3] = lut_words(u.rdataWidth)
  /\ i.group < 2 ^ u.lutUpdateRegularityWidth

LoadLuts ==
  /\ Is("load_luts")
  /\ lut' = IF BooksFit(Head(prog), unit) THEN Head(prog).books ELSE <<Garbage, Garbage, Garbage>>
  /\ Advance
  /\ UNCHANGED <<mem, spad, scale, cfg, loads, stores, outs>>

IssueLoad ==
  /\ Is("load_scales")
  /\ loads' = loads \cup {<<Head(prog).sel, Head(prog).buf>>}
  /\ Advance
  /\ UNCHANGED <<mem, spad, scale, lut, cfg, stores, outs>>

LandLoad ==
  \E l \in loads :
    /\ scale' = [scale EXCEPT ![l[1] + 1] = Buffer(l[2])]
    /\ loads' = loads \ {l}
    /\ UNCHANGED <<prog, want, unit, mem, spad, lut, cfg, stores, outs>>

LandStore ==
  \E s \in stores :
    /\ mem' = Put(mem, s[1], s[2])
    /\ stores' = stores \ {s}
    /\ UNCHANGED <<prog, want, unit, spad, scale, lut, cfg, loads, outs>>

(* gemmini_fence: everything in flight has landed. *)
DoFence ==
  /\ Is("fence")
  /\ loads = {} /\ stores = {}
  /\ Advance
  /\ UNCHANGED <<mem, spad, scale, lut, cfg, loads, stores, outs>>

(* The rows the tiles of a value v are moved into. *)
MovedRows(moves, lay, v) ==
  [a \in {mv[1] : mv \in moves} |->
     LET mv == CHOOSE x \in moves : x[1] = a
     IN  Slot(v.t, v.f, v.bk, lay, mv[2], mv[3], 0)]

Mvin ==
  /\ Is("mvin")
  /\ LET i == Head(prog)
     IN  spad' = Over(MovedRows(i.moves, i.lay, Buffer(i.buf)), spad)
  /\ Advance
  /\ UNCHANGED <<mem, scale, lut, cfg, loads, stores, outs>>

(* What the mesh multiplies: the tiles it addresses, decoded with the format *)
(* and the books selected now, under the scales in the two windows.          *)
Product(i, f, a0, base, b0) ==
  LET book(sel) == IF lut = <<>> THEN <<>> ELSE lut[sel]
      tileA(x) == Slot(a0.t, f, book(2), "a", x[1] * Dim, x[2] * Dim, 0)
      tileB(x) == Slot(b0.t, f, book(1), "b", x[1] * Dim, b0.q + x[2] * Dim, 0)
      tile == IF f = "none" THEN Dim ELSE FORMATS[f].tile
      n == i.J * tile
  IN  IF /\ f # "none"
         /\ \A x \in (0 .. i.I - 1) \X (0 .. i.K - 1) :
              Row(i.a + (x[1] * i.K + x[2]) * Dim) = tileA(x)
         /\ \A x \in (0 .. i.K - 1) \X (0 .. i.J - 1) :
              Row(base + (x[1] * i.J + x[2]) * Dim) = tileB(x)
         /\ scale[1].t = a0.t /\ scale[1].lo = 0 /\ scale[1].cols = i.I * tile
         /\ scale[2].t = b0.t /\ scale[2].cols = n
         /\ scale[2].lo = b0.q * packed_per_byte(f)
      THEN [t |-> MM(a0.t, b0.t), lo |-> scale[2].lo, m |-> i.I * tile, n |-> n]
      ELSE [t |-> Garbage, lo |-> 0, m |-> i.I * tile, n |-> n]

(* The mesh's bf16 is committed at the end: as it is, or requantized to    *)
(* codes and scales, the codes flat or in operand-A tiles, the scales to   *)
(* the host and, when resident, into the activation window.                *)
Commit(i, r, v, bits) ==
  LET bf16 == v.f = BF16
      across == r.n \div Dim
      slot(s) == IF i.tiled /\ ~bf16
                 THEN Slot(v.t, v.f, v.bk, "a", (s \div across) * Dim, (s % across) * Dim, 0)
                 ELSE Slot(v.t, v.f, v.bk, "flat", r.lo, s, r.n)
      slots == 0 .. ((r.m * r.n * bits) \div (8 * Dim * Dim)) - 1
      inside == {s \in slots : i.c + s * Dim < i.b_end}
  IN  /\ spad' = Over([a \in {i.c + s * Dim : s \in inside} |-> slot((a - i.c) \div Dim)], spad)
      /\ mem' = IF bf16 THEN mem ELSE Put(mem, i.scales, v)
      /\ scale' = IF i.resident /\ ~bf16 THEN [scale EXCEPT ![1] = v] ELSE scale

CommitBf16(i, r) == Commit(i, r, Value(r.t, BF16, <<>>, r.m), 16)

CommitCodes(i, r, f) ==
  LET found == lut = <<>> \/ f \in LUT_SERVES[unit.projFormat]
      book == IF lut = <<>> THEN <<>> ELSE lut[3]
  IN  Commit(i, r, Value(IF found THEN Requant(r.t) ELSE Garbage, f, book, r.m), FORMATS[f].bits)

LoopWsOf(i, r) ==
  IF cfg.out = BF16_FMT_CODE THEN CommitBf16(i, r)
  ELSE CommitCodes(i, r, Decoded(cfg.out, cfg.altfmt, lut # <<>>))

LoopWs ==
  /\ Is("loop_ws")
  /\ LET i == Head(prog)
         base == i.b_end - i.K * i.J * Dim
     IN  LoopWsOf(i, Product(i, Decoded(cfg.code, cfg.altfmt, lut # <<>>), Row(i.a), base, Row(base)))
  /\ Advance
  /\ UNCHANGED <<lut, cfg, loads, stores, outs>>

(* What a drained region holds for a host that reads it as rows of cols. *)
Drained(i) ==
  LET n == (i.rows + Dim - 1) \div Dim
      s0 == Row(i.src)
      across == i.cols \div Dim
      expected(s) == IF i.tiled
                     THEN [s0 EXCEPT !.p = (s \div across) * Dim, !.q = (s % across) * Dim]
                     ELSE [s0 EXCEPT !.q = s]
      ok == /\ s0.lay = IF i.tiled THEN "a" ELSE "flat"
            /\ i.tiled \/ s0.cols = i.cols
            /\ \A s \in 0 .. n - 1 : Row(i.src + s * Dim) = expected(s)
  IN  [t |-> IF ok THEN s0.t ELSE Garbage, f |-> s0.f, bk |-> s0.bk,
       lo |-> IF i.tiled THEN 0 ELSE s0.p, cols |-> i.cols]

Mvout ==
  /\ Is("mvout")
  /\ stores' = stores \cup {<<Head(prog).dst, Drained(Head(prog))>>}
  /\ Advance
  /\ UNCHANGED <<mem, spad, scale, lut, cfg, loads, outs>>

----------------------------------------------------------------------------
(* The scalar core. *)

(* The value of a buffer read as a whole: all n columns, or garbage. *)
Whole(b, n) == IF Buffer(b).lo = 0 /\ Buffer(b).cols = n THEN Buffer(b).t ELSE Garbage

HostWrite(b, v) ==
  /\ mem' = Put(mem, b, v)
  /\ Advance
  /\ UNCHANGED <<spad, scale, lut, cfg, loads, stores, outs>>

HostOp ==
  /\ Is("host")
  /\ LET i == Head(prog)
     IN  HostWrite(i.dst, Value(Host(i.f, [s \in DOMAIN i.srcs |-> Whole(i.srcs[s], i.n)]),
                                BF16, <<>>, i.n))

ToF32 ==
  /\ Is("to_f32")
  /\ LET i == Head(prog) IN HostWrite(i.dst, Value(Whole(i.src, i.n), BF16, <<>>, i.n))

Quantize ==
  /\ Is("quantize")
  /\ LET i == Head(prog)
         v == Whole(i.src, i.n)
     IN  HostWrite(i.dst, CASE i.how = "a" -> Value(QA(v), GRAPH_DTYPE, <<>>, i.m)
                            [] i.how = "b" -> Value(QB(v), GRAPH_DTYPE, <<>>, i.n)
                            [] OTHER       -> Value(QB(T(v)), GRAPH_DTYPE, <<>>, i.m))

SliceScales ==
  /\ Is("slice_scales")
  /\ LET i == Head(prog)
     IN  HostWrite(<<"bsc", "scales">>, [Buffer(i.src) EXCEPT !.lo = i.lo, !.cols = i.cols])

(* A chunk extends the columns pasted so far. *)
PasteCols ==
  /\ Is("paste_cols")
  /\ LET i == Head(prog)
         old == Buffer(i.dst)
         new == Buffer(i.src)
         fits == /\ new.lo = i.n0
                 /\ i.n0 = 0 \/ (old.t = new.t /\ old.lo + old.cols = new.lo)
     IN  HostWrite(i.dst, IF fits THEN Value(new.t, BF16, <<>>, i.n0 + new.cols)
                          ELSE Value(Garbage, BF16, <<>>, i.n0 + new.cols))

Report ==
  /\ Is("report")
  /\ LET i == Head(prog) IN outs' = Put(outs, i.name, Whole(i.buf, i.n))
  /\ Advance
  /\ UNCHANGED <<mem, spad, scale, lut, cfg, loads, stores>>

Done == prog = <<>> /\ loads = {} /\ stores = {} /\ UNCHANGED vars

Next == \/ ConfigEx \/ LoadLuts \/ IssueLoad \/ LandLoad \/ LandStore \/ DoFence \/ Mvin
        \/ LoopWs \/ Mvout \/ HostOp \/ ToF32 \/ Quantize \/ SliceScales \/ PasteCols
        \/ Report \/ Done

Spec == Init /\ [][Next]_vars

----------------------------------------------------------------------------
(* The program ended and everything it drained reached the host. *)
Ended == prog = <<>> /\ loads = {} /\ stores = {}

(* "Anything else raises MxEmitError rather than emitting C that silently  *)
(* miscomputes" (mxgemm_emit.py:11): a driver the backend emits reports,   *)
(* for every stage it reports, the value the walk of the reference         *)
(* computes, whatever the order in which the DMAs land.                    *)
ComputesKernel == Ended => outs = want

(* The mesh never multiplies under a scale window that a load in flight    *)
(* has still to fill (the fence of emit_load_scales).                      *)
ScalesLanded == Is("loop_ws") => loads = {}
===============================================================================
