------------------------------- MODULE MxRecipe -------------------------------
(***************************************************************************)
(* config/recipe.py: the hardware recipe (what is built) and the run       *)
(* recipe (how it is driven), from the JSON file to the parameters of the  *)
(* backend.  A raw recipe is a function from the keys its file has; null   *)
(* is the empty function.  A list of sixteen per-lane formats is           *)
(* [len |-> 16, kinds |-> the set of formats in it].                       *)
(***************************************************************************)
EXTENDS MxFormats, FiniteSets

IsNull(x) == DOMAIN x = {}

_LABELS == {"name", "description", "provenance"}

_HW_TOP == {"array", "types", "mx", "scratchpad", "implementation"}

_HW_SECTIONS ==
  [array |-> {"meshRows", "meshColumns"},
   types |-> {"meshProdPrecisionList", "meshAccPrecisionList", "prodFloor"},
   mx    |-> {"scaleSize", "lut"},
   scratchpad |-> {"banks", "rows"},
   implementation |-> {"clock_ns", "utilization"}]

(* The keys without which parse_hardware refuses. *)
HwRequired ==
  [_HW_SECTIONS EXCEPT !.array = {}, !.mx = {"lut"}]

_RUN_KEYS == {"name", "description", "operand_fmt", "rounding", "scale_floor", "reduce",
              "allow_lossy_chain", "fp32_tol", "lut", "scale", "vector"}
_RUN_OPTIONAL == {"description", "lut", "scale", "vector"}

SCALES == {"mxgemmini", "ocp", "ocp_below_top", "ocp_no_clip"}
VECTOR_OPS == {"softmax", "rmsnorm"}
VECTOR_CHOICES == {"null", "bf16"}

_HW_LUT_KEYS == {"projFormat", "rdataWidth", "raddrWidth", "numEntries", "numBits",
                 "lutUpdateRegularityWidth", "actCodeWidth", "weiCodeWidth"}

(* The formats whose nearest-entry finders a projection has. *)
LUT_SERVES ==
  [LutFP6E3M2 |-> {"fp6_e3m2"},
   LutFP6E2M3 |-> {"fp6_e2m3"},
   LutFP8E5M2 |-> {"fp8_e5m2", "fp6_e3m2"},
   LutFP8E4M3 |-> {"fp8_e4m3_quad", "fp8_e5m2", "fp6_e3m2", "fp6_e2m3"}]
_FP8_PROJECTIONS == {"LutFP8E4M3", "LutFP8E5M2"}

LUT_CHOICES == [weights |-> {"data"}, activations |-> {"data"}, outputs |-> {"estimate"},
                pick |-> {"host"}]

(* What the kernel path follows; the scratchpad libgemmini is built with is *)
(* an argument of check.                                                    *)
KERNEL_DIM == 16
KERNEL_ROUNDING == "rne"
KERNEL_SCALE_FLOOR == "2^-23"

----------------------------------------------------------------------------
(* scheme.py: the formats that go through tables, the reducers. *)

CODEBOOK == {"fp8_e4m3_quad", "fp8_e5m2", "fp6_e3m2", "fp6_e2m3"}
REDUCERS == {"hardware", "exact", "bf16_tiles"}
mxq_format == DOMAIN FORMATS

----------------------------------------------------------------------------
(* Parsing: TRUE, or the RecipeError. *)

Default(raw, key, value) == IF key \in DOMAIN raw THEN raw[key] ELSE value

_parse_list(list, expect) == list.len = expect

_parse_lut_unit(u) ==
  \/ IsNull(u)
  \/ /\ DOMAIN u = _HW_LUT_KEYS
     /\ u.projFormat \in DOMAIN LUT_SERVES
     /\ u.rdataWidth >= 1 /\ u.raddrWidth >= 1 /\ u.lutUpdateRegularityWidth >= 1
     /\ Len(u.numEntries) = 3 /\ Len(u.numBits) = 3
     /\ \A i \in 1 .. 3 : u.numEntries[i] >= 1 /\ u.numBits[i] = 2 ^ u.raddrWidth * u.rdataWidth
     /\ u.projFormat \in _FP8_PROJECTIONS => u.rdataWidth = 8

parse_hardware(raw) ==
  /\ DOMAIN raw \ _LABELS = _HW_TOP
  /\ \A s \in _HW_TOP : /\ DOMAIN raw[s] \subseteq _HW_SECTIONS[s]
                        /\ HwRequired[s] \subseteq DOMAIN raw[s]
  /\ LET rows == Default(raw.array, "meshRows", 16)
         cols == Default(raw.array, "meshColumns", 16)
     IN  /\ rows = cols
         /\ _parse_list(raw.types.meshProdPrecisionList, cols)
         /\ _parse_list(raw.types.meshAccPrecisionList, cols)
  /\ Cardinality(raw.types.meshProdPrecisionList.kinds) = 1
  /\ _parse_lut_unit(raw.mx.lut)

_parse_vector(v) ==
  IsNull(v) \/ (DOMAIN v = VECTOR_OPS /\ \A op \in VECTOR_OPS : v[op] \in VECTOR_CHOICES)

_parse_lut(lut) ==
  \/ IsNull(lut)
  \/ /\ DOMAIN lut = DOMAIN LUT_CHOICES \cup {"group", "fit"}
     /\ \A k \in DOMAIN LUT_CHOICES : lut[k] \in LUT_CHOICES[k]
     /\ lut.fit.method = "kmeans" /\ lut.fit.init = "quantile" /\ lut.fit.max_iters >= 1

parse_run(raw) ==
  /\ DOMAIN raw \subseteq _RUN_KEYS
  /\ _RUN_KEYS \ _RUN_OPTIONAL \subseteq DOMAIN raw
  /\ Default(raw, "scale", "mxgemmini") \in SCALES
  /\ _parse_lut(Default(raw, "lut", <<>>))
  /\ _parse_vector(Default(raw, "vector", <<>>))

(* The parsed recipes. *)
Hardware(raw) ==
  [dim |-> Default(raw.array, "meshColumns", 16), block |-> Default(raw.mx, "scaleSize", 32),
   lut |-> raw.mx.lut, banks |-> raw.scratchpad.banks, rows |-> raw.scratchpad.rows]

Run(raw) ==
  [operand_fmt |-> raw.operand_fmt, rounding |-> raw.rounding, scale_floor |-> raw.scale_floor,
   reduce |-> raw.reduce, lut |-> Default(raw, "lut", <<>>),
   allow_lossy_chain |-> raw.allow_lossy_chain,
   scale |-> Default(raw, "scale", "mxgemmini"), vector |-> Default(raw, "vector", <<>>)]

----------------------------------------------------------------------------
(* May this machine run this recipe? *)

_check_lut(hw, run) ==
  LET f == FORMATS[run.operand_fmt]
      unit == hw.lut
  IN  /\ ~IsNull(unit)
      /\ run.operand_fmt \in LUT_SERVES[unit.projFormat]
      /\ unit.raddrWidth = f.bits
      /\ unit.rdataWidth = f.entry_bits
      /\ unit.actCodeWidth = 0 /\ unit.weiCodeWidth = 0
      /\ run.lut.group < 2 ^ unit.lutUpdateRegularityWidth

(* Both paths, then what only the kernel path refuses. *)
check(hw, run, path, scratchpad) ==
  LET codebook == run.operand_fmt \in CODEBOOK
  IN  /\ run.operand_fmt \in mxq_format
      /\ run.reduce \in REDUCERS
      /\ ~IsNull(run.lut) => codebook /\ _check_lut(hw, run) /\ run.scale = "mxgemmini"
      /\ path = "kernel" =>
           /\ IsNull(run.vector)
           /\ codebook => ~IsNull(run.lut)
           /\ hw.dim = KERNEL_DIM
           /\ hw.block = BLOCK
           /\ <<hw.banks, hw.rows>> = scratchpad
           /\ run.rounding = KERNEL_ROUNDING
           /\ run.scale = "mxgemmini"
           /\ run.scale_floor = KERNEL_SCALE_FLOOR
           /\ run.reduce = "hardware"

(* cb["params"]; without tables there is no group. *)
emitter_params(hw, run) ==
  [dim |-> hw.dim, bank_num |-> hw.banks, bank_rows |-> hw.rows,
   lut_group |-> IF IsNull(run.lut) THEN 0 ELSE run.lut.group,
   lut_tables |-> IF IsNull(run.lut) THEN <<>> ELSE hw.lut.numEntries]
===============================================================================
