------------------------------ MODULE MxFormats ------------------------------
(***************************************************************************)
(* compiler/formats.py: the one table of MX element formats.  What the     *)
(* planner, the emitter and the device tell apart is kept: the width on    *)
(* the wire, the selector (code, altfmt, lut), the codebook's entry width, *)
(* the mesh tile and the normalization of the requantizer.                 *)
(***************************************************************************)
EXTENDS Integers, Sequences

BLOCK == 32                 \* elements of K under one E8M0 scale
BF16 == "bf16"              \* the accumulator readout: an output, never an operand
BF16_FMT_CODE == 3

Direct(bits, code, tile, mlir) ==
  [bits |-> bits, fmt_code |-> code, altfmt |-> 0, lut |-> FALSE, entry_bits |-> 0,
   tile |-> tile, mlir |-> mlir, out_pmax |-> 0, chain_proven |-> TRUE]

Indexed(entry, code, altfmt, mlir) ==
  [bits |-> 4, fmt_code |-> code, altfmt |-> altfmt, lut |-> TRUE, entry_bits |-> entry,
   tile |-> 32, mlir |-> mlir, out_pmax |-> 0, chain_proven |-> TRUE]

(* The MLIR spelling of a format that has none is its own name. *)
FORMATS ==
  [fp8_e4m3      |-> Direct(8, 0, 16, "f8E4M3FN"),
   fp8_e4m3_quad |-> Indexed(8, 0, 0, "fp8_e4m3_quad"),
   fp8_e5m2      |-> Indexed(8, 0, 1, "fp8_e5m2"),
   fp6_e3m2      |-> Indexed(6, 1, 0, "f6E3M2FN"),
   fp6_e2m3      |-> Indexed(6, 1, 1, "fp6_e2m3"),
   fp4_e2m1      |-> Direct(4, 2, 32, "f4E2M1FN")]

TILE_K == 16                \* tile_k of every format

packed_per_byte(f) == 8 \div FORMATS[f].bits

lut_words(entry_bits) == (16 * entry_bits + 31) \div 32

(* The format a dtype spelling resolves to; "none" is the refusal. *)
get(dtype) ==
  IF dtype \in DOMAIN FORMATS THEN dtype
  ELSE LET spelt == {f \in DOMAIN FORMATS : FORMATS[f].mlir = dtype}
       IN  IF spelt = {} THEN "none" ELSE CHOOSE f \in spelt : TRUE

(* The largest value a format's nearest-entry finder represents (the codebook *)
(* formats' values come from the mxq submodule), rounded down.                *)
FinderMax ==
  [fp8_e4m3_quad |-> 240, fp8_e5m2 |-> 57344, fp6_e3m2 |-> 14, fp6_e2m3 |-> 7]

(* May a format be the intermediate of a chain? *)
chain_refusal(f) ==
  /\ FORMATS[f].lut
  /\ FinderMax[f] < 2 ^ FORMATS[f].out_pmax \/ ~FORMATS[f].chain_proven

(* What MX_LOAD_LUT's lut_en and CONFIG_EX select together. *)
Decoded(code, altfmt, lut) ==
  LET is(f) == /\ FORMATS[f].fmt_code = code
               /\ FORMATS[f].altfmt = altfmt
               /\ FORMATS[f].lut = lut
  IN  IF \E f \in DOMAIN FORMATS : is(f) THEN CHOOSE f \in DOMAIN FORMATS : is(f) ELSE "none"
===============================================================================
