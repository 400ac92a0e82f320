------------------------------- MODULE MxArith -------------------------------
(***************************************************************************)
(* rtl_exact/mxmesh/fp8.py: the arithmetic of one processing element.      *)
(* Every primitive exists twice, as a loop over python floats and as       *)
(* tensor operations for large tensors; which of the two an element goes   *)
(* through depends on the tensor it is in.                                 *)
(*                                                                         *)
(* A float is [k, s, n, e]: k says "num", "inf" or "nan", and a number is  *)
(* (-1)^s * n * 2^e with n odd or zero.  A tensor is a function from its   *)
(* indices to floats.  The widths of float32, of bfloat16 and of a machine *)
(* word are parameters; the range of float32 is unbounded.                 *)
(***************************************************************************)
EXTENDS Integers, FiniteSets

CONSTANTS
  SIG,         \* bits of a float32 significand (24)
  BF,          \* mantissa bits of bfloat16 (7)
  WORD,        \* the largest shift of an int64 (62)
  VEC_MIN,     \* _VEC_MIN_ELEMS: tensors at least this large are vectorised (1024)
  PROD_FLOOR   \* products below 2^PROD_FLOOR are flushed (-16)

ASSUME ArithAssumption ==
  /\ SIG \in Nat /\ BF \in Nat /\ WORD \in Nat /\ VEC_MIN \in Nat /\ PROD_FLOOR \in Int
  /\ BF >= 3                       \* a rounding to one bit has a sticky bit
  /\ SIG >= 2 * (BF + 1) + 2       \* a float32 sum of two bfloat16 may be rounded twice

E8 == 8                            \* the exponent width of float32 and bfloat16

----------------------------------------------------------------------------
bit_length(n) == IF n = 0 THEN 0 ELSE CHOOSE p \in 1 .. 30 : n \div 2 ^ (p - 1) = 1
Twos(n)       == CHOOSE i \in 0 .. 29 : n % 2 ^ i = 0 /\ (n \div 2 ^ i) % 2 = 1

Num(s, n, e) == IF n = 0 THEN [k |-> "num", s |-> s, n |-> 0, e |-> 0]
                ELSE [k |-> "num", s |-> s, n |-> n \div 2 ^ Twos(n), e |-> e + Twos(n)]
Inf(s)   == [k |-> "inf", s |-> s, n |-> 0, e |-> 0]
NaN      == [k |-> "nan", s |-> 0, n |-> 0, e |-> 0]
PlusZero == Num(0, 0, 0)

IsZero(x) == x.k = "num" /\ x.n = 0
Neg(x)    == [x EXCEPT !.s = 1 - @]
Exp(x)    == x.e + bit_length(x.n) - 1      \* floor(log2 |x|)

bias(eb)       == 2 ^ (eb - 1) - 1
Emin(eb)       == 1 - bias(eb)

(* |x| is at most the largest number of a format. *)
InRange(x, eb, mb) ==
  /\ x.k = "num"
  /\ IsZero(x) \/ Exp(x) < bias(eb) \/ (Exp(x) = bias(eb) /\ bit_length(x.n) <= mb + 1)

(* Exact sums and products, over a common exponent. *)
Lower(a, b)   == IF a < b THEN a ELSE b
Signed(x, e0) == (IF x.s = 1 THEN -1 ELSE 1) * x.n * 2 ^ (x.e - e0)
ExactSum(x, y) ==
  LET e0 == IF IsZero(x) THEN y.e ELSE IF IsZero(y) THEN x.e ELSE Lower(x.e, y.e)
      t == (IF IsZero(x) THEN 0 ELSE Signed(x, e0)) + (IF IsZero(y) THEN 0 ELSE Signed(y, e0))
  IN  Num(IF t < 0 THEN 1 ELSE 0, IF t < 0 THEN -t ELSE t, e0)
Times(x, y) ==
  IF x.k = "nan" \/ y.k = "nan" THEN NaN
  ELSE LET s == (x.s + y.s) % 2
       IN  IF x.k = "inf" \/ y.k = "inf" THEN (IF IsZero(x) \/ IsZero(y) THEN NaN ELSE Inf(s))
           ELSE Num(s, x.n * y.n, x.e + y.e)

----------------------------------------------------------------------------
(* The scalar primitives. *)

_round_div_pow2_rne_int(n, shift) ==
  IF shift <= 0 THEN n * 2 ^ (-shift)
  ELSE LET q == n \div 2 ^ shift
           rem == n % 2 ^ shift
           half == 2 ^ (shift - 1)
       IN  IF rem > half \/ (rem = half /\ q % 2 = 1) THEN q + 1 ELSE q

_round_dyadic_to_scalar(s, num, exp2, eb, mb) ==
  IF num = 0 THEN PlusZero
  ELSE LET p == bit_length(num) - 1
           E == exp2 + p
           sub == _round_div_pow2_rne_int(num, (Emin(eb) - mb) - exp2)
           total == _round_div_pow2_rne_int(num, p - mb)
           normal(sig, e) == LET over == sig >= 2 ^ (mb + 1)
                                 e1 == IF over THEN e + 1 ELSE e
                             IN  IF e1 > bias(eb) THEN Inf(s)
                                 ELSE Num(s, IF over THEN sig \div 2 ELSE sig, e1 - mb)
       IN  IF E >= Emin(eb) THEN normal(total, E)
           ELSE IF sub = 0 THEN PlusZero
           ELSE IF sub >= 2 ^ mb THEN normal(sub, Emin(eb))
           ELSE Num(s, sub, Emin(eb) - mb)

fp_quantize_rne_scalar(x, eb, mb) ==
  IF x.k # "num" \/ IsZero(x) THEN x
  ELSE _round_dyadic_to_scalar(x.s, x.n, x.e, eb, mb)

(* The fields <<exponent, fraction>> an operand is encoded to; an exponent *)
(* beyond the format is kept.                                              *)
_encode_exact_scalar_to_fields(x, eb, mb) ==
  LET E == Exp(x)
      total == _round_div_pow2_rne_int(x.n, -(x.e + mb - E))
      frac == _round_div_pow2_rne_int(x.n, -(x.e + mb - Emin(eb)))
  IN  IF E >= Emin(eb)
      THEN IF total = 2 ^ (mb + 1) THEN <<E + 1 + bias(eb), 0>>
           ELSE <<E + bias(eb), total - 2 ^ mb>>
      ELSE IF frac >= 2 ^ mb THEN <<1, 0>> ELSE <<0, frac>>

_fields_to_dyadic(s, f, eb, mb) ==
  IF f[1] = 0 THEN Num(s, f[2], Emin(eb) - mb)
  ELSE Num(s, 2 ^ mb + f[2], (f[1] - bias(eb)) - mb)

fp_add_exact_scalar(x, y, eb, mb) ==
  IF "nan" \in {x.k, y.k} THEN NaN
  ELSE IF "inf" \in {x.k, y.k}
       THEN IF x.k = y.k /\ x.s # y.s THEN NaN ELSE IF x.k = "inf" THEN x ELSE y
  ELSE IF IsZero(x) THEN y
  ELSE IF IsZero(y) THEN x
  ELSE LET code(v) == _fields_to_dyadic(v.s, _encode_exact_scalar_to_fields(v, eb, mb), eb, mb)
           t == ExactSum(code(x), code(y))
       IN  _round_dyadic_to_scalar(t.s, t.n, t.e, eb, mb)

----------------------------------------------------------------------------
(* The tensor primitives, for one element. *)

(* A bug: a tie is rounded up. *)
_rne_shift_vec_TiesUp(n, sh) ==
  IF sh <= 0 THEN n * 2 ^ (-sh)
  ELSE n \div 2 ^ sh + (IF n % 2 ^ sh >= 2 ^ (sh - 1) THEN 1 ELSE 0)

(* int32 or int64; a shift right is cut to the width, where nothing is left. *)
_rne_shift_vec(n, sh) ==
  IF sh <= 0 THEN n * 2 ^ (-sh)
  ELSE LET s == Lower(sh, 30)
           q == n \div 2 ^ s
           rem == n % 2 ^ s
           half == 2 ^ (s - 1)
       IN  q + (IF rem > half \/ (rem = half /\ q % 2 # 0) THEN 1 ELSE 0)

(* frexp: SIG bits of significand and their exponent. *)
frexp(x) == LET up == SIG - bit_length(x.n) IN <<x.n * 2 ^ up, x.e - up>>

RneNormal(s, tot, E, eb, mb, overflow_to_inf) ==
  LET carry == tot >= 2 ^ (mb + 1)
      E_n == IF carry THEN E + 1 ELSE E
  IN  IF E_n > bias(eb) /\ overflow_to_inf THEN Inf(s)
      ELSE Num(s, IF carry THEN tot \div 2 ELSE tot, E_n - mb)

RneSubnormal(s, sub, eb, mb, overflow_to_inf) ==
  LET promoted == sub >= 2 ^ mb
      twice == sub >= 2 ^ (mb + 1)
      E_p == IF twice THEN Emin(eb) + 1 ELSE Emin(eb)
  IN  IF sub = 0 THEN PlusZero
      ELSE IF promoted /\ E_p > bias(eb) /\ overflow_to_inf THEN Inf(s)
      ELSE Num(s, IF twice THEN sub \div 2 ELSE sub, (IF promoted THEN E_p ELSE Emin(eb)) - mb)

RneDyadic(s, num, exp2, eb, mb, overflow_to_inf) ==
  LET E == exp2 + SIG - 1
  IN  IF E < Emin(eb)
      THEN RneSubnormal(s, _rne_shift_vec(num, (Emin(eb) - mb) - exp2), eb, mb, overflow_to_inf)
      ELSE RneNormal(s, _rne_shift_vec(num, SIG - 1 - mb), E, eb, mb, overflow_to_inf)

_rne_vec(x, eb, mb, overflow_to_inf) ==
  IF x.k # "num" \/ IsZero(x) THEN x
  ELSE RneDyadic(x.s, frexp(x)[1], frexp(x)[2], eb, mb, overflow_to_inf)

(* Bit arithmetic on the float32 itself: its exponent range is kept. *)
_rne_e8(x, mb) ==
  IF mb >= SIG - 1 \/ x.k # "num" \/ IsZero(x) THEN x
  ELSE LET mag == frexp(x)[1]
           drop == SIG - 1 - mb
           kept == mag \div 2 ^ drop
           round_bit == (mag \div 2 ^ (drop - 1)) % 2 = 1
           sticky == mag % 2 ^ (drop - 1) # 0
           up == IF round_bit /\ (sticky \/ kept % 2 = 1) THEN 1 ELSE 0
       IN  Num(x.s, (kept + up) * 2 ^ drop, frexp(x)[2])

q_bf16_rne(x) == _rne_e8(x, BF)

(* A float32 addition. *)
FloatAdd(x, y) ==
  IF "nan" \in {x.k, y.k} \/ (x.k = "inf" /\ y.k = "inf" /\ x.s # y.s) THEN NaN
  ELSE IF x.k = "inf" THEN x ELSE IF y.k = "inf" THEN y
  ELSE IF IsZero(x) /\ IsZero(y) THEN (IF x.s = y.s THEN x ELSE PlusZero)
  ELSE LET t == ExactSum(x, y)
           n == bit_length(t.n)
       IN  IF n <= SIG THEN t
           ELSE Num(t.s, _round_div_pow2_rne_int(t.n, n - SIG), t.e + n - SIG)

(* A machine word loses what is shifted out of it. *)
Shl(n, s) == LET c == Lower(s, WORD) IN (n % 2 ^ (WORD + 2 - c)) * 2 ^ c

_dyadic(v) == IF v.k # "num" \/ IsZero(v) THEN <<0, 1 - SIG>> ELSE frexp(v)

Aligned(s, d, e_min) == (IF s = 1 THEN -1 ELSE 1) * Shl(d[1], d[2] - e_min)

RoundTotal(total, e_min, eb, mb) ==
  LET abs(s) == _rne_vec(FloatAdd(Num(0, s * total, e_min), PlusZero), eb, mb, TRUE)
  IN  IF total = 0 THEN PlusZero ELSE IF total < 0 THEN Neg(abs(-1)) ELSE abs(1)

AddDyadics(x, y, dx, dy, e_min, eb, mb) ==
  RoundTotal(Aligned(x.s, dx, e_min) + Aligned(y.s, dy, e_min), e_min, eb, mb)

AddRounded(x, y, dx, dy, eb, mb) == AddDyadics(x, y, dx, dy, Lower(dx[2], dy[2]), eb, mb)

AddOperands(x_raw, y_raw, x, y, eb, mb) ==
  IF "nan" \in {x.k, y.k} \/ (x.k = "inf" /\ y.k = "inf" /\ x.s # y.s) THEN NaN
  ELSE IF x.k = "inf" THEN x ELSE IF y.k = "inf" THEN y
  ELSE IF IsZero(y_raw) THEN x_raw
  ELSE IF IsZero(x_raw) THEN y_raw
  ELSE AddRounded(x, y, _dyadic(x), _dyadic(y), eb, mb)

_add_exact_vec(x_raw, y_raw, eb, mb) ==
  AddOperands(x_raw, y_raw, _rne_vec(x_raw, eb, mb, FALSE), _rne_vec(y_raw, eb, mb, FALSE), eb, mb)

_add_exact_vec_is_exact(eb, mb) == SIG + (2 * bias(eb) + mb - 1) + 2 <= WORD

----------------------------------------------------------------------------
(* The primitives proper: tensors in, tensors out. *)

numel(t) == Cardinality(DOMAIN t)

fp_quantize_rne(t, eb, mb) ==
  [i \in DOMAIN t |-> IF eb = E8 THEN _rne_e8(t[i], mb)
                      ELSE IF numel(t) < VEC_MIN THEN fp_quantize_rne_scalar(t[i], eb, mb)
                      ELSE _rne_vec(t[i], eb, mb, TRUE)]

(* Both operands are rounded first, and the other one is passed through as *)
(* it is when one is zero.                                                 *)
BfAdd(x, y) == IF IsZero(x) THEN y ELSE IF IsZero(y) THEN x
               ELSE q_bf16_rne(FloatAdd(q_bf16_rne(x), q_bf16_rne(y)))

fp_add_exact(x, y, eb, mb) ==
  LET vec == /\ numel(x) >= VEC_MIN
             /\ eb # E8 /\ _add_exact_vec_is_exact(eb, mb)
             /\ \A i \in DOMAIN x : InRange(x[i], eb, mb) /\ InRange(y[i], eb, mb)
  IN  [i \in DOMAIN x |-> IF eb = E8 /\ mb = BF THEN BfAdd(x[i], y[i])
                          ELSE IF vec THEN _add_exact_vec(x[i], y[i], eb, mb)
                          ELSE fp_add_exact_scalar(x[i], y[i], eb, mb)]

bf16_accum_add(x, y) ==
  fp_add_exact([i \in DOMAIN x |-> q_bf16_rne(x[i])], [i \in DOMAIN y |-> q_bf16_rne(y[i])], E8, BF)

(* A mantissa cut to mb bits, and an overflow of the product's format. *)
trunc_product_mantissa(x, mb) ==
  IF x.k # "num" \/ bit_length(x.n) <= mb + 1 THEN x
  ELSE LET drop == bit_length(x.n) - (mb + 1) IN Num(x.s, x.n \div 2 ^ drop, x.e + drop)

mx_product_saturate(x, eb, mb) ==
  LET mx_fp8 == eb = 4 /\ mb = 3
      emax == IF mx_fp8 THEN bias(eb) + 1 ELSE bias(eb)
      max_normal == Num(0, 2 ^ mb + 2 ^ mb - (IF mx_fp8 THEN 2 ELSE 1), emax - mb)
      over == ~IsZero(x) /\ (x.k = "inf" \/ ExactSum([x EXCEPT !.s = 1], max_normal).s = 1)
  IN  IF over THEN Num(x.s, 2 ^ mb + 2 ^ mb - 2, bias(eb) + 1 - mb)
      ELSE IF IsZero(x) THEN PlusZero ELSE x

mx_product_quantize_trunc(x, eb, mb) == mx_product_saturate(trunc_product_mantissa(x, mb), eb, mb)
===============================================================================
