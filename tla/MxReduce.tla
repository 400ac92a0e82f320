------------------------------- MODULE MxReduce -------------------------------
(***************************************************************************)
(* One row of a product on the mesh, in the three ways the code computes   *)
(* it: rtl_datapath.py in batches of windows, rtl_datapath.py one k at a   *)
(* time where the windows do not divide K, and the hardware team's model   *)
(* (mxmesh/fp8.py) tile by tile; then what the requantizers make of it for *)
(* the next matmul.                                                        *)
(***************************************************************************)
EXTENDS MxArith, SequencesExt

CONSTANTS
  N,               \* columns; they share a scale of the requantizer (GROUP)
  window,          \* lanes of the schedule, side of a tile (TILE)
  BLOCK,           \* elements along K that share a scale
  PROD_MANT_BITS,
  Jobs             \* [path, K, W, a, b, xa, xb, prod, lanes], see MCMxReduce

ASSUME ReduceAssumption ==
  /\ {N, window, BLOCK} \subseteq Nat \ {0} /\ BLOCK % window = 0
  /\ PROD_MANT_BITS \in 0 .. BF

VARIABLES
  job,             \* what is multiplied, and how
  w0,              \* the first window of the batch
  c0,              \* the first column of the tile
  l,               \* the lane
  S_red,           \* <<window, column>> -> its sum so far
  folded,          \* how many windows of the batch are in C
  C,               \* column -> float
  written          \* what the requantizers wrote, once they have
vars == <<job, w0, c0, l, S_red, folded, C, written>>

Columns == 0 .. N - 1
n_win   == (job.K + window - 1) \div window
Wins(w) == w .. (IF job.path = "batched" THEN Lower(w + job.W, n_win) ELSE w + 1) - 1
Cols(c) == IF job.path = "tiled" THEN c .. Lower(c + window, N) - 1 ELSE Columns
Zeros(w, c) == [i \in Wins(w) \X Cols(c) |-> PlusZero]

Init ==
  /\ job \in Jobs
  /\ w0 = 0 /\ c0 = 0 /\ l = 0 /\ folded = 0
  /\ S_red = Zeros(0, 0)
  /\ C = [n \in Columns |-> PlusZero]
  /\ written = <<>>

----------------------------------------------------------------------------
(* The product of one lane, in every window of the batch. *)
outer == [i \in DOMAIN S_red |->
            LET k == i[1] * window + l IN Times(job.a[k], job.b[k][i[2]])]

product_quantize(t) ==
  [i \in DOMAIN t |->
     LET q == mx_product_quantize_trunc(t[i], job.prod[1], job.prod[2])
     IN  IF q.k = "num" /\ (IsZero(q) \/ Exp(q) < PROD_FLOOR) THEN PlusZero ELSE q]

accumulate(acc, prod, e, m) == fp_add_exact(fp_quantize_rne(acc, e, m), fp_quantize_rne(prod, e, m), e, m)

Lane == l < window /\ w0 * window + l < job.K

(* simulate_atw: every window of the batch advances by one lane ... *)
_simulate_atw_rtl ==
  /\ job.path = "batched" /\ Lane
  /\ S_red' = accumulate(S_red, product_quantize(outer), job.lanes[l + 1][1], job.lanes[l + 1][2])
  /\ l' = l + 1
  /\ UNCHANGED <<job, w0, c0, folded, C, written>>

(* ... or one window, cut at the end of K, by one k. *)
_simulate_atw_rtl_serial ==
  /\ job.path = "serial" /\ Lane
  /\ S_red' = accumulate(S_red, product_quantize(outer), job.lanes[l + 1][1], job.lanes[l + 1][2])
  /\ l' = l + 1
  /\ UNCHANGED <<job, w0, c0, folded, C, written>>

(* The hardware team's tile: no flush of a small product; without a        *)
(* schedule a bfloat16 product and a bfloat16 sum.                         *)
matmul_outer_quantized_hwlike ==
  /\ job.path = "tiled" /\ Lane
  /\ LET each(Op(_), t) == [i \in DOMAIN t |-> Op(t[i])]
         listed(x) == mx_product_quantize_trunc(x, job.prod[1], job.prod[2])
         plain(x) == q_bf16_rne(trunc_product_mantissa(x, PROD_MANT_BITS))
     IN  S_red' = IF job.lanes = <<>>
                  THEN fp_add_exact(each(q_bf16_rne, S_red), each(q_bf16_rne, each(plain, outer)), E8, BF)
                  ELSE accumulate(S_red, each(listed, outer), job.lanes[l + 1][1], job.lanes[l + 1][2])
  /\ l' = l + 1
  /\ UNCHANGED <<job, w0, c0, folded, C, written>>

----------------------------------------------------------------------------
scale_map(w, n) == LET g == (w * window) \div BLOCK
                   IN  Times(Num(0, 1, job.xa[g]), Num(0, 1, job.xb[g][n]))

cross_tile_accumulate(c, tile) == bf16_accum_add(c, [n \in DOMAIN tile |-> q_bf16_rne(tile[n])])

Folded(w) ==
  LET cols == Cols(c0)
      tile == [n \in cols |-> Times(S_red[<<w, n>>], scale_map(w, n))]
      sum == cross_tile_accumulate([n \in cols |-> C[n]], tile)
  IN  [n \in Columns |-> IF n \in cols THEN sum[n] ELSE C[n]]

(* The windows of a batch are added in order; then the next batch. *)
FoldWindow ==
  /\ job.path \in {"batched", "serial"} /\ ~Lane /\ w0 < n_win
  /\ C' = Folded(w0 + folded)
  /\ IF w0 + folded + 1 \in Wins(w0)
     THEN folded' = folded + 1 /\ UNCHANGED <<w0, l, S_red>>
     ELSE LET next == w0 + folded + 1
          IN  folded' = 0 /\ w0' = next /\ l' = 0 /\ S_red' = Zeros(next, 0)
  /\ UNCHANGED <<job, c0, written>>

(* The tiles of one k0 go over the columns first. *)
tiled_matmul_hwlike ==
  /\ job.path = "tiled" /\ ~Lane /\ w0 < n_win
  /\ C' = Folded(w0)
  /\ LET more == c0 + window < N
         nextW == IF more THEN w0 ELSE w0 + 1
         nextC == IF more THEN c0 + window ELSE 0
     IN  w0' = nextW /\ c0' = nextC /\ l' = 0 /\ S_red' = Zeros(nextW, nextC)
  /\ UNCHANGED <<job, folded, written>>

----------------------------------------------------------------------------
(* The requantizers. *)

(* e3m1 from bfloat16, by cases on the exponent. *)
_bf16_to_e3m1_rne(x) ==
  IF IsZero(x) \/ x.k # "num" THEN x
  ELSE LET e == Exp(x)
           M == x.n * 2 ^ (BF + 1 - bit_length(x.n)) - 2 ^ BF
           q == M \div 2 ^ (BF - 1)
           r == (M \div 2 ^ (BF - 2)) % 2 = 1
           sticky == M % 2 ^ (BF - 2) # 0
           sig2 == IF r /\ (sticky \/ q = 1) THEN q + 1 ELSE q
           e_out == IF sig2 = 2 THEN e + 1 ELSE e
       IN  IF e <= -5 THEN PlusZero
           ELSE IF e = -4 THEN (IF M > 0 THEN Num(x.s, 1, -3) ELSE PlusZero)
           ELSE IF e = -3 THEN Num(x.s, 1, IF M >= 2 ^ (BF - 1) THEN -2 ELSE -3)
           ELSE IF e_out > 3 THEN Inf(x.s)
           ELSE Num(x.s, 2 + (sig2 % 2), e_out - 1)

_e3m1_to_e2m1(x) ==
  LET isOneOf(vs) == \E v \in vs : x.n = v[1] /\ x.e = v[2]
  IN  IF x.k = "inf" \/ (~IsZero(x) /\ Exp(x) >= 3) THEN Num(x.s, 3, 1)
      ELSE IF isOneOf({<<1, -3>>, <<1, -2>>}) THEN PlusZero
      ELSE IF isOneOf({<<3, -3>>, <<1, -1>>}) THEN Num(x.s, 1, -1)
      ELSE IF isOneOf({<<3, -2>>}) THEN Num(x.s, 1, 0)
      ELSE x

hw_bf16_to_e2m1(x) == _e3m1_to_e2m1(_bf16_to_e3m1_rne(x))

(* fp8.py: the code of a number; e4m3 has no code for its largest mantissa. *)
tensor_to_custom_fp_codes(x, eb, mb) ==
  LET mx_fp8 == eb = 4 /\ mb = 3
      emax == IF mx_fp8 \/ (eb = 2 /\ mb = 3) THEN bias(eb) + 1 ELSE bias(eb)
      top == 2 ^ mb - (IF mx_fp8 THEN 2 ELSE 1)
      E == Exp(x)
      k == _round_div_pow2_rne_int(x.n, Emin(eb) - mb - x.e)
      m == _round_div_pow2_rne_int(x.n, E - mb - x.e) - 2 ^ mb
      code(e, f) == <<x.s, e, f>>
  IN  IF x.k # "num" \/ IsZero(x) THEN <<0, 0, 0>>
      ELSE IF E < Emin(eb)
      THEN IF k = 0 THEN <<0, 0, 0>> ELSE IF k >= 2 ^ mb THEN code(1, 0) ELSE code(0, k)
      ELSE IF E > emax \/ (m = 2 ^ mb /\ E = emax) THEN code(emax + bias(eb), top)
      ELSE IF m = 2 ^ mb THEN code(E + 1 + bias(eb), 0)
      ELSE code(E + bias(eb), IF mx_fp8 /\ E = emax THEN Lower(m, top) ELSE m)

Shift(x, d) == IF IsZero(x) THEN x ELSE [x EXCEPT !.e = @ + d]

(* Both requantizers normalise a row to [1, 2); what they do with a row    *)
(* that is zero or not finite is decided by qtorch.                        *)
matrix_mx_requantize ==
  LET big == CHOOSE n \in Columns : \A o \in Columns :
               ~IsZero(C[n]) /\ (IsZero(C[o]) \/ Exp(C[o]) <= Exp(C[n]))
      scaled == [n \in Columns |-> Shift(C[n], -Exp(C[big]))]
  IN  /\ w0 = n_win /\ written = <<>>
      /\ \A n \in Columns : C[n].k = "num"
      /\ \E n \in Columns : ~IsZero(C[n])
      /\ written' = [fp4 |-> [n \in Columns |-> hw_bf16_to_e2m1(q_bf16_rne(scaled[n]))],
                     fp8 |-> [n \in Columns |-> tensor_to_custom_fp_codes(scaled[n], job.out[1], job.out[2])]]
      /\ UNCHANGED <<job, w0, c0, l, S_red, folded, C>>

Next == \/ _simulate_atw_rtl \/ _simulate_atw_rtl_serial \/ matmul_outer_quantized_hwlike
        \/ FoldWindow \/ tiled_matmul_hwlike \/ matrix_mx_requantize

Spec == Init /\ [][Next]_vars

----------------------------------------------------------------------------
(* The arithmetic as the hardware has it, for one number at a time: the    *)
(* nearest multiple of the grid, the even one of two.                      *)
Nearest(x, g) ==
  LET d == 2 ^ (g - x.e)
      q == x.n \div d
      near(k) == LET dist == IF x.n > k * d THEN x.n - k * d ELSE k * d - x.n
                 IN  2 * dist < d \/ (2 * dist = d /\ k % 2 = 0)
  IN  IF x.e >= g THEN x ELSE Num(x.s, CHOOSE k \in {q, q + 1} : near(k), g)

Grid(x, eb, mb) == (IF eb # E8 /\ Exp(x) < Emin(eb) THEN Emin(eb) ELSE Exp(x)) - mb

Rounded(x, eb, mb) ==
  IF x.k # "num" \/ IsZero(x) THEN x
  ELSE LET y == Nearest(x, Grid(x, eb, mb))
       IN  IF eb # E8 /\ ~IsZero(y) /\ Exp(y) > bias(eb) THEN Inf(x.s) ELSE y

Sum(x, y) == IF x.k = "num" /\ y.k = "num" THEN ExactSum(x, y)
             ELSE IF "nan" \in {x.k, y.k} \/ (x.k = y.k /\ x.s # y.s) THEN NaN
             ELSE IF x.k = "inf" THEN x ELSE y

RoundedSum(x, y, eb, mb) == Rounded(Sum(Rounded(x, eb, mb), Rounded(y, eb, mb)), eb, mb)

(* The largest multiple of mb fraction bits not above, up to the largest   *)
(* number, above which the array has one bit pattern.                      *)
Product(x) ==
  LET mb == IF job.lanes = <<>> THEN PROD_MANT_BITS ELSE job.prod[2]
      lead == Exp(x) - mb
      cut == IF x.e >= lead THEN x ELSE Num(x.s, x.n \div 2 ^ (lead - x.e), lead)
      mx_fp8 == job.prod = <<4, 3>>
      largest == IF mx_fp8 THEN Num(x.s, 2 ^ (mb + 1) - 2, bias(4) + 1 - mb)
                 ELSE Num(x.s, 2 ^ (mb + 1) - 1, bias(job.prod[1]) - mb)
      over == ExactSum(cut, Neg(largest))
  IN  IF job.lanes = <<>> THEN (IF IsZero(x) THEN x ELSE cut)
      ELSE IF IsZero(x) \/ (job.path # "tiled" /\ Exp(cut) < PROD_FLOOR) THEN PlusZero
      ELSE IF ~IsZero(over) /\ over.s = x.s
           THEN Num(x.s, 2 ^ (mb + 1) - 2, bias(job.prod[1]) + 1 - mb)
           ELSE cut

WindowSum(w, n) ==
  LET lanes == IF job.lanes = <<>> THEN [i \in 1 .. window |-> <<E8, BF>>] ELSE job.lanes
      add(s, i) == LET k == w * window + i - 1
                   IN  IF k >= job.K THEN s
                       ELSE RoundedSum(s, Product(Times(job.a[k], job.b[k][n])), lanes[i][1], lanes[i][2])
  IN  FoldLeft(add, PlusZero, [i \in 1 .. window |-> i])

Element(n) ==
  LET add(c, i) == RoundedSum(c, Times(WindowSum(i - 1, n), scale_map(i - 1, n)), E8, BF)
  IN  FoldLeft(add, PlusZero, [i \in 1 .. n_win |-> i])

Same(x, y) == x = y \/ (IsZero(x) /\ IsZero(y))

Saturated(x, eb, mb) ==
  LET y == IF IsZero(x) THEN x ELSE Nearest(x, Grid(x, eb, mb))
      largest == IF <<eb, mb>> = <<4, 3>> THEN Num(x.s, 14, 5) ELSE Num(x.s, 2 ^ (mb + 1) - 1, bias(eb) - mb)
      over == ExactSum(y, Neg(largest))
  IN  IF ~IsZero(over) /\ over.s = x.s THEN largest ELSE y

Decoded(c, eb, mb) == _fields_to_dyadic(c[1], <<c[2], c[3]>>, eb, mb)

(* Every element of the result is what the array computes for its row and  *)
(* column alone: lane by lane in the lane's own precision, the windows     *)
(* added in order in bfloat16, and the next matmul gets the nearest code   *)
(* of it.  It does not matter how many windows were in flight, whether the *)
(* tensor was large enough to be vectorised or what the neighbours are     *)
(* (rtl_datapath.py:88-90, 150-155, fp8.py:200), nor which path ran, but   *)
(* for two things: only the tiled one keeps a product below PROD_FLOOR,    *)
(* and without a schedule it adds in bfloat16 and saturates nothing.       *)
ComputesElementwise ==
  /\ w0 = n_win => \A n \in Columns : Same(C[n], Element(n))
  /\ written # <<>> =>
       LET top == CHOOSE e \in {Exp(C[n]) : n \in {o \in Columns : ~IsZero(C[o])}} :
                    \A n \in Columns : IsZero(C[n]) \/ Exp(C[n]) <= e
       IN  \A n \in Columns :
             LET v == Shift(C[n], -top)
             IN  /\ Same(Decoded(written.fp8[n], job.out[1], job.out[2]), Saturated(v, job.out[1], job.out[2]))
                 /\ Same(written.fp4[n], Saturated(Rounded(v, 3, 1), 2, 1))
=============================================================================
