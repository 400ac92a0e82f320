------------------------------ MODULE MCMxDevice ------------------------------
EXTENDS MxDevice

Chain(m, k, ns) ==
  [x |-> <<m, k>>,
   stages |-> [i \in DOMAIN ns |-> Stage(<<"L0", "L1", "L2">>[i],
                                         <<IF i = 1 THEN k ELSE ns[i - 1], ns[i]>>, "", "", FALSE)]]

Chains ==
  {Chain(m, k, ns) : m \in {16, 32, 64}, k \in {32, 64},
                     ns \in {<<a>> : a \in {16, 32, 64}} \cup {<<a, b>> : a, b \in {32, 64}}
                            \cup {<<32, 64, 16>>, <<32, 32, 32>>}}

Attention(m, d) ==
  [x |-> <<m, d>>,
   stages |-> << Stage("Q", <<d, 32>>, "x", "", FALSE), Stage("K", <<d, 32>>, "x", "", FALSE),
                 Stage("V", <<d, 32>>, "x", "", FALSE), Stage("S", <<>>, "Q", "K", TRUE),
                 HostStage("P", "softmax", <<"S">>, FALSE), Stage("O", <<>>, "P", "V", FALSE),
                 Stage("Y", <<32, d>>, "O", "", FALSE) >>]

Mlp(m, d, h) ==
  [x |-> <<m, d>>,
   stages |-> << HostStage("Xn", "rmsnorm", <<"x">>, FALSE),
                 Stage("G", <<d, h>>, "Xn", "", FALSE), Stage("U", <<d, h>>, "Xn", "", FALSE),
                 HostStage("H", "swiglu", <<"G", "U">>, FALSE), Stage("Y", <<h, d>>, "", "", FALSE) >>]

(* A skip over a matmul whose A tiles reach beyond row 128. *)
Skip(m, d, h) ==
  [x |-> <<m, d>>,
   stages |-> << Stage("A", <<d, d>>, "", "", FALSE), HostStage("R", "add", <<"A", "x">>, FALSE),
                 Stage("Y", <<d, h>>, "", "", FALSE) >>]

(* A residual before the last matmul, and a value used on both sides. *)
Residual(m, d) ==
  [x |-> <<m, d>>,
   stages |-> << Stage("A", <<d, d>>, "", "", FALSE), HostStage("R", "add", <<"A", "x">>, FALSE),
                 Stage("Y", <<>>, "R", "R", TRUE) >>]

(* A stage that refers to a later one. *)
Unresolved == [x |-> <<32, 32>>,
               stages |-> << Stage("A", <<32, 32>>, "B", "", FALSE), Stage("B", <<32, 32>>, "", "", FALSE) >>]

Graphs == {Attention(32, 64), Attention(64, 32), Mlp(32, 64, 128), Mlp(16, 64, 256), Residual(64, 32), Residual(32, 32),
           Skip(48, 64, 32)}

----------------------------------------------------------------------------
(* The recipe files: the shipped ones and ways to get one wrong. *)
LutUnit(proj, width, entries, g) ==
  [projFormat |-> proj, rdataWidth |-> width, raddrWidth |-> 4, numEntries |-> entries,
   numBits |-> <<16 * width, 16 * width, 16 * width>>, lutUpdateRegularityWidth |-> g,
   actCodeWidth |-> 0, weiCodeWidth |-> 0]

Lanes(n, kinds) == [len |-> n, kinds |-> kinds]

Hw(lutUnit, rows) ==
  [array |-> [meshRows |-> 16, meshColumns |-> 16],
   types |-> [meshProdPrecisionList |-> Lanes(16, {"e4m3"}),
              meshAccPrecisionList |-> Lanes(16, {"e4m4", "e4m5", "e4m6", "e8m7"}), prodFloor |-> -16],
   mx |-> [scaleSize |-> 32, lut |-> lutUnit],
   scratchpad |-> [banks |-> 4, rows |-> rows],
   implementation |-> [clock_ns |-> 1, utilization |-> 1], name |-> "hw"]

MCHardwareFiles ==
  LET baseline == Hw(LutUnit("LutFP6E3M2", 6, <<4, 4, 4>>, 4), 96)
      e2m3 == Hw(LutUnit("LutFP6E2M3", 6, <<4, 4, 4>>, 4), 96)
      e4m3 == Hw(LutUnit("LutFP8E4M3", 8, <<4, 2, 2>>, 4), 96)
  IN  {baseline, e2m3, e4m3,
       Hw(<<>>, 96),                                                  \* no LUT unit
       Hw(LutUnit("LutFP8E4M3", 6, <<4, 4, 4>>, 4), 96),              \* an fp8 projection of 6-bit entries
       Hw(LutUnit("LutFP6E2M3", 6, <<4, 4, 4>>, 2), 96),              \* a narrow G register
       Hw(LutUnit("LutFP6E2M3", 6, <<8, 8, 1>>, 4), 96),              \* one C table
       [e2m3 EXCEPT !.mx.lut.actCodeWidth = 4],
       [baseline EXCEPT !.array.meshRows = 8],
       [baseline EXCEPT !.types.meshProdPrecisionList.kinds = {"e4m3", "e4m2"}],
       [baseline EXCEPT !.types.meshAccPrecisionList.len = 8],
       [baseline EXCEPT !.mx = [lut |-> <<>>, scaleSize |-> 16]],
       Hw(<<>>, 64)}

Tables(g) == [group |-> g, weights |-> "data", activations |-> "data", outputs |-> "estimate",
              pick |-> "host", fit |-> [method |-> "kmeans", init |-> "quantile", max_iters |-> 50]]

RunFile(f) ==
  [name |-> f, operand_fmt |-> f, rounding |-> "rne", scale_floor |-> "2^-23", reduce |-> "hardware",
   allow_lossy_chain |-> FALSE, fp32_tol |-> "0.15"]

MCRunFiles ==
  {RunFile(f) : f \in {"fp8_e4m3", "fp4_e2m1", "fp6_e2m3", "bf16"}}
  \cup {RunFile(f) @@ [lut |-> Tables(g)] : f \in {"fp6_e2m3", "fp8_e4m3_quad"}, g \in {2, 4, 5}}
  \cup {[RunFile("fp8_e4m3") EXCEPT !.rounding = "ties_away"],
        [RunFile("fp8_e4m3") EXCEPT !.reduce = "exact"],
        RunFile("fp8_e4m3") @@ [scale |-> "ocp"],
        RunFile("fp8_e4m3") @@ [lut |-> Tables(4)],
        RunFile("fp8_e4m3") @@ [vector |-> [softmax |-> "bf16", rmsnorm |-> "null"]],
        RunFile("fp6_e2m3") @@ [lut |-> [Tables(4) EXCEPT !.weights = "top16"]],
        [operand_fmt |-> "fp8_e4m3"]}

MCKernels == Chains \cup Graphs \cup {Unresolved}
MCScratchpad == <<4, 96>>
===============================================================================
