------------------------------ MODULE MCMxReduce ------------------------------
(* Instances of MxReduce: rows of eight products over four columns.        *)
EXTENDS MxReduce

MCFloor == -4
F(n, e) == Num(IF n < 0 THEN 1 ELSE 0, IF n < 0 THEN -n ELSE n, e)
Row(ns, e) == [n \in Columns |-> F(ns[n + 1], e[n + 1])]

A == [k \in 0 .. 7 |-> F(<<3, 5, 1, 7, 9, 1, 11, 3>>[k + 1], <<-1, -2, 0, -2, -3, 0, -3, -1>>[k + 1])]

(* Pairs of rows of B: ordinary ones, one column beyond every format, sums *)
(* below the flush and in the subnormals, ties and cancellations.          *)
Ordinary == <<Row(<<1, 3, -5, 7>>, <<0, -1, -3, -2>>), Row(<<-3, 1, 9, -1>>, <<-2, 0, -3, 0>>)>>
Large    == <<Row(<<1, 3, 1, 1>>, <<0, 2, -3, 1>>), Row(<<5, -7, -1, -7>>, <<-2, 1, -4, -2>>)>>
Tiny     == <<Row(<<1, 1, -3, 1>>, <<-5, -4, -6, -3>>), Row(<<-1, 9, 1, -1>>, <<-4, -6, -5, -3>>)>>
Ties     == <<Row(<<5, -5, 3, 1>>, <<-2, -1, -3, 0>>), Row(<<-5, 7, 5, -1>>, <<-2, -2, -4, 0>>)>>

Bs == {[k \in 0 .. 7 |-> ws[k \div 2][1 + (k % 2)]] : ws \in [0 .. 3 -> {Ordinary, Large, Tiny, Ties}]}

Schedules == {[prod |-> <<4, 3>>, lanes |-> <<<<2, 1>>, <<3, 2>>>>, out |-> <<3, 2>>],
              [prod |-> <<3, 2>>, lanes |-> <<<<3, 2>>, <<8, 3>>>>, out |-> <<4, 3>>],
              [prod |-> <<4, 3>>, lanes |-> <<<<4, 2>>, <<8, 1>>>>, out |-> <<2, 1>>]}
Paths == {[path |-> "batched", K |-> 8, W |-> 1], [path |-> "batched", K |-> 8, W |-> 3],
          [path |-> "serial", K |-> 7, W |-> 1], [path |-> "tiled", K |-> 8, W |-> 1]}
Scales == [xa |-> <<0, 2>>, xb |-> <<<<0, 1, -1, 0>>, <<-3, -2, 0, -1>>>>]

MCJobs ==
  {p @@ s @@ [a |-> A, b |-> B,
              xa |-> [g \in 0 .. 1 |-> Scales.xa[g + 1]],
              xb |-> [g \in 0 .. 1 |-> [n \in Columns |-> Scales.xb[g + 1][n + 1]]]] :
     p \in Paths, s \in Schedules, B \in Bs}
  \cup {[path |-> "tiled", K |-> 7, W |-> 1, a |-> A, b |-> B, prod |-> <<4, 3>>, lanes |-> <<>>,
         out |-> <<3, 2>>, xa |-> [g \in 0 .. 1 |-> 0],
         xb |-> [g \in 0 .. 1 |-> [n \in Columns |-> n - g]]] : B \in Bs}
===============================================================================
