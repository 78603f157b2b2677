--------------------------- MODULE MCStreamsGraph ---------------------------
(* Tables of two streams of every kind, and of three that overlap.         *)
EXTENDS StreamsGraph

\* type, isg, pps, pkts, bursts, ibg
Kind(t, g, p, n, b, i) == [type |-> t, isg |-> g, pps |-> p, pkts |-> n, bursts |-> b, ibg |-> i]

Continuous == Kind("continuous", 1, 2, 0, 0, 0)
Short      == Kind("single_burst", 2, 3, 1, 1, 0)   \* from 2 to 4
Long       == Kind("single_burst", 0, 1, 1, 1, 0)   \* from 0 to 6
Nothing    == Kind("single_burst", 2, 5, 0, 1, 0)   \* no packets
Twice      == Kind("multi_burst", 0, 2, 1, 2, 1)    \* from 0 to 3, 4 to 7
Late       == Kind("single_burst", 5, 2, 1, 1, 0)   \* from 5 to 8
Never0     == Kind("multi_burst", 1, 2, 1, 0, 1)    \* no bursts

With(k, kinds, nexts, enabled) ==
  {[id |-> k, enabled |-> e, self_start |-> f, next |-> n, type |-> x.type, isg |-> x.isg,
    pps |-> x.pps, pkts |-> x.pkts, bursts |-> x.bursts, ibg |-> x.ibg] :
      e \in enabled, f \in BOOLEAN, n \in nexts, x \in kinds}

Pairs ==
  {<<s, t>> : s \in With(1, {Continuous, Short, Long, Nothing, Twice, Late, Never0}, {NONE, 1, 2}, BOOLEAN),
              t \in With(2, {Continuous, Short, Long, Nothing, Twice, Never0}, {NONE, 1, 3}, BOOLEAN)}

\* In the order of the hash, which is not that of the ids.
Triples ==
  {<<s, t, u>> : s \in With(3, {Continuous, Long, Twice}, {NONE, 1, 2}, {TRUE}),
                 t \in With(1, {Short, Nothing, Twice}, {NONE, 2, 3}, {TRUE}),
                 u \in With(2, {Short, Long, Never0}, {NONE, 1}, {TRUE})}

SmallTables == Pairs \cup Triples
SomeGarbage == {-1, 0, 7}
=============================================================================
