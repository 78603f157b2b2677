------------------------- MODULE MCStreamsCompiler -------------------------
(* All the tables of two streams, and all the chains and loops of three.   *)
EXTENDS StreamsCompiler

CONSTANT Bursts   \* sizes of the bursts

\* Streams of every kind; the next one may be itself, the other, or missing.
AnyStream(k) ==
  {s \in [id : {k}, enabled : BOOLEAN, self_start : BOOLEAN,
          type : {"continuous", "burst"}, next : {NONE, 1, 2, 3}, pkts : Bursts \cup {0}] :
     (s.type = "burst") <=> (s.pkts # 0)}

Burst(k) ==
  [id : {k}, enabled : {TRUE}, self_start : BOOLEAN, type : {"burst"},
   next : {NONE, 1, 2, 3}, pkts : {4}]

\* The table is a hash: any order.  The tests hand in lists, with the same id twice.
Pairs == {<<>>} \cup UNION {{<<s, t>> : s \in AnyStream(1), t \in AnyStream(k)} : k \in {1, 2}}

Triples ==
  UNION {{<<s, t, u>> : s \in Burst(p[1]), t \in Burst(p[2]), u \in Burst(p[3])} :
           p \in {<<1, 2, 3>>, <<3, 1, 2>>}}

SmallTables == Pairs \cup Triples
=============================================================================
