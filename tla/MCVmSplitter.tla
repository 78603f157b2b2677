---------------------------- MODULE MCVmSplitter ----------------------------
(* Variables of VmSplitter for small word sizes.                           *)
EXTENDS VmSplitter, FiniteSets

Flow(split, op, words, range, init) ==
  [kind |-> "flow", split |-> split, op |-> op, words |-> words,
   min |-> range[1], max |-> range[2], init |-> init]

RangesOf(words, mins) == {r \in mins \X (0..words - 1) : r[1] <= r[2]}

\* Variables of four values and of sixteen, which is a long: every range of the first,
\* and those of the second that begin low or high.
CountingVars ==
  UNION {{Flow(s, op, 4, r, r[1]), Flow(s, op, 4, r, r[2]), Flow(s, op, 4, r, (r[1] + r[2]) \div 2)} :
           s \in BOOLEAN, op \in {"inc", "dec"}, r \in RangesOf(4, 0..3)}
  \cup {Flow(s, op, 16, r, r[1]) :
          s \in BOOLEAN, op \in {"inc", "dec"}, r \in RangesOf(16, {0, 1, 11})}

\* Random variables of every width, of the full range, of a size with bit 31 set or not.
RandomVars ==
  {Flow(FALSE, "random", 2, r, 0) : r \in {<<0, 1>>, <<0, 0>>}}
  \cup {Flow(TRUE, "random", 4, r, r[1]) : r \in {<<0, 3>>, <<1, 3>>}}
  \cup {Flow(FALSE, "random", 8, r, r[1]) : r \in {<<0, 7>>, <<0, 4>>, <<3, 7>>}}
  \cup {Flow(FALSE, "random", 16, r, r[1]) : r \in {<<0, 15>>, <<2, 5>>, <<1, 3>>, <<4, 13>>}}

AllFlowVars == CountingVars \cup RandomVars

Client(split, unlimited, limit, range, ports) ==
  [kind |-> "client", split |-> split, unlimited |-> unlimited, limit |-> limit,
   words |-> 8, min |-> range[1], max |-> range[2],
   port_min |-> ports[1], port_max |-> ports[2]]

\* Addresses and ports up to the first and the last one there are, or short of them.
Addresses  == {<<1, 1>>, <<1, 3>>, <<2, 6>>, <<0, 0>>, <<0, 2>>, <<5, 7>>, <<0, 7>>}
ClientVarsAll ==
  {Client(s, FALSE, l, r, q) : s \in BOOLEAN, l \in {0, 1, 3, 7}, r \in Addresses,
     q \in {<<1, 1>>, <<0, 1>>, <<2, 3>>}}
  \cup {Client(s, TRUE, 0, r, <<1, 1>>) : s \in BOOLEAN, r \in Addresses}
=============================================================================
