--------------------------- MODULE NatLearnProofs ---------------------------
(***************************************************************************)
(* What learning the translations promises, for every set of flows, every  *)
(* size of the batches and rings and however the network loses, repeats    *)
(* and reorders the learn packets.                                         *)
(*                                                                         *)
(* LearnInv adds to WaitingInv what a flow knows in each of its states.    *)
(* That a flow which waits has sent nothing but initiator packets          *)
(* (NodeOK) is why none of them reaches its end, and is freed, while it    *)
(* is still in the table.                                                  *)
(***************************************************************************)
EXTENDS NatLearn, FiniteSetTheorems, WellFoundedInduction, TLAPS

-----------------------------------------------------------------------------
(* The inductive invariant.                                                *)

NodeOK(x) ==
    /\ m_node[x].pkt \in DOMAIN Pkts(x)
    /\ m_node[x].m_type = "NEW" => m_node[x].nat = "first"
    /\ m_node[x].nat = "first" => m_node[x].pkt = 1
    /\ m_node[x].m_type = "FLOW_PKT" =>
          m_node[x].nat = "wait" /\ m_node[x].addr \in External(x)
    /\ m_node[x].m_type # "FLOW_PKT" => m_node[x].addr = NoAddr
    /\ m_node[x].m_type = "FLOW_PKT_NAT" =>
          \A i \in DOMAIN Pkts(x) : i < m_node[x].pkt => Pkts(x)[i] = "init"

NodesOK == \A x \in Flow : NodeOK(x)

\* Copies of a learn packet are on the wire after it was sent.
WireOK == \A x \in Flow : wire[x] > 0 => Launched(x)

\* What is flushed is not empty, what is not is not full.
BatchesOK ==
    /\ \A t \in Thread : t \in rx.todo => m_cur_nat_msg[t] # << >>
    /\ \A t \in Thread : t \notin rx.todo => Len(m_cur_nat_msg[t]) < MaxNatInfo
    /\ phase = "run" => rx.full < MaxFull

LearnInv == WaitingInv /\ NodesOK /\ WireOK /\ BatchesOK

-----------------------------------------------------------------------------
(* Flows and messages.                                                     *)

\* A set of naturals that is not empty has a smallest element.
LEMMA SmallestNat ==
  ASSUME NEW T, T \subseteq Nat, T # {}
  PROVE  \E m \in T : \A n \in T : m <= n
<1>1. \E R, S : S = Nat /\ IsWellFoundedOn(R, S) /\ \A n, m \in S : n < m => <<n, m>> \in R
  <2>1. IsWellFoundedOn(OpToRel(<, Nat), Nat)
    BY NatLessThanWellFounded, Zenon
  <2>2. \A n, m \in Nat : n < m => <<n, m>> \in OpToRel(<, Nat)
    BY SMT DEF OpToRel
  <2> QED BY <2>1, <2>2, Zenon
<1>2. PICK R, S : S = Nat /\ IsWellFoundedOn(R, S) /\ \A n, m \in S : n < m => <<n, m>> \in R
  BY <1>1, Zenon
<1>3. T \subseteq S
  BY <1>2
<1>4. IsWellFoundedOn(R, S)
  BY <1>2, Zenon
<1>5. \E x \in T : \A y \in T : ~(<<y, x>> \in R)
  BY ONLY <1>3, <1>4, T # {}, WFMin, Zenon
<1>6. PICK m \in T : \A y \in T : ~(<<y, m>> \in R)
  BY <1>5
<1>7. \A y \in T : ~(y < m)
  BY <1>2, <1>6
<1> QED BY <1>7

\* What the assumptions say of a flow.
LEMMA FlowFacts ==
  ASSUME NEW x \in Flow
  PROVE  /\ x = <<x[1], x[2]>> /\ x[1] \in Thread /\ x[2] \in DOMAIN Flows[x[1]]
         /\ x[1] \in Nat /\ x[2] \in Nat
         /\ Len(Pkts(x)) \in Nat \ {0} /\ DOMAIN Pkts(x) = 1..Len(Pkts(x))
         /\ Pkts(x)[1] = "init"
         /\ \E i \in DOMAIN Pkts(x) : Pkts(x)[i] = "resp"
         /\ Copies[x[1]][x[2]] \in Nat
<1>1. PICK t \in Thread : x \in {t} \X DOMAIN Flows[t]
  BY DEF Flow
<1>2. x = <<x[1], x[2]>> /\ x[1] = t /\ x[2] \in DOMAIN Flows[t]
  BY <1>1
<1>3. Flows[t] \in Seq(Seq({"init", "resp"})) /\ t \in Nat
  BY NatAssumption DEF Thread
<1>4. Flows[t][x[2]] \in Seq({"init", "resp"}) /\ x[2] \in Nat
  BY <1>2, <1>3
<1>5. Flows[t][x[2]] # << >>
  BY <1>2, NatAssumption DEF Thread
<1>6. Len(Flows[t][x[2]]) \in Nat \ {0} /\ DOMAIN Flows[t][x[2]] = 1..Len(Flows[t][x[2]])
  BY <1>4, <1>5
<1> QED BY <1>2, <1>3, <1>4, <1>6, NatAssumption DEF Thread, Pkts

\* A flow is a pair of a thread and one of its flows.
LEMMA PairIsFlow ==
  ASSUME NEW t \in Thread, NEW f \in DOMAIN Flows[t]
  PROVE  <<t, f>> \in Flow
BY DEF Flow

\* There are finitely many flows.
LEMMA FlowFinite == IsFiniteSet(Flow)
<1> DEFINE S == {{t} \X DOMAIN Flows[t] : t \in Thread}
           g == [t \in Thread |-> {t} \X DOMAIN Flows[t]]
<1>1. Flows \in Seq(Seq(Seq({"init", "resp"})))
  BY NatAssumption
<1>2. Thread = 1..Len(Flows) /\ Len(Flows) \in Nat
  BY <1>1 DEF Thread
<1>3. IsFiniteSet(Thread)
  BY <1>2, FS_Interval
<1>4. g \in Surjection(Thread, S)
  BY DEF Surjection
<1>5. IsFiniteSet(S)
  BY <1>3, <1>4, FS_Surjection, Zenon
<1>6. \A T \in S : IsFiniteSet(T)
  <2> SUFFICES ASSUME NEW t \in Thread PROVE IsFiniteSet({t} \X DOMAIN Flows[t])
    OBVIOUS
  <2>1. Flows[t] \in Seq(Seq({"init", "resp"}))
    BY <1>1 DEF Thread
  <2>2. DOMAIN Flows[t] = 1..Len(Flows[t]) /\ Len(Flows[t]) \in Nat
    BY <2>1
  <2>3. IsFiniteSet(DOMAIN Flows[t])
    BY <2>2, FS_Interval
  <2> QED BY <2>3, FS_Singleton, FS_Product
<1> QED BY <1>5, <1>6, FS_UNION DEF Flow

\* One of the messages for a flow is before all others.
LEMMA FirstSlot ==
  ASSUME TypeOK, NEW t \in Thread, NEW x \in Flow, SlotsOf(t, x) # {}
  PROVE  TheInfo(t, x) \in {InfoAt(t, s) : s \in SlotsOf(t, x)}
<1> DEFINE S == SlotsOf(t, x)
           B == {s[1] : s \in S}
<1>1. ring[t] \in Seq(Seq(Info))
  BY DEF TypeOK
<1>2. \A s \in S : /\ s = <<s[1], s[2]>> /\ s[1] \in Nat /\ s[2] \in Nat
                   /\ ring[t][s[1]] \in Seq(Info)
  <2> SUFFICES ASSUME NEW s \in S
               PROVE  s = <<s[1], s[2]>> /\ s[1] \in Nat /\ s[2] \in Nat
    BY <1>1 DEF SlotsOf, Slots
  <2>1. PICK b \in DOMAIN ring[t] : s \in {b} \X DOMAIN ring[t][b]
    BY DEF SlotsOf, Slots
  <2>2. ring[t][b] \in Seq(Info) /\ b \in Nat
    BY <1>1
  <2> QED BY <2>1, <2>2
<1>3. B \subseteq Nat /\ B # {}
  BY <1>2
<1> HIDE DEF S
<1>4. PICK b \in B : \A n \in B : b <= n
  BY <1>3, SmallestNat
<1> DEFINE P == {s[2] : s \in {r \in S : r[1] = b}}
<1>5. P \subseteq Nat /\ P # {}
  BY <1>2, <1>4
<1>6. PICK p \in P : \A n \in P : p <= n
  BY <1>5, SmallestNat
<1>7. PICK s \in S : s[1] = b /\ s[2] = p
  BY <1>6
<1>8. \A r \in S : ~IsBefore(r, s)
  <2> SUFFICES ASSUME NEW r \in S, IsBefore(r, s) PROVE FALSE
    OBVIOUS
  <2>1. b <= r[1]
    BY <1>4
  <2>2. r[1] = b => p <= r[2]
    BY <1>6
  <2> QED BY <2>1, <2>2, <1>2, <1>7 DEF IsBefore
<1> QED BY <1>8 DEF TheInfo, S

\* A message for a flow is true for it.
LEMMA AnswerFacts ==
  ASSUME TypeOK, LookupIsTheWaiting, MessagesAreTrue, NEW t \in Thread, NEW x \in Answered(t)
  PROVE  /\ x \in Flow /\ m_node[x].m_type = "FLOW_PKT_NAT" /\ m_node[x].nat = "wait"
         /\ TheInfo(t, x).m_external \in External(x)
<1>1. x \in Flow /\ x[1] = t /\ SlotsOf(t, x) # {} /\ m_node[x].m_type = "FLOW_PKT_NAT"
  BY DEF Answered, TypeOK, LookupIsTheWaiting
<1>2. PICK s \in SlotsOf(t, x) : TheInfo(t, x) = InfoAt(t, s)
  BY <1>1, FirstSlot
<1>3. s \in Slots(t) /\ InfoAt(t, s).m_fid = x[2]
  BY <1>2 DEF SlotsOf
<1>4. IsTrueFor(t, InfoAt(t, s))
  BY <1>3 DEF MessagesAreTrue
<1>5. x = <<t, x[2]>>
  BY <1>1, FlowFacts
<1> QED BY <1>1, <1>2, <1>3, <1>4, <1>5 DEF IsTrueFor, Launched

\* An address is not NoAddr.
LEMMA AddressIsNotNoAddr == NoAddr \notin Address
BY DEF Address, External, NoAddr

\* A flow that waits is not at its end when it may send.
LEMMA WaitingIsNotAtEnd ==
  ASSUME NEW x \in Flow, NodeOK(x), m_node[x].m_type = "FLOW_PKT_NAT", ~GivesUp(x),
         m_node[x].nat \in {"first", "wait"}
  PROVE  m_node[x].pkt # Len(Pkts(x)) /\ Pkts(x)[m_node[x].pkt] # "resp"
<1>1. Pkts(x)[m_node[x].pkt] # "resp"
  BY FlowFacts DEF NodeOK, GivesUp, is_responder_pkt
<1>2. PICK i \in DOMAIN Pkts(x) : Pkts(x)[i] = "resp"
  BY FlowFacts
<1>3. i \in Nat /\ i <= Len(Pkts(x)) /\ m_node[x].pkt \in Nat
  BY FlowFacts DEF NodeOK
<1>4. ~(i < m_node[x].pkt)
  BY <1>2 DEF NodeOK
<1> QED BY <1>1, <1>2, <1>3, <1>4

-----------------------------------------------------------------------------
(* Each action keeps the invariant.                                        *)

\* The threads start in the invariant.
LEMMA InitLearn == Init => LearnInv
<1> SUFFICES ASSUME Init PROVE LearnInv
  OBVIOUS
<1> USE DEF Init
<1>1. NewNode \in Node
  BY DEF NewNode, Node, NoAddr
<1>2. TypeOK
  <2>1. \A x \in Flow : 0 <= Copies[x[1]][x[2]]
    BY FlowFacts
  <2> QED BY <1>1, <2>1, NatAssumption DEF TypeOK
<1>3. LookupIsTheWaiting /\ NatAssertsHold
  BY DEF LookupIsTheWaiting, NatAssertsHold, NewNode
<1>4. NatCountersMatch
  <2>1. Learned = {}
    BY DEF NewNode, Learned
  <2> QED BY <2>1, FS_EmptySet DEF NatCountersMatch
<1>5. NoEmptyOrStuckBatch /\ MessagesAreTrue /\ BatchesOK
  BY NatAssumption DEF NoEmptyOrStuckBatch, MessagesAreTrue, BatchesOK, Slots
<1>6. NodesOK /\ WireOK
  BY FlowFacts DEF NodesOK, NodeOK, WireOK, NewNode
<1> QED BY <1>2, <1>3, <1>4, <1>5, <1>6 DEF LearnInv, WaitingInv

\* The messages stay true, and the batches as they were, when a generating thread
\* makes a step that takes back no first packet.
LEMMA DpStep ==
  ASSUME LearnInv, UNCHANGED <<m_cur_nat_msg, old, ring, rx, phase>>,
         \A y \in Flow : Launched(y) => Launched(y)'
  PROVE  MessagesAreTrue' /\ NoEmptyOrStuckBatch' /\ BatchesOK' /\ NatAssertsHold'
<1>1. ASSUME NEW t \in Thread, NEW info, IsTrueFor(t, info)
      PROVE  IsTrueFor(t, info)'
  BY <1>1, PairIsFlow DEF IsTrueFor
<1>2. MessagesAreTrue'
  <2>1. \A t \in Thread : Slots(t)' = Slots(t) /\ \A s \in Slots(t) : InfoAt(t, s)' = InfoAt(t, s)
    BY DEF Slots, InfoAt
  <2>2. ASSUME NEW t \in Thread, NEW i \in DOMAIN m_cur_nat_msg[t]
        PROVE  IsTrueFor(t, m_cur_nat_msg[t][i])'
    <3>1. IsTrueFor(t, m_cur_nat_msg[t][i])
      BY DEF LearnInv, WaitingInv, MessagesAreTrue
    <3> QED BY <3>1 , <1>1 DEF IsTrueFor, Launched
  <2>3. ASSUME NEW t \in Thread, NEW s \in Slots(t)
        PROVE  IsTrueFor(t, InfoAt(t, s))'
    <3>1. IsTrueFor(t, InfoAt(t, s))
      BY DEF LearnInv, WaitingInv, MessagesAreTrue
    <3> QED BY <3>1, <2>1, <1>1 DEF IsTrueFor, Launched
  <2> QED BY <2>1, <2>2, <2>3 DEF MessagesAreTrue
<1>3. NoEmptyOrStuckBatch' /\ BatchesOK' /\ NatAssertsHold'
  BY DEF LearnInv, WaitingInv, NoEmptyOrStuckBatch, BatchesOK, NatAssertsHold
<1> QED BY <1>2, <1>3

\* A new flow keeps the invariant.
LEMMA GenerateFlow ==
  ASSUME LearnInv, NEW x \in Flow, generate_flow(x)
  PROVE  LearnInv'
<1>1. TypeOK /\ NodeOK(x) /\ x \notin m_lookup
  BY DEF LearnInv, WaitingInv, NodesOK, LookupIsTheWaiting, generate_flow
<1>2. /\ m_lookup' = m_lookup \cup {x}
      /\ UNCHANGED <<wire, m_cur_nat_msg, old, ring, rx, phase>>
      /\ m_stats' = [m_stats EXCEPT !.add = @ + 1]
      /\ m_node[x].m_type = "NEW"
  BY DEF generate_flow
<1>3. /\ m_node' \in [Flow -> Node]
      /\ m_node'[x].m_type = "FLOW_PKT_NAT" /\ m_node'[x].nat = m_node[x].nat
      /\ m_node'[x].pkt = m_node[x].pkt /\ m_node'[x].addr = m_node[x].addr
      /\ \A y \in Flow : y # x => m_node'[y] = m_node[y]
  BY <1>1 DEF TypeOK, Node, generate_flow
<1>4. TypeOK'
  <2>1. m_stats \in [add : Nat, remove : Nat, timeout : Nat]
    BY <1>1 DEF TypeOK
  <2>2. m_stats' \in [add : Nat, remove : Nat, timeout : Nat]
    BY <1>2, <2>1
  <2> QED BY <1>1, <1>2, <1>3, <2>2 DEF TypeOK
<1>5. LookupIsTheWaiting'
  BY <1>2, <1>3 DEF LearnInv, WaitingInv, LookupIsTheWaiting
<1>6. NatCountersMatch'
  <2>1. Learned' = Learned
    BY <1>3 DEF Learned
  <2>2. IsFiniteSet(m_lookup)
    BY <1>1, FlowFinite, FS_Subset DEF TypeOK
  <2>3. Cardinality(m_lookup') = Cardinality(m_lookup) + 1 /\ Cardinality(m_lookup) \in Nat
    BY <1>1, <1>2, <2>2, FS_AddElement, FS_CardinalityType
  <2>4. /\ m_stats'.add = m_stats.add + 1 /\ m_stats'.remove = m_stats.remove
        /\ m_stats'.timeout = m_stats.timeout
        /\ m_stats.add \in Nat /\ m_stats.remove \in Nat /\ m_stats.timeout \in Nat
    BY <1>1, <1>2 DEF TypeOK
  <2> QED BY <2>1, <2>3, <2>4 DEF NatCountersMatch, LearnInv, WaitingInv
<1>7. \A y \in Flow : Launched(y) => Launched(y)'
  BY <1>2, <1>3 DEF Launched
<1>8. NodesOK'
  <2>1. NodeOK(x)'
    BY <1>1, <1>2, <1>3, FlowFacts DEF NodeOK
  <2>2. \A y \in Flow : y # x => NodeOK(y)'
    BY <1>3 DEF LearnInv, NodesOK, NodeOK
  <2> QED BY <2>1, <2>2 DEF NodesOK
<1>9. WireOK'
  BY <1>2, <1>7 DEF WireOK, LearnInv
<1> QED BY <1>2, <1>4, <1>5, <1>6, <1>7, <1>8, <1>9, DpStep DEF LearnInv, WaitingInv

\* A flow that has sent a packet is freed or at the next one.
LEMMA SentFacts ==
  ASSUME NEW x \in Flow, m_node[x] \in Node, NodeOK(x)
  PROVE  /\ Sent(x) \in Node
         /\ \/ m_node[x].pkt = Len(Pkts(x)) /\ Sent(x) = FreedNode
            \/ /\ m_node[x].pkt # Len(Pkts(x))
               /\ Sent(x).m_type = m_node[x].m_type /\ Sent(x).addr = m_node[x].addr
               /\ Sent(x).nat = "wait" /\ Sent(x).pkt = m_node[x].pkt + 1
               /\ Sent(x).pkt \in DOMAIN Pkts(x)
<1>1. m_node[x].pkt \in 1..Len(Pkts(x)) /\ Len(Pkts(x)) \in Nat
  BY FlowFacts DEF NodeOK
<1>2. CASE m_node[x].pkt = Len(Pkts(x))
  BY <1>2 DEF Sent, FreedNode, NewNode, Node, NoAddr
<1>3. CASE m_node[x].pkt # Len(Pkts(x))
  <2>1. Sent(x) = [m_node[x] EXCEPT !.nat = "wait", !.pkt = @ + 1]
    BY <1>3 DEF Sent
  <2> DEFINE n == m_node[x]
  <2>2. n \in Node /\ n.pkt \in Nat /\ Sent(x) = [n EXCEPT !.nat = "wait", !.pkt = n.pkt + 1]
    BY <1>1, <2>1
  <2> HIDE DEF n
  <2>3. Sent(x) = [m_type |-> n.m_type, nat |-> "wait", pkt |-> n.pkt + 1, addr |-> n.addr]
    BY <2>2 DEF Node
  <2>4. n.pkt + 1 \in Nat \ {0}
    BY <2>2
  <2>5. /\ Sent(x) \in Node
        /\ Sent(x).m_type = n.m_type /\ Sent(x).addr = n.addr
        /\ Sent(x).nat = "wait" /\ Sent(x).pkt = n.pkt + 1
    BY <2>2, <2>3, <2>4 DEF Node
  <2>6. m_node[x].pkt + 1 \in DOMAIN Pkts(x)
    BY <1>1, <1>3, FlowFacts
  <2> QED BY <1>3, <2>5, <2>6 DEF n
<1> QED BY <1>2, <1>3

\* The fields of a freed node.
LEMMA FreedFacts ==
  /\ FreedNode \in Node /\ FreedNode.m_type = "FREE" /\ FreedNode.nat = "first"
  /\ FreedNode.pkt = 1 /\ FreedNode.addr = NoAddr
BY DEF FreedNode, NewNode, Node, NoAddr

\* The sets that are counted are finite.
LEMMA CountedAreFinite ==
  ASSUME TypeOK
  PROVE  /\ IsFiniteSet(m_lookup) /\ Cardinality(m_lookup) \in Nat
         /\ IsFiniteSet(Learned) /\ Cardinality(Learned) \in Nat
<1>1. m_lookup \in SUBSET Flow /\ Learned \in SUBSET Flow
  BY DEF TypeOK, Learned
<1> QED BY <1>1, FlowFinite, FS_Subset, FS_CardinalityType

\* A packet of a flow in learn mode keeps the invariant.
LEMMA FlowPktNat ==
  ASSUME LearnInv, NEW x \in Flow, flow_pkt_nat(x)
  PROVE  LearnInv'
<1>1. TypeOK /\ NodeOK(x) /\ m_node[x] \in Node
  BY DEF LearnInv, WaitingInv, NodesOK, TypeOK
<1>2. /\ UNCHANGED <<m_lookup, m_stats, m_cur_nat_msg, old, ring, rx, phase>>
      /\ m_node' = [m_node EXCEPT ![x] = Sent(x)]
      /\ wire' = [wire EXCEPT ![x] = IF m_node[x].nat = "first" THEN Copies[x[1]][x[2]] ELSE @]
      /\ m_node[x].m_type = "FLOW_PKT_NAT" /\ ~GivesUp(x)
  BY DEF flow_pkt_nat
<1>3. Pkts(x)[m_node[x].pkt] # "resp" /\ m_node[x].pkt # Len(Pkts(x))
  BY <1>1, <1>2, WaitingIsNotAtEnd DEF Node
<1>4. /\ m_node' \in [Flow -> Node]
      /\ m_node'[x].m_type = "FLOW_PKT_NAT" /\ m_node'[x].nat = "wait"
      /\ m_node'[x].pkt = m_node[x].pkt + 1 /\ m_node'[x].addr = m_node[x].addr
      /\ m_node'[x].pkt \in DOMAIN Pkts(x)
      /\ \A y \in Flow : y # x => m_node'[y] = m_node[y]
  BY <1>1, <1>2, <1>3, SentFacts DEF TypeOK
<1>5. /\ wire' \in [Flow -> Nat] /\ \A y \in Flow : y # x => wire'[y] = wire[y]
      /\ \A y \in Flow : wire'[y] <= Copies[y[1]][y[2]]
  <2>1. Copies[x[1]][x[2]] \in Nat
    BY FlowFacts
  <2>2. wire \in [Flow -> Nat] /\ \A y \in Flow : wire[y] <= Copies[y[1]][y[2]]
    BY <1>1 DEF TypeOK
  <2>3. wire'[x] = IF m_node[x].nat = "first" THEN Copies[x[1]][x[2]] ELSE wire[x]
    BY <1>2, <2>2
  <2>4. wire' \in [Flow -> Nat] /\ \A y \in Flow : y # x => wire'[y] = wire[y]
    BY <1>2, <2>1, <2>2
  <2> QED BY <2>1, <2>2, <2>3, <2>4
<1>6. TypeOK'
  BY <1>1, <1>2, <1>4, <1>5 DEF TypeOK
<1>7. LookupIsTheWaiting'
  BY <1>2, <1>4 DEF LearnInv, WaitingInv, LookupIsTheWaiting
<1>8. NatCountersMatch'
  <2>1. Learned' = Learned
    BY <1>4 DEF Learned
  <2> QED BY <1>2, <2>1 DEF NatCountersMatch, LearnInv, WaitingInv
<1>9. \A y \in Flow : Launched(y) => Launched(y)'
  BY <1>4 DEF Launched
<1>10. NodesOK'
  <2>1. \A i \in DOMAIN Pkts(x) : i < m_node[x].pkt + 1 => Pkts(x)[i] = "init"
    <3> SUFFICES ASSUME NEW i \in DOMAIN Pkts(x), i < m_node[x].pkt + 1, Pkts(x)[i] # "init"
                 PROVE  FALSE
      OBVIOUS
    <3>1. i \in Nat /\ m_node[x].pkt \in Nat
      BY <1>1, FlowFacts DEF NodeOK
    <3>2. i = m_node[x].pkt
      BY <1>1, <1>2, <3>1 DEF NodeOK
    <3>3. Pkts(x) \in Seq({"init", "resp"})
      <4>1. x[1] \in DOMAIN Flows /\ x[2] \in DOMAIN Flows[x[1]]
        BY FlowFacts DEF Thread
      <4> QED BY <4>1, NatAssumption DEF Pkts
    <3> QED BY <1>3, <3>2, <3>3
  <2>2. NodeOK(x)'
    BY <1>1, <1>2, <1>4, <2>1 DEF NodeOK
  <2>3. \A y \in Flow : y # x => NodeOK(y)'
    BY <1>4 DEF LearnInv, NodesOK, NodeOK
  <2> QED BY <2>2, <2>3 DEF NodesOK
<1>11. WireOK'
  BY <1>4, <1>5 DEF WireOK, LearnInv, Launched
<1> QED BY <1>2, <1>6, <1>7, <1>8, <1>9, <1>10, <1>11, DpStep DEF LearnInv, WaitingInv

\* Giving up a flow that waits keeps the invariant.
LEMMA TerminateNatFlow ==
  ASSUME LearnInv, NEW x \in Flow, terminate_nat_flow(x)
  PROVE  LearnInv'
<1>1. TypeOK /\ NodeOK(x) /\ m_node[x] \in Node /\ x \in m_lookup
  BY DEF LearnInv, WaitingInv, NodesOK, TypeOK, LookupIsTheWaiting, terminate_nat_flow
<1>2. /\ UNCHANGED <<wire, m_cur_nat_msg, old, ring, rx, phase>>
      /\ m_node' = [m_node EXCEPT ![x] = FreedNode]
      /\ m_lookup' = m_lookup \ {x}
      /\ m_stats' = [m_stats EXCEPT !.remove = @ + 1, !.timeout = @ + 1]
      /\ m_node[x].m_type = "FLOW_PKT_NAT"
  BY DEF terminate_nat_flow, Unassociated
<1>3. /\ m_node' \in [Flow -> Node]
      /\ m_node'[x] = FreedNode
      /\ \A y \in Flow : y # x => m_node'[y] = m_node[y]
  BY <1>1, <1>2, FreedFacts DEF TypeOK
<1>4. m_stats \in [add : Nat, remove : Nat, timeout : Nat]
  BY <1>1 DEF TypeOK
<1>5. /\ m_stats' \in [add : Nat, remove : Nat, timeout : Nat]
      /\ m_stats'.add = m_stats.add /\ m_stats'.remove = m_stats.remove + 1
      /\ m_stats'.timeout = m_stats.timeout + 1
  <2>1. m_stats' = [add |-> m_stats.add, remove |-> m_stats.remove + 1,
                    timeout |-> m_stats.timeout + 1]
    BY <1>2, <1>4
  <2> QED BY <1>4, <2>1
<1>6. TypeOK'
  BY <1>1, <1>2, <1>3, <1>5 DEF TypeOK
<1>7. LookupIsTheWaiting'
  BY <1>2, <1>3, FreedFacts DEF LearnInv, WaitingInv, LookupIsTheWaiting
<1>8. NatCountersMatch'
  <2>1. Learned' = Learned
    BY <1>1, <1>2, <1>3, FreedFacts DEF Learned, NodeOK
  <2>2. Cardinality(m_lookup') = Cardinality(m_lookup) - 1
    BY <1>1, <1>2, CountedAreFinite, FS_RemoveElement
  <2> QED BY <1>1, <1>4, <1>5, <2>1, <2>2, CountedAreFinite DEF NatCountersMatch, LearnInv, WaitingInv
<1>9. \A y \in Flow : Launched(y) => Launched(y)'
  BY <1>3, FreedFacts DEF Launched
<1>10. NodesOK'
  <2>1. NodeOK(x)'
    BY <1>3, FreedFacts, FlowFacts DEF NodeOK
  <2>2. \A y \in Flow : y # x => NodeOK(y)'
    BY <1>3 DEF LearnInv, NodesOK, NodeOK
  <2> QED BY <2>1, <2>2 DEF NodesOK
<1>11. WireOK'
  BY <1>2, <1>9 DEF WireOK, LearnInv
<1> QED BY <1>2, <1>6, <1>7, <1>8, <1>9, <1>10, <1>11, DpStep DEF LearnInv, WaitingInv

\* A packet of a flow that has learned its addresses keeps the invariant.
LEMMA FlowPkt ==
  ASSUME LearnInv, NEW x \in Flow, flow_pkt(x)
  PROVE  LearnInv'
<1>1. TypeOK /\ NodeOK(x) /\ m_node[x] \in Node
  BY DEF LearnInv, WaitingInv, NodesOK, TypeOK
<1>2. /\ UNCHANGED <<m_lookup, m_stats, wire, m_cur_nat_msg, old, ring, rx, phase>>
      /\ m_node' = [m_node EXCEPT ![x] = Sent(x)]
      /\ m_node[x].m_type = "FLOW_PKT"
  BY DEF flow_pkt
<1>3. /\ m_node' \in [Flow -> Node]
      /\ m_node'[x] = Sent(x)
      /\ \A y \in Flow : y # x => m_node'[y] = m_node[y]
  BY <1>1, <1>2, SentFacts DEF TypeOK
<1>4. \/ Sent(x) = FreedNode
      \/ /\ Sent(x).m_type = "FLOW_PKT" /\ Sent(x).addr = m_node[x].addr
         /\ Sent(x).nat = "wait" /\ Sent(x).pkt \in DOMAIN Pkts(x)
  BY <1>1, <1>2, SentFacts
<1>5. TypeOK'
  BY <1>1, <1>2, <1>3 DEF TypeOK
<1>6. LookupIsTheWaiting'
  BY <1>2, <1>3, <1>4, FreedFacts DEF LearnInv, WaitingInv, LookupIsTheWaiting
<1>7. NatCountersMatch'
  <2>1. Learned' \in SUBSET Learned
    BY <1>3, <1>4, FreedFacts DEF Learned
  <2>2. Cardinality(Learned') <= Cardinality(Learned) /\ Cardinality(Learned') \in Nat
    BY <1>1, <2>1, CountedAreFinite, FS_Subset, FS_CardinalityType
  <2>3. m_stats.remove \in Nat /\ m_stats.timeout \in Nat
    BY <1>1 DEF TypeOK
  <2> QED BY <1>1, <1>2, <2>2, <2>3, CountedAreFinite DEF NatCountersMatch, LearnInv, WaitingInv
<1>8. \A y \in Flow : Launched(y) => Launched(y)'
  BY <1>3, <1>4, FreedFacts DEF Launched
<1>9. NodesOK'
  <2>1. NodeOK(x)'
    BY <1>1, <1>2, <1>3, <1>4, FreedFacts, FlowFacts DEF NodeOK
  <2>2. \A y \in Flow : y # x => NodeOK(y)'
    BY <1>3 DEF LearnInv, NodesOK, NodeOK
  <2> QED BY <2>1, <2>2 DEF NodesOK
<1>10. WireOK'
  BY <1>2, <1>8 DEF WireOK, LearnInv
<1> QED BY <1>2, <1>5, <1>6, <1>7, <1>8, <1>9, <1>10, DpStep DEF LearnInv, WaitingInv

\* Reading a batch of translations keeps the invariant.
LEMMA CheckMsgs ==
  ASSUME LearnInv, NEW t \in Thread, check_msgs(t)
  PROVE  LearnInv'
<1> DEFINE found == Answered(t)
<1>1. TypeOK /\ LookupIsTheWaiting /\ MessagesAreTrue /\ NodesOK
  BY DEF LearnInv, WaitingInv
<1>2. \A x \in found : /\ x \in Flow /\ m_node[x].m_type = "FLOW_PKT_NAT" /\ m_node[x].nat = "wait"
                       /\ TheInfo(t, x).m_external \in External(x)
  BY <1>1, AnswerFacts
<1>3. found \subseteq m_lookup
  BY DEF Answered
<1>4. /\ phase = "run" /\ ring' = [ring EXCEPT ![t] = << >>]
      /\ UNCHANGED <<wire, m_cur_nat_msg, old, rx, phase>>
      /\ m_node' = [x \in Flow |->
            IF x \in found
            THEN [m_node[x] EXCEPT !.m_type = "FLOW_PKT", !.addr = TheInfo(t, x).m_external]
            ELSE m_node[x]]
      /\ m_lookup' = m_lookup \ found
      /\ m_stats' = [m_stats EXCEPT !.remove = @ + Cardinality(found)]
  BY <1>2 DEF check_msgs, StillAssociated
<1> HIDE DEF found
<1>5. \A x \in Flow : x \notin found => m_node'[x] = m_node[x]
  BY <1>4
<1>6. ASSUME NEW x \in found
      PROVE  /\ m_node'[x] \in Node
             /\ m_node'[x].m_type = "FLOW_PKT" /\ m_node'[x].addr \in External(x)
             /\ m_node'[x].nat = "wait" /\ m_node'[x].pkt = m_node[x].pkt
  <2> DEFINE n == m_node[x]
             a == TheInfo(t, x).m_external
  <2>1. n \in Node /\ x \in Flow /\ n.nat = "wait" /\ a \in External(x)
    BY <1>1, <1>2 DEF TypeOK
  <2>2. m_node'[x] = [n EXCEPT !.m_type = "FLOW_PKT", !.addr = a]
    BY <1>4, <2>1
  <2>3. a \in Address
    BY <2>1 DEF Address
  <2> HIDE DEF n, a
  <2>4. m_node'[x] = [m_type |-> "FLOW_PKT", nat |-> n.nat, pkt |-> n.pkt, addr |-> a]
    BY <2>1, <2>2 DEF Node
  <2>5. m_node'[x] \in Node /\ m_node'[x].pkt = n.pkt
    BY <2>1, <2>3, <2>4 DEF Node
  <2> QED BY <2>1, <2>4, <2>5 DEF n
<1>7. TypeOK'
  <2>1. m_node' \in [Flow -> Node]
    BY <1>1, <1>4, <1>5, <1>6 DEF TypeOK
  <2>2. ring' \in [Thread -> Seq(Seq(Info))] /\ \A u \in Thread : Len(ring'[u]) <= RingSize
    <3>1. ring \in [Thread -> Seq(Seq(Info))] /\ \A u \in Thread : Len(ring[u]) <= RingSize
      BY <1>1 DEF TypeOK
    <3>2. << >> \in Seq(Seq(Info)) /\ Len(<< >>) = 0 /\ 0 <= RingSize
      BY NatAssumption
    <3> QED BY <1>4, <3>1, <3>2
  <2>3. m_stats \in [add : Nat, remove : Nat, timeout : Nat]
    BY <1>1 DEF TypeOK
  <2>4. Cardinality(found) \in Nat
    BY <1>1, <1>3, CountedAreFinite, FS_Subset, FS_CardinalityType
  <2>5. m_stats' \in [add : Nat, remove : Nat, timeout : Nat]
    <3>1. m_stats' = [m_stats EXCEPT !.remove = @ + Cardinality(found)]
      BY <1>4
    <3> QED BY ONLY <2>3, <2>4, <3>1
  <2>6. m_lookup' \subseteq Flow
    BY <1>1, <1>4 DEF TypeOK
  <2> QED BY <1>1, <1>4, <2>1, <2>2, <2>5, <2>6 DEF TypeOK
<1>8. LookupIsTheWaiting'
  <2>1. \A x \in Flow : x \in m_lookup' <=> m_node'[x].m_type = "FLOW_PKT_NAT"
    BY <1>1, <1>4, <1>5, <1>6 DEF LookupIsTheWaiting
  <2> QED BY <1>7, <2>1 DEF LookupIsTheWaiting, TypeOK
<1>9. NatCountersMatch'
  <2>1. Learned' = Learned \cup found
    <3>1. \A x \in Flow : m_node'[x].addr # NoAddr <=> m_node[x].addr # NoAddr \/ x \in found
      <4> SUFFICES ASSUME NEW x \in Flow
                   PROVE  m_node'[x].addr # NoAddr <=> m_node[x].addr # NoAddr \/ x \in found
        OBVIOUS
      <4>1. CASE x \in found
        <5>1. m_node'[x].addr \in Address
          BY <1>6, <4>1 DEF Address
        <5> QED BY <4>1, <5>1, AddressIsNotNoAddr
      <4>2. CASE x \notin found
        BY <1>5, <4>2
      <4> QED BY <4>1, <4>2
    <3>2. found \subseteq Flow
      BY <1>2
    <3> QED BY <3>1, <3>2 DEF Learned
  <2>2. Learned \cap found = {}
    BY <1>1, <1>2 DEF Learned, NodesOK, NodeOK
  <2>3. IsFiniteSet(found) /\ Cardinality(found) \in Nat
    BY <1>1, <1>3, CountedAreFinite, FS_Subset, FS_CardinalityType
  <2>4. Cardinality(Learned') = Cardinality(Learned) + Cardinality(found)
    <3>1. IsFiniteSet(Learned) /\ Cardinality(Learned) \in Nat
      BY <1>1, CountedAreFinite
    <3>2. Cardinality(Learned \cup found)
            = Cardinality(Learned) + Cardinality(found) - Cardinality(Learned \cap found)
      BY ONLY <2>3, <3>1, FS_Union, Zenon
    <3>3. Cardinality(Learned \cap found) = 0
      BY <2>2, FS_EmptySet
    <3> QED BY <2>1, <2>3, <3>1, <3>2, <3>3
  <2>5. Cardinality(m_lookup') = Cardinality(m_lookup) - Cardinality(found)
    <3>1. m_lookup \cap found = found
      BY <1>3
    <3>2. m_lookup' = m_lookup \ found /\ IsFiniteSet(m_lookup)
      BY <1>1, <1>4, CountedAreFinite
    <3>3. Cardinality(m_lookup \ found) = Cardinality(m_lookup) - Cardinality(m_lookup \cap found)
      BY ONLY <3>2, FS_Difference, Zenon
    <3> QED BY <3>1, <3>2, <3>3
  <2>6. m_stats \in [add : Nat, remove : Nat, timeout : Nat]
    BY <1>1 DEF TypeOK
  <2>7. /\ m_stats'.add = m_stats.add /\ m_stats'.timeout = m_stats.timeout
        /\ m_stats'.remove = m_stats.remove + Cardinality(found)
    BY <1>4, <2>6
  <2> QED BY <1>1, <2>3, <2>4, <2>5, <2>6, <2>7, CountedAreFinite
          DEF NatCountersMatch, LearnInv, WaitingInv
<1>10. \A y \in Flow : Launched(y) => Launched(y)'
  BY <1>5, <1>6 DEF Launched
<1>11. NodesOK'
  <2>1. ASSUME NEW x \in found PROVE NodeOK(x)'
    BY <1>1, <1>2, <1>6 DEF NodesOK, NodeOK
  <2>2. ASSUME NEW x \in Flow, x \notin found PROVE NodeOK(x)'
    BY <1>1, <1>5, <2>2 DEF NodesOK, NodeOK
  <2> QED BY <2>1, <2>2 DEF NodesOK
<1>12. WireOK'
  BY <1>4, <1>10 DEF WireOK, LearnInv
<1>13. BatchesOK' /\ NatAssertsHold'
  BY <1>4 DEF LearnInv, WaitingInv, BatchesOK, NatAssertsHold
<1>14. ring'[t] = << >> /\ \A u \in Thread : u # t => ring'[u] = ring[u]
  BY <1>1, <1>4 DEF TypeOK
<1>15. NoEmptyOrStuckBatch'
  <2>1. UNCHANGED <<rx, m_cur_nat_msg>>
    BY <1>4
  <2> QED BY <1>14, <2>1 DEF LearnInv, WaitingInv, NoEmptyOrStuckBatch
<1>16. MessagesAreTrue'
  <2>1. ASSUME NEW u \in Thread, NEW info, IsTrueFor(u, info)
        PROVE  /\ info.m_fid \in DOMAIN Flows[u]
               /\ info.m_external \in External(<<u, info.m_fid>>)
               /\ Launched(<<u, info.m_fid>>)'
    BY <1>10, <2>1, PairIsFlow DEF IsTrueFor
  <2>2. ASSUME NEW u \in Thread, NEW i \in DOMAIN m_cur_nat_msg'[u]
        PROVE  IsTrueFor(u, m_cur_nat_msg[u][i])'
    <3>1. IsTrueFor(u, m_cur_nat_msg[u][i])
      BY <1>1, <1>4 DEF MessagesAreTrue
    <3> QED BY <3>1, <2>1, <1>4 DEF IsTrueFor, Launched
  <2>3. ASSUME NEW u \in Thread, NEW s \in Slots(u)'
        PROVE  IsTrueFor(u, InfoAt(u, s))'
    <3>1. u # t /\ s \in Slots(u) /\ InfoAt(u, s)' = InfoAt(u, s)
      BY <1>14 DEF Slots, InfoAt
    <3>2. IsTrueFor(u, InfoAt(u, s))
      BY <1>1, <3>1 DEF MessagesAreTrue
    <3> QED BY <2>1, <3>1, <3>2 DEF IsTrueFor, Launched
  <2> QED BY <2>2, <2>3 DEF MessagesAreTrue
<1> QED BY <1>7, <1>8, <1>9, <1>11, <1>12, <1>13, <1>15, <1>16 DEF LearnInv, WaitingInv

\* The receive thread leaves the flows, the table and the counters alone.
LEMMA RxStep ==
  ASSUME LearnInv, UNCHANGED <<m_node, m_lookup, m_stats>>
  PROVE  /\ LookupIsTheWaiting' /\ NatCountersMatch' /\ NodesOK'
         /\ \A y \in Flow : Launched(y)' = Launched(y)
         /\ \A t \in Thread : \A info : IsTrueFor(t, info) =>
              /\ info.m_fid \in DOMAIN Flows[t]
              /\ info.m_external \in External(<<t, info.m_fid>>)
              /\ Launched(<<t, info.m_fid>>)'
<1>1. Learned' = Learned
  BY DEF Learned
<1>2. \A y : Launched(y)' = Launched(y)
  BY DEF Launched
<1>3. LookupIsTheWaiting' /\ NatCountersMatch'
  BY <1>1 DEF LearnInv, WaitingInv, LookupIsTheWaiting, NatCountersMatch
<1>4. NodesOK'
  BY DEF LearnInv, NodesOK, NodeOK
<1> QED BY <1>2, <1>3, <1>4 DEF IsTrueFor

\* A learn packet that comes back keeps the invariant.
LEMMA HandlePacket ==
  ASSUME LearnInv, NEW x \in Flow, NEW addr \in External(x), handle_packet_ipv4(x, addr)
  PROVE  LearnInv'
<1> DEFINE t     == x[1]
           info  == [m_fid |-> x[2], m_external |-> addr]
           batch == Append(m_cur_nat_msg[t], info)
<1>1. /\ UNCHANGED <<m_node, m_lookup, m_stats, ring, phase>>
      /\ rx.todo = {} /\ wire[x] > 0
      /\ wire' = [wire EXCEPT ![x] = @ - 1]
      /\ m_cur_nat_msg' = [m_cur_nat_msg EXCEPT ![t] = batch]
      /\ old' = IF Len(batch) = 1 THEN old \ {t} ELSE old
      /\ rx' = [rx EXCEPT !.todo = IF Len(batch) = MaxNatInfo THEN {t} ELSE {}]
  BY DEF handle_packet_ipv4
<1>2. TypeOK /\ Launched(x) /\ MessagesAreTrue /\ BatchesOK
  BY <1>1 DEF LearnInv, WaitingInv, WireOK
<1>3. /\ t \in Thread /\ x = <<t, x[2]>> /\ x[2] \in DOMAIN Flows[t]
      /\ info \in Info
  BY FlowFacts DEF Info, Address
<1>4. /\ LookupIsTheWaiting' /\ NatCountersMatch' /\ NodesOK'
      /\ \A y \in Flow : Launched(y)' = Launched(y)
      /\ \A u \in Thread : \A i : IsTrueFor(u, i) =>
              /\ i.m_fid \in DOMAIN Flows[u]
              /\ i.m_external \in External(<<u, i.m_fid>>)
              /\ Launched(<<u, i.m_fid>>)'
  BY <1>1, RxStep
<1>5. m_cur_nat_msg[t] \in Seq(Info) /\ Len(m_cur_nat_msg[t]) < MaxNatInfo
  BY <1>1, <1>2, <1>3 DEF TypeOK, BatchesOK
<1> HIDE DEF t, info
<1>6. /\ batch \in Seq(Info) /\ Len(batch) = Len(m_cur_nat_msg[t]) + 1 /\ Len(batch) \in Nat
      /\ Len(m_cur_nat_msg[t]) \in Nat
      /\ DOMAIN batch = 1..Len(batch)
      /\ \A i \in DOMAIN batch : \/ i \in DOMAIN m_cur_nat_msg[t] /\ batch[i] = m_cur_nat_msg[t][i]
                                 \/ batch[i] = info
  BY <1>3, <1>5
<1> HIDE DEF batch
<1>7. m_cur_nat_msg'[t] = batch /\ \A u \in Thread : u # t => m_cur_nat_msg'[u] = m_cur_nat_msg[u]
  BY <1>1, <1>2, <1>3 DEF TypeOK
<1>8. /\ rx'.full = rx.full /\ rx'.todo = IF Len(batch) = MaxNatInfo THEN {t} ELSE {}
      /\ rx' \in [todo : SUBSET Thread, full : 0 .. MaxFull]
  <2>1. rx \in [todo : SUBSET Thread, full : 0 .. MaxFull]
    BY <1>2 DEF TypeOK
  <2>2. rx' = [todo |-> IF Len(batch) = MaxNatInfo THEN {t} ELSE {}, full |-> rx.full]
    BY <1>1, <2>1
  <2> QED BY <2>1, <2>2, <1>3
<1>9. wire' \in [Flow -> Nat] /\ \A y \in Flow : wire'[y] <= wire[y] /\ wire[y] \in Nat
  <2>1. wire \in [Flow -> Nat]
    BY <1>2 DEF TypeOK
  <2> QED BY <1>1, <2>1
<1>10. TypeOK'
  <2>1. ASSUME NEW y \in Flow PROVE wire'[y] <= Copies[y[1]][y[2]]
    <3>1. /\ wire[y] <= Copies[y[1]][y[2]] /\ Copies[y[1]][y[2]] \in Nat
          /\ wire'[y] \in Nat /\ wire[y] \in Nat /\ wire'[y] <= wire[y]
      BY <1>2, <1>9, FlowFacts DEF TypeOK
    <3> QED BY ONLY <3>1
  <2>2. m_cur_nat_msg' \in [Thread -> Seq(Info)]
    BY <1>1, <1>2, <1>6 DEF TypeOK
  <2>3. \A u \in Thread : Len(m_cur_nat_msg'[u]) <= MaxNatInfo
    <3>1. Len(batch) <= MaxNatInfo
      BY <1>5, <1>6, NatAssumption
    <3>2. \A u \in Thread : Len(m_cur_nat_msg[u]) <= MaxNatInfo
      BY <1>2 DEF TypeOK
    <3> QED BY <1>7, <3>1, <3>2
  <2>4. old' \subseteq Thread
    BY <1>1, <1>2 DEF TypeOK
  <2> QED BY <1>1, <1>2, <1>8, <1>9, <2>1, <2>2, <2>3, <2>4 DEF TypeOK
<1>11. BatchesOK'
  <2>1. batch # << >>
    BY <1>6
  <2>2. Len(batch) # MaxNatInfo => Len(batch) < MaxNatInfo
    BY <1>5, <1>6, NatAssumption
  <2>3. \A u \in Thread : u # t => Len(m_cur_nat_msg[u]) < MaxNatInfo
    BY <1>1, <1>2 DEF BatchesOK
  <2> QED BY <1>1, <1>2, <1>7, <1>8, <2>1, <2>2, <2>3 DEF BatchesOK
<1>12. NoEmptyOrStuckBatch' /\ NatAssertsHold'
  BY <1>1, <1>11 DEF LearnInv, WaitingInv, NoEmptyOrStuckBatch, NatAssertsHold, BatchesOK
<1>13. WireOK'
  <2>1. \A y \in Flow : wire'[y] > 0 => wire[y] > 0
    BY <1>9
  <2> QED BY <1>4, <2>1 DEF WireOK, LearnInv
<1>14. MessagesAreTrue'
  <2>1. ASSUME NEW u \in Thread, NEW i \in DOMAIN m_cur_nat_msg'[u]
        PROVE  IsTrueFor(u, m_cur_nat_msg[u][i])'
    <3>1. CASE i \in DOMAIN m_cur_nat_msg[u] /\ m_cur_nat_msg'[u][i] = m_cur_nat_msg[u][i]
      <4>1. IsTrueFor(u, m_cur_nat_msg[u][i])
        BY <1>2, <3>1 DEF MessagesAreTrue
      <4> QED BY <1>4, <3>1, <4>1 DEF IsTrueFor, Launched
    <3>2. CASE u = t /\ m_cur_nat_msg'[u][i] = info
      <4>1. info.m_fid = x[2] /\ info.m_external \in External(x) /\ Launched(x)'
        BY <1>2, <1>4 DEF info
      <4> QED BY <1>3, <3>2, <4>1 DEF IsTrueFor, Launched
    <3> QED BY <1>6, <1>7, <3>1, <3>2
  <2>2. ASSUME NEW u \in Thread, NEW s \in Slots(u)'
        PROVE  IsTrueFor(u, InfoAt(u, s))'
    <3>1. s \in Slots(u) /\ InfoAt(u, s)' = InfoAt(u, s)
      BY <1>1 DEF Slots, InfoAt
    <3>2. IsTrueFor(u, InfoAt(u, s))
      BY <1>2, <3>1 DEF MessagesAreTrue
    <3> QED BY <1>4, <3>1, <3>2 DEF IsTrueFor, Launched
  <2> QED BY <2>1, <2>2 DEF MessagesAreTrue
<1> QED BY <1>4, <1>10, <1>11, <1>12, <1>13, <1>14 DEF LearnInv, WaitingInv

\* The ageing of a batch keeps the invariant.
LEMMA GetsOld ==
  ASSUME LearnInv, NEW t \in Thread, GetOld(t)
  PROVE  LearnInv'
<1>1. /\ UNCHANGED <<m_node, m_lookup, m_stats, wire, m_cur_nat_msg, ring, rx, phase>>
      /\ old' = old \cup {t}
  BY DEF GetOld
<1>2. TypeOK'
  BY <1>1 DEF LearnInv, WaitingInv, TypeOK
<1>3. \A y \in Flow : Launched(y) => Launched(y)'
  BY <1>1 DEF Launched
<1>4. MessagesAreTrue'
  BY <1>1 DEF LearnInv, WaitingInv, MessagesAreTrue, IsTrueFor, Launched, Slots, InfoAt
<1>5. NoEmptyOrStuckBatch' /\ BatchesOK' /\ NatAssertsHold' /\ WireOK'
  BY <1>1 DEF LearnInv, WaitingInv, NoEmptyOrStuckBatch, BatchesOK, NatAssertsHold, WireOK, Launched
<1> QED BY <1>1, <1>2, <1>4, <1>5, RxStep DEF LearnInv, WaitingInv

\* The look at the ages of the batches keeps the invariant.
LEMMA HandleAging ==
  ASSUME LearnInv, handle_aging
  PROVE  LearnInv'
<1>1. /\ UNCHANGED <<m_node, m_lookup, m_stats, wire, m_cur_nat_msg, old, ring, phase>>
      /\ rx.todo = {}
      /\ rx' = [rx EXCEPT !.todo = {t \in Thread : IsDue(t)}]
      /\ \E t \in Thread : IsDue(t)
  BY DEF handle_aging
<1>2. rx \in [todo : SUBSET Thread, full : 0 .. MaxFull]
  BY DEF LearnInv, WaitingInv, TypeOK
<1>3. /\ rx' \in [todo : SUBSET Thread, full : 0 .. MaxFull]
      /\ rx'.todo = {t \in Thread : IsDue(t)} /\ rx'.full = rx.full
  BY <1>1, <1>2
<1>4. TypeOK'
  BY <1>1, <1>3 DEF LearnInv, WaitingInv, TypeOK
<1>5. MessagesAreTrue'
  BY <1>1 DEF LearnInv, WaitingInv, MessagesAreTrue, IsTrueFor, Launched, Slots, InfoAt
<1>6. BatchesOK'
  BY <1>1, <1>3 DEF LearnInv, BatchesOK, IsDue
<1>7. NoEmptyOrStuckBatch' /\ NatAssertsHold' /\ WireOK'
  BY <1>1, <1>3 DEF LearnInv, WaitingInv, NoEmptyOrStuckBatch, NatAssertsHold, WireOK, Launched
<1> QED BY <1>1, <1>4, <1>5, <1>6, <1>7, RxStep DEF LearnInv, WaitingInv

\* Sending a batch keeps the invariant.
LEMMA FlushNode ==
  ASSUME LearnInv, NEW t \in Thread, flush_node(t)
  PROVE  LearnInv'
<1> DEFINE batch == m_cur_nat_msg[t]
<1>1. /\ UNCHANGED <<m_node, m_lookup, m_stats, wire, old, phase>>
      /\ t \in rx.todo /\ Len(ring[t]) < RingSize
      /\ ring' = [ring EXCEPT ![t] = Append(@, batch)]
      /\ m_cur_nat_msg' = [m_cur_nat_msg EXCEPT ![t] = << >>]
      /\ rx' = [todo |-> rx.todo \ {t}, full |-> 0]
  BY DEF flush_node, IsFirstTodo
<1>2. TypeOK /\ MessagesAreTrue /\ BatchesOK /\ NoEmptyOrStuckBatch
  BY DEF LearnInv, WaitingInv
<1>3. /\ ring[t] \in Seq(Seq(Info)) /\ batch \in Seq(Info) /\ batch # << >>
      /\ \A i \in DOMAIN batch : IsTrueFor(t, batch[i])
  BY <1>1, <1>2 DEF TypeOK, BatchesOK, MessagesAreTrue
<1> HIDE DEF batch
<1>4. /\ ring'[t] = Append(ring[t], batch) /\ m_cur_nat_msg'[t] = << >>
      /\ \A u \in Thread : u # t => ring'[u] = ring[u] /\ m_cur_nat_msg'[u] = m_cur_nat_msg[u]
  BY <1>1, <1>2 DEF TypeOK
<1>5. /\ ring'[t] \in Seq(Seq(Info)) /\ Len(ring'[t]) <= RingSize
      /\ \A b \in DOMAIN ring'[t] : \/ b \in DOMAIN ring[t] /\ ring'[t][b] = ring[t][b]
                                    \/ ring'[t][b] = batch
  BY <1>1, <1>3, <1>4, NatAssumption
<1>6. TypeOK'
  <2>1. ring' \in [Thread -> Seq(Seq(Info))]
    BY <1>1, <1>2, <1>4, <1>5 DEF TypeOK
  <2>2. m_cur_nat_msg' \in [Thread -> Seq(Info)]
    BY <1>1, <1>2 DEF TypeOK
  <2>3. \A u \in Thread : Len(ring'[u]) <= RingSize /\ Len(m_cur_nat_msg'[u]) <= MaxNatInfo
    <3>1. \A u \in Thread : Len(ring[u]) <= RingSize /\ Len(m_cur_nat_msg[u]) <= MaxNatInfo
      BY <1>2 DEF TypeOK
    <3>2. Len(m_cur_nat_msg'[t]) <= MaxNatInfo
      BY <1>4, NatAssumption
    <3> QED BY <1>4, <1>5, <3>1, <3>2
  <2>4. rx' \in [todo : SUBSET Thread, full : 0 .. MaxFull]
    BY <1>1, <1>2, NatAssumption DEF TypeOK
  <2> QED BY <1>1, <1>2, <2>1, <2>2, <2>3, <2>4 DEF TypeOK
<1>7. BatchesOK'
  BY <1>1, <1>2, <1>4, NatAssumption DEF BatchesOK
<1>8. NoEmptyOrStuckBatch'
  <2>1. \A u \in Thread : \A b \in DOMAIN ring'[u] : ring'[u][b] # << >>
    BY <1>2, <1>3, <1>4, <1>5 DEF NoEmptyOrStuckBatch
  <2> QED BY <1>7, <2>1 DEF NoEmptyOrStuckBatch, BatchesOK
<1>9. NatAssertsHold' /\ WireOK'
  BY <1>1 DEF LearnInv, WaitingInv, NatAssertsHold, WireOK, Launched
<1>10. MessagesAreTrue'
  <2>1. \A u \in Thread : \A i : IsTrueFor(u, i) =>
          /\ i.m_fid \in DOMAIN Flows[u]
          /\ i.m_external \in External(<<u, i.m_fid>>)
          /\ Launched(<<u, i.m_fid>>)'
    BY <1>1, RxStep
  <2>2. ASSUME NEW u \in Thread, NEW i \in DOMAIN m_cur_nat_msg'[u]
        PROVE  IsTrueFor(u, m_cur_nat_msg[u][i])'
    <3>1. u # t
      BY <1>4
    <3>2. IsTrueFor(u, m_cur_nat_msg[u][i]) /\ m_cur_nat_msg'[u] = m_cur_nat_msg[u]
      BY <1>2, <1>4, <3>1 DEF MessagesAreTrue
    <3> QED BY <2>1, <3>2 DEF IsTrueFor, Launched
  <2>3. ASSUME NEW u \in Thread, NEW s \in Slots(u)'
        PROVE  IsTrueFor(u, InfoAt(u, s))'
    <3>1. s[1] \in DOMAIN ring'[u] /\ s[2] \in DOMAIN ring'[u][s[1]] /\ s = <<s[1], s[2]>>
      BY DEF Slots
    <3>2. CASE s[1] \in DOMAIN ring[u] /\ ring'[u][s[1]] = ring[u][s[1]]
      <4>1. s \in Slots(u) /\ InfoAt(u, s)' = InfoAt(u, s)
        BY <3>1, <3>2 DEF Slots, InfoAt
      <4>2. IsTrueFor(u, InfoAt(u, s))
        BY <1>2, <4>1 DEF MessagesAreTrue
      <4> QED BY <2>1, <4>1, <4>2 DEF IsTrueFor, Launched
    <3>3. CASE u = t /\ ring'[u][s[1]] = batch
      <4>1. InfoAt(u, s)' = batch[s[2]] /\ IsTrueFor(t, batch[s[2]])
        BY <1>3, <3>1, <3>3 DEF InfoAt
      <4> QED BY <2>1, <3>3, <4>1 DEF IsTrueFor, Launched
    <3>4. CASE u = t
      BY <1>5, <3>1, <3>2, <3>3, <3>4
    <3>5. CASE u # t
      BY <1>4, <3>1, <3>2, <3>5
    <3> QED BY <3>4, <3>5
  <2> QED BY <2>2, <2>3 DEF MessagesAreTrue
<1> QED BY <1>1, <1>6, <1>7, <1>8, <1>9, <1>10, RxStep DEF LearnInv, WaitingInv

\* Waiting for a full ring keeps the invariant.
LEMMA FlushNodeFull ==
  ASSUME LearnInv, NEW t \in Thread, flush_node_full(t)
  PROVE  LearnInv'
<1>1. /\ UNCHANGED <<m_node, m_lookup, m_stats, wire, m_cur_nat_msg, old, ring>>
      /\ phase = "run"
      /\ rx' = [rx EXCEPT !.full = @ + 1]
      /\ phase' = IF rx'.full = MaxFull THEN "exit" ELSE phase
  BY DEF flush_node_full
<1>2. rx \in [todo : SUBSET Thread, full : 0 .. MaxFull] /\ rx.full < MaxFull
  BY <1>1 DEF LearnInv, WaitingInv, TypeOK, BatchesOK
<1>3. rx' = [todo |-> rx.todo, full |-> rx.full + 1]
  BY <1>1, <1>2
<1>4. /\ rx'.todo = rx.todo /\ rx'.full = rx.full + 1
      /\ rx' \in [todo : SUBSET Thread, full : 0 .. MaxFull]
  BY <1>2, <1>3, NatAssumption
<1>5. TypeOK'
  BY <1>1, <1>4 DEF LearnInv, WaitingInv, TypeOK
<1>6. MessagesAreTrue'
  BY <1>1 DEF LearnInv, WaitingInv, MessagesAreTrue, IsTrueFor, Launched, Slots, InfoAt
<1>7. BatchesOK'
  <2>1. phase' = "run" => rx'.full < MaxFull
    BY <1>1, <1>2, <1>4, NatAssumption
  <2> QED BY <1>1, <1>4, <2>1 DEF LearnInv, BatchesOK
<1>8. NoEmptyOrStuckBatch' /\ NatAssertsHold' /\ WireOK'
  BY <1>1, <1>4 DEF LearnInv, WaitingInv, NoEmptyOrStuckBatch, NatAssertsHold, WireOK, Launched
<1> QED BY <1>1, <1>5, <1>6, <1>7, <1>8, RxStep DEF LearnInv, WaitingInv

\* The end of the process for lack of a node keeps the invariant.
LEMMA HandlePacketNoNode ==
  ASSUME LearnInv, NEW x \in Flow, handle_packet_ipv4_no_node(x)
  PROVE  LearnInv'
<1>1. /\ UNCHANGED <<m_node, m_lookup, m_stats, wire, m_cur_nat_msg, old, ring, rx>>
      /\ phase' = "exit"
  BY DEF handle_packet_ipv4_no_node
<1>2. TypeOK'
  BY <1>1 DEF LearnInv, WaitingInv, TypeOK
<1>3. MessagesAreTrue'
  BY <1>1 DEF LearnInv, WaitingInv, MessagesAreTrue, IsTrueFor, Launched, Slots, InfoAt
<1>4. NoEmptyOrStuckBatch' /\ BatchesOK' /\ NatAssertsHold' /\ WireOK'
  BY <1>1 DEF LearnInv, WaitingInv, NoEmptyOrStuckBatch, BatchesOK, NatAssertsHold,
              WireOK, Launched
<1> QED BY <1>1, <1>2, <1>3, <1>4, RxStep DEF LearnInv, WaitingInv

-----------------------------------------------------------------------------
(* The theorems.                                                           *)

\* Every step keeps the invariant.
LEMMA NextLearn == LearnInv /\ [Next]_vars => LearnInv'
<1> SUFFICES ASSUME LearnInv, [Next]_vars PROVE LearnInv'
  OBVIOUS
<1>1. CASE UNCHANGED vars
  <2>1. UNCHANGED <<m_node, m_lookup, m_stats, wire, m_cur_nat_msg, old, ring, rx, phase>>
    BY <1>1 DEF vars
  <2>2. TypeOK'
    BY <2>1 DEF LearnInv, WaitingInv, TypeOK
  <2>3. MessagesAreTrue'
    BY <2>1 DEF LearnInv, WaitingInv, MessagesAreTrue, IsTrueFor, Launched, Slots, InfoAt
  <2>4. NoEmptyOrStuckBatch' /\ BatchesOK' /\ NatAssertsHold' /\ WireOK'
    BY <2>1 DEF LearnInv, WaitingInv, NoEmptyOrStuckBatch, BatchesOK, NatAssertsHold,
                WireOK, Launched
  <2> QED BY <2>1, <2>2, <2>3, <2>4, RxStep DEF LearnInv, WaitingInv
<1>2. ASSUME NEW x \in Flow, generate_flow(x) \/ DpNode(x)
      PROVE  LearnInv'
  BY <1>2, GenerateFlow, FlowPktNat, TerminateNatFlow, FlowPkt DEF DpNode
<1>3. ASSUME NEW t \in Thread, check_msgs(t) \/ GetOld(t)
      PROVE  LearnInv'
  BY <1>3, CheckMsgs, GetsOld
<1>4. ASSUME NEW x \in Flow, NEW addr \in External(x), handle_packet_ipv4(x, addr)
      PROVE  LearnInv'
  BY <1>4, HandlePacket
<1>7. ASSUME NEW x \in Flow, handle_packet_ipv4_no_node(x)
      PROVE  LearnInv'
  BY <1>7, HandlePacketNoNode
<1>5. CASE handle_aging
  BY <1>5, HandleAging
<1>6. ASSUME NEW t \in Thread, flush_node(t) \/ flush_node_full(t)
      PROVE  LearnInv'
  BY <1>6, FlushNode, FlushNodeFull
<1> QED BY <1>1, <1>2, <1>3, <1>4, <1>5, <1>6, <1>7 DEF Next, Flush

\* What holds of every state the program reaches.
LEMMA SpecLearn == Spec => []LearnInv
BY InitLearn, NextLearn, PTL DEF Spec

\* CFlowGenListPerThread and CNatRxManager: the table holds exactly the flows that
\* wait, the counters count them, no batch overflows or is sent empty, every
\* message is true for the thread it goes to, and the assertion in
\* handel_nat_msg() does not fail.
THEOREM WaitingIsConsistent == Spec => []WaitingInv
<1>1. LearnInv => WaitingInv
  BY DEF LearnInv
<1> QED BY <1>1, SpecLearn, PTL

\* A responder packet goes out with addresses the NAT gave to its flow: a flow
\* that is still waiting when it is due is given up.
THEOREM OnlyTranslatedAnswers == Spec => AnswersAreTranslated
<1>1. ASSUME LearnInv, [Next]_vars, NEW x \in Flow, SendsPacket(x), is_responder_pkt(x)
      PROVE  m_node[x].addr \in External(x)
  <2>1. TypeOK /\ LookupIsTheWaiting /\ MessagesAreTrue /\ NodeOK(x) /\ m_node[x] \in Node
    BY <1>1 DEF LearnInv, WaitingInv, NodesOK, TypeOK
  <2>2. CASE m_node[x].m_type = "FLOW_PKT"
    BY <2>1, <2>2 DEF NodeOK
  <2>3. CASE m_node[x].m_type = "FLOW_PKT_NAT"
    <3>1. m_node'[x].m_type = "FREE" \/ m_node'[x].pkt # m_node[x].pkt
      BY <1>1 DEF SendsPacket
    <3>2. m_node'[x] # m_node[x]
      BY <2>3, <3>1
    <3>3. ASSUME NEW y \in Flow, generate_flow(y) PROVE FALSE
      <4>1. y # x /\ m_node'[x] = m_node[x]
        BY <2>1, <2>3, <3>3 DEF generate_flow, TypeOK
      <4> QED BY <3>2, <4>1
    <3>4. ASSUME NEW y \in Flow, flow_pkt_nat(y) PROVE FALSE
      <4>1. y = x
        BY <2>1, <3>2, <3>4 DEF flow_pkt_nat, TypeOK
      <4>2. Pkts(x)[m_node[x].pkt] # "resp"
        BY <2>1, <2>3, <3>4, <4>1, WaitingIsNotAtEnd DEF flow_pkt_nat, Node
      <4> QED BY <1>1, <4>2 DEF is_responder_pkt
    <3>5. ASSUME NEW y \in Flow, terminate_nat_flow(y) PROVE FALSE
      <4>1. /\ m_stats \in [add : Nat, remove : Nat, timeout : Nat]
            /\ m_stats' = [m_stats EXCEPT !.remove = @ + 1, !.timeout = @ + 1]
        BY <2>1, <3>5 DEF terminate_nat_flow, TypeOK
      <4>2. m_stats'.timeout = m_stats.timeout + 1 /\ m_stats.timeout \in Nat
        BY <4>1
      <4> QED BY <1>1, <4>2 DEF SendsPacket
    <3>6. ASSUME NEW y \in Flow, flow_pkt(y) PROVE FALSE
      <4>1. y # x /\ m_node'[x] = m_node[x]
        BY <2>1, <2>3, <3>6 DEF flow_pkt, TypeOK
      <4> QED BY <3>2, <4>1
    <3>7. ASSUME NEW t \in Thread, check_msgs(t) PROVE FALSE
      <4>1. m_node'[x] = [m_node[x] EXCEPT !.m_type = "FLOW_PKT",
                                           !.addr = TheInfo(t, x).m_external]
        BY <3>2, <3>7 DEF check_msgs, dp
      <4>2. m_node'[x].m_type = "FLOW_PKT" /\ m_node'[x].pkt = m_node[x].pkt
        BY <2>1, <4>1 DEF Node
      <4> QED BY <3>1, <4>2
    <3>8. ASSUME UNCHANGED m_node PROVE FALSE
      BY <3>2, <3>8
    <3> QED BY <1>1, <3>3, <3>4, <3>5, <3>6, <3>7, <3>8
            DEF Next, DpNode, Flush, vars, GetOld, handle_packet_ipv4, handle_aging,
                flush_node, flush_node_full, handle_packet_ipv4_no_node
  <2> QED BY <1>1, <2>2, <2>3 DEF SendsPacket
<1>2. LearnInv /\ [Next]_vars =>
        [\A x \in Flow : SendsPacket(x) /\ is_responder_pkt(x) =>
            m_node[x].addr \in External(x)]_vars
  BY <1>1
<1> QED BY <1>2, SpecLearn, PTL DEF Spec, AnswersAreTranslated

\* The addresses of a flow are learned once, whatever copies of its first packet
\* come later.
THEOREM AddressesAreLearnedOnce == Spec => LearnedOnce
<1>1. ASSUME LearnInv, [Next]_vars, NEW x \in Flow, m_node[x].addr # NoAddr
      PROVE  m_node'[x].addr = m_node[x].addr \/ m_node'[x].m_type = "FREE"
  <2>1. TypeOK /\ LookupIsTheWaiting /\ NodeOK(x) /\ m_node[x] \in Node
    BY <1>1 DEF LearnInv, WaitingInv, NodesOK, TypeOK
  <2>2. m_node[x].m_type = "FLOW_PKT"
    BY <1>1, <2>1 DEF NodeOK
  <2>3. ASSUME NEW y \in Flow, generate_flow(y) \/ flow_pkt_nat(y) \/ terminate_nat_flow(y)
        PROVE  m_node'[x] = m_node[x]
    BY <2>1, <2>2, <2>3 DEF generate_flow, flow_pkt_nat, terminate_nat_flow, TypeOK
  <2>4. ASSUME NEW y \in Flow, flow_pkt(y)
        PROVE  m_node'[x].addr = m_node[x].addr \/ m_node'[x].m_type = "FREE"
    <3>1. m_node'[x] \in {m_node[x], Sent(x)}
      BY <2>1, <2>4 DEF flow_pkt, TypeOK
    <3> QED BY <2>1, <3>1, SentFacts, FreedFacts
  <2>5. ASSUME NEW t \in Thread, check_msgs(t)
        PROVE  m_node'[x] = m_node[x]
    <3>1. x \notin Answered(t)
      BY <2>1, <2>2 DEF Answered, LookupIsTheWaiting
    <3> QED BY <2>5, <3>1 DEF check_msgs, dp
  <2>6. ASSUME UNCHANGED m_node PROVE m_node'[x] = m_node[x]
    BY <2>6
  <2> QED BY <1>1, <2>3, <2>4, <2>5, <2>6
          DEF Next, DpNode, Flush, vars, GetOld, handle_packet_ipv4, handle_aging,
              flush_node, flush_node_full, handle_packet_ipv4_no_node
<1>2. LearnInv /\ [Next]_vars =>
        [\A x \in Flow : m_node[x].addr # NoAddr =>
            m_node'[x].addr = m_node[x].addr \/ m_node'[x].m_type = "FREE"]_vars
  BY <1>1
<1> QED BY <1>2, SpecLearn, PTL DEF Spec, LearnedOnce
=============================================================================
