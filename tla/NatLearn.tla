------------------------------ MODULE NatLearn ------------------------------
(***************************************************************************)
(* Learning the translations of a NAT (--learn).  The first packet of a    *)
(* bidirectional flow carries the number of its thread and flow; the       *)
(* receive thread reads the translated addresses off it and sends them to  *)
(* the generating thread in batches (CNatRxManager, nat_check.cpp), which  *)
(* looks the flow up and from then on answers with the learned addresses   *)
(* (CFlowGenListPerThread, bp_sim.cpp, bp_sim.h).                          *)
(*                                                                         *)
(* The network may lose, repeat and reorder the learn packets; a flow that *)
(* has not learned when its first responder packet is due is given up.     *)
(* Flows with one direction are not associated and send as they do without *)
(* --learn (FlowGen); they are left out here.                              *)
(*                                                                         *)
(* m_node holds the flows of each thread by flow id (the low 32 bits of it,*)
(* which do not come round within a run), m_lookup the flows in            *)
(* m_flow_id_to_node_lookup.  m_cur_nat_msg is the batch being filled for  *)
(* a thread, old the threads whose batch is older than                     *)
(* MAX_TIME_MSG_IN_QUEUE_SEC, ring the messages to the thread, rx what the *)
(* receive thread has to flush and how often the ring was full.  wire      *)
(* counts the copies of a flow's learn packet that may still arrive.       *)
(***************************************************************************)
EXTENDS Integers, Sequences, FiniteSets

CONSTANTS Flows,       \* Flows[t][f]: the sides, "init" or "resp", of the packets
                       \* of flow f of thread t; both occur (IsBiDirectionalFlow)
          Mappings,    \* the translations the NAT may give a flow in the course of time
          MaxNatInfo,  \* MAX_NAT_FLOW_INFO, 7
          RingSize,    \* messages a ring holds, 1024
          MaxFull,     \* times a ring is found full before exit(1), 11
          Copies       \* bound: Copies[t][f] deliveries of the learn packet at most,
                       \* none being a loss

ASSUME NatAssumption ==
    /\ Flows \in Seq(Seq(Seq({"init", "resp"})))
    /\ \A t \in DOMAIN Flows : \A f \in DOMAIN Flows[t] :
          /\ Flows[t][f] # << >> /\ Flows[t][f][1] = "init"
          /\ \E i \in DOMAIN Flows[t][f] : Flows[t][f][i] = "resp"
    /\ MaxNatInfo \in Nat \ {0} /\ RingSize \in Nat \ {0}
    /\ MaxFull \in Nat \ {0}
    /\ \A t \in DOMAIN Flows : \A f \in DOMAIN Flows[t] : Copies[t][f] \in Nat

VARIABLES m_node, m_lookup, m_stats, wire, m_cur_nat_msg, old, ring, rx, phase

dp == <<m_node, m_lookup, m_stats>>
vars == <<m_node, m_lookup, m_stats, wire, m_cur_nat_msg, old, ring, rx, phase>>

Thread == DOMAIN Flows

\* A flow: its thread and its id.
Flow == UNION {{t} \X DOMAIN Flows[t] : t \in Thread}

Pkts(x) == Flows[x[1]][x[2]]

\* The addresses of a flow outside the NAT; NoAddr before they are learned.
External(x) == {x} \X Mappings
NoAddr == << >>

\* A node: FLOW_PKT_NAT or FLOW_PKT with the number of its next packet, "NEW"
\* before the flow is generated, "FREE" after it was freed.
NewNode == [m_type |-> "NEW", nat |-> "first", pkt |-> 1, addr |-> NoAddr]
FreedNode == [NewNode EXCEPT !.m_type = "FREE"]

Init ==
    /\ m_node = [x \in Flow |-> NewNode]
    /\ m_lookup = {}
    /\ m_stats = [add |-> 0, remove |-> 0, timeout |-> 0]
    /\ wire = [x \in Flow |-> 0]
    /\ m_cur_nat_msg = [t \in Thread |-> << >>]
    /\ old = {}
    /\ ring = [t \in Thread |-> << >>]
    /\ rx = [todo |-> {}, full |-> 0]
    /\ phase = "run"

-----------------------------------------------------------------------------
(* The generating threads.                                                 *)

\* generate_flow() in learn mode: flows are opened in the order of their ids,
\* associated, and wait.
generate_flow(x) ==
    /\ phase = "run"
    /\ m_node[x].m_type = "NEW"
    /\ \A y \in Flow : y[1] = x[1] /\ y[2] < x[2] => m_node[y].m_type # "NEW"
    /\ m_node' = [m_node EXCEPT ![x].m_type = "FLOW_PKT_NAT"]
    /\ m_lookup' = m_lookup \cup {x}
    /\ m_stats' = [m_stats EXCEPT !.add = @ + 1]
    /\ UNCHANGED <<wire, m_cur_nat_msg, old, ring, rx, phase>>

\* Mutant: the node stays at its packet.
Sent_SamePacket(x) ==
    IF m_node[x].pkt = Len(Pkts(x)) THEN FreedNode ELSE [m_node[x] EXCEPT !.nat = "wait"]

\* The node after its packet was sent: on to the next one, or freed.
Sent(x) ==
    IF m_node[x].pkt = Len(Pkts(x)) THEN FreedNode
    ELSE [m_node[x] EXCEPT !.nat = "wait", !.pkt = @ + 1]

is_responder_pkt(x) == Pkts(x)[m_node[x].pkt] = "resp"

\* A responder packet is due and nothing was learned.
GivesUp(x) == m_node[x].nat = "wait" /\ is_responder_pkt(x)

\* FLOW_PKT_NAT, sending: the first packet carries the option, so copies of it
\* may now arrive at the receive thread.
flow_pkt_nat(x) ==
    /\ phase = "run"
    /\ m_node[x].m_type = "FLOW_PKT_NAT"
    /\ ~GivesUp(x)
    /\ m_node' = [m_node EXCEPT ![x] = Sent(x)]
    /\ wire' = [wire EXCEPT ![x] = IF m_node[x].nat = "first" THEN Copies[x[1]][x[2]] ELSE @]
    /\ UNCHANGED <<m_lookup, m_stats, m_cur_nat_msg, old, ring, rx, phase>>

\* Mutant: the association of a flow that is given up stays.
Unassociated_Kept(x) == m_lookup

\* The table without the flow.
Unassociated(x) == m_lookup \ {x}

\* FLOW_PKT_NAT, terminate_nat_flows().
terminate_nat_flow(x) ==
    /\ phase = "run"
    /\ m_node[x].m_type = "FLOW_PKT_NAT"
    /\ GivesUp(x)
    /\ m_node' = [m_node EXCEPT ![x] = FreedNode]
    /\ m_lookup' = Unassociated(x)
    /\ m_stats' = [m_stats EXCEPT !.remove = @ + 1, !.timeout = @ + 1]
    /\ UNCHANGED <<wire, m_cur_nat_msg, old, ring, rx, phase>>

\* FLOW_PKT: a flow that has learned its addresses.
flow_pkt(x) ==
    /\ phase = "run"
    /\ m_node[x].m_type = "FLOW_PKT"
    /\ m_node' = [m_node EXCEPT ![x] = Sent(x)]
    /\ UNCHANGED <<m_lookup, m_stats, wire, m_cur_nat_msg, old, ring, rx, phase>>

\* Where a message stands in the ring of t: its batch and its place in it.
Slots(t) == UNION {{b} \X DOMAIN ring[t][b] : b \in DOMAIN ring[t]}
InfoAt(t, s) == ring[t][s[1]][s[2]]
IsBefore(r, s) == r[1] < s[1] \/ (r[1] = s[1] /\ r[2] < s[2])

\* The messages in the ring of t for flow x.
SlotsOf(t, x) == {s \in Slots(t) : InfoAt(t, s).m_fid = x[2]}

\* Mutant: the flow is found by its id alone, in whatever thread.
Answered_AnyThread(t) == {x \in m_lookup : SlotsOf(t, x) # {}}

\* The flows of thread t that are found in the table for the messages.
Answered(t) == {x \in m_lookup : x[1] = t /\ SlotsOf(t, x) # {}}

\* The first message for a flow: it removes the association, so the others
\* are not for anyone.
TheInfo(t, x) ==
    InfoAt(t, CHOOSE s \in SlotsOf(t, x) : \A r \in SlotsOf(t, x) : ~IsBefore(r, s))

\* Mutant: a flow stays associated when it has learned.
StillAssociated_All(found) == m_lookup

\* The table without the flows that have learned.
StillAssociated(found) == m_lookup \ found

\* check_msgs() and handel_nat_msg(), at each FLOW_SYNC: the ring is emptied.
check_msgs(t) ==
    LET found == Answered(t)
    IN  /\ phase = "run"
        /\ ring[t] # << >>
        /\ ring' = [ring EXCEPT ![t] = << >>]
        /\ IF \E x \in found : m_node[x].nat # "wait"
           THEN phase' = "abort" /\ UNCHANGED dp
           ELSE /\ m_node' = [x \in Flow |->
                      IF x \in found
                      THEN [m_node[x] EXCEPT !.m_type = "FLOW_PKT",
                                             !.addr = TheInfo(t, x).m_external]
                      ELSE m_node[x]]
                /\ m_lookup' = StillAssociated(found)
                /\ m_stats' = [m_stats EXCEPT !.remove = @ + Cardinality(found)]
                /\ UNCHANGED phase
        /\ UNCHANGED <<wire, m_cur_nat_msg, old, rx>>

-----------------------------------------------------------------------------
(* The receive thread.                                                     *)

\* handle_packet_ipv4(): the addresses go into the batch of the thread, which
\* is flushed when it is full.
handle_packet_ipv4(x, addr) ==
    LET t     == x[1]
        batch == Append(m_cur_nat_msg[t], [m_fid |-> x[2], m_external |-> addr])
    IN  /\ phase = "run"
        /\ rx.todo = {}
        /\ wire[x] > 0
        /\ wire' = [wire EXCEPT ![x] = @ - 1]
        /\ m_cur_nat_msg' = [m_cur_nat_msg EXCEPT ![t] = batch]
        /\ old' = IF Len(batch) = 1 THEN old \ {t} ELSE old
        /\ rx' = [rx EXCEPT !.todo = IF Len(batch) = MaxNatInfo THEN {t} ELSE {}]
        /\ UNCHANGED <<m_node, m_lookup, m_stats, ring, phase>>

\* ... or there is no node for a new batch: the pool is shared with the flows
\* and may be empty at any time, and then assert(node) ends the process.
handle_packet_ipv4_no_node(x) ==
    /\ phase = "run"
    /\ rx.todo = {}
    /\ wire[x] > 0
    /\ m_cur_nat_msg[x[1]] = << >>
    /\ phase' = "exit"
    /\ UNCHANGED <<m_node, m_lookup, m_stats, wire, m_cur_nat_msg, old, ring, rx>>

\* The clock: a batch gets older than MAX_TIME_MSG_IN_QUEUE_SEC.
GetOld(t) ==
    /\ phase = "run"
    /\ m_cur_nat_msg[t] # << >> /\ t \notin old
    /\ old' = old \cup {t}
    /\ UNCHANGED <<m_node, m_lookup, m_stats, wire, m_cur_nat_msg, ring, rx, phase>>

\* Mutant: only the first thread's batch is looked at.
IsDue_FirstThread(t) == t = 1 /\ m_cur_nat_msg[t] # << >> /\ t \in old

IsDue(t) == m_cur_nat_msg[t] # << >> /\ t \in old

\* handle_aging(), every millisecond: the batches that are old are flushed.
handle_aging ==
    /\ phase = "run"
    /\ rx.todo = {}
    /\ \E t \in Thread : IsDue(t)
    /\ rx' = [rx EXCEPT !.todo = {t \in Thread : IsDue(t)}]
    /\ UNCHANGED <<m_node, m_lookup, m_stats, wire, m_cur_nat_msg, old, ring, phase>>

\* The batches are flushed in the order of the threads.
IsFirstTodo(t) == t \in rx.todo /\ \A u \in rx.todo : t <= u

\* flush_node(): the batch is sent, and a new one made for the next packet, ...
flush_node(t) ==
    /\ phase = "run"
    /\ IsFirstTodo(t)
    /\ Len(ring[t]) < RingSize
    /\ ring' = [ring EXCEPT ![t] = Append(@, m_cur_nat_msg[t])]
    /\ m_cur_nat_msg' = [m_cur_nat_msg EXCEPT ![t] = << >>]
    /\ rx' = [todo |-> rx.todo \ {t}, full |-> 0]
    /\ UNCHANGED <<m_node, m_lookup, m_stats, wire, old, phase>>

\* ... or the ring is full: wait and try again, but not for ever.
flush_node_full(t) ==
    /\ phase = "run"
    /\ IsFirstTodo(t)
    /\ Len(ring[t]) = RingSize
    /\ rx' = [rx EXCEPT !.full = @ + 1]
    /\ phase' = IF rx'.full = MaxFull THEN "exit" ELSE phase
    /\ UNCHANGED <<m_node, m_lookup, m_stats, wire, m_cur_nat_msg, old, ring>>

-----------------------------------------------------------------------------
DpNode(x) == flow_pkt_nat(x) \/ terminate_nat_flow(x) \/ flow_pkt(x)

Flush == \E t \in Thread : flush_node(t) \/ flush_node_full(t)

Next == \/ \E x \in Flow : generate_flow(x) \/ DpNode(x)
        \/ \E t \in Thread : check_msgs(t) \/ GetOld(t)
        \/ \E x \in Flow : \E addr \in External(x) : handle_packet_ipv4(x, addr)
        \/ \E x \in Flow : handle_packet_ipv4_no_node(x)
        \/ handle_aging \/ Flush

\* A node in the queue of a generating thread is handled when its time comes;
\* so is the FLOW_SYNC of the receive thread, which calls handle_aging(); this
\* thread does not leave flush_node() before it is done; time passes.  Nothing
\* is assumed of the network, nor that the rings are read in time.
Spec == /\ Init /\ [][Next]_vars
        /\ \A x \in Flow : WF_vars(DpNode(x))
        /\ \A t \in Thread : WF_vars(GetOld(t))
        /\ WF_vars(handle_aging) /\ WF_vars(Flush)

-----------------------------------------------------------------------------
Address == UNION {External(x) : x \in Flow}
Node == [m_type : {"NEW", "FLOW_PKT_NAT", "FLOW_PKT", "FREE"}, nat : {"first", "wait"},
         pkt : Nat \ {0}, addr : {NoAddr} \cup Address]
Info == [m_fid : Nat, m_external : Address]

\* Type invariant: the types of the flows, the table, the batches and the rings;
\* no batch has more entries than fit into the node that carries it.
TypeOK ==
    /\ m_node \in [Flow -> Node]
    /\ m_lookup \subseteq Flow
    /\ m_stats \in [add : Nat, remove : Nat, timeout : Nat]
    /\ wire \in [Flow -> Nat]
    /\ \A x \in Flow : wire[x] <= Copies[x[1]][x[2]]
    /\ m_cur_nat_msg \in [Thread -> Seq(Info)]
    /\ \A t \in Thread : Len(m_cur_nat_msg[t]) <= MaxNatInfo
    /\ old \subseteq Thread
    /\ ring \in [Thread -> Seq(Seq(Info))]
    /\ \A t \in Thread : Len(ring[t]) <= RingSize
    /\ rx \in [todo : SUBSET Thread, full : 0 .. MaxFull]
    /\ phase \in {"run", "abort", "exit"}

\* The first packet of the flow, the one that is answered, was sent.
Launched(x) == m_node[x].m_type = "FREE" \/ m_node[x].nat = "wait"

\* What a message to thread t must be: about a flow of t that has sent its first
\* packet, with the addresses the NAT gave to that flow.
IsTrueFor(t, info) ==
    /\ info.m_fid \in DOMAIN Flows[t]
    /\ info.m_external \in External(<<t, info.m_fid>>)
    /\ Launched(<<t, info.m_fid>>)

\* nat_check.cpp:128-165: the messages, in the batches and in the rings, are true
\* for the thread they go to.
MessagesAreTrue ==
    \A t \in Thread :
       /\ \A i \in DOMAIN m_cur_nat_msg[t] : IsTrueFor(t, m_cur_nat_msg[t][i])
       /\ \A s \in Slots(t) : IsTrueFor(t, InfoAt(t, s))

\* bp_sim.cpp:3650-3680, 3929: the table holds exactly the flows that still
\* wait, so it never points to a node that was freed or that has learned,
\* and a message that comes late finds nobody.
LookupIsTheWaiting == m_lookup = {x \in Flow : m_node[x].m_type = "FLOW_PKT_NAT"}

\* bp_sim.cpp:3949: a message only ever finds a flow that waits: the state is
\* changed before the packet goes out that can be answered.
NatAssertsHold == phase # "abort"

\* The flows that know their addresses.
Learned == {x \in Flow : m_node[x].addr # NoAddr}

\* bp_sim.cpp:3901, 3957: the counters: what was added and not removed is in
\* the table, and every flow that was removed learned or was given up.
NatCountersMatch ==
    /\ m_stats.add - m_stats.remove = Cardinality(m_lookup)
    /\ m_stats.timeout <= m_stats.remove
    /\ Cardinality(Learned) <= m_stats.remove - m_stats.timeout

\* nat_check.cpp:103-165: between two packets no batch is full, and none is
\* flushed empty: every message in a ring has something in it.
NoEmptyOrStuckBatch ==
    \A t \in Thread :
       /\ rx.todo = {} => Len(m_cur_nat_msg[t]) < MaxNatInfo
       /\ \A i \in DOMAIN ring[t] : ring[t][i] # << >>

\* The table, the flows, the counters, the batches and the messages agree, and
\* no message finds a flow in the wrong state.
WaitingInv == TypeOK /\ LookupIsTheWaiting /\ NatAssertsHold /\ NatCountersMatch
              /\ NoEmptyOrStuckBatch /\ MessagesAreTrue

\* The step sends a packet of flow x (and does not give the flow up).
SendsPacket(x) ==
    /\ m_node[x].m_type \in {"FLOW_PKT_NAT", "FLOW_PKT"}
    /\ m_node'[x].m_type = "FREE" \/ m_node'[x].pkt # m_node[x].pkt
    /\ m_stats'.timeout = m_stats.timeout

\* bp_sim.h:2862: a responder packet goes out with the addresses the NAT gave
\* to this very flow, not to one with the same id in another thread.
AnswersAreTranslated ==
    [][\A x \in Flow : SendsPacket(x) /\ is_responder_pkt(x) =>
          m_node[x].addr \in External(x)]_vars

\* bp_sim.cpp:3932: the addresses of a flow are learned once: copies of its
\* first packet that come later, with whatever translation, change nothing.
LearnedOnce ==
    [][\A x \in Flow : m_node[x].addr # NoAddr =>
          m_node'[x].addr = m_node[x].addr \/ m_node'[x].m_type = "FREE"]_vars

\* bp_sim.cpp:3650: a flow that waits learns its addresses or is given up, or
\* the process ends.
WaitingEnds ==
    \A x \in Flow : m_node[x].m_type = "FLOW_PKT_NAT"
                       ~> (m_node[x].m_type # "FLOW_PKT_NAT" \/ phase = "exit")

\* nat_check.cpp:90: a batch that does not get full is sent all the same, to
\* whichever thread.
BatchIsSent ==
    \A t \in Thread : m_cur_nat_msg[t] # << >>
                         ~> (m_cur_nat_msg[t] = << >> \/ phase = "exit")
=============================================================================
