------------------------------ MODULE FlowGen ------------------------------
(***************************************************************************)
(* One thread of the stateful generator (CFlowGenListPerThread and         *)
(* CNodeGenerator, bp_sim.cpp, bp_sim.h) with its tuple generator          *)
(* (tuple_gen.h): flows are opened from templates, hold client ports while *)
(* they send, and give them back at once or, after the aging time of the   *)
(* pool, in batches.                                                       *)
(*                                                                         *)
(* m_node holds the objects of the node pool; a node is free, in the       *)
(* scheduler's queue, or one of the two batches being filled (m_dpc,       *)
(* m_tcp_dpc and m_udp_dpc).  m_gen is the tuple generator, m_tmpl what    *)
(* the thread keeps per template.  phase is the pass of flush_file() that  *)
(* runs, "gen" (always == false) or "close" (always == true), then "done"; *)
(* or it is "cut" (ended without a complete closing pass), "abort" (an     *)
(* assertion of return_port() failed) or "exit" (the node pool was empty). *)
(*                                                                         *)
(* The queue is ordered by time; how the packets of different flows        *)
(* interleave depends on the gaps of the templates, so any node of the     *)
(* queue may be the next one.                                              *)
(***************************************************************************)
EXTENDS ClientPorts, FiniteSets, Sequences, SequencesExt

CONSTANTS Pools,      \* client pools: <<[ips, large, random, aging], ...>>
          Templates,  \* <<[pool, proto, plugin, pkts, w, limit], ...>>; limit 0: not set
          NodeNum,    \* size of the node pool
          DeferNum    \* DEFER_CLIENTS_NUM, 16; a flow holds three ports at most

Proto == {"tcp", "udp"}
Phase == {"gen", "close", "done", "cut", "abort", "exit"}

ASSUME FlowGenAssumption ==
    /\ \A p \in DOMAIN Pools :
          Pools[p] \in [ips : Nat \ {0}, large : BOOLEAN, random : BOOLEAN,
                        aging : [Proto -> Nat]]
    /\ \A t \in DOMAIN Templates :
          Templates[t] \in [pool : DOMAIN Pools, proto : Proto, plugin : BOOLEAN,
                            pkts : Nat \ {0}, w : Nat \ {0}, limit : Nat]
    /\ Templates # << >>
    /\ NodeNum \in Nat /\ NodeNum >= 3  \* the nodes the thread starts with
    /\ DeferNum \in Nat /\ DeferNum >= 3

VARIABLES m_node, m_dpc, m_gen, m_tmpl, phase, m_terminated_by_master

vars == <<m_node, m_dpc, m_gen, m_tmpl, phase, m_terminated_by_master>>

Node == 1 .. NodeNum
NoNode == 0

\* A client: its pool and its index in the pool.
Client == UNION {{p} \X (0 .. Pools[p].ips - 1) : p \in DOMAIN Pools}

\* Node objects.  A flow knows its template, its client, its ports (the source
\* port and those of the plugin) and how many packets it has left; a batch
\* knows the ports to release.
Plain(type) == [m_type |-> type, tmpl |-> 0, ports |-> << >>, left |-> 0]
FreeNode == Plain("FREE")
FlowNode(t, ports) ==
    [m_type |-> "FLOW_PKT", tmpl |-> t, ports |-> ports, left |-> Templates[t].pkts]

\* A port of a client, as flows and batches hold it.
Held(c, a) == [client |-> c, port |-> a]

\* The scheduler's queue: all that is allocated but the two open batches.
Queue(node, dpc) ==
    {n \in Node : node[n].m_type # "FREE"} \ {dpc[k] : k \in Proto}

-----------------------------------------------------------------------------
(* Helpers on a heap h, a record of node, dpc, gen and fail: the handlers  *)
(* are made of these.  fail is "" or the phase the process ends in.        *)

Heap == [node |-> m_node, dpc |-> m_dpc, gen |-> m_gen, fail |-> ""]

FreeNodes(h) == {n \in Node : h.node[n].m_type = "FREE"}

\* The object create_node() returns.
Fresh(h) == CHOOSE n \in FreeNodes(h) : \A k \in FreeNodes(h) : n <= k

\* create_node() and the fields its caller sets; the process exits when the
\* pool is empty.
create_node(h, obj) ==
    IF FreeNodes(h) = {} THEN [h EXCEPT !.fail = "exit"]
    ELSE [h EXCEPT !.node[Fresh(h)] = obj]

\* get_tcp_defer(), get_udp_defer(): a new batch with its first ports, open
\* unless they fill it.
create_defer(h, k, held) ==
    IF FreeNodes(h) = {} THEN [h EXCEPT !.fail = "exit"]
    ELSE [h EXCEPT !.node[Fresh(h)] = [Plain("FLOW_DEFER_PORT_RELEASE") EXCEPT !.ports = held],
                   !.dpc[k] = IF Len(held) = DeferNum THEN NoNode ELSE Fresh(h)]

free_node(h, n) == [h EXCEPT !.node[n] = FreeNode]

\* The assertions of return_port() for the held ports, one after the other.
MayReturnAll(h, held) ==
    \A i \in DOMAIN held :
       /\ MayReturn(h.gen.m_ip_info[held[i].client], held[i].port)
       /\ h.gen.m_ip_info[held[i].client].large \/ \A j \in 1 .. i - 1 : held[j] # held[i]

\* GenerateTuple() of the pool, and GenerateOnePort(), on the client's ports.
AllocPort(h, c) ==
    LET bad == NewPort(h.gen.m_ip_info[c]) = IllegalPort
    IN  [h EXCEPT !.gen.m_ip_info[c] = get_new_free_port(@),
                  !.gen.m_active_alloc[c[1]] = @ + 1,
                  !.gen.m_port_allocation_error[c[1]] = @ \/ bad]

\* FreePort() for each of the held ports.
FreePorts(h, held) ==
    IF ~MayReturnAll(h, held)
    THEN [h EXCEPT !.fail = "abort"]
    ELSE [h EXCEPT
            !.gen.m_ip_info = [c \in Client |->
                return_ports(h.gen.m_ip_info[c], {e.port : e \in {d \in Range(held) : d.client = c}})],
            !.gen.m_active_alloc = [p \in DOMAIN Pools |->
                h.gen.m_active_alloc[p] - Cardinality({i \in DOMAIN held : held[i].client[1] = p})]]

\* handler_defer_job(): release what batch n holds.
handler_defer_job(h, n) == FreePorts(h, h.node[n].ports)

\* One of the batches that are not full, at the end, unless the process has
\* ended with the other one.
flush_batch(h, k) ==
    IF h.dpc[k] = NoNode \/ h.fail # "" THEN h
    ELSE [free_node(handler_defer_job(h, h.dpc[k]), h.dpc[k]) EXCEPT !.dpc[k] = NoNode]

\* Mutant: the last port of the full batch opens the next one as well.
FillBatch_Overlap(h, k, b, held) ==
    LET all == h.node[b].ports \o held
    IN  IF Len(all) < DeferNum
        THEN [h EXCEPT !.node[b].ports = all]
        ELSE create_defer([h EXCEPT !.node[b].ports = SubSeq(all, 1, DeferNum)], k,
                          SubSeq(all, DeferNum, Len(all)))

\* The held ports are added to the open batch b; when it gets full it is
\* scheduled, and what is left opens another one.
FillBatch(h, k, b, held) ==
    LET all == h.node[b].ports \o held
    IN  IF Len(all) < DeferNum
        THEN [h EXCEPT !.node[b].ports = all]
        ELSE IF Len(all) = DeferNum
        THEN [h EXCEPT !.node[b].ports = all, !.dpc[k] = NoNode]
        ELSE create_defer([h EXCEPT !.node[b].ports = SubSeq(all, 1, DeferNum)], k,
                          SubSeq(all, DeferNum + 1, Len(all)))

\* defer_client_port_free() for each of the held ports, all of one client:
\* returned at once when the pool has no aging time for the protocol, else
\* collected with add_client().
defer_client_port_free(h, k, held) ==
    IF Pools[held[1].client[1]].aging[k] = 0 THEN FreePorts(h, held)
    ELSE IF h.dpc[k] = NoNode THEN create_defer(h, k, held)
    ELSE FillBatch(h, k, h.dpc[k], held)

\* What on_node_last() releases: the plugin's ports, if the flow has any.
on_node_last(ps) == Tail(ps)

\* free_last_flow_node(): the plugin's ports are released, then the source
\* port, and the node is freed.
free_last_flow_node(h, n) ==
    LET ps == h.node[n].ports
    IN  free_node(defer_client_port_free(h, Templates[h.node[n].tmpl].proto,
                                         on_node_last(ps) \o <<Head(ps)>>), n)

\* Mutant: only the TCP batch is flushed.
handler_defer_job_flush_TcpOnly(h) == flush_batch(h, "tcp")

\* The two batches that are not full.
handler_defer_job_flush(h) == flush_batch(flush_batch(h, "tcp"), "udp")

\* close_file(): remove_all() frees the nodes of the queue, nothing else.
close_file(h) ==
    [h EXCEPT !.node = [n \in Node |-> IF \E k \in Proto : h.dpc[k] = n
                                       THEN h.node[n] ELSE FreeNode]]

\* A handler went well, or the process ended in it.
Commit(heap, next) ==
    \E h \in {heap} :
       /\ m_node' = h.node
       /\ m_dpc' = h.dpc
       /\ m_gen' = h.gen
       /\ phase' = IF h.fail # "" THEN h.fail ELSE next

\* flush_file() leaves its loop, and start_generate_stateful() goes on to the
\* closing pass, unless the option not to close flows is set, or to the end.
LeaveLoop(h) ==
    \/ /\ phase = "gen" /\ ~m_terminated_by_master
       /\ Commit(h, "close")
    \/ /\ phase = "gen" \/ m_terminated_by_master
       /\ Commit(close_file(h), "cut")
    \/ /\ phase = "close" /\ ~m_terminated_by_master
       /\ Commit(close_file(handler_defer_job_flush(h)), "done")

-----------------------------------------------------------------------------
\* start_generate_stateful() up to its first flush_file(): the FLOW_FIF, the
\* FLOW_SYNC and the EXIT_SCHED node are in the queue.
Init ==
    /\ m_node = [n \in Node |-> CASE n = 1 -> Plain("FLOW_FIF")
                                  [] n = 2 -> Plain("FLOW_SYNC")
                                  [] n = 3 -> Plain("EXIT_SCHED")
                                  [] OTHER -> FreeNode]
    /\ m_dpc = [k \in Proto |-> NoNode]
    /\ m_gen = [m_ip_info |-> [c \in Client |-> NewIp(Pools[c[1]].large)],
                m_cur_idx |-> [p \in DOMAIN Pools |-> 0],
                m_active_alloc |-> [p \in DOMAIN Pools |-> 0],
                m_port_allocation_error |-> [p \in DOMAIN Pools |-> FALSE]]
    /\ m_tmpl = [t \in DOMAIN Templates |->
                    [m_cnt |-> 0, m_cache_client_idx |-> 0, m_flowcnt |-> 0]]
    /\ phase = "gen"
    /\ m_terminated_by_master = FALSE

Running == phase \in {"gen", "close"}

\* Node n of the given type is popped from the queue.
Pop(n, type) == /\ Running
                /\ n \in Queue(m_node, m_dpc)
                /\ m_node[n].m_type = type

is_repeat_flow(n) == Templates[m_node[n].tmpl].limit > 0

\* Mutant: a repeated flow is repeated in the closing pass too.
Repeats_Always(n) == is_repeat_flow(n)

\* The flow starts over after its last packet.
Repeats(n) == is_repeat_flow(n) /\ phase = "gen"

\* FLOW_PKT: a packet of the flow is sent; after its last one the flow is
\* rescheduled from its first, keeping its ports, or freed.
flow_pkt(n) ==
    /\ Pop(n, "FLOW_PKT")
    /\ IF m_node[n].left > 1
       THEN Commit([Heap EXCEPT !.node[n].left = @ - 1], phase)
       ELSE IF Repeats(n)
            THEN Commit([Heap EXCEPT !.node[n].left = Templates[m_node[n].tmpl].pkts],
                        phase)
            ELSE Commit(free_last_flow_node(Heap, n), phase)
    /\ UNCHANGED <<m_tmpl, m_terminated_by_master>>

\* The templates that are below their limit, if they have one.
Open == {t \in DOMAIN Templates :
            \/ Templates[t].limit = 0
            \/ m_tmpl[t].m_flowcnt < Templates[t].limit}

\* The pool's index after generate_ip(): the next one round, or any.
inc_cur_idx(p) ==
    IF Pools[p].random
    THEN 0 .. Pools[p].ips - 1
    ELSE {IF m_gen.m_cur_idx[p] + 1 >= Pools[p].ips THEN 0 ELSE m_gen.m_cur_idx[p] + 1}

\* The client of the next flow of template t: a new one, or for the next
\* w - 1 flows the one the template remembers.
TupleClient(t) ==
    <<Templates[t].pool, IF m_tmpl[t].m_cnt = 0
                         THEN m_gen.m_cur_idx[Templates[t].pool]
                         ELSE m_tmpl[t].m_cache_client_idx>>

\* on_node_first(): the plugin takes two more ports of the same client.
on_node_first(h, n, c) ==
    LET h1 == AllocPort(h, c)
        h2 == AllocPort(h1, c)
    IN  [h2 EXCEPT !.node[n].ports = @ \o <<Held(c, NewPort(h.gen.m_ip_info[c])),
                                            Held(c, NewPort(h1.gen.m_ip_info[c]))>>]

\* generate_flow() of template t on node n, idx being the pool's index after
\* it: the tuple, then the plugin's ports.
generate_flow(h, n, t, idx) ==
    LET c == TupleClient(t)
        g == [AllocPort([h EXCEPT !.gen.m_cur_idx[c[1]] = idx], c) EXCEPT
                !.node[n] = FlowNode(t, <<Held(c, NewPort(h.gen.m_ip_info[c]))>>)]
    IN  IF Templates[t].plugin THEN on_node_first(g, n, c) ELSE g

\* FLOW_FIF in the first pass: the round robin stops at a template below its
\* limit that its policer lets pass, if there is one, and opens a flow of it;
\* the node goes on unless every template has reached its limit.  The policer
\* depends on the rates, so any open template may be the one, or none, and
\* where the round robin starts makes no difference.  m_flowcnt is only read
\* where there is a limit.
flow_fif(n) ==
    /\ Pop(n, "FLOW_FIF")
    /\ phase = "gen"
    /\ \/ /\ Commit(IF Open = {} THEN free_node(Heap, n) ELSE Heap, phase)
          /\ UNCHANGED m_tmpl
       \/ \E t \in Open :
            LET p     == Templates[t].pool
                first == m_tmpl[t].m_cnt = 0
                g     == create_node(Heap, Plain("FLOW_PKT"))
            IN  \E idx \in IF first THEN inc_cur_idx(p) ELSE {m_gen.m_cur_idx[p]} :
                   /\ Commit(IF g.fail # "" THEN g
                             ELSE generate_flow(g, Fresh(Heap), t, idx), phase)
                   /\ m_tmpl' = [m_tmpl EXCEPT ![t] =
                         [m_cnt |-> IF @.m_cnt + 1 >= Templates[t].w THEN 0 ELSE @.m_cnt + 1,
                          m_cache_client_idx |-> TupleClient(t)[2],
                          m_flowcnt |-> IF Templates[t].limit = 0
                                        THEN 0 ELSE @.m_flowcnt + 1]]
    /\ UNCHANGED m_terminated_by_master

\* FLOW_FIF in the closing pass: no more flows.
flow_fif_close(n) ==
    /\ Pop(n, "FLOW_FIF")
    /\ phase = "close"
    /\ Commit(free_node(Heap, n), phase)
    /\ UNCHANGED <<m_tmpl, m_terminated_by_master>>

\* FLOW_DEFER_PORT_RELEASE: the aging time of a full batch is over.
flow_defer(n) ==
    /\ Pop(n, "FLOW_DEFER_PORT_RELEASE")
    /\ Commit(free_node(handler_defer_job(Heap, n), n), phase)
    /\ UNCHANGED <<m_tmpl, m_terminated_by_master>>

\* m_p_queue is empty once n is popped (m_non_active_nodes is 0 here).
IsLastNode(h, n) == Queue(h.node, h.dpc) \ {n} = {}

\* FLOW_SYNC: leave when nothing else is queued, else push it back.
flow_sync(n) ==
    /\ Pop(n, "FLOW_SYNC")
    /\ IF IsLastNode(Heap, n) THEN LeaveLoop(free_node(Heap, n)) ELSE Commit(Heap, phase)
    /\ UNCHANGED <<m_tmpl, m_terminated_by_master>>

\* FLOW_SYNC when check_msgs() finds that the master ends the thread: an
\* EXIT_SCHED node is pushed, so the queue is not empty.
flow_sync_quit(n) ==
    /\ Pop(n, "FLOW_SYNC")
    /\ ~m_terminated_by_master
    /\ m_terminated_by_master' = TRUE
    /\ Commit(create_node(Heap, Plain("EXIT_SCHED")), phase)
    /\ UNCHANGED m_tmpl

\* EXIT_SCHED: the duration is over, or the master said so.
exit_sched(n) ==
    /\ Pop(n, "EXIT_SCHED")
    /\ LeaveLoop(free_node(Heap, n))
    /\ UNCHANGED <<m_tmpl, m_terminated_by_master>>

Finish(n) == flow_pkt(n) \/ flow_fif_close(n) \/ flow_defer(n) \/ flow_sync(n)
             \/ exit_sched(n)

Next == \E n \in Node : Finish(n) \/ flow_fif(n) \/ flow_sync_quit(n)

\* The queue is ordered by time and a node is only pushed back with a later
\* time, so a node that stays in the queue is handled.  Nothing is assumed of
\* the handler that opens flows, nor of the master.
Spec == Init /\ [][Next]_vars /\ \A n \in Node : WF_vars(Finish(n))

-----------------------------------------------------------------------------
\* The types of the node pool, the batches, the tuple generator and the rest.
HeldPort == [client : Client, port : {IllegalPort} \cup (MinPort .. MaxPort)]
NodeType == {"FREE", "FLOW_PKT", "FLOW_DEFER_PORT_RELEASE", "FLOW_FIF",
             "FLOW_SYNC", "EXIT_SCHED"}

\* Type invariant: among others no batch is ever full and still open, and the
\* counter of active ports does not go below zero.
TypeOK ==
    /\ m_node \in [Node -> [m_type : NodeType, tmpl : {0} \cup DOMAIN Templates,
                            ports : Seq(HeldPort), left : Nat]]
    /\ m_dpc \in [Proto -> Node \cup {NoNode}]
    /\ \A k \in Proto : m_dpc[k] # NoNode =>
          /\ m_node[m_dpc[k]].m_type = "FLOW_DEFER_PORT_RELEASE"
          /\ Len(m_node[m_dpc[k]].ports) < DeferNum \/ phase \in {"abort", "exit"}
    /\ m_gen.m_ip_info \in [Client -> [large : BOOLEAN, m_bitmap_port : SUBSET Port,
                                        m_head_port : MinPort .. MaxPort + 1]]
    /\ \A p \in DOMAIN Pools : m_gen.m_cur_idx[p] \in 0 .. Pools[p].ips - 1
    /\ m_gen.m_active_alloc \in [DOMAIN Pools -> Nat]
    /\ m_gen.m_port_allocation_error \in [DOMAIN Pools -> BOOLEAN]
    /\ \A t \in DOMAIN Templates : m_tmpl[t].m_cnt \in 0 .. Templates[t].w - 1
    /\ phase \in Phase
    /\ m_terminated_by_master \in BOOLEAN

\* Every place where a port is held: a flow or a batch, and the position in it.
Holds == UNION {{n} \X DOMAIN m_node[n].ports : n \in Node}
HeldAt(x) == m_node[x[1]].ports[x[2]]

\* tuple_gen.h:276, bp_sim.cpp:3328: the bitmap of a client is exactly the
\* ports that its flows, their plugins and the batches that wait to be
\* released hold, and each of these is held in one place: a port is never
\* given to a second flow before the first one has closed and the batch its
\* port went into was released.  How long that takes is not said here: a batch
\* may mix the ports of pools with different aging times.
PortsHeldOnce ==
    Running => \A c \in Client : ~Pools[c[1]].large =>
       \A a \in Port :
          Cardinality({x \in Holds : HeldAt(x) = Held(c, a)})
             = IF a \in m_gen.m_ip_info[c].m_bitmap_port THEN 1 ELSE 0

\* tuple_gen.h:389, 449: m_active_alloc counts what is held, allocations that
\* failed included, through batches, plugins and repeated flows.
ActiveAllocIsExact ==
    Running => \A p \in DOMAIN Pools :
       m_gen.m_active_alloc[p] = Cardinality({x \in Holds : HeldAt(x).client[1] = p})

\* The ports of the clients, the flows and batches that hold them and the
\* counters agree.
PortsInv == TypeOK /\ PortsHeldOnce /\ ActiveAllocIsExact

\* tuple_gen.h:295-296: the assertions of return_port() only ever fail after a
\* flow was opened with the illegal port: no port is returned twice, or to a
\* client it was not taken from, by any order of closing, aging and flushing.
AssertsFailOnlyOnIllegalPort ==
    phase = "abort" => \E p \in DOMAIN Pools : m_gen.m_port_allocation_error[p]

\* tuple_gen.h:295-296: no assertion of return_port() fails.  It does: a flow
\* that found no free port is opened with the illegal one, and returns it.
NoPortAssertFails == phase # "abort"

\* bp_sim.cpp:3623-3633, 3696: when the thread ends after the closing pass,
\* every port is back, whether its flow was repeated or not, its batch full or
\* not, and every node is back in the pool.
CloseReturnsEverything ==
    phase = "done" =>
       /\ \A c \in Client : m_gen.m_ip_info[c].m_bitmap_port = {}
       /\ \A p \in DOMAIN Pools : m_gen.m_active_alloc[p] = 0
       /\ \A n \in Node : m_node[n] = FreeNode

\* bp_sim.cpp:4045-4105: the thread comes to its end, with repeated flows and
\* batches that wait for their aging time, however the templates are limited.
GenerationEnds == <>(~Running)
=============================================================================
