------------------------------- MODULE RxCheck -------------------------------
(***************************************************************************)
(* RxCheckManager (rx_check.cpp, rx_check.h): the receive side follows the *)
(* sampled flows, packet by packet, over a network that may lose, repeat   *)
(* and reorder packets, and ages the flows that fall silent with the timer *)
(* wheel.  Everything runs on the latency thread (latency.cpp).            *)
(*                                                                         *)
(* m_ft is the flow table (Closed for no entry), m_tw the timer wheel,     *)
(* lookups the low bits of m_lookup that decide when a packet also runs an *)
(* aging pass, m_cur_time the time of the last packet, loop what the       *)
(* thread is doing: "rx" (polling), "aging" (in try_handle_events), "drain"*)
(* (in drain_all, m_on_drain) or "stopped".  now is the clock.  copies and *)
(* got are history: how often the network delivered a packet, and what     *)
(* each direction of a flow received since the flow was last opened.       *)
(***************************************************************************)
EXTENDS TimerWheel, Sequences

CONSTANTS Packets,     \* the headers the senders put on the wire
          MinAging,    \* the floor of the aging time (5 seconds)
          AgeEvery,    \* a pass every AgeEvery lookups (256)
          MaxCopies,   \* bound: deliveries of one packet, 0 being a loss
          MaxRx,       \* bound: packets received in all
          MaxTime      \* bound: the clock

Dirs == {0, 1}

\* A header: its flow, direction, number in its direction, the number of
\* packets of its direction, whether the flow has both, its aging time.
Header == [m_flow_id : Flow, dir : Dirs, m_pkt_id : Nat, m_flow_size : Nat \ {0},
           both_dir : BOOLEAN, m_aging_sec : Nat]

ASSUME PacketsAssumption ==
    /\ Packets \subseteq Header
    /\ \A p \in Packets : p.m_pkt_id < p.m_flow_size
    /\ MinAging \in Nat \ {0} /\ AgeEvery \in Nat \ {0}
    /\ MaxCopies \in Nat /\ MaxRx \in Nat /\ MaxTime \in Nat

\* What a sender writes into a header follows from the packet (bp_sim.cpp:1652-1669):
\* a packet has one header, and it tells whether its flow has both directions.
ASSUME SendersAssumption ==
    \A p \in Packets :
       /\ \A q \in Packets :
             /\ q.m_flow_id = p.m_flow_id /\ q.dir = p.dir
             /\ q.m_pkt_id = p.m_pkt_id /\ q.m_flow_size = p.m_flow_size
             => q = p
       /\ p.both_dir <=> \E q \in Packets : q.m_flow_id = p.m_flow_id /\ q.dir # p.dir

VARIABLES m_ft, m_tw, m_stats, lookups, m_cur_time, loop, now, copies, got

vars == <<m_ft, m_tw, m_stats, lookups, m_cur_time, loop, now, copies, got>>

\* A direction nothing was received from, and no entry in the table.
NewDir == [fif_seen |-> FALSE, m_flow_size |-> 0, m_pkts |-> 0, m_seq |-> 0]
Closed == [open |-> FALSE, m_dir |-> [d \in Dirs |-> NewDir],
           m_oo_err |-> 0, both_dir |-> FALSE]

NoStats == [m_total_rx |-> 0, m_add |-> 0, m_remove |-> 0,
            m_active |-> 0, m_err_drop |-> 0, m_err_aged |-> 0,
            m_err_junk |-> 0,
            m_err_fif_seen_twice |-> 0, m_err_open_with_no_fif_pkt |-> 0,
            m_err_oo_dup |-> 0, m_err_oo_early |-> 0, m_err_oo_late |-> 0,
            m_err_flow_length_changed |-> 0]

get_total_err(s) == s.m_err_drop + s.m_err_aged + s.m_err_junk
                    + s.m_err_fif_seen_twice + s.m_err_open_with_no_fif_pkt
                    + s.m_err_oo_dup + s.m_err_oo_early + s.m_err_oo_late
                    + s.m_err_flow_length_changed

-----------------------------------------------------------------------------
(* One packet.                                                             *)

is_fif_dir(p) == p.m_pkt_id = 0

\* Mutant: the next packet expected is not the second one.
set_fif_seen_SeqZero(p) == [fif_seen |-> TRUE, m_flow_size |-> p.m_flow_size,
                            m_pkts |-> 1, m_seq |-> 0]

set_fif_seen(p) == [fif_seen |-> TRUE, m_flow_size |-> p.m_flow_size,
                    m_pkts |-> 1, m_seq |-> 1]

\* The direction of p after p.
DirAfter(lpd, p) ==
    IF ~lpd.fif_seen
    THEN set_fif_seen(p)
    ELSE [lpd EXCEPT !.m_pkts = @ + 1,
                     !.m_seq = IF is_fif_dir(p) THEN @ ELSE p.m_pkt_id + 1]

\* The errors p is counted with, as a set: each is counted once.
ErrorsOf(lf, p) ==
    LET lpd    == lf.m_dir[p.dir]
        seen   == lf.open /\ lpd.fif_seen
        fif    == is_fif_dir(p)
        wrong  == seen /\ ~fif /\ lpd.m_seq # p.m_pkt_id
        again  == lpd.m_seq - 1 = p.m_pkt_id
    IN  {e \in DOMAIN NoStats :
           \/ e = "m_err_open_with_no_fif_pkt" /\ ~lf.open /\ ~fif
           \/ e = "m_err_fif_seen_twice" /\ seen /\ fif
           \/ e = "m_err_flow_length_changed" /\ seen /\ lpd.m_flow_size # p.m_flow_size
           \/ e = "m_err_oo_dup" /\ wrong /\ again
           \/ e = "m_err_oo_late" /\ wrong /\ ~again /\ lpd.m_seq < p.m_pkt_id
           \/ e = "m_err_oo_early" /\ wrong /\ ~again /\ lpd.m_seq > p.m_pkt_id}

\* The entry of the flow of p after p, opened by p if there was none.  m_oo_err
\* and the m_pkts of a direction are uint16_t in the code: this is what they
\* are as long as a flow has fewer than 65536 errors and packets.
FlowAfter(lf, p) ==
    [open |-> TRUE,
     m_dir |-> [lf.m_dir EXCEPT ![p.dir] = DirAfter(@, p)],
     m_oo_err |-> lf.m_oo_err + Cardinality(ErrorsOf(lf, p)),
     both_dir |-> IF lf.open THEN lf.both_dir ELSE p.both_dir]

\* Mutant: a flow with errors may complete.
is_all_pkts_seen_AnyOrder(lf) ==
    /\ \A d \in Dirs : lf.m_dir[d].m_pkts = lf.m_dir[d].m_flow_size
    /\ Cardinality({d \in Dirs : lf.m_dir[d].m_flow_size > 0})
          = IF lf.both_dir THEN 2 ELSE 1

is_all_pkts_seen(lf) ==
    /\ \A d \in Dirs : lf.m_dir[d].m_pkts = lf.m_dir[d].m_flow_size
    /\ Cardinality({d \in Dirs : lf.m_dir[d].m_flow_size > 0})
          = IF lf.both_dir THEN 2 ELSE 1
    /\ lf.m_oo_err = 0

\* on_flow_end() on the counters.
EndStats(s, lf, aged_correctly, on_drain) ==
    LET exp  == lf.m_dir[0].m_flow_size + lf.m_dir[1].m_flow_size
        seen == lf.m_dir[0].m_pkts + lf.m_dir[1].m_pkts
    IN  [s EXCEPT
           !.m_remove = @ + 1,
           !.m_active = @ - 1,
           !.m_err_drop = IF ~on_drain /\ exp > seen THEN @ + (exp - seen) ELSE @,
           !.m_err_aged = IF ~on_drain /\ ~aged_correctly THEN @ + 1 ELSE @]

\* The counters after p itself, before the flow may end.
RxStats(s, lf, p) ==
    [e \in DOMAIN NoStats |->
        s[e] + IF \/ e \in ErrorsOf(lf, p)
                  \/ e = "m_total_rx"
                  \/ e \in {"m_add", "m_active"} /\ ~lf.open
               THEN 1 ELSE 0]

Aging(p) == IF p.m_aging_sec > MinAging THEN p.m_aging_sec ELSE MinAging

-----------------------------------------------------------------------------
Init ==
    /\ m_ft = [f \in Flow |-> Closed]
    /\ m_tw = EmptyWheel
    /\ m_stats = NoStats
    /\ lookups = 0
    /\ m_cur_time = 0
    /\ loop = "rx"
    /\ now = 0
    /\ copies = [p \in Packets |-> 0]
    /\ got = [f \in Flow |-> [d \in Dirs |-> << >>]]

\* handle_packet() of a packet that is taken: the table, the timer, the end of
\* the flow when this was its last packet, and every AgeEvery lookups the
\* start of an aging pass with the time of this packet.
handle_packet(p) ==
    LET f    == p.m_flow_id
        lf   == FlowAfter(m_ft[f], p)
        tw   == restart_timer(m_tw, f, now + Aging(p))
        st   == RxStats(m_stats, m_ft[f], p)
        heard == IF m_ft[f].open THEN got[f] ELSE [d \in Dirs |-> << >>]
    IN  /\ loop = "rx"
        /\ copies[p] < MaxCopies
        /\ m_stats.m_total_rx < MaxRx
        /\ m_cur_time' = now
        /\ lookups' = (lookups + 1) % AgeEvery
        /\ IF is_all_pkts_seen(lf)
           THEN /\ m_ft' = [m_ft EXCEPT ![f] = Closed]
                /\ m_tw' = stop_timer(tw, f)
                /\ m_stats' = EndStats(st, lf, TRUE, FALSE)
           ELSE /\ m_ft' = [m_ft EXCEPT ![f] = lf]
                /\ m_tw' = tw
                /\ m_stats' = st
        /\ loop' = IF lookups' = 0 THEN "aging" ELSE "rx"
        /\ copies' = [copies EXCEPT ![p] = @ + 1]
        /\ got' = [got EXCEPT ![f] = [heard EXCEPT ![p.dir] = Append(@, p.m_pkt_id)]]
        /\ UNCHANGED now

\* handle_packet() of a header with a wrong magic, or a packet number that is
\* not below the flow size: counted and dropped.
handle_junk ==
    /\ loop = "rx"
    /\ m_stats.m_total_rx < MaxRx
    /\ m_stats' = [m_stats EXCEPT !.m_total_rx = @ + 1, !.m_err_junk = @ + 1]
    /\ UNCHANGED <<m_ft, m_tw, lookups, m_cur_time, loop, now, copies, got>>

\* The clock; nothing reads it while a pass runs.
Tick ==
    /\ loop = "rx"
    /\ now < MaxTime
    /\ now' = now + 1
    /\ UNCHANGED <<m_ft, m_tw, m_stats, lookups, m_cur_time, loop, copies, got>>

\* CLatencyManager::stop(): the thread leaves its loop and calls tw_drain().
Stop ==
    /\ loop = "rx"
    /\ loop' = "drain"
    /\ UNCHANGED <<m_ft, m_tw, m_stats, lookups, m_cur_time, now, copies, got>>

-----------------------------------------------------------------------------
(* One turn of try_handle_events(m_cur_time) or of drain_all().            *)

InPass == loop \in {"aging", "drain"}

\* The top was killed: delete it.
drop_top ==
    /\ InPass
    /\ \E i \in Tops(m_tw) : ~is_valid(m_tw, i) /\ m_tw' = DropTop(m_tw, i)
    /\ UNCHANGED <<m_ft, m_stats, lookups, m_cur_time, loop, now, copies, got>>

\* The top was put off: push it again with its new time.
repush_top ==
    /\ InPass
    /\ \E i \in Tops(m_tw) :
          is_valid(m_tw, i) /\ IsPutOff(m_tw, i) /\ m_tw' = RepushTop(m_tw, i)
    /\ UNCHANGED <<m_ft, m_stats, lookups, m_cur_time, loop, now, copies, got>>

IsOver(i) == loop = "drain" \/ m_tw.m_pq[i].m_time < m_cur_time

\* handle(): the top expires and flow_aging_callback() ends its flow.
expire_top ==
    /\ InPass
    /\ \E i \in Tops(m_tw) :
          /\ is_valid(m_tw, i) /\ ~IsPutOff(m_tw, i) /\ IsOver(i)
          /\ m_tw' = ExpireTop(m_tw, i)
          /\ LET f == m_tw.m_pq[i].m_flow
             IN  /\ m_stats' = EndStats(m_stats, m_ft[f], FALSE, loop = "drain")
                 /\ m_ft' = [m_ft EXCEPT ![f] = Closed]
    /\ UNCHANGED <<lookups, m_cur_time, loop, now, copies, got>>

\* The queue is empty or its top is in time: the pass is over.
pass_done ==
    /\ InPass
    /\ \/ DOMAIN m_tw.m_pq = {}
       \/ \E i \in Tops(m_tw) : is_valid(m_tw, i) /\ ~IsPutOff(m_tw, i) /\ ~IsOver(i)
    /\ loop' = IF loop = "drain" THEN "stopped" ELSE "rx"
    /\ UNCHANGED <<m_ft, m_tw, m_stats, lookups, m_cur_time, now, copies, got>>

Pass == drop_top \/ repush_top \/ expire_top \/ pass_done

Next == \/ \E p \in Packets : handle_packet(p)
        \/ handle_junk \/ Tick \/ Stop \/ Pass

\* The thread runs a pass to its end once it has started it.
Spec == Init /\ [][Next]_vars /\ WF_vars(Pass)

-----------------------------------------------------------------------------
\* Type invariant.
Timer == [m_time : Nat, m_updated_time : Nat \cup {NotUpdated},
          m_flow : Flow \cup {NoFlow}]
DirState == [fif_seen : BOOLEAN, m_flow_size : Nat, m_pkts : Nat, m_seq : Nat]
FlowState == [open : BOOLEAN, m_dir : [Dirs -> DirState], m_oo_err : Nat,
              both_dir : BOOLEAN]

\* The types of the table, the wheel, the counters and the history.
TypeOK ==
    /\ m_ft \in [Flow -> FlowState]
    /\ \A i \in DOMAIN m_tw.m_pq : i \in Nat \ {0} /\ m_tw.m_pq[i] \in Timer
    /\ m_tw.m_timer \in [Flow -> Nat]
    /\ m_tw.m_st_alloc \in Nat /\ m_tw.m_st_free \in Nat
    /\ m_stats \in [DOMAIN NoStats -> Nat]
    /\ lookups \in 0 .. AgeEvery - 1
    /\ m_cur_time \in Nat /\ now \in Nat
    /\ loop \in {"rx", "aging", "drain", "stopped"}
    /\ copies \in [Packets -> 0 .. MaxCopies]
    /\ got \in [Flow -> [Dirs -> Seq(Nat)]]

\* rx_check.cpp:387, timer_wheel_pq.cpp:57: a flow has an entry exactly as
\* long as it has one live timer, the one its handle points to; no timer in
\* the queue, killed or put off as it may be, can fire for a flow that was
\* removed or for one that was opened anew.
OneLiveTimerPerFlow ==
    \A f \in Flow :
       {i \in DOMAIN m_tw.m_pq : m_tw.m_pq[i].m_flow = f}
          = IF m_ft[f].open THEN {m_tw.m_timer[f]} ELSE {}

\* The flows with an entry in the table.
Opened == {f \in Flow : m_ft[f].open}

\* rx_check.cpp:407: m_active is the size of the table and the difference of
\* m_add and m_remove, and the timers allocated and not freed are the queue:
\* no path through a pass, a kill or a drain leaks one or frees one twice.
NothingLeaks ==
    /\ m_stats.m_active = Cardinality(Opened)
    /\ m_stats.m_active = m_stats.m_add - m_stats.m_remove
    /\ Cardinality(DOMAIN m_tw.m_pq) = m_tw.m_st_alloc - m_tw.m_st_free

\* rx_check.cpp:199: when the drain is over no flow and no timer is left.
DrainEmptiesEverything ==
    loop = "stopped" => /\ \A f \in Flow : ~m_ft[f].open
                        /\ DOMAIN m_tw.m_pq = {}

\* The table, the wheel and the counters agree at every step of a pass, and the
\* drain leaves nothing.
TableInv == TypeOK /\ OneLiveTimerPerFlow /\ NothingLeaks /\ DrainEmptiesEverything

\* Every direction received 0, 1, 2, ... of packets of one size, none twice.
InOrder ==
    /\ \A p \in Packets : copies[p] <= 1
    /\ \A p, q \in Packets :
          /\ p.m_flow_id = q.m_flow_id /\ p.dir = q.dir
          /\ copies[p] = 1 /\ copies[q] = 1
          => p.m_flow_size = q.m_flow_size
    /\ \A f \in Flow, d \in Dirs :
          \A i \in DOMAIN got[f][d] : got[f][d][i] = i - 1

\* rx_check.cpp:287-381: no false alarm: as long as each direction of each flow
\* is delivered in order, in whatever way the directions and the flows
\* interleave, and no flow was silent for too long, nothing is counted as an
\* error but the packets that are none of a flow.
NoFalseAlarm ==
    InOrder /\ m_stats.m_err_aged = 0 => get_total_err(m_stats) = m_stats.m_err_junk

\* What a flow that ended without an error has received: in every direction
\* it has, as many packets as it sends, the second and the later ones in
\* order.  Only the first one of a direction that did not open the flow may
\* have been lost, and only if another packet came twice in its place.
WasDelivered(f) ==
    \A d \in Dirs :
       LET g     == got[f][d]
           other == got[f][1 - d]
           sizes == {p.m_flow_size : p \in {q \in Packets : q.m_flow_id = f /\ q.dir = d}}
       IN  IF sizes = {}
           THEN g = << >>
           ELSE /\ Len(g) \in sizes
                /\ \A i \in 2 .. Len(g) : g[i] = i - 1
                /\ \/ g[1] = 0
                   \/ /\ \E i \in 2 .. Len(g) : g[i] = g[1]
                      /\ other # << >> /\ other[1] = 0

\* rx_check.cpp:389: a flow that is ended by its last packet, and so counted
\* without any error, really was delivered (a flow of fewer than 65536 errors,
\* at which the 16-bit m_oo_err of the code would be 0 again).
CleanFlowWasDelivered ==
    [][\A f \in Flow : got'[f] # got[f] /\ ~m_ft'[f].open => WasDelivered(f)']_vars

\* timer_wheel_pq.cpp:137, 153: the loop that repairs the queue as it goes
\* comes to an end, in an aging pass and in the drain.
PassEnds == InPass ~> ~InPass

\* The aging of flows as AgingTimers states it, over the lazily repaired
\* queue: an open flow has the deadline of its last packet, a pass ends the
\* overdue flows, all of them and no other.
NoDeadline == -1
Never == -2
Abstract == INSTANCE AgingTimers
    WITH Ages <- {Aging(p) : p \in Packets},
         deadline <- [f \in Flow |-> IF m_tw.m_timer[f] = NoTimer
                                     THEN NoDeadline ELSE DeadlineOf(m_tw, f)],
         limit <- IF loop = "aging" THEN m_cur_time
                  ELSE IF loop = "drain" THEN -1 ELSE Never

\* timer_wheel_pq.cpp:57-95, 137-188: the wheel implements the deadlines.
AgesExactlyTheSilent == Abstract!Spec
=============================================================================
