------------------------------- MODULE DpCore -------------------------------
(***************************************************************************)
(* One data-plane core (TrexStatelessDpCore) with its ports, the stream    *)
(* nodes of their programs and the scheduler's time-ordered queue          *)
(* (CNodeGenerator).  The core runs alone in its thread: it takes messages *)
(* from the control plane while it idles and, once it transmits, only when *)
(* the FLOW_SYNC node comes to the top of the queue.                       *)
(*                                                                         *)
(* Time is the scheduler's virtual time in ticks, counted from the last    *)
(* FLOW_SYNC (m_cur_time_sec): a pop never waits in the model, since the   *)
(* order of the queue depends on m_time alone.  A node not in the queue    *)
(* has its time set to 0.  The packet, the VM and the mbufs of a stream    *)
(* are left out.                                                           *)
(***************************************************************************)
EXTENDS Integers, Sequences, FiniteSets

CONSTANTS
  Ports,       \* the ports of the core (NUM_PORTS_PER_CORE)
  Programs,    \* compiled programs: sequences of streams, next is a position
  Durations,   \* durations of a run, 0 for none
  Factors,     \* how many times slower than compiled a port may be set to send
  Width,       \* bits of the uint32_t counters
  SyncTime,    \* SYNC_TIME_OUT
  ExitTime,    \* delay of the EXIT_SCHED node of a quit
  MaxStarts    \* bound: runs of each port

NONE == 0
Modulus == 2^Width
Stream == [type : {"continuous", "burst"}, start : BOOLEAN, next : Nat,
           pkts : 0..Modulus - 1, bursts : 0..Modulus - 1,
           isg : Nat, gap : Nat, ibg : Nat]

ASSUME PortsAssumption == IsFiniteSet(Ports)
ASSUME ProgramsAssumption ==
  \A prog \in Programs :
    /\ prog \in Seq(Stream) /\ Len(prog) < Modulus
    /\ \A i \in DOMAIN prog : prog[i].next = NONE \/ prog[i].next \in DOMAIN prog
ASSUME TimeAssumption ==
  /\ Durations \subseteq Nat /\ Factors \subseteq Nat \ {0}
  /\ SyncTime \in Nat \ {0} /\ ExitTime \in Nat \ {0}
ASSUME BoundsAssumption ==
  /\ Width \in Nat \ {0} /\ Modulus \in Nat \ {0}
  /\ MaxStarts \in [Ports -> Nat]

VARIABLES
  core,        \* TrexStatelessDpCore::m_state
  phase,       \* where the thread is: idle loop, scheduler, reading messages, over,
               \* or the assertion that ended the process
  terminated,  \* set_terminate_mode
  ports,       \* TrexStatelessDpPerPort, with the program and the events it sent
  freed,       \* queued nodes of stopped runs, ss_FREE_RESUSE
  cmds,        \* queued COMMAND nodes: the duration of a run
  nonActive,   \* m_non_active_nodes
  sync,        \* time of the queued FLOW_SYNC node
  exits        \* times of the queued EXIT_SCHED nodes

vars == <<core, phase, terminated, ports, freed, cmds, nonActive, sync, exits>>

\* An assertion failed: of the handler of a message, of stop_traffic, or when
\* the queue is emptied.
Aborted == {"abort_message", "abort_stop", "abort_queue"}

NoSync == -1
Wrap(n) == n % Modulus

Node == [st : {"INACTIVE", "ACTIVE"},       \* m_state
         single : 0..Modulus - 1,           \* m_single_burst
         multi : 0..Modulus - 1,            \* m_multi_bursts
         when : Nat,                        \* m_time
         queued : Nat,                      \* how often the queue holds the node
         sent : Nat]                        \* packets since it was last activated

TypeOK ==
  /\ core \in {"IDLE", "TRANSMITTING", "TERMINATE"}
  /\ phase \in {"idle", "sched", "sync", "exit", "done"} \cup Aborted
  /\ terminated \in BOOLEAN
  /\ DOMAIN ports = Ports
  /\ \A p \in Ports :
       /\ ports[p].state \in {"IDLE", "TRANSMITTING", "PAUSE"}
       /\ ports[p].active \in 0..Modulus - 1
       /\ ports[p].event \in -1..MaxStarts[p]
       /\ ports[p].nodes \in Seq(Node)
       /\ Len(ports[p].nodes) \in {0, Len(ports[p].prog)}
       /\ Len(ports[p].ends) <= ports[p].event + 1
  /\ nonActive \in Nat
  /\ sync \in {NoSync} \cup 0..SyncTime
  /\ phase = "sched" => sync # NoSync

-----------------------------------------------------------------------------
(* The queue.                                                              *)

Queued == {q \in UNION {{p} \X DOMAIN ports[p].nodes : p \in Ports} :
             ports[q[1]].nodes[q[2]].queued > 0}

Times ==
  {ports[q[1]].nodes[q[2]].when : q \in Queued}
    \cup {f.when : f \in freed} \cup {c.when : c \in cmds}
    \cup (IF sync = NoSync THEN {} ELSE {sync}) \cup exits

\* m_p_queue.top(): nodes of equal time come out in any order.
IsTop(t) == \A u \in Times : t <= u

\* The queue holds a node as often as it was pushed.
NodesInQueue == UNION {{q} \X (1..ports[q[1]].nodes[q[2]].queued) : q \in Queued}

QueueSize ==
  Cardinality(NodesInQueue)
    + Cardinality(freed) + Cardinality(cmds) + Cardinality(exits)
    + (IF sync = NoSync THEN 0 ELSE 1)

Init ==
  /\ core = "IDLE" /\ phase = "idle" /\ terminated = FALSE
  /\ ports = [p \in Ports |->
       [state |-> "IDLE", active |-> 0, event |-> -1, prog |-> <<>>, nodes |-> <<>>,
        factor |-> 1, timed |-> FALSE, ends |-> <<>>]]
  /\ freed = {} /\ cmds = {} /\ nonActive = 0 /\ sync = NoSync /\ exits = {}

-----------------------------------------------------------------------------
(* Stopping a port: the nodes in the queue are marked and freed when they  *)
(* come to its top, the others are freed at once.                          *)

ActiveNodes(port) == {i \in DOMAIN port.nodes : port.nodes[i].st = "ACTIVE"}

\* The assertions of TrexStatelessDpPerPort::stop_traffic.
StopAsserts(port) ==
  port.active = IF port.state = "IDLE" THEN 0 ELSE Cardinality(ActiveNodes(port))

Stopped(port, cause) ==
  IF port.state = "IDLE" THEN port
  ELSE [port EXCEPT !.state = "IDLE", !.active = 0, !.nodes = <<>>,
                    !.ends = Append(@, <<port.event, cause>>)]

Marked(p, port) ==
  IF port.state = "IDLE" THEN {}
  ELSE {[port |-> p, run |-> port.event, node |-> i, when |-> port.nodes[i].when] :
          i \in {j \in ActiveNodes(port) : port.nodes[j].queued > 0}}

\* port is what the caller made of ports[p] before it called stop_traffic.
stop_port(p, port, cause) ==
  /\ IF StopAsserts(port) THEN UNCHANGED phase ELSE phase' = "abort_stop"
  /\ ports' = [ports EXCEPT ![p] = Stopped(port, cause)]
  /\ freed' = freed \cup Marked(p, port)

-----------------------------------------------------------------------------
(* Messages from the control plane.                                        *)

ReadsMessages == phase \in {"idle", "sync"}

add_stream(s) ==
  [st |-> IF s.start THEN "ACTIVE" ELSE "INACTIVE",
   single |-> IF s.type = "burst" THEN s.pkts ELSE 0,
   multi |-> IF s.type = "burst" THEN s.bursts ELSE 0,
   when |-> IF s.start THEN s.isg ELSE 0,
   queued |-> IF s.start THEN 1 ELSE 0,
   sent |-> 0]

\* The control plane does not know what the core has done meanwhile: a message may
\* find the port in a state its handler asserts it is not in.
message_assert_fails ==
  /\ ReadsMessages
  /\ phase' = "abort_message"
  /\ UNCHANGED <<core, terminated, ports, freed, cmds, nonActive, sync, exits>>

\* TrexStatelessDpStart.  What is asserted is that the port has no nodes, not that
\* it is IDLE.
start_traffic(p, prog, duration) ==
  /\ ReadsMessages
  /\ ports[p].nodes = <<>> /\ ports[p].event + 1 < MaxStarts[p]
  /\ LET id == ports[p].event + 1 IN
     /\ ports' = [ports EXCEPT ![p] =
          [state |-> "TRANSMITTING",
           active |-> Cardinality({i \in DOMAIN prog : prog[i].start}),
           event |-> id, prog |-> prog,
           nodes |-> [i \in DOMAIN prog |-> add_stream(prog[i])],
           factor |-> 1, timed |-> duration > 0, ends |-> @.ends]]
     /\ IF duration > 0
        THEN /\ cmds' = cmds \cup {[port |-> p, run |-> id, when |-> duration]}
             /\ nonActive' = nonActive + 1
        ELSE UNCHANGED <<cmds, nonActive>>
  /\ core' = "TRANSMITTING"
  /\ UNCHANGED <<phase, terminated, freed, sync, exits>>

start_traffic_fails(p) ==
  /\ ports[p].nodes # <<>> /\ ports[p].event + 1 < MaxStarts[p]
  /\ message_assert_fails

\* TrexStatelessDpStop of a client's stop: stop_on_id is false.
stop_traffic(p) ==
  /\ ReadsMessages
  /\ stop_port(p, ports[p], "stop")
  /\ UNCHANGED <<core, terminated, cmds, nonActive, sync, exits>>

SetState(p, state) ==
  /\ ports' = [ports EXCEPT ![p].state = state]
  /\ UNCHANGED <<core, phase, terminated, freed, cmds, nonActive, sync, exits>>

\* Only a port whose streams are all continuous is paused (is_all_continues).
MayPause(p) == \A i \in DOMAIN ports[p].prog : ports[p].prog[i].type = "continuous"

pause_traffic(p) ==
  /\ ReadsMessages /\ ports[p].state = "TRANSMITTING" /\ MayPause(p)
  /\ SetState(p, "PAUSE")

resume_traffic(p) ==
  /\ ReadsMessages /\ ports[p].state = "PAUSE"
  /\ SetState(p, "TRANSMITTING")

update_traffic(p, factor) ==
  /\ ReadsMessages /\ ports[p].state # "IDLE"
  /\ ports' = [ports EXCEPT ![p].factor = factor]
  /\ UNCHANGED <<core, phase, terminated, freed, cmds, nonActive, sync, exits>>

\* The assertions at the head of pause_traffic, resume_traffic and update_traffic;
\* the first two are sent only for streams that are all continuous.
control_fails(p) ==
  /\ \/ ports[p].state # "TRANSMITTING" /\ MayPause(p)
     \/ ports[p].state # "PAUSE" /\ MayPause(p)
     \/ ports[p].state = "IDLE"
  /\ message_assert_fails

\* Mutant: no EXIT_SCHED node takes the scheduler out of its loop.
quit_main_loop_NoExit ==
  /\ ReadsMessages /\ ~terminated
  /\ terminated' = TRUE /\ core' = "TERMINATE"
  /\ UNCHANGED <<phase, ports, freed, cmds, nonActive, sync, exits>>

\* TrexStatelessDpQuit; the master sends one.
quit_main_loop ==
  /\ ReadsMessages /\ ~terminated
  /\ terminated' = TRUE /\ core' = "TERMINATE"
  /\ exits' = exits \cup {ExitTime}
  /\ UNCHANGED <<phase, ports, freed, cmds, nonActive, sync>>

-----------------------------------------------------------------------------
(* The thread: idle loop, scheduler, maintenance.                          *)

\* run_once: the idle loop is left, the scheduler starts unless this is the end.
leave_idle ==
  /\ phase = "idle" /\ core # "IDLE"
  /\ IF core = "TERMINATE"
     THEN phase' = "done" /\ UNCHANGED sync
     ELSE phase' = "sched" /\ sync' = SyncTime
  /\ UNCHANGED <<core, terminated, ports, freed, cmds, nonActive, exits>>

\* What is in the queue, by a clock that has moved by d.
Earlier(x, d) == [x EXCEPT !.when = @ - d]

\* FLOW_SYNC: the clock moves on and messages are read.
pop_sync ==
  /\ phase = "sched" /\ sync # NoSync /\ IsTop(sync)
  /\ phase' = "sync" /\ sync' = NoSync
  /\ ports' = [p \in Ports |-> [ports[p] EXCEPT !.nodes =
       [i \in DOMAIN @ |-> IF @[i].queued > 0 THEN Earlier(@[i], sync) ELSE @[i]]]]
  /\ freed' = {Earlier(f, sync) : f \in freed}
  /\ cmds' = {Earlier(c, sync) : c \in cmds}
  /\ exits' = {t - sync : t \in exits}
  /\ UNCHANGED <<core, terminated, nonActive>>

\* Mutant: the last stream still in the queue is taken for a duration.
end_sync_TooEarly ==
  /\ phase = "sync"
  /\ IF QueueSize <= nonActive + 1
     THEN phase' = "exit" /\ UNCHANGED sync
     ELSE phase' = "sched" /\ sync' = SyncTime
  /\ UNCHANGED <<core, terminated, ports, freed, cmds, nonActive, exits>>

\* The scheduler ends when only durations are left in the queue.
end_sync ==
  /\ phase = "sync"
  /\ IF QueueSize = nonActive
     THEN phase' = "exit" /\ UNCHANGED sync
     ELSE phase' = "sched" /\ sync' = SyncTime
  /\ UNCHANGED <<core, terminated, ports, freed, cmds, nonActive, exits>>

pop_exit(t) ==
  /\ phase = "sched" /\ t \in exits /\ IsTop(t)
  /\ exits' = exits \ {t}
  /\ phase' = "exit"
  /\ UNCHANGED <<core, terminated, ports, freed, cmds, nonActive, sync>>

\* After flush_file: the queue is emptied, unless the core is told to terminate.
exit_scheduler ==
  /\ phase = "exit"
  /\ IF core = "TERMINATE"
     THEN UNCHANGED <<core, freed, cmds, nonActive, sync, exits>>
     ELSE /\ core' = "IDLE"
          /\ freed' = {} /\ cmds' = {} /\ sync' = NoSync /\ exits' = {}
          /\ nonActive' = nonActive - Cardinality(cmds)
  /\ phase' = IF core # "TERMINATE" /\ Queued # {} THEN "abort_queue"
              ELSE IF terminated THEN "done" ELSE "idle"
  /\ UNCHANGED <<terminated, ports>>

-----------------------------------------------------------------------------
(* The nodes.                                                              *)

\* ss_FREE_RESUSE: the node goes back to the pool.
pop_free(f) ==
  /\ phase = "sched" /\ f \in freed /\ IsTop(f.when)
  /\ freed' = freed \ {f}
  /\ UNCHANGED <<core, phase, terminated, ports, cmds, nonActive, sync, exits>>

\* Mutant: the duration of one run stops any later one (stop_on_id is false).
pop_command_AnyRun(c) ==
  /\ phase = "sched" /\ c \in cmds /\ IsTop(c.when)
  /\ stop_port(c.port, ports[c.port], "duration")
  /\ cmds' = cmds \ {c} /\ nonActive' = nonActive - 1
  /\ UNCHANGED <<core, terminated, sync, exits>>

\* The duration of a run: a stop that is for that run only.
pop_command(c) ==
  /\ phase = "sched" /\ c \in cmds /\ IsTop(c.when)
  /\ IF ports[c.port].state # "IDLE" /\ c.run # ports[c.port].event
     THEN UNCHANGED <<phase, ports, freed>>
     ELSE stop_port(c.port, ports[c.port], "duration")
  /\ cmds' = cmds \ {c} /\ nonActive' = nonActive - 1
  /\ UNCHANGED <<core, terminated, sync, exits>>

\* Mutant: the next stream is activated but not pushed.
refresh_NotQueued(n, s, t) ==
  [st |-> "ACTIVE", single |-> s.pkts, multi |-> s.bursts,
   when |-> t + s.isg, queued |-> n.queued, sent |-> 0]

\* Mutant: the number of bursts is not filled in again.
refresh_OneBurst(n, s, t) ==
  [st |-> "ACTIVE", single |-> s.pkts, multi |-> 1,
   when |-> t + s.isg, queued |-> n.queued + 1, sent |-> 0]

\* A stream that starts again, and goes to the queue.
refresh(n, s, t) ==
  [st |-> "ACTIVE", single |-> s.pkts, multi |-> s.bursts,
   when |-> t + s.isg, queued |-> n.queued + 1, sent |-> 0]

\* Mutant: the inter-packet gap is not added to the time of the node.
Gap_NotAdded(port, i) == 0

Gap(port, i) == port.prog[i].gap * port.factor

\* Mutant: a next stream that is active is started all the same.
NextStarts_Always(port, i) == port.prog[i].next # NONE

\* The next stream of i is there to be started; one that is active goes on as it is.
NextStarts(port, i) ==
  LET nx == port.prog[i].next IN nx # NONE /\ port.nodes[nx].st = "INACTIVE"

\* Node i of port is over at time t: its next stream starts, or there is one
\* active stream less, and with the last of them the port stops.
set_stateless_next_node(p, port, i, t) ==
  LET nx == port.prog[i].next
      less == [port EXCEPT !.active = Wrap(@ - 1)]
  IN
  \/ /\ NextStarts(port, i)
     /\ ports' = [ports EXCEPT ![p] = [port EXCEPT !.nodes[nx] = refresh(@, port.prog[nx], t)]]
     /\ UNCHANGED <<phase, freed>>
  \/ /\ ~NextStarts(port, i) /\ less.active > 0
     /\ ports' = [ports EXCEPT ![p] = less]
     /\ UNCHANGED <<phase, freed>>
  \/ /\ ~NextStarts(port, i) /\ less.active = 0
     /\ stop_port(p, less, "finished")

\* handle_continues: a paused port sends nothing, the node goes on.
handle_continues(p, i) ==
  /\ phase = "sched" /\ <<p, i>> \in Queued /\ IsTop(ports[p].nodes[i].when)
  /\ ports[p].prog[i].type = "continuous"
  /\ ports' = [ports EXCEPT ![p].nodes[i].when = @ + Gap(ports[p], i)]
  /\ UNCHANGED <<core, phase, terminated, freed, cmds, nonActive, sync, exits>>

\* A node that has sent a packet and stays in the queue.
pushed_back(n, single, multi, t) ==
  [st |-> n.st, single |-> single, multi |-> multi, when |-> t,
   queued |-> n.queued, sent |-> n.sent + 1]

\* handle_multi_burst: the next packet of the burst, the next burst, or the end.
handle_multi_burst(p, i) ==
  LET port == ports[p]
      n == port.nodes[i]
      s == port.prog[i]
      single == Wrap(n.single - 1)
      multi == Wrap(n.multi - 1)
      over == [st |-> "INACTIVE", single |-> 0, multi |-> 0, when |-> 0,
               queued |-> n.queued - 1, sent |-> n.sent + 1]
  IN
  /\ phase = "sched" /\ <<p, i>> \in Queued /\ IsTop(n.when) /\ s.type = "burst"
  /\ \/ /\ single > 0
        /\ ports' = [ports EXCEPT ![p].nodes[i] =
             pushed_back(n, single, n.multi, n.when + Gap(port, i))]
        /\ UNCHANGED <<phase, freed>>
     \/ /\ single = 0 /\ multi > 0
        /\ ports' = [ports EXCEPT ![p].nodes[i] =
             pushed_back(n, s.pkts, multi, n.when + s.ibg)]
        /\ UNCHANGED <<phase, freed>>
     \/ /\ single = 0 /\ multi = 0
        /\ set_stateless_next_node(p, [port EXCEPT !.nodes[i] = over], i, n.when)
  /\ UNCHANGED <<core, terminated, cmds, nonActive, sync, exits>>

over_or_aborted ==
  /\ phase \in {"done"} \cup Aborted
  /\ UNCHANGED vars

-----------------------------------------------------------------------------
ControlPlane ==
  \/ \E p \in Ports :
       \/ \E prog \in Programs, d \in Durations : start_traffic(p, prog, d)
       \/ start_traffic_fails(p)
       \/ stop_traffic(p)
       \/ pause_traffic(p)
       \/ resume_traffic(p)
       \/ \E f \in Factors : update_traffic(p, f)
       \/ control_fails(p)
  \/ quit_main_loop

Scheduler ==
  \/ leave_idle
  \/ pop_sync
  \/ end_sync
  \/ \E t \in exits : pop_exit(t)
  \/ exit_scheduler
  \/ \E f \in freed : pop_free(f)
  \/ \E c \in cmds : pop_command(c)
  \/ \E q \in Queued : handle_continues(q[1], q[2]) \/ handle_multi_burst(q[1], q[2])

Next == ControlPlane \/ Scheduler \/ over_or_aborted

Spec == Init /\ [][Next]_vars

\* The thread of the core is polling all the time.
FairSpec == Spec /\ WF_vars(Scheduler)

-----------------------------------------------------------------------------
(* What could go wrong.                                                    *)

StartsNothing(prog) == \A i \in DOMAIN prog : ~prog[i].start

\* m_active_streams, which decides when a port is finished, is the number of
\* ACTIVE nodes at all times, and an IDLE port has no nodes (the assertions of
\* stop_traffic and start_traffic).
ActiveCountIsExact ==
  \A p \in Ports :
    /\ ports[p].active = Cardinality(ActiveNodes(ports[p]))
    /\ ports[p].state = "IDLE" => ports[p].nodes = <<>>

\* An ACTIVE node is in the queue once and an INACTIVE one is not: no stream is
\* scheduled twice by two streams that lead to it, none is lost, and the node that
\* stop_traffic frees at once is not in the queue (handle_multi_burst,
\* set_stateless_next_node).
ActiveIsScheduledOnce ==
  \A p \in Ports : \A i \in DOMAIN ports[p].nodes :
    LET n == ports[p].nodes[i] IN n.queued = IF n.st = "ACTIVE" THEN 1 ELSE 0

\* m_non_active_nodes is the number of queued duration commands, whether they ran,
\* are of a run stopped long ago, or were dropped with the queue: else the scheduler
\* would stop under a running stream or never stop (handle_slow_messages).
DurationsAreCounted == nonActive = Cardinality(cmds)

\* A core goes back to the idle loop with an empty queue, and with every port IDLE
\* but the ones whose program starts no stream: nothing runs that the idle loop would
\* never serve (start_scheduler: "we exit from all ports and we have nothing to do").
IdleCoreIsEmpty ==
  phase = "idle" /\ core = "IDLE" =>
    /\ \A p \in Ports : ports[p].state = "IDLE" \/ StartsNothing(ports[p].prog)
    /\ Times = {}

\* The queue is what the ports and counters say it is, so that the scheduler ends
\* when it should and never under a running stream.
QueueInv == TypeOK /\ ActiveIsScheduledOnce /\ DurationsAreCounted /\ IdleCoreIsEmpty

\* How many times a counter goes round that is decremented before it is tested.
Rounds(n) == IF n = 0 THEN Modulus ELSE n

\* A burst stream sends all of its bursts each time it is activated, and a count of 0
\* packets or bursts stands for 2^32 of them: what it sent and what its counters leave
\* to send add up (handle_multi_burst, refresh).
BurstSendsItsPackets ==
  \A p \in Ports : \A i \in DOMAIN ports[p].nodes :
    LET n == ports[p].nodes[i]
        s == ports[p].prog[i]
        total == Rounds(s.pkts) * Rounds(s.bursts)
    IN s.type = "burst" =>
         IF n.st = "ACTIVE"
         THEN n.sent + (Rounds(n.multi) - 1) * Rounds(s.pkts) + Rounds(n.single) = total
         ELSE n.sent \in {0, total}

\* The assertions about the core's own work hold: stop_traffic finds as many ACTIVE
\* nodes as it counted, whoever calls it, and the queue is emptied with no stream in
\* it ("sanity check" of CNodeGenerator::remove_all), except when a start came after
\* the quit and took the core out of TERMINATE.
AssertionsHold ==
  /\ phase # "abort_stop"
  /\ phase = "abort_queue" => terminated /\ core # "TERMINATE"

\* A stream without gaps that sends its bursts in no time.
TakesNoTime(s) ==
  s.type = "burst" /\ s.isg = 0 /\ (s.pkts = 1 \/ s.gap = 0) /\ (s.bursts = 1 \/ s.ibg = 0)

\* Streams that lead to each other and take no time: the clock stands still.
StandsStill(prog) ==
  \E C \in SUBSET DOMAIN prog :
    C # {} /\ \A i \in C : prog[i].next \in C /\ TakesNoTime(prog[i])

Stalled == \E p \in Ports : ports[p].state # "IDLE" /\ StandsStill(ports[p].prog)

\* The core reads its messages again and again while it transmits, so that a stop
\* or a quit is noticed (FLOW_SYNC in handle_slow_messages), unless a program that
\* takes no time keeps the clock where it is.
MessagesAreRead == phase = "sched" ~> (phase # "sched" \/ Stalled)

\* A quit ends the thread (quit_main_loop, start), even if a client starts a port
\* after it, unless an assertion fails or the clock is kept where it is.
QuitEndsTheThread == terminated ~> (phase \in {"done"} \cup Aborted \/ Stalled)

-----------------------------------------------------------------------------
(* Programs that come to an end.                                           *)

Reached(prog) ==
  {i \in DOMAIN prog :
     \A S \in SUBSET DOMAIN prog :
       (\A j \in DOMAIN prog : /\ prog[j].start => j \in S
                               /\ j \in S /\ prog[j].next # NONE => prog[j].next \in S)
         => i \in S}

\* A program ends by itself if its streams are bursts and none leads back to itself.
Finite(prog) ==
  /\ \A i \in Reached(prog) : prog[i].type = "burst"
  /\ \A C \in SUBSET Reached(prog) : C # {} => \E i \in C : prog[i].next \notin C
=============================================================================
