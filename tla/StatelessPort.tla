--------------------------- MODULE StatelessPort ---------------------------
(***************************************************************************)
(* One stateless port of the traffic generator: the control-plane object   *)
(* TrexStatelessPort with its DP event (TrexDpPortEvents), the two threads *)
(* of the control plane that touch it, the message rings, and the part of  *)
(* every data-plane core that belongs to the port.                         *)
(*                                                                         *)
(* Threads.  RPC commands run in the RPC server's thread, one at a time    *)
(* (m_global_cp_lock).  Events of the data plane are handled by the master *)
(* thread, which does not take that lock, so its steps fall between the    *)
(* steps of a command.                                                     *)
(*                                                                         *)
(* Steps.  A command is cut where the master thread can notice: between    *)
(* the state check and the effect and, for start, at every read and write  *)
(* of the event that is armed.  The event handler is cut likewise: check,  *)
(* mark, read and store of the count, test, change of state, clear.        *)
(* overtaken is a history variable: it remembers whether a command ever    *)
(* wrote the event id between the handler's check and its last write.      *)
(***************************************************************************)
EXTENDS Integers, Sequences, FiniteSets

CONSTANTS
  Cores,        \* the DP cores that serve the port
  NoCore,       \* the master thread handles no event
  Streams,      \* streams a client may add
  Kind,         \* what each of them is
  RingSize,     \* capacity of a message ring (1024 slots in the code)
  Optimized,    \* release build: counts are kept in a register while in use
  MaxRuns,      \* bound: runs started
  MaxInFlight   \* bound: messages in a ring when a client sends a command

Kinds == {"continuous", "burst", "dangling", "disabled"}

ASSUME CoresAssumption   == IsFiniteSet(Cores) /\ Cores # {} /\ NoCore \notin Cores
ASSUME KindAssumption    == Kind \in [Streams -> Kinds]
ASSUME BoundsAssumption  == /\ RingSize \in Nat \ {0}
                            /\ MaxRuns \in Nat
                            /\ MaxInFlight \in Nat
ASSUME BuildAssumption   == Optimized \in BOOLEAN

EVENT_ID_INVALID == -1
NoGraph == {"no graph"}

VARIABLES
  \* TrexStatelessPort
  port_state, streams, graph, last_continues, last_duration, last_prog,
  \* TrexDpPortEvents and its EVENT_STOP
  counter, event_id, signal, pending,
  \* history: the event id was written under the handler
  overtaken,
  \* the RPC thread: what it is in the middle of; while it arms the event, the
  \* signals it has not counted yet and the count in its register
  rpc, uncounted, held,
  \* the master thread: the same, the core whose event it handles, its register
  master, sender, seen,
  \* message rings, and whether a full ring ever swallowed a message
  toDp, toCp, dropped,
  \* TrexStatelessDpPerPort and the scheduler of each core
  dpState, dpEvent, dpProg, dpDur, timers, queued, coreState,
  \* the assertion or uncaught exception that ended the process
  aborted

portVars  == <<port_state, streams, graph, last_continues, last_duration, last_prog>>
eventVars == <<counter, event_id, signal, pending, overtaken>>
armVars   == <<uncounted, held>>
rpcVars   == <<rpc, armVars>>
masterVars == <<master, sender, seen>>
ringVars  == <<toDp, toCp, dropped>>
dpVars    == <<dpState, dpEvent, dpProg, dpDur, timers, queued, coreState>>
vars == <<portVars, eventVars, rpcVars, masterVars, ringVars, dpVars, aborted>>

-----------------------------------------------------------------------------
(* What the compiler makes of a stream table.                              *)

Enabled(table) == {s \in table : Kind[s] # "disabled"}

\* A dangling stream names a next stream that is not there.
Compiles(table) == \A s \in table : Kind[s] # "dangling"

\* The program each core gets: no node, nodes that all end, or some that never do.
Program(table) ==
  CASE Enabled(table) = {} -> "empty"
    [] Enabled(table) # {} /\ (\A s \in Enabled(table) : Kind[s] = "burst") -> "finite"
    [] OTHER -> "endless"

\* Disabled streams count as well; here they are continuous ones.
AllContinues(table) == \A s \in table : Kind[s] \in {"continuous", "disabled"}

Progs    == {"empty", "finite", "endless"}
StartMsg == [type : {"start"}, id : Nat, prog : Progs, dur : BOOLEAN]
CtlMsg   == [type : {"stop", "pause", "resume", "update"}]

-----------------------------------------------------------------------------
(* Rings: every caller ignores the result of Enqueue.                      *)

IsFull(q) == Len(q) >= RingSize
Enqueue(q, m) == IF IsFull(q) THEN q ELSE Append(q, m)

send_message_to_all_dp(m) ==
  /\ toDp' = [c \in Cores |-> Enqueue(toDp[c], m)]
  /\ dropped' = (dropped \/ \E c \in Cores : IsFull(toDp[c]))
  /\ UNCHANGED toCp

-----------------------------------------------------------------------------
TypeOK ==
  /\ port_state \in {"IDLE", "STREAMS", "TX", "PAUSE"}
  /\ streams \subseteq Streams
  /\ graph = NoGraph \/ graph \subseteq Streams
  /\ last_continues \in BOOLEAN /\ last_duration \in BOOLEAN /\ last_prog \in Progs
  /\ counter \in Nat \cup {EVENT_ID_INVALID}
  /\ event_id \in Nat \cup {EVENT_ID_INVALID}
  /\ signal \in [Cores -> BOOLEAN]
  /\ pending \in Int /\ held \in Int /\ seen \in Int
  /\ overtaken \in BOOLEAN
  /\ uncounted \subseteq Cores
  /\ rpc \in {"idle", "add", "remove", "remove_all", "start", "reset", "signal",
              "count", "store", "start_tx", "stop", "pause", "resume", "update"}
  /\ master \in {"idle", "mark", "read", "store", "test", "occured", "clear"}
  /\ sender \in Cores \cup {NoCore}
  /\ toDp \in [Cores -> Seq(StartMsg \cup CtlMsg)]
  /\ toCp \in [Cores -> Seq(Nat)]
  /\ dropped \in BOOLEAN
  /\ dpState \in [Cores -> {"IDLE", "TRANSMITTING", "PAUSE"}]
  /\ dpEvent \in [Cores -> Nat \cup {EVENT_ID_INVALID}]
  /\ dpProg \in [Cores -> Progs]
  /\ dpDur \in [Cores -> BOOLEAN]
  /\ timers \in [Cores -> SUBSET Nat]
  /\ queued \in [Cores -> BOOLEAN]
  /\ coreState \in [Cores -> {"IDLE", "TRANSMITTING"}]
  /\ aborted \in {"no", "start", "pause", "resume", "update", "exception"}

Init ==
  /\ port_state = "IDLE" /\ streams = {} /\ graph = NoGraph
  /\ last_continues = FALSE /\ last_duration = FALSE /\ last_prog = "empty"
  /\ counter = EVENT_ID_INVALID /\ event_id = EVENT_ID_INVALID
  /\ signal = [c \in Cores |-> FALSE] /\ pending = 0
  /\ overtaken = FALSE
  /\ rpc = "idle" /\ uncounted = {} /\ held = 0
  /\ master = "idle" /\ sender = NoCore /\ seen = 0
  /\ toDp = [c \in Cores |-> <<>>] /\ toCp = [c \in Cores |-> <<>>]
  /\ dropped = FALSE
  /\ dpState = [c \in Cores |-> "IDLE"]
  /\ dpEvent = [c \in Cores |-> EVENT_ID_INVALID]
  /\ dpProg = [c \in Cores |-> "empty"]
  /\ dpDur = [c \in Cores |-> FALSE]
  /\ timers = [c \in Cores |-> {}]
  /\ queued = [c \in Cores |-> FALSE]
  /\ coreState = [c \in Cores |-> "IDLE"]
  /\ aborted = "no"

-----------------------------------------------------------------------------
(* RPC thread: every command first checks the port state.                  *)

\* Mutant: start is accepted on a port without streams.
AllowedStates_StartWhenIdle(cmd) ==
  CASE cmd \in {"add", "remove_all", "start"} -> {"IDLE", "STREAMS"}
    [] cmd = "remove"                -> {"STREAMS"}
    [] cmd \in {"stop", "update"}    -> {"TX", "PAUSE"}
    [] cmd = "pause"                 -> {"TX"}
    [] cmd = "resume"                -> {"PAUSE"}

AllowedStates(cmd) ==
  CASE cmd \in {"add", "remove_all"} -> {"IDLE", "STREAMS"}
    [] cmd \in {"remove", "start"}   -> {"STREAMS"}
    [] cmd \in {"stop", "update"}    -> {"TX", "PAUSE"}
    [] cmd = "pause"                 -> {"TX"}
    [] cmd = "resume"                -> {"PAUSE"}

verify_state(cmd) ==
  /\ rpc = "idle"
  /\ port_state \in AllowedStates(cmd)

InFlightBound == \A c \in Cores : Len(toDp[c]) < MaxInFlight

\* Mutant: pause does not ask whether the run can end by itself.
RpcVerify_PauseAny(cmd) ==
  /\ verify_state(cmd)
  /\ cmd = "add" => streams # Streams
  /\ cmd = "remove" => streams # {}
  /\ cmd \in {"stop", "pause", "resume", "update"} => InFlightBound
  /\ rpc' = cmd
  /\ UNCHANGED <<portVars, eventVars, armVars, masterVars, ringVars, dpVars, aborted>>

\* The first half of every command but start.  Adding a known stream or
\* removing an unknown one is refused before the state is looked at.
RpcVerify(cmd) ==
  /\ verify_state(cmd)
  /\ cmd = "add" => streams # Streams
  /\ cmd = "remove" => streams # {}
  /\ cmd = "pause" => last_continues /\ ~last_duration
  /\ cmd \in {"stop", "pause", "resume", "update"} => InFlightBound
  /\ rpc' = cmd
  /\ UNCHANGED <<portVars, eventVars, armVars, masterVars, ringVars, dpVars, aborted>>

\* Mutant: the cached graph survives a new stream.
add_stream_KeepGraph ==
  /\ rpc = "add"
  /\ \E s \in Streams \ streams : streams' = streams \cup {s}
  /\ port_state' = "STREAMS"
  /\ rpc' = "idle"
  /\ UNCHANGED <<graph, last_continues, last_duration, last_prog, eventVars, armVars,
                 masterVars, ringVars, dpVars, aborted>>

add_stream ==
  /\ rpc = "add"
  /\ \E s \in Streams \ streams : streams' = streams \cup {s}
  /\ graph' = NoGraph
  /\ port_state' = "STREAMS"
  /\ rpc' = "idle"
  /\ UNCHANGED <<last_continues, last_duration, last_prog, eventVars, armVars,
                 masterVars, ringVars, dpVars, aborted>>

remove_stream ==
  /\ rpc = "remove"
  /\ \E s \in streams : streams' = streams \ {s}
  /\ graph' = NoGraph
  /\ port_state' = IF streams' = {} THEN "IDLE" ELSE port_state
  /\ rpc' = "idle"
  /\ UNCHANGED <<last_continues, last_duration, last_prog, eventVars, armVars,
                 masterVars, ringVars, dpVars, aborted>>

remove_and_delete_all_streams ==
  /\ rpc = "remove_all"
  /\ streams' = {}
  /\ graph' = NoGraph
  /\ port_state' = "IDLE"
  /\ rpc' = "idle"
  /\ UNCHANGED <<last_continues, last_duration, last_prog, eventVars, armVars,
                 masterVars, ringVars, dpVars, aborted>>

-----------------------------------------------------------------------------
(* RPC thread: the commands that talk to the data plane.                   *)

\* Check, factor and compile.  A multiplier that is a rate needs the graph,
\* and generating the graph of a program that does not compile throws an
\* exception no caller catches; with a raw factor the compiler reports it.
start_traffic ==
  /\ verify_state("start")
  /\ counter + 1 < MaxRuns
  /\ InFlightBound
  /\ \E isRate \in BOOLEAN :
       /\ graph' = IF isRate /\ Compiles(streams) THEN streams ELSE NoGraph
       /\ aborted' = IF isRate /\ ~Compiles(streams) THEN "exception" ELSE aborted
  /\ rpc' = IF Compiles(streams) THEN "start" ELSE "idle"
  /\ UNCHANGED <<port_state, streams, last_continues, last_duration, last_prog,
                 eventVars, armVars, masterVars, ringVars, dpVars>>

\* generate_event_id; then wait_for_event, which sets the id first.
wait_for_event ==
  /\ rpc = "start"
  /\ counter' = counter + 1
  /\ event_id' = counter + 1
  /\ overtaken' = (overtaken \/ master # "idle")
  /\ rpc' = "reset"
  /\ UNCHANGED <<portVars, signal, pending, armVars, masterVars, ringVars, dpVars, aborted>>

\* Mutant: the count is left from the last run.
wait_for_event_reset_Not ==
  /\ rpc = "reset"
  /\ held' = 0
  /\ uncounted' = Cores
  /\ rpc' = "signal"
  /\ UNCHANGED <<portVars, eventVars, masterVars, ringVars, dpVars, aborted>>

wait_for_event_reset ==
  /\ rpc = "reset"
  /\ pending' = 0
  /\ held' = 0
  /\ uncounted' = Cores
  /\ rpc' = "signal"
  /\ UNCHANGED <<portVars, counter, event_id, signal, overtaken, masterVars, ringVars,
                 dpVars, aborted>>

\* The loop over the signals, in the order of the hash table.
wait_for_event_signal ==
  /\ rpc = "signal"
  /\ \E c \in uncounted :
       /\ signal' = [signal EXCEPT ![c] = FALSE]
       /\ uncounted' = uncounted \ {c}
  /\ rpc' = "count"
  /\ UNCHANGED <<portVars, counter, event_id, pending, overtaken, held, masterVars,
                 ringVars, dpVars, aborted>>

\* m_pending_cnt++ is a read and a write; the release build counts in a
\* register and writes it once, after the loop.
wait_for_event_count ==
  /\ rpc = "count"
  /\ held' = (IF Optimized THEN held ELSE pending) + 1
  /\ rpc' = "store"
  /\ UNCHANGED <<portVars, eventVars, uncounted, masterVars, ringVars, dpVars, aborted>>

wait_for_event_store ==
  /\ rpc = "store"
  /\ pending' = IF Optimized /\ uncounted # {} THEN pending ELSE held
  /\ rpc' = IF uncounted = {} THEN "start_tx" ELSE "signal"
  /\ UNCHANGED <<portVars, counter, event_id, signal, overtaken, armVars, masterVars,
                 ringVars, dpVars, aborted>>

start_traffic_send ==
  /\ rpc = "start_tx"
  /\ \E dur \in BOOLEAN :
       /\ last_duration' = dur
       /\ send_message_to_all_dp([type |-> "start", id |-> counter,
                                  prog |-> Program(streams), dur |-> dur])
  /\ last_continues' = AllContinues(streams)
  /\ last_prog' = Program(streams)
  /\ port_state' = "TX"
  /\ rpc' = "idle"
  /\ UNCHANGED <<streams, graph, eventVars, armVars, masterVars, dpVars, aborted>>

stop_traffic ==
  /\ rpc = "stop"
  /\ graph' = NoGraph
  /\ event_id' = EVENT_ID_INVALID
  /\ overtaken' = (overtaken \/ master # "idle")
  /\ send_message_to_all_dp([type |-> "stop"])
  /\ port_state' = "STREAMS"
  /\ rpc' = "idle"
  /\ UNCHANGED <<streams, last_continues, last_duration, last_prog, counter,
                 signal, pending, armVars, masterVars, dpVars, aborted>>

pause_traffic ==
  /\ rpc = "pause"
  /\ send_message_to_all_dp([type |-> "pause"])
  /\ port_state' = "PAUSE"
  /\ rpc' = "idle"
  /\ UNCHANGED <<streams, graph, last_continues, last_duration, last_prog,
                 eventVars, armVars, masterVars, dpVars, aborted>>

resume_traffic ==
  /\ rpc = "resume"
  /\ send_message_to_all_dp([type |-> "resume"])
  /\ port_state' = "TX"
  /\ rpc' = "idle"
  /\ UNCHANGED <<streams, graph, last_continues, last_duration, last_prog,
                 eventVars, armVars, masterVars, dpVars, aborted>>

CachedGraph == IF graph = NoGraph THEN streams ELSE graph

update_traffic ==
  /\ rpc = "update"
  /\ graph' \in {graph, CachedGraph}
  /\ send_message_to_all_dp([type |-> "update"])
  /\ rpc' = "idle"
  /\ UNCHANGED <<port_state, streams, last_continues, last_duration, last_prog,
                 eventVars, armVars, masterVars, dpVars, aborted>>

\* A request to lower the rate to zero or below is refused, after the graph
\* was made.
update_traffic_refuse ==
  /\ rpc = "update"
  /\ graph' \in {graph, CachedGraph}
  /\ rpc' = "idle"
  /\ UNCHANGED <<port_state, streams, last_continues, last_duration, last_prog,
                 eventVars, armVars, masterVars, ringVars, dpVars, aborted>>

\* Needs no ownership and no state; touches the cached graph only.
validate ==
  /\ rpc = "idle"
  /\ streams # {} /\ Compiles(streams)
  /\ graph' = CachedGraph
  /\ UNCHANGED <<port_state, streams, last_continues, last_duration, last_prog,
                 eventVars, rpcVars, masterVars, ringVars, dpVars, aborted>>

-----------------------------------------------------------------------------
(* Master thread: TrexDpPortEvent::handle_event.                           *)

\* Mutant: the event of any run will do.
EventMatches_AnyRun(id) == event_id # EVENT_ID_INVALID

EventMatches(id) == event_id # EVENT_ID_INVALID /\ id = event_id

\* Dequeue one event and check it against the one waited for.
handle_event(c) ==
  /\ master = "idle"
  /\ toCp[c] # <<>>
  /\ toCp' = [toCp EXCEPT ![c] = Tail(@)]
  /\ IF EventMatches(Head(toCp[c]))
       THEN master' = "mark" /\ sender' = c
       ELSE UNCHANGED <<master, sender>>
  /\ UNCHANGED <<portVars, eventVars, rpcVars, seen, toDp, dropped, dpVars, aborted>>

\* Mark the core; a second signal is only noted, and the count is tested
\* in both cases.
handle_event_mark ==
  /\ master = "mark"
  /\ IF signal[sender]
       THEN master' = "test" /\ UNCHANGED signal
       ELSE master' = "read" /\ signal' = [signal EXCEPT ![sender] = TRUE]
  /\ sender' = NoCore
  /\ UNCHANGED <<portVars, counter, event_id, pending, overtaken, rpcVars, seen,
                 ringVars, dpVars, aborted>>

\* m_pending_cnt-- is a read and a write.
handle_event_read ==
  /\ master = "read"
  /\ seen' = pending
  /\ master' = "store"
  /\ UNCHANGED <<portVars, eventVars, rpcVars, sender, ringVars, dpVars, aborted>>

\* Mutants: done one core too early, and the value before the count went down.
AllHeard_Early(n) == n <= 1

AllHeard_Late(n) == n < 0

\* m_pending_cnt == 0: every core was heard of.
AllHeard(n) == n = 0

\* The release build tests the value it has just written, the debug build
\* reads it again.
handle_event_store ==
  /\ master = "store"
  /\ pending' = seen - 1
  /\ seen' = 0
  /\ master' = CASE ~Optimized -> "test"
                 [] Optimized /\ AllHeard(seen - 1) -> "occured"
                 [] OTHER -> "idle"
  /\ UNCHANGED <<portVars, counter, event_id, signal, overtaken, rpcVars, sender,
                 ringVars, dpVars, aborted>>

handle_event_test ==
  /\ master = "test"
  /\ master' = IF AllHeard(pending) THEN "occured" ELSE "idle"
  /\ UNCHANGED <<portVars, eventVars, rpcVars, sender, seen, ringVars, dpVars, aborted>>

on_dp_event_occured ==
  /\ master = "occured"
  /\ port_state' = "STREAMS"
  /\ master' = "clear"
  /\ UNCHANGED <<streams, graph, last_continues, last_duration, last_prog,
                 eventVars, rpcVars, sender, seen, ringVars, dpVars, aborted>>

handle_event_clear ==
  /\ master = "clear"
  /\ event_id' = EVENT_ID_INVALID
  /\ master' = "idle"
  /\ UNCHANGED <<portVars, counter, signal, pending, overtaken, rpcVars, sender, seen,
                 ringVars, dpVars, aborted>>

-----------------------------------------------------------------------------
(* Data-plane cores.                                                       *)

HasActiveNodes(c) == dpState[c] # "IDLE" /\ dpProg[c] # "empty"

\* The asserts at the head of the message handlers.
AssertHolds(c, type) ==
  /\ type = "start"  => ~HasActiveNodes(c)
  /\ type = "pause"  => dpState[c] = "TRANSMITTING"
  /\ type = "resume" => dpState[c] = "PAUSE"
  /\ type = "update" => dpState[c] # "IDLE"

Dequeue(c, type) ==
  /\ toDp[c] # <<>> /\ Head(toDp[c]).type = type
  /\ AssertHolds(c, type)
  /\ toDp' = [toDp EXCEPT ![c] = Tail(@)]

\* A failed assert ends the process.
DpAbort(c) ==
  /\ toDp[c] # <<>> /\ ~AssertHolds(c, Head(toDp[c]).type)
  /\ aborted' = Head(toDp[c]).type
  /\ UNCHANGED <<portVars, eventVars, rpcVars, masterVars, ringVars, dpVars>>

\* The run's event id, its nodes and its duration timer.
dp_start_traffic(c) ==
  /\ Dequeue(c, "start")
  /\ LET m == Head(toDp[c]) IN
       /\ dpEvent' = [dpEvent EXCEPT ![c] = m.id]
       /\ dpProg' = [dpProg EXCEPT ![c] = m.prog]
       /\ dpDur' = [dpDur EXCEPT ![c] = m.dur]
       /\ queued' = [queued EXCEPT ![c] = @ \/ m.prog # "empty"]
       /\ timers' = [timers EXCEPT ![c] = IF m.dur THEN @ \cup {m.id} ELSE @]
  /\ dpState' = [dpState EXCEPT ![c] = "TRANSMITTING"]
  /\ coreState' = [coreState EXCEPT ![c] = "TRANSMITTING"]
  /\ UNCHANGED <<portVars, eventVars, rpcVars, masterVars, toCp, dropped, aborted>>

\* Mutants: a stop is reported again by an idle port, and a duration stops any run.
dp_stop_traffic_Twice(c, stop_on_id, id) ==
  IF dpEvent[c] = EVENT_ID_INVALID \/ (stop_on_id /\ id # dpEvent[c])
    THEN UNCHANGED <<dpState, toCp, dropped>>
    ELSE /\ dpState' = [dpState EXCEPT ![c] = "IDLE"]
         /\ toCp' = [toCp EXCEPT ![c] = Enqueue(@, dpEvent[c])]
         /\ dropped' = (dropped \/ IsFull(toCp[c]))

dp_stop_traffic_AnyRun(c, stop_on_id, id) ==
  IF dpState[c] = "IDLE"
    THEN UNCHANGED <<dpState, toCp, dropped>>
    ELSE /\ dpState' = [dpState EXCEPT ![c] = "IDLE"]
         /\ toCp' = [toCp EXCEPT ![c] = Enqueue(@, dpEvent[c])]
         /\ dropped' = (dropped \/ IsFull(toCp[c]))

\* Stop the port, or nothing when it is idle or the stop is for another run;
\* a stop that took place is reported with the run's event id.
dp_stop_traffic(c, stop_on_id, id) ==
  IF dpState[c] = "IDLE" \/ (stop_on_id /\ id # dpEvent[c])
    THEN UNCHANGED <<dpState, toCp, dropped>>
    ELSE /\ dpState' = [dpState EXCEPT ![c] = "IDLE"]
         /\ toCp' = [toCp EXCEPT ![c] = Enqueue(@, dpEvent[c])]
         /\ dropped' = (dropped \/ IsFull(toCp[c]))

DpStop(c) ==
  /\ Dequeue(c, "stop")
  /\ dp_stop_traffic(c, FALSE, 0)
  /\ UNCHANGED <<portVars, eventVars, rpcVars, masterVars, dpEvent, dpProg, dpDur,
                 timers, queued, coreState, aborted>>

\* The duration of a run is over: the scheduler pops its COMMAND node.
DpTimer(c) ==
  /\ coreState[c] = "TRANSMITTING"
  /\ \E id \in timers[c] :
       /\ timers' = [timers EXCEPT ![c] = @ \ {id}]
       /\ dp_stop_traffic(c, TRUE, id)
  /\ UNCHANGED <<portVars, eventVars, rpcVars, masterVars, toDp, dpEvent, dpProg,
                 dpDur, queued, coreState, aborted>>

\* The last active stream ended.
DpFinish(c) ==
  /\ dpState[c] = "TRANSMITTING" /\ dpProg[c] = "finite"
  /\ dp_stop_traffic(c, FALSE, 0)
  /\ UNCHANGED <<portVars, eventVars, rpcVars, masterVars, toDp, dpEvent, dpProg,
                 dpDur, timers, queued, coreState, aborted>>

dp_pause_traffic(c) ==
  /\ Dequeue(c, "pause")
  /\ dpState' = [dpState EXCEPT ![c] = "PAUSE"]
  /\ UNCHANGED <<portVars, eventVars, rpcVars, masterVars, toCp, dropped, dpEvent,
                 dpProg, dpDur, timers, queued, coreState, aborted>>

dp_resume_traffic(c) ==
  /\ Dequeue(c, "resume")
  /\ dpState' = [dpState EXCEPT ![c] = "TRANSMITTING"]
  /\ UNCHANGED <<portVars, eventVars, rpcVars, masterVars, toCp, dropped, dpEvent,
                 dpProg, dpDur, timers, queued, coreState, aborted>>

dp_update_traffic(c) ==
  /\ Dequeue(c, "update")
  /\ UNCHANGED <<portVars, eventVars, rpcVars, masterVars, toCp, dropped, dpVars,
                 aborted>>

\* A node marked for free leaves the queue when its time comes.
DpReap(c) ==
  /\ queued[c] /\ ~HasActiveNodes(c)
  /\ queued' = [queued EXCEPT ![c] = FALSE]
  /\ UNCHANGED <<portVars, eventVars, rpcVars, masterVars, ringVars, dpState,
                 dpEvent, dpProg, dpDur, timers, coreState, aborted>>

\* Only timers are left in the queue: the scheduler exits and frees them.
DpSchedulerExit(c) ==
  /\ coreState[c] = "TRANSMITTING" /\ ~queued[c]
  /\ timers' = [timers EXCEPT ![c] = {}]
  /\ coreState' = [coreState EXCEPT ![c] = "IDLE"]
  /\ UNCHANGED <<portVars, eventVars, rpcVars, masterVars, ringVars, dpState,
                 dpEvent, dpProg, dpDur, queued, aborted>>

-----------------------------------------------------------------------------
Commands == {"add", "remove", "remove_all", "stop", "pause", "resume", "update"}

RpcFinish ==
  \/ add_stream \/ remove_stream \/ remove_and_delete_all_streams
  \/ wait_for_event \/ wait_for_event_reset \/ wait_for_event_signal
  \/ wait_for_event_count \/ wait_for_event_store \/ start_traffic_send
  \/ stop_traffic \/ pause_traffic \/ resume_traffic
  \/ update_traffic \/ update_traffic_refuse

Rpc == (\E cmd \in Commands : RpcVerify(cmd)) \/ start_traffic \/ validate \/ RpcFinish

MasterFinish ==
  \/ handle_event_mark \/ handle_event_read \/ handle_event_store
  \/ handle_event_test \/ on_dp_event_occured \/ handle_event_clear

Master == (\E c \in Cores : handle_event(c)) \/ MasterFinish

DpHandle(c) ==
  \/ dp_start_traffic(c) \/ DpStop(c) \/ dp_pause_traffic(c)
  \/ dp_resume_traffic(c) \/ dp_update_traffic(c) \/ DpAbort(c)

Dp(c) == DpHandle(c) \/ DpTimer(c) \/ DpFinish(c) \/ DpReap(c) \/ DpSchedulerExit(c)

Running == aborted = "no"

Next ==
  \/ Running /\ (Rpc \/ Master \/ \E c \in Cores : Dp(c))
  \/ ~Running /\ UNCHANGED vars

Spec == Init /\ [][Next]_vars

\* Master and cores are loops that poll: the master looks at every ring, a core
\* empties its ring, sends the packets that are due and pops the timers that
\* are due.  Nothing is asked of the RPC thread.
Fairness ==
  /\ WF_vars(Running /\ MasterFinish)
  /\ \A c \in Cores :
       /\ WF_vars(Running /\ handle_event(c))
       /\ WF_vars(Running /\ DpHandle(c))
       /\ WF_vars(Running /\ (DpTimer(c) \/ DpFinish(c)))

FairSpec == Spec /\ Fairness

-----------------------------------------------------------------------------
(* Properties that no interleaving of the two threads can break.           *)

\* The cached stream graph, when there is one, is the graph of the present
\* table: add, remove and remove_all throw it away, start and stop too.
GraphFresh == graph # NoGraph => graph = streams

\* The port, its event and both threads keep their types whatever the interleaving,
\* and a rate is never computed from streams of the past.
PortInv == TypeOK /\ GraphFresh

\* Reports r of a core in state st whose last run is e: ascending, of runs
\* before e, or of e itself once the core is idle.
ReportsInOrder(r, e, st) ==
  /\ \A i, j \in DOMAIN r : i < j => r[i] < r[j]
  /\ \A i \in DOMAIN r : r[i] < e \/ (r[i] = e /\ st = "IDLE")

\* A core reports the end of a run at most once and the runs in their order,
\* and it never reports a run it is still transmitting: a STOP command, a
\* duration and the end of the streams may all want to stop the same run.
EndReportedOnce ==
  \A c \in Cores : ReportsInOrder(toCp[c], dpEvent[c], dpState[c])

\* A run in progress ends only by a stop from the control plane, by its own
\* duration, or because its streams ended: never by the timer of another run.
RunEndsForCause ==
  [][\A c \in Cores :
       dpState[c] # "IDLE" /\ dpState'[c] = "IDLE" =>
         \/ toDp[c] # <<>> /\ Head(toDp[c]).type = "stop" /\ toDp'[c] = Tail(toDp[c])
         \/ dpProg[c] = "finite"
         \/ dpDur[c] /\ dpEvent[c] \in timers[c]]_vars

\* Unless a ring lost a message, pause meets a transmitting core and resume a
\* paused one, however late the core is: the asserts of the data plane hold.
PauseResumeInOrder == aborted \in {"pause", "resume"} => dropped

-----------------------------------------------------------------------------
(* What holds unless a start or stop overtook the event handler, that is,  *)
(* wrote the event id after the handler's check and before its last write. *)
(* Every other interleaving of the two threads is covered.                 *)

Unsignalled == {c \in Cores : ~signal[c]}

\* Outside of arming, and of the handler's own decrement, the count is the
\* number of cores not heard of: the end of a run is seen when the last core
\* has reported it, neither before nor never.
PendingIsExact ==
  ~overtaken /\ counter # EVENT_ID_INVALID /\ master \notin {"read", "store"}
    /\ rpc \notin {"reset", "signal", "count", "store"} =>
      pending = Cardinality(Unsignalled)

\* A core in state st does not transmit once it has handled the messages of q
\* before position n.
QuietBefore(q, st, n) ==
  \/ st = "IDLE" /\ \A i \in DOMAIN q : i < n => q[i].type # "start"
  \/ \E i \in DOMAIN q :
       /\ i < n /\ q[i].type = "stop"
       /\ \A j \in DOMAIN q : i < j /\ j < n => q[j].type # "start"

Quiet(c) == QuietBefore(toDp[c], dpState[c], Len(toDp[c]) + 1)

\* When the port shows no traffic (IDLE or STREAMS), no core transmits, or a
\* stop is on its way to it: the state clients see is never ahead of the cores.
StoppedPortIsQuiet ==
  Running /\ ~dropped /\ ~overtaken /\ port_state \in {"IDLE", "STREAMS"} =>
    \A c \in Cores : Quiet(c)

\* A start finds no nodes of an earlier run on any core, unless a start or a
\* stop overtook the handler.
StartFindsIdleUnlessOvertaken == aborted = "start" => dropped \/ overtaken

\* The same without the exception, as the assertion of the core has it.
StartFindsPortIdle == aborted = "start" => dropped

\* Between commands, the port is IDLE exactly when it has no streams: the
\* handler moves a port to STREAMS only when there are some.
TableMatchesState ==
  rpc = "idle" /\ ~overtaken => (port_state = "IDLE" <=> streams = {})

\* A run that ends on its own (finite streams, or a duration and a stream)
\* is seen to end: the port leaves TX.
RunEventuallyEnds ==
  (port_state = "TX" /\ last_prog # "empty" /\ (last_prog = "finite" \/ last_duration))
    ~> (port_state # "TX" \/ ~Running \/ dropped \/ overtaken)
=============================================================================
