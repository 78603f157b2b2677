# A TLA+ model of the TRex traffic generator

TRex is a traffic generator with two modes.

In its *stateless* mode a client sends JSON-RPC commands to a server: it adds
*streams* to *ports*, starts, pauses, resumes, updates and stops the traffic. The
server compiles the streams of a port into one program per data-plane core and
sends it there over a ring; each core runs its programs from a time-ordered
queue and reports the end of a run back over a second ring.

In its *stateful* mode each core opens flows from recorded templates, gives them
client addresses and ports, and plays their packets. A receive thread checks what
comes back: it follows sampled flows packet by packet (*RX check*) and learns the
addresses a NAT on the way has put in (*NAT learning*).

This project models the control and the data path of both, checks them with TLC
on small instances, and proves most of their safety properties with TLAPS for any
number of cores, ports, streams, flows and values.

Source paths below are relative to `src/src/`.

## 1. Inventory

### The parts and how they interact

```
 client --RPC--> [RPC thread]  TrexStatelessPort --CpToDp ring--> [core thread]
                     |  stream table, state,                      TrexStatelessDpCore
                     |  cached graph, DP event                    ports, nodes, queue
                     |  compiler, VM splitter                           |
                 [master thread] <----------DpToCp ring-----------------+
                     handle_event -> on_dp_event_occured

 stateful mode:
   [core thread] CFlowGenListPerThread          [latency thread] CLatencyManager
      tuple generator: addresses, ports            RxCheckManager, timer wheel
      nodes, queue, deferred releases              CNatRxManager: batches per thread
          |  ^                                        ^           |
          |  +------------ RxToDp ring (NAT) ---------|-----------+
          +--------- packets, device under test ------+
```

| Part | State | Operations | Where it is hard |
|---|---|---|---|
| Port (`stateless/cp/trex_stateless_port.*`) | state IDLE/STREAMS/TX/PAUSE, stream table, cached graph, facts on the last run | add, remove, remove all, start, stop, pause, resume, update, validate, `on_dp_event_occured` | RPC thread and master thread both write it; only the first takes the lock |
| DP events (`trex_dp_port_events.*`) | event id awaited, one signal per core, pending count | arm, disable, handle | late and stale reports; clearing after the handler |
| Messaging (`stateless/messaging`, `msg_manager.*`, `pal/linux_odp/CRing.h`) | one ring per core and direction | enqueue, dequeue | bounded; a full ring drops silently |
| RPC commands (`rpc-server/commands/trex_rpc_cmd_stream.cpp`) | none | one handler per command | exceptions that are not caught |
| Compiler (`trex_streams_compiler.*`) | node map, roots, marks, compiled objects | allocate, direct, reachability, per-core compile | loops of streams, ids used as positions, division of bursts |
| Streams graph (same file) | hash of streams, rate events, maximum, duration | generate | loops of streams; events of one moment; runs before the table is checked |
| VM and splitter (`trex_vm_splitter.cpp`, `trex_stream_vm.*`) | range per core, variable memory | split, compile, step | division with remainder, wrap-around, one step back |
| DP core (`stateless/dp/*`) | core state, two ports, their nodes | messages, chaining, durations, quit | three ways to stop a run; nodes still queued when their run is stopped |
| Node scheduler (`bp_sim.cpp`, `CNodeGenerator`) | priority queue by time | pop and handle by node type | when it exits; who starves whom |
| Master (`main_dpdk.cpp`) | - | dispatch DP events, quit the cores | runs beside the RPC thread |
| Tuple generator (`tuple_gen.*`) | per client a bitmap of ports and a head; per pool the next client and counters | allocate and return a port, next client, clusters of a template | the search gives up early; two kinds of clients; failures are only counted |
| Stateful flow generator (`bp_sim.*`) | node pool, queue, two open batches of ports, per template a count | open, send, repeat, close a flow; defer and release ports; two passes of `flush_file` | a port outlives its flow; three ways a thread ends |
| RX check (`rx_check.*`) | flow table, error counters | handle a packet, end a flow, age, drain | lost, repeated, reordered, late packets |
| Timer wheel (`timer_wheel_pq.*`) | priority queue of timers, handles | restart, stop, handle events, drain | timers are put off and killed in place, so the queue is stale |
| NAT learning (`nat_check.*`, `bp_sim.*`) | lookup table and node state per thread; batch per thread; ring | associate, learn, give up; fill, age and flush a batch | an answer races the timeout; two threads and a network between them |
| Port ownership, RPC server, publisher, latency, platform, Python client | | | not modelled, see section 7 |

### What makes them correct

* **Port and events.** What a client sees is not ahead of the cores: a port that
  shows no traffic has none, a start meets an idle core, a run that ends is seen
  to end, its end is reported once. The cached graph is the graph of the table.
* **Compiler.** Accepts exactly the tables that can run; ends on loops; the ids
  it hands out are positions; no packet of a burst is lost.
* **Core.** The count of active streams and of pending durations is exact, since
  both decide when something stops; a node is queued once or not at all; an idle
  core has nothing left; messages are read for ever; a quit ends the thread.
* **VM.** The parts of a split range partition it; the n-th packet has the n-th
  value.
* **Graph.** It refuses exactly the broken chains; its highest rate and its
  duration are those of the table, since traffic is scaled by the one and users
  are told the other.
* **Tuple and flow generator.** A port belongs to one flow, or waits in one batch;
  every port comes back when the thread closes its flows; the thread ends.
* **RX check.** No alarm without a fault in the network, no fault in a flow that is
  counted as clean; a flow ages when it falls silent, and only then.
* **NAT.** An answer goes to the translation of its own flow; a flow learns once,
  or is given up; no batch is stuck.

The list `hazards` of `PROJECT.json` has each difficulty at its line, with the
properties that watch it.

## 2. Modules

| Module | Models | Extends or instantiates |
|---|---|---|
| `StatelessPort` | one port, its event, the RPC and master threads, the rings, and the port's side of every core | |
| `StatelessPortProofs` | theorems on it | `StatelessPort` |
| `DpPort` | abstract: what a port of one core promises | |
| `DpCore` | one core, its ports, nodes, queue and scheduler | |
| `DpCoreProofs` | theorems on it, the refinement of `DpPort` among them | `MCDpCore` |
| `StreamsCompiler` | `compile()` pass by pass | |
| `StreamsCompilerProofs` | theorems on it | `StreamsCompiler` |
| `StreamsGraph` | `TrexStreamsGraph::generate()` stream by stream | |
| `StreamsGraphProofs` | theorems on it | `StreamsGraph` |
| `VmSplitter` | split, initial memory and steps of a VM variable | |
| `VmSplitterProofs` | theorems on the split and on the n-th packet | `VmSplitter` |
| `TimerWheel` | the wheel as operators on one value | |
| `AgingTimers` | abstract: deadlines of flows | |
| `RxCheck` | RX check on the wheel | `TimerWheel`; `AgingTimers` (refinement) |
| `RxCheckProofs` | theorems on it, the refinement of `AgingTimers` among them | `RxCheck` |
| `ClientPorts` | the ports of one client, both kinds, as operators | |
| `FlowGen` | one thread of the stateful generator with its tuple generator | `ClientPorts` |
| `FlowGenProofs` | theorems on it | `FlowGen` |
| `NatLearn` | the generating threads and the receive thread in learn mode | |
| `NatLearnProofs` | theorems on it | `NatLearn` |
| `MC*` | instances for TLC; `MCDpCore` also holds the refinement `DpCore` => `DpPort` | the above |

Operators named `<definition>_<Change>` and marked *Mutant* are wrong versions of
a definition, written as a plausible bug. Each property has one that breaks it.

Each module has one invariant that is a conjunction of named parts (`QueueInv`,
`PortInv`, `GraphInv`, `TableInv`, `PortsInv`, `WaitingInv`, `PositionsInv`, `ValuesInv`): its
types and the relations between its variables that make it consistent. The other
properties say what users of the component rely on.

### StatelessPort

RPC commands run under `m_global_cp_lock`; the master thread, which handles the
events of the data plane (`check_for_dp_messages` in `main_dpdk.cpp`), does not take
it. So a command is cut where the master can notice it: between the state check and
the effect and, while `start_traffic` arms the event, at every read and write of it:
the id (`wait_for_event`), the count set to 0 (`wait_for_event_reset`), for each core its
signal (`wait_for_event_signal`), the read (`wait_for_event_count`) and the write
(`wait_for_event_store`) of `m_pending_cnt++`, and at last TX and the messages
(`start_traffic_send`). `handle_event` is cut likewise: check (`handle_event`), signal
(`handle_event_mark`), read and write of `m_pending_cnt--` (`handle_event_read`,
`handle_event_store`), test (`handle_event_test`), change of state
(`on_dp_event_occured`), clearing of the id (`handle_event_clear`). `rpc` and `master`
say where the threads are, `held` and `seen` what they have in a register.

These fields are read and written by two threads without a lock, so what happens is
what the compiler makes of it. `Optimized` chooses between the two builds there are: a
debug build reads and writes memory each time; a release build counts up in a
register, writes once after the loop, and tests the value it has just written.

`overtaken` is a history variable. It becomes TRUE when a start or a stop writes the
event id while the handler is between its check and its last write. From then on the
count may be wrong (it can reach -1: the handler takes one off a count just set to 0),
an id armed may be cleared, and a state just set may be overwritten. Every property
that depends on the event names this as its exception, and `v_start` shows one way it
ends; all other interleavings of the two threads are covered without exception.

A stream is abstracted to its kind: continuous, burst, disabled (a continuous
one that is switched off), dangling (its next stream is missing). What a core
does with a program is reduced to whether it is empty, finite or endless;
`DpCore` has the detail. A duration is a member of `timers`, which may be popped
at any time while the scheduler runs: timing is not modelled here. A failed
assert or an exception that leaves its thread ends the process (`aborted`).

### DpCore and DpPort

`DpCore` has the queue with the four kinds of nodes a stateless core uses:
streams, FLOW_SYNC, EXIT_SCHED and COMMAND (a duration). Time is the scheduler's
virtual time, in ticks relative to the last FLOW_SYNC; that is what orders the
queue, and what keeps the state space finite. Nodes with equal time are popped in
any order, which `std::priority_queue` allows. `phase` says where the thread is.
Counters of packets are `Width` bits wide.

The environment is the control plane, which does not know what the core has done
meanwhile: any message may find the port in any state, and a start may come after the
quit. Where a handler asserts a state and finds another, the process ends
(`start_traffic_fails`, `control_fails`; phase `abort_message`); what keeps the control
plane from sending such messages, and when it does not, is the subject of
`StatelessPort`. `start_traffic` asserts that the port has no nodes, not that it is IDLE,
and so does the model. Pause and resume are sent only for ports whose streams are all
continuous (`is_all_continues`). The assertions about the core's own work have phases of
their own (`abort_stop`, `abort_queue`).

Programs may have shares of no packets, which the compiler makes of a burst smaller
than the number of cores (the counter then wraps: `Rounds`), may start no stream, and may
take no time at all (`Stalled`).

`DpPort` knows neither nodes nor queue: runs have ascending ids, each ends at
most once, only for a cause of its own (a stop, its duration, the end of its
streams), and a finite program ends, unless the core is `gone` or `stalled`. Only a run
whose program is `empty` may be followed by another without an end.
`PortKeepsItsPromise` of `MCDpCore` is the refinement: `run` is the event id, `finite` and
`empty` are computed from the program, `ends` is the sequence of events sent to the
control plane with their cause.

### StreamsCompiler

The loops over the table and over the work list of
`check_for_unreachable_streams` are stepped through; the direction pass is one
step. Its result is compared with `WellFormed`, a definition over the table
alone: reachability there is the smallest closed set.

### VmSplitter

One variable of the VM, one step per core of the splitting loop, then one step
per packet. The number of values of a type (2^8 to 2^64) is a field of the
variable, so wrap-around is modelled and small instances have it. What the last
round of the loop leaves in `start` and `end` is kept although nobody reads it.

A random value is computed as `run_rand` does: numbers of 15 bits put together, modulo
the size of the range cast to `int` (`Divisor`); a modulus of 0 ends the process ("trap").
The reference definitions of a client's flows (`FlowOf`, `AddressOf`, `PortOf`) hold for
all ranges, the ones up to the first and last address and port included, and say what
is sent there.

### StreamsGraph

One step per stream of a chain. The result is compared with the table alone: the
chain of a root as a function of the position (`Chain`), when it is reached (`Reached`)
and the bursts there as intervals of time (`Intervals`). The code follows a loop once;
what the table sends (`RateSent`) has every loop repeated: `Folded` takes a moment back to
the same moment of the first round. `InStep` says that all roots are then taken back to
one and the same moment, and only then does the graph vouch for the rate. A stream that
two roots lead to counts for both, in the code and here, although the core has one node
for it.

The table is a map, so its streams differ in their ids. Times are whole numbers, with
`Second` units to a second; `TablesAssumption` asks for bursts that are not rounded. One
rate stands for packets and bits. The duration is a double that is stored in an int of
microseconds: one above `IntMax` becomes INT_MIN (`ToInt`), which is what the conversion
of the target machines yields. What `back()` of an empty list is read as is any value of
`Garbage`. Events of one moment keep the order in which they were added
(`std::list::sort` is stable), which the mutant of `GraphInv` drops.

### TimerWheel, RxCheck and AgingTimers

The wheel is a priority queue in which a timer is never moved: a restart to a later
time only notes the new time in it, a stop only clears its flow. Who meets such a
timer at the top pushes it back or deletes it. `TimerWheel` keeps queue, handles
and counters as one record and one operator per method.

`RxCheck` is the thread around it: one step per packet, which looks up or opens
the flow, counts the errors, restarts the timer, ends a flow that is complete and
every `AgeEvery` lookups begins an ageing pass; one step per timer of a pass, the
callback that ends the flow included; the drain at the end. The network may drop,
repeat and reorder (`MaxCopies` deliveries of each packet, in any order) and deliver
headers that are junk. `got` records what each direction received since its flow was
opened. The counters of a flow are unbounded; in the code `m_pkts` and `m_oo_err` have 16
bits, so what is said of a flow holds up to 65535 packets and errors of it.

`AgingTimers` has one deadline per flow and no queue: a packet moves it, a pass ends
the flows whose deadline lies before the time it was started with, all of them and
no others. `AgesExactlyTheSilent` is the refinement; the deadline of a flow is the
noted time of its timer, or its place in the queue.

### ClientPorts and FlowGen

`ClientPorts` has the bitmap client and the one that only counts round (for very
large pools). `FlowGen` has the node pool, the queue, the batches and both passes
of `flush_file`: flows are opened by the one FLOW_FIF node from templates that have
a limit or none, keep their ports while they are repeated, and free them at once or
into a batch of `DeferNum` ports that is released after the ageing time of the pool.
A plugin takes two more ports of the client. A thread ends by itself ("done"), by the
master without a complete closing pass ("cut"), by an assertion ("abort") or because
the node pool is empty ("exit"). How packets interleave depends on gaps, so any
queued node may be next.

### NatLearn

Two sides and a lossy, repeating, reordering network between them. A generating
thread opens a flow, associates it, sends its first packet, and waits; the receive
thread puts what it reads into the batch of that thread, flushes it when full or
old, and waits when the ring is full; at each sync the generating thread reads its
ring and looks the flows up. When the first responder packet is due and nothing was
learned, the flow is given up. The receive thread asserts that its pool has a node for a
new batch; an empty pool ends the process (`handle_packet_ipv4_no_node`). A NAT may change
its mind: each copy of a learn packet may carry any of `Mappings`.

## 3. Runs

Passing runs:

| Run | Instance | What it shows |
|---|---|---|
| `port_rings` | 1 core, rings of 2 slots that overflow, a continuous stream and a burst, 2 runs, release build, fairness | ends are reported once and in order, a run ends for a cause of its own, pause and resume meet the state they assert unless a message was lost, the cached graph is fresh; unless the handler was overtaken, a stopped port is quiet and a run that ends is seen to end |
| `port_cores` | 2 cores, a burst and a dangling stream, 2 runs, debug build, symmetry | unless the handler was overtaken: the count is the number of cores not heard of, a start finds no nodes, IDLE means an empty table |
| `compiler` | all tables of two streams, all chains and loops of three; 3 cores | acceptance, positions, bursts, termination |
| `core_safe` | 2 ports, 2 runs and 1; a share of no packets that leads to a running stream, an endless stream, an empty program; durations, rate updates, late starts, quit | counters, queue, packets of a burst, assertions on the core's own work |
| `core_live` | 2 ports, 2 runs and 1; a chain, a burst into a running stream, a circle without gaps, an empty program; fairness | messages are read and a quit ends the thread unless the circle stops the clock; refinement of `DpPort` with a busy neighbour and the duration of an earlier run in the queue |
| `vm` | all ranges of types with 4 values, ranges of 16, random ones of 2, 4, 8 and 16 values, client variables up to the first and last address and port, 3 cores, 10 packets | partition; value, address and port of the n-th packet; random values and their modulus |
| `graph` | all tables of two streams of seven kinds, enabled or not, in chains, loops and with missing ends; three streams that overlap | refusal, highest rate with loops repeated, duration as an int, no negative rate, termination |
| `rxcheck` | 2 flows of 5 and 2 headers (one claims another size), up to 2 copies each, 4 packets received in all, a pass every 2 lookups | table, wheel and counters agree; no false alarm; a clean flow was delivered; ageing refines `AgingTimers`; a pass ends |
| `flowgen` | 2 pools (one bitmap client with 5 ports; two large clients), 3 templates (repeated; plugin; clusters), 6 nodes, batches of 3 | a port is held once, counters are exact, closing returns everything, assertions fail only after a failed allocation, the thread ends |
| `nat` | 2 threads, 3 flows with an id in common, 2 mappings, batches of 2, rings of 1 | the table is the waiting flows, answers are translated, learned once; waiting ends; batches are sent |

Runs that find a disagreement between the code and what the source says of it
(`findings` in `PROJECT.json`):

| Run | What happens |
|---|---|
| `v_start` | a start overtakes the event handler of the run before, which then sets STREAMS over the run started meanwhile; the next start meets its nodes and the assert fails |
| `v_port` | a client has `Tries` ports in use in a row, the next flow is opened with port 0 all the same, and the assertion of `return_port` fails when it closes |

More disagreements came up while modelling. They have no run of their own; each is in
the model, and where it touches a property it is the exception that the property names.
On the stateless side:

* An update reaches a core whose run has just ended: `update_traffic` asserts that
  the port transmits (`trex_stateless_dp_core.cpp:208`); `dp_update_traffic` and `DpAbort`
  of `StatelessPort`.
* A start by rate of a table with a missing stream ends the process: the graph throws
  an exception the start command does not catch (`trex_rpc_cmd_stream.cpp:457` catches
  `TrexRpcException` only); `aborted` = "exception".
* A start or stop that overtakes the event handler can lose the end of a run: the
  handler clears an id that was armed meanwhile, or takes one off a count that is being
  made, down to -1. The port stays in TX (the exception of `RunEventuallyEnds` and
  `PendingIsExact`).
* A core whose share of a burst is 0 sends 2^32 packets (`trex_stream_node.h:202`;
  `Rounds` in `BurstSendsItsPackets`).
* A start handled after the quit takes the core out of TERMINATE, and `remove_all`
  asserts on its nodes (`bp_sim.cpp:3173`; the exception of `AssertionsHold`).
* One-packet streams in a circle without gap keep the scheduler at one instant, so
  that messages are never read again (`Stalled` in `MessagesAreRead` and
  `QuitEndsTheThread`).
* A program whose streams are all disabled has no node: the scheduler exits at the
  first sync and the core idles with the port still TRANSMITTING (the exception of
  `QueueInv`; `start_scheduler`: "we exit from all ports and we have nothing to do").
* `direct_pass` "check[s] for multiple parents" with `size() > 0`, so `warned` holds
  streams with a single parent too.
* A random variable of 64 bits whose range has a size with bit 31 set takes values
  outside of it, and a range whose size is a multiple of 2^32, the full range of 32 bits
  among them, divides by 0 (`trex_stream_vm.h:176`, `:209`; both in `ValuesInv`).
* A client range that ends at the last address goes on with address 0 and never comes
  to the next port, one that ends at port 65535 goes on with port 0, since the comparison
  cannot see the end; one that begins with address 0 begins with its second flow
  (`AddressOf`, `PortOf`, `FlowOf`).
* The graph takes `back()` of an empty list when no stream makes an event
  (`trex_streams_compiler.cpp:748`), and a duration of more than 2^31 microseconds, some
  36 minutes, becomes negative (both in `DurationIsLastEnd`).
* The graph follows a loop once. When a root loops and another one does not keep in
  step, later rounds may overlap to more than the computed maximum (`InStep` in
  `MaxIsHighestRate`): a root that sends from 2 to 4 and loops every 4, with rate 3, and
  one that sends from 5 to 8, with rate 2, together have rate 5 from 6 to 8, and the
  graph says 3.

On the stateful side:

* The comments on `m_err_oo_early` and `m_err_oo_late` (`rx_check.h:169`: "expect 1 got
  2", "expect 7 got 6") are swapped in the code, which counts the first as late.
* A first packet that is overtaken is counted as one seen twice; a lost first packet of
  the second direction may be masked by a packet that comes twice in its place
  (`WasDelivered` states exactly this exception).
* A pool with a MAC map resizes its clients to those with an address and then indexes
  them by their number in the whole pool.
* Ports in open batches are not returned when the master ends the thread.
* A thread that ends without the closing pass frees the nodes of its queue; `Delete()`
  then frees waiting NAT flows a second time (`bp_sim.cpp:3439`).

### Bounds and why they are enough

* `MaxRuns`, `MaxStarts`: two runs give every race between a run and the one
  before it; `v_start` needs three, since a run must be started over a stale
  handler. In `DpCore` one port is started twice and its neighbour once: the first
  has an earlier run behind it, the second keeps the scheduler busy.
* `MaxInFlight`, `RingSize`: in `port_rings` a client sends as long as there is a backlog
  of at most two, a stop with a start behind it or the other way round, and a third
  message overflows the ring; in `port_cores` clients wait until the rings
  are empty, since its properties are about the counting of reports. Longer backlogs are
  left to the theorems, which have no bound.
* Cores: two where reports are counted, so that one reports and the other does not,
  with symmetry, which its properties, all invariants, do not notice; one in
  `port_rings`, whose properties are about each core by itself. The two builds are
  divided between the two runs; the theorems of section 5 are for both.
* `port_cores` has no continuous stream: it differs by not ending, which leaves out
  steps.
* `Width` 2: counts up to 2 and a wrap of the count 0 that is seen to end; `SyncTime` 2
  lets packets, durations of 3 and chains fall before, on and after a sync. In `core_safe`
  every run has a duration, which a stop or its end may overtake; `core_live` has runs
  with and without.
* The programs of `DpCore` have one of each thing that can go wrong with a program: two
  streams that lead to one, a share of 0, an endless one, an empty one, a circle that
  takes no time. Each run has the ones its properties can notice.
* Types of 4 values with all sub-ranges include single values, ranges smaller than the
  number of cores, remainders and the full range; those of 16 stand for 64 bits beside
  an int of 8, so that sizes have bit 31 set or are cut off; 10 packets go through every
  range that is walked in parts, and over again.
* `StreamsGraph`: the seven kinds are continuous, short, long and late bursts, bursts
  that repeat, a burst of no packets, a stream of no bursts; their times meet, so events
  of one moment come from one stream, from a chain and from two roots. `IntMax` 11 lies
  between the ends of one stream and of a chain; `Horizon` 16 holds the second round of
  every loop of one stream and the beginning of the second round of longer ones.
* `RxCheck`: `MaxRx` 4 packets complete a flow of four or leave two flows half open;
  two copies give duplicates; `MaxTime` 3 with ageing times 1 and 2 lets one flow age,
  be put off, and be opened anew by a late packet; `AgeEvery` 2 has passes at both
  parities of a flow.
* `FlowGen`: `MinPort` 1, `MaxPort` 6 and `Tries` 3 (1024, 64000 and 21 in the code) leave
  ports beyond the search; `NodeNum` 6 runs out; `DeferNum` 3 (16) is filled in the
  middle of a plugin's three ports.
* `NatLearn`: `MaxNatInfo` 2 (7) gives full and partial batches, `RingSize` 1 (1024) full
  rings, `MaxFull` 2 (11) both a retry that succeeds and the exit; `Copies` has a flow
  with two.

The runs `vm`, `rxcheck`, `flowgen`, `v_port` and `nat` turn off the deadlock check: packets
and time are bounded (`MaxPackets`, `MaxRx`, `MaxTime`, `Copies`), and the threads of
`RxCheck`, `FlowGen` and `NatLearn` may end. In all other modules the end of the
program is an explicit stuttering step.

## 4. Fairness

* Each core thread polls its ring and its queue in a loop without blocking calls:
  weak fairness of its message handling and of what is due in the queue
  (`StatelessPort`), of the scheduler as a whole (`DpCore`, where messages may
  always arrive but the thread still goes on).
* The master thread finishes the handler it has begun: weak fairness.
* The master looks at every ring again and again and takes no lock: weak fairness of
  `handle_event` for each core.
* Clients owe nothing, and neither does the RPC thread: no fairness for commands, not even
  for those begun.
* The compiler and the graph are sequential programs: weak fairness of their step.
* The latency thread does not leave an ageing pass or a drain before it is over: weak
  fairness of `Pass`. Nothing is assumed of the network.
* `FlowGen`: the queue is ordered by time and a node is pushed back with a later time,
  so a node that stays queued is handled: weak fairness of `Finish(n)` for each node.
  Nothing is assumed of opening flows, nor of the master.
* `NatLearn`: the same for the nodes of flows (`DpNode`); the clock moves (`GetOld`); the
  receive thread comes round to `handle_aging` and does not leave `flush_node`. That
  the rings are read is not assumed: if they are not, the process exits.

## 5. Proofs

The theorems hold for every value of the constants that meets the assumptions named
in the modules (TLC evaluates them in every run): finite sets of cores and ports,
sizes that are natural numbers, variables with min <= init <= max within their type,
programs whose next streams exist, headers that are a function of the packet. Where a
theorem has a hypothesis of its own it is given below, with the reason. Each property
is checked by a run as well.

`StatelessPortProofs`, for any set of cores, any streams, any ring size:

* `PortIsConsistent`: types, and the cached graph. `TypeOK` is not inductive: `TypeInv` adds
  that an awaited event is that of the last run, that the handler has its core
  (`EventKnown`), and that a core that transmits has an event id (`BusyHasRun`). The count is
  only an integer here, since an overtaken handler can take it below zero.
* `EndReportedOnceHolds`, lossy rings included. `OrderInv` adds that starts on their way to
  a core ascend, lie above the run the core began last and do not pass the last one sent
  (`RunsInOrder`).
* `PendingIsExactHolds`, for both builds: `CountKept` says how the count is made up at each
  step of arming and of the handler. That the handler is idle while the event is armed is
  part of it: a core reports the awaited run only after its start was sent, so the handler
  can be in the middle only if it was there before, and then it was overtaken.
* `StoppedPortIsQuietHolds` and `StartFindsIdleHolds`: `QuietInv` relates three things along a
  ring: what the port state says, which stops and starts are queued, and which cores have
  reported. Its main part says that a core that signalled the awaited run is idle with no
  start on its way, that every start in a ring finds the core quiet when its turn comes,
  and what the handler may rely on (`HandlerKnows`). The exception, `overtaken`, is part of
  the properties; `v_start` shows that it is needed, and the theorem that there is no other.
* `GraphFreshHolds` (inductive by itself) and `RunEndsForCauseHolds`, an action property:
  the queue holds no timer of a run to come (`TimersKnown`), so the timer that ends a run
  is its own.
* `TableMatchesStateHolds`: the end of a run sets STREAMS, and unless it was overtaken the
  table cannot have been emptied meanwhile (`TableKept`).
* `PauseResumeInOrderHolds`: `PauseInv` says for every position of a
  ring in which state the core will be when its turn comes (`Transmits`, `Pauses`) and
  that the run it is then in does not end by itself (`Lasts`).

`DpCoreProofs`, for any ports, programs, counter width, sync time and durations. `CoreInv`
is inductive: the count of active streams of each port is exact, a node is queued as long
as it is ACTIVE, durations are counted, and `LoopOK` says what the thread knows in each
phase.

* `CountIsExact` follows.
* `QueueIsConsistent`: an idle core has no running port but those whose program starts no
  stream.
* `NoAssertionFails`, for messages in any state and at any time: the number of nodes is
  always what was counted, and the queue is emptied with a stream in it only after a
  start that followed the quit.
* `BurstsAreComplete`, shares of 0 included. `BurstsOK` is the arithmetic: sent + what the
  counters have left = bursts * pkts, where 0 stands for 2^Width.
* `PortKeepsItsWord`: every step of the core maps to a step of `DpPort` or a stutter, for
  each port; with `RefInv`, which adds that a paused program is continuous, a duration in the
  queue is of a timed run, and an endless program keeps an endless stream. This is the
  refinement without its fairness, which stays with TLC (`PortKeepsItsPromise`).

`StreamsCompilerProofs`, for any tables and number of cores. `CompilerInv` says what each
pass has built from the streams it has looked at; the position of a stream is the number
of enabled ones before it.

* `AcceptanceIsExact`: the marked nodes and the work list together are always closed
  under "next" but for the work list (`Searched`), so when it is empty the marked set is
  closed, and it is the smallest such set since only what is led to is marked.
* `IdsArePositions` and `BurstsAreShared`.

`StreamsGraphProofs`, for any table of streams with different ids, any length of chains,
number of bursts and rates:

* `GraphIsSound` (`GraphInv`). `GraphIInv` says that the scan is at a position of the chain
  of its root that it has reached without a return, with the ids before it in the loop hash
  (`Here`), and that no root scanned so far is broken. What is left is where the chain goes
  from there: a lemma each for a chain that ends, returns, goes on or breaks; a chain
  without return is shorter than the table, since the positions map one to one to its ids. That
  no rate is negative rests on `Paired`: a fall stands behind its rise in the list, not
  before it in time, and the sort is stable, so whatever part of the sorted list one takes
  holds the rise of each of its falls.
* `DurationIsRight` and `MaxRateIsRight`, for tables with `ContinuousIsLast`, which is part of
  the properties: the compiler refuses the others. There are a root for every event and
  a number of positions for every root such that the rises, each with its fall, are the
  intervals of just these positions (`Listing`), and a root falls before it rises again
  (`Owned`); to keep this, the root that is scanned is silent from `offset` on (`Calm`), and
  `offset` is the sum of the stays before (`Reached`). So what is sorted up to a moment adds up
  to one rate per root (`OpenSum`), that of the burst the root is in. For `max_rate` from below,
  take the events up to the moment of the first round that the roots, being in step, are all
  taken back to; from above, the events up to the one after which the rate is
  highest, which is a rise, and so a moment at which something begins. The duration is the
  time of the last event, which is a fall or a rise at the time of its fall.
* Sums are `SumFunctionOnSet` and chains recursive functions; that both are what one
  expects is proved from their definitions, by the least number or the smallest subset
  for which a claim would fail (`SmallestNat`, `SmallestSubset`).

`VmSplitterProofs`, for any number of cores, range and word size:

* `SplitIsPartitionHolds`. `PartInv` gives the closed form of the loop: before round k,
  `start` is the value after the parts of the first k - 1 cores, and these are
  `Lo(.., j)..Hi(.., j)`. The partition follows from monotonicity of multiplication and
  the division theorem, each a lemma.
* `ValuesAreRight`: `StepsInv` adds the memory of a core after n packets in closed form
  (`MemAt`), for client variables up to the edges of their types. For random variables the
  divisor is the size of the range or less, unless its sign counts (`SignCounts`), and is 0
  only for a multiple of 2^32.

`RxCheckProofs`, for any packets, bounds and behaviour of the network:

* `TableIsConsistent`: `RxInv` has the wheel by itself (`IsWheel`: one live timer per flow
  with an entry, a noted time not before the place in the queue), table and counters.
* `WheelImplementsDeadlines`: the refinement of `AgingTimers`, step by step; it has no
  fairness and is proved as a whole.
* `EndedFlowWasDelivered`: `HistInv` relates an entry to what its flow received.
* `NoAlarmWithoutCause`: `AlarmInv` relates the error counters to the order in which the
  network delivered.

`FlowGenProofs`, for any pools, templates, node pool and batch size:

* `PortsInvHolds`, `AssertsHold` and `CloseReturns`. `FlowInv` is inductive. Its core,
  `PortsOK`, is about a set of places and what is held there: held ports are noted in the
  bitmap or as an error, noted ports are held, none twice, and the counter of a pool
  is the number of its places. A handler takes a port at a new place, gives places
  back, or only moves them, from a flow to a batch or, when it overflows, to the next
  batch; there is a lemma for each. `PassOK` says which EXIT_SCHED nodes there are: without
  it the closing pass could end with flows open.

`NatLearnProofs`, for any threads, flows, batches and rings:

* `WaitingIsConsistent`, `OnlyTranslatedAnswers` and `AddressesAreLearnedOnce`. `LearnInv`
  adds to `WaitingInv` that a copy on the wire is of a flow that has begun, that only
  initiator packets come before the answer, and when a batch is full or empty.

Two models were corrected by their proofs, and one got an assumption: that the ids of a
table differ was left to the instances of `StreamsGraph` and is now part of
`TablesAssumption`, since `TrexStreamTable` is a map. The guards of `NextPort` in `VmSplitter`
overlapped, so that the choice between them was the evaluator's; and `flush_batch` in
`FlowGen` went on to the second batch after the process had ended in the first.

Only model-checked, not proved:

* all liveness (`RunEventuallyEnds`, `MessagesAreRead`, `QuitEndsTheThread`, `Terminates`,
  `GraphEnds`, `PassEnds`, `GenerationEnds`, `WaitingEnds`, `BatchIsSent`) and the fairness in
  `PortKeepsItsPromise`: temporal reasoning under fairness is out of this prover's reach.

Every invariant and every other action property that a passing run checks is stated by a
theorem.

## 6. Plan

Done: the stateless path, the streams graph, RX check with its timer wheel, the
tuple and flow generator, NAT learning; the theorems above.

To come, in this order: port ownership and the RPC handler (small, sequential), the latency
measurement, and the control plane in Python as clients of `StatelessPort`.

## 7. Not modelled

* **Packets.** Contents, lengths, checksums, MAC addresses, mbufs.
* **Rates.** Multipliers and gaps are doubles; a rate appears only as the gap of a
  node and as whether a command needs the graph.
* **Port ownership.** Acquire, force, release and the check of the owner run in the one
  RPC thread under the control-plane lock, so nothing falls between check and
  effect: a comparison of strings. Every command here is one by the owner.
* **RPC server, JSON parser, publisher, console, statistics, device set-up**: input
  and output.
* **Stateful side.** Templates and their packets come from recordings; the model has
  their number of packets and sides. Rates and policers appear as a choice of the
  template. Server pools, MAC maps and the parsing of pools; IPv6; flows of one
  direction in learn mode, which send as in `FlowGen`; the wrap of 32-bit flow ids;
  histograms, jitter and counters per template of RX check.
* **Latency measurement**: probes and statistics over real time. Of its thread, the
  loop that drives RX check and NAT ageing is modelled.
* **Python client**: any client is covered, since any command may come at any time.
* **Vendored libraries.** The ring of ODP is modelled by how it is used.

A VM range with min above max is left to the client, as in the code
(`sanity_check_valid_range` is empty). After a split, the flow limit of a client variable
applies to each core, so the stream as a whole has as many flows as cores times the
limit.
