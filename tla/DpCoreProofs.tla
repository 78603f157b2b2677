---------------------------- MODULE DpCoreProofs ----------------------------
(***************************************************************************)
(* Proofs about a data-plane core, for every set of ports and programs,    *)
(* every width of the counters and every timing.                           *)
(*                                                                         *)
(* PortOK says what holds of a port by itself, and of what a handler makes *)
(* of one before it stops it: the count of active streams is exact, and a  *)
(* node is in the queue as long as it is ACTIVE.  CoreInv, which is        *)
(* inductive, has it of all ports (PortsOK) and adds the nodes of stopped  *)
(* runs, the commands and the times in the queue (FreedOK, CmdsOK,         *)
(* TimesOK) and what the thread knows in each of its phases (LoopOK).      *)
(* RunsOK, BurstsOK and RefInv strengthen it for one theorem each.         *)
(***************************************************************************)
EXTENDS MCDpCore, FiniteSetTheorems, TLAPS

USE DEF Aborted

-----------------------------------------------------------------------------
(* A port.                                                                 *)

Causes == {"stop", "duration", "finished"}

PortRec == [state : {"IDLE", "TRANSMITTING", "PAUSE"}, active : 0..Modulus - 1,
            event : Int, prog : Seq(Stream), nodes : Seq(Node),
            factor : Nat, timed : BOOLEAN, ends : Seq(Int \X Causes)]

\* The types of a port, and how long its lists are.
PortTyped(p, port) ==
  /\ port \in PortRec
  /\ port.event \in -1..MaxStarts[p]
  /\ port.prog \in Programs \cup {<<>>}
  /\ port.state = "IDLE" => port.nodes = <<>>
  /\ port.state # "IDLE" => Len(port.nodes) = Len(port.prog)
  /\ Len(port.ends) <= port.event + (IF port.state = "IDLE" THEN 1 ELSE 0)

\* A node is in the queue as long as it is ACTIVE.
NodeOK(n) == n.queued = IF n.st = "ACTIVE" THEN 1 ELSE 0

PortOK(p, port) ==
  /\ PortTyped(p, port)
  /\ port.active = Cardinality(ActiveNodes(port))
  /\ \A i \in DOMAIN port.nodes : NodeOK(port.nodes[i])

\* A port is its fields.
IsPort(port) ==
  port = [state |-> port.state, active |-> port.active, event |-> port.event,
          prog |-> port.prog, nodes |-> port.nodes, factor |-> port.factor,
          timed |-> port.timed, ends |-> port.ends]

\* The fields of a port have their types.
LEMMA PortFields ==
  ASSUME NEW port \in PortRec
  PROVE  IsPort(port)
BY DEF PortRec, IsPort

\* The fields of a node have their types.
LEMMA NodeFacts ==
  ASSUME NEW nodes \in Seq(Node), NEW i \in DOMAIN nodes
  PROVE  /\ i \in Nat /\ nodes[i] \in Node
         /\ nodes[i].st \in {"INACTIVE", "ACTIVE"}
         /\ nodes[i].single \in 0..Modulus - 1 /\ nodes[i].multi \in 0..Modulus - 1
         /\ nodes[i].when \in Nat /\ nodes[i].queued \in Nat /\ nodes[i].sent \in Nat
<1>1. i \in Nat /\ nodes[i] \in Node
  OBVIOUS
<1> QED BY <1>1 DEF Node

\* The positions in a list of nodes are finite in number.
LEMMA ActiveFinite ==
  ASSUME NEW port, port.nodes \in Seq(Node)
  PROVE  /\ IsFiniteSet(ActiveNodes(port)) /\ Cardinality(ActiveNodes(port)) \in Nat
         /\ Cardinality(ActiveNodes(port)) = 0 <=> ActiveNodes(port) = {}
         /\ Cardinality(ActiveNodes(port)) <= Len(port.nodes)
<1>1. Len(port.nodes) \in Nat /\ DOMAIN port.nodes = 1..Len(port.nodes)
  OBVIOUS
<1>2. IsFiniteSet(1..Len(port.nodes)) /\ Cardinality(1..Len(port.nodes)) = Len(port.nodes)
  BY <1>1, FS_Interval
<1>3. ActiveNodes(port) \subseteq 1..Len(port.nodes)
  BY <1>1 DEF ActiveNodes
<1>4. /\ IsFiniteSet(ActiveNodes(port))
      /\ Cardinality(ActiveNodes(port)) <= Cardinality(1..Len(port.nodes))
  BY <1>2, <1>3, FS_Subset
<1> QED BY <1>2, <1>4, FS_CardinalityType, FS_EmptySet

\* A port that is not started.
LEMMA NoNodes ==
  ASSUME NEW port, port.nodes = <<>>
  PROVE  ActiveNodes(port) = {} /\ Cardinality(ActiveNodes(port)) = 0
<1>1. ActiveNodes(port) = {}
  BY DEF ActiveNodes
<1> QED BY <1>1, FS_EmptySet

-----------------------------------------------------------------------------
(* Stopping a port.                                                        *)

\* What a port that is not idle looks like once it is stopped.
LEMMA StoppedFields ==
  ASSUME NEW p \in Ports, NEW port \in PortRec, NEW cause \in Causes, port.state # "IDLE"
  PROVE  Stopped(port, cause) =
           [state |-> "IDLE", active |-> 0, event |-> port.event, prog |-> port.prog,
            nodes |-> <<>>, factor |-> port.factor, timed |-> port.timed,
            ends |-> Append(port.ends, <<port.event, cause>>)]
<1> DEFINE e == Append(port.ends, <<port.event, cause>>)
<1> HIDE DEF e
<1>1. Stopped(port, cause) = [port EXCEPT !.state = "IDLE", !.active = 0, !.nodes = <<>>,
                                           !.ends = e]
  BY DEF Stopped, e
<1>2. Stopped(port, cause) =
           [state |-> "IDLE", active |-> 0, event |-> port.event, prog |-> port.prog,
            nodes |-> <<>>, factor |-> port.factor, timed |-> port.timed, ends |-> e]
  BY <1>1 DEF PortRec
<1> QED BY <1>2 DEF e

\* A stopped port is idle, without nodes, and keeps its event id.
LEMMA StoppedOK ==
  ASSUME NEW p \in Ports, NEW port, PortOK(p, port), NEW cause \in Causes
  PROVE  /\ PortOK(p, Stopped(port, cause)) /\ Stopped(port, cause).nodes = <<>>
         /\ Stopped(port, cause).event = port.event
         /\ Stopped(port, cause).state = "IDLE"
<1>1. CASE port.state = "IDLE"
  BY <1>1 DEF Stopped, PortOK, PortTyped
<1>2. CASE port.state # "IDLE"
  <2> DEFINE e == Append(port.ends, <<port.event, cause>>)
             s == Stopped(port, cause)
  <2>1. port \in PortRec /\ port.event \in -1..MaxStarts[p] /\ Len(port.ends) <= port.event
    BY <1>2 DEF PortOK, PortTyped, PortRec
  <2>2. s = [state |-> "IDLE", active |-> 0, event |-> port.event, prog |-> port.prog,
             nodes |-> <<>>, factor |-> port.factor, timed |-> port.timed, ends |-> e]
    BY <1>2, <2>1, StoppedFields
  <2>3. port.ends \in Seq(Int \X Causes) /\ <<port.event, cause>> \in Int \X Causes
    BY <2>1 DEF PortRec
  <2>4. e \in Seq(Int \X Causes) /\ Len(e) = Len(port.ends) + 1
    BY <2>3
  <2> HIDE DEF e, s
  <2>5. s \in PortRec
    <3>1. 0 \in 0..Modulus - 1
      BY BoundsAssumption DEF Modulus
    <3>2. <<>> \in Seq(Node)
      OBVIOUS
    <3>3. /\ port.event \in Int /\ port.prog \in Seq(Stream) /\ port.factor \in Nat
          /\ port.timed \in BOOLEAN
      BY <2>1 DEF PortRec
    <3> QED BY <2>2, <2>4, <3>1, <3>2, <3>3 DEF PortRec
  <2>6. /\ s.nodes = <<>> /\ s.active = 0 /\ s.event = port.event /\ s.state = "IDLE"
        /\ s.prog = port.prog /\ s.ends = e
    BY <2>2
  <2>7. PortTyped(p, s)
    <3>1. Len(s.ends) <= s.event + 1
      BY <2>1, <2>3, <2>4, <2>6
    <3> QED BY <2>1, <2>5, <2>6, <3>1 DEF PortTyped, PortOK
  <2> QED BY <2>6, <2>7, NoNodes DEF PortOK, s
<1> QED BY <1>1, <1>2

\* The assertions of stop_traffic hold of a port whose count is exact.
LEMMA StopAssertsHold ==
  ASSUME NEW p \in Ports, NEW port, PortOK(p, port)
  PROVE  StopAsserts(port)
<1>1. port.state = "IDLE" => port.active = 0
  BY NoNodes DEF PortOK, PortTyped
<1> QED BY <1>1 DEF StopAsserts, PortOK

\* Nodes that were marked.
Freed == [port : Ports, run : Int, node : Nat, when : Nat]

\* Stopping leaves nodes behind in the queue only if some were in it.
LEMMA MarkedOK ==
  ASSUME NEW p \in Ports, NEW port, PortOK(p, port)
  PROVE  /\ Marked(p, port) \subseteq Freed /\ IsFiniteSet(Marked(p, port))
         /\ (\A i \in DOMAIN port.nodes : port.nodes[i].queued = 0) => Marked(p, port) = {}
<1>1. CASE port.state = "IDLE"
  BY <1>1, FS_EmptySet DEF Marked
<1>2. CASE port.state # "IDLE"
  <2> DEFINE S == {j \in ActiveNodes(port) : port.nodes[j].queued > 0}
             f == [i \in S |-> [port |-> p, run |-> port.event, node |-> i,
                                when |-> port.nodes[i].when]]
             M == {f[i] : i \in S}
  <2>1. Marked(p, port) = M
    BY <1>2 DEF Marked
  <2>2. port.nodes \in Seq(Node) /\ port.event \in Int
    BY DEF PortOK, PortTyped, PortRec
  <2>3. IsFiniteSet(S)
    <3>1. S \subseteq ActiveNodes(port)
      OBVIOUS
    <3> QED BY <2>2, <3>1, ActiveFinite, FS_Subset
  <2>4. \A i \in S : i \in Nat /\ port.nodes[i].when \in Nat /\ i \in DOMAIN port.nodes
    BY <2>2, NodeFacts DEF ActiveNodes
  <2>5. M \subseteq Freed
    <3>1. \A i \in S : f[i] = [port |-> p, run |-> port.event, node |-> i,
                                when |-> port.nodes[i].when]
      OBVIOUS
    <3>2. \A i \in S : f[i] \in Freed
      BY <2>2, <2>4, <3>1 DEF Freed
    <3> HIDE DEF f, S
    <3> QED BY <3>2
  <2>6. f \in Surjection(S, M)
    <3>1. f = [i \in S |-> f[i]]
      OBVIOUS
    <3> HIDE DEF f, S
    <3> QED BY <3>1 DEF Surjection
  <2>7. IsFiniteSet(M)
    <3> HIDE DEF S, f, M
    <3> QED BY <2>3, <2>6, FS_Surjection
  <2>8. (\A i \in DOMAIN port.nodes : port.nodes[i].queued = 0) => S = {}
    BY <2>4
  <2> QED BY <2>1, <2>5, <2>7, <2>8
<1> QED BY <1>1, <1>2

-----------------------------------------------------------------------------
(* Changing the nodes of a port.                                           *)

\* Nothing but the nodes differs.
SamePort(port, new) ==
  /\ new.state = port.state /\ new.active = port.active /\ new.event = port.event
  /\ new.prog = port.prog /\ new.ends = port.ends
  /\ new.factor = port.factor /\ new.timed = port.timed

\* The port with other nodes.
WithNodes(port, ns) == [port EXCEPT !.nodes = ns]

\* Another list of nodes of the same length changes nothing else of a port.
LEMMA WithNodesTyped ==
  ASSUME NEW p \in Ports, NEW port, PortTyped(p, port),
         NEW ns \in Seq(Node), Len(ns) = Len(port.nodes)
  PROVE  /\ PortTyped(p, WithNodes(port, ns)) /\ SamePort(port, WithNodes(port, ns))
         /\ WithNodes(port, ns).nodes = ns
<1> DEFINE new == WithNodes(port, ns)
<1>1. port \in PortRec
  BY DEF PortTyped
<1>2. new = [state |-> port.state, active |-> port.active, event |-> port.event,
             prog |-> port.prog, nodes |-> ns, factor |-> port.factor,
             timed |-> port.timed, ends |-> port.ends]
  BY <1>1, PortFields DEF WithNodes, IsPort
<1> HIDE DEF new
<1>3. new \in PortRec
  BY <1>1, <1>2 DEF PortRec
<1>4. /\ new.nodes = ns /\ new.state = port.state /\ new.active = port.active
      /\ new.event = port.event /\ new.prog = port.prog /\ new.ends = port.ends
      /\ new.factor = port.factor /\ new.timed = port.timed
  BY <1>2
<1>5. port.state = "IDLE" => ns = <<>>
  <2>1. port.nodes = <<>> => ns = <<>>
    OBVIOUS
  <2> QED BY <2>1 DEF PortTyped
<1>6. PortTyped(p, new)
  BY <1>3, <1>4, <1>5 DEF PortTyped
<1> QED BY <1>4, <1>6 DEF new, SamePort

\* The port with another node at i.
WithNode(port, i, n) == [port EXCEPT !.nodes[i] = n]

\* Nothing but the node at i differs, which is n.
NodeChanged(port, new, i, n) ==
  /\ DOMAIN new.nodes = DOMAIN port.nodes /\ new.nodes[i] = n
  /\ \A j \in DOMAIN port.nodes : j # i => new.nodes[j] = port.nodes[j]

\* The same for one node.
LEMMA WithNodeTyped ==
  ASSUME NEW p \in Ports, NEW port, PortTyped(p, port),
         NEW i \in DOMAIN port.nodes, NEW n \in Node
  PROVE  /\ PortTyped(p, WithNode(port, i, n)) /\ SamePort(port, WithNode(port, i, n))
         /\ NodeChanged(port, WithNode(port, i, n), i, n)
<1> DEFINE ns == [port.nodes EXCEPT ![i] = n]
<1>1. port.nodes \in Seq(Node) /\ port \in PortRec
  BY DEF PortTyped, PortRec
<1>2. /\ ns \in Seq(Node) /\ Len(ns) = Len(port.nodes) /\ DOMAIN ns = DOMAIN port.nodes
      /\ ns[i] = n /\ \A j \in DOMAIN port.nodes : j # i => ns[j] = port.nodes[j]
  BY <1>1
<1>3. WithNode(port, i, n) = WithNodes(port, ns)
  BY <1>1 DEF WithNode, WithNodes, PortRec
<1> HIDE DEF ns
<1>4. /\ PortTyped(p, WithNodes(port, ns)) /\ SamePort(port, WithNodes(port, ns))
      /\ WithNodes(port, ns).nodes = ns
  BY <1>2, WithNodesTyped
<1> QED BY <1>2, <1>3, <1>4 DEF NodeChanged

\* A node that goes on: as active as before, and in the queue as often.
LEMMA GoesOn ==
  ASSUME NEW p \in Ports, NEW port, PortOK(p, port), NEW i \in DOMAIN port.nodes,
         NEW n \in Node, n.st = port.nodes[i].st, n.queued = port.nodes[i].queued
  PROVE  PortOK(p, WithNode(port, i, n))
<1> DEFINE new == WithNode(port, i, n)
<1>1. PortTyped(p, new) /\ SamePort(port, new) /\ NodeChanged(port, new, i, n)
  BY WithNodeTyped DEF PortOK
<1> HIDE DEF new
<1>2. ActiveNodes(new) = ActiveNodes(port)
  BY <1>1 DEF ActiveNodes, NodeChanged
<1>3. \A j \in DOMAIN new.nodes : NodeOK(new.nodes[j])
  BY <1>1 DEF PortOK, NodeOK, NodeChanged
<1> QED BY <1>1, <1>2, <1>3 DEF PortOK, SamePort, new


\* A node of a port that runs belongs to a stream of its program.
LEMMA NodeHasStream ==
  ASSUME NEW p \in Ports, NEW port, PortTyped(p, port), NEW i \in DOMAIN port.nodes
  PROVE  /\ port.state # "IDLE" /\ port.prog \in Programs
         /\ i \in DOMAIN port.prog /\ port.prog[i] \in Stream
         /\ DOMAIN port.prog = DOMAIN port.nodes
         /\ port.prog[i].next = NONE \/ port.prog[i].next \in DOMAIN port.nodes
<1>1. port.nodes \in Seq(Node) /\ port.prog \in Seq(Stream)
  BY DEF PortTyped, PortRec
<1>2. port.state # "IDLE"
  BY DEF PortTyped
<1>3. Len(port.nodes) = Len(port.prog)
  BY <1>2 DEF PortTyped
<1>4. DOMAIN port.prog = DOMAIN port.nodes /\ i \in DOMAIN port.prog
  BY <1>1, <1>3
<1>5. port.prog \in Programs
  BY <1>4 DEF PortTyped
<1>6. port.prog[i].next = NONE \/ port.prog[i].next \in DOMAIN port.nodes
  BY <1>4, <1>5, ProgramsAssumption
<1>7. port.prog[i] \in Stream
  BY <1>1, <1>4
<1> QED BY <1>2, <1>4, <1>5, <1>6, <1>7

\* A port one of whose nodes is over and that has not counted it yet.
PortOneOver(p, port) ==
  /\ PortTyped(p, port) /\ port.state # "IDLE"
  /\ port.active = Cardinality(ActiveNodes(port)) + 1
  /\ \A i \in DOMAIN port.nodes : NodeOK(port.nodes[i])

\* A queued node that becomes inactive leaves the count of active streams one too high.
LEMMA NodeOver ==
  ASSUME NEW p \in Ports, NEW port, PortOK(p, port), NEW i \in DOMAIN port.nodes,
         port.nodes[i].queued > 0,
         NEW n \in Node, n.st = "INACTIVE", n.queued = 0
  PROVE  /\ PortOneOver(p, WithNode(port, i, n)) /\ SamePort(port, WithNode(port, i, n))
         /\ NodeChanged(port, WithNode(port, i, n), i, n)
<1> DEFINE new == WithNode(port, i, n)
<1>1. PortTyped(p, new) /\ SamePort(port, new) /\ NodeChanged(port, new, i, n)
  BY WithNodeTyped DEF PortOK
<1> HIDE DEF new
<1>2. i \in ActiveNodes(port)
  <2>1. NodeOK(port.nodes[i])
    BY DEF PortOK
  <2>2. port.nodes[i].st = "ACTIVE"
    BY <2>1 DEF NodeOK
  <2> QED BY <2>2 DEF ActiveNodes
<1>3. ActiveNodes(new) = ActiveNodes(port) \ {i}
  BY <1>1 DEF ActiveNodes, NodeChanged
<1>4. port.nodes \in Seq(Node)
  BY DEF PortOK, PortTyped, PortRec
<1>5. IsFiniteSet(ActiveNodes(port)) /\ Cardinality(ActiveNodes(port)) \in Nat
  BY <1>4, ActiveFinite
<1>6. Cardinality(ActiveNodes(new)) = Cardinality(ActiveNodes(port)) - 1
  BY <1>2, <1>3, <1>5, FS_RemoveElement
<1>7. new.active = Cardinality(ActiveNodes(new)) + 1
  BY <1>1, <1>5, <1>6 DEF PortOK, SamePort
<1>8. \A j \in DOMAIN new.nodes : NodeOK(new.nodes[j])
  BY <1>1 DEF PortOK, NodeOK, NodeChanged
<1>9. new.state # "IDLE"
  BY <1>1, NodeHasStream DEF PortOK, SamePort
<1> QED BY <1>1, <1>7, <1>8, <1>9 DEF PortOneOver, new

\* The next stream takes its place.
LEMMA NextRefreshed ==
  ASSUME NEW p \in Ports, NEW port, PortOneOver(p, port), NEW i \in DOMAIN port.nodes,
         port.nodes[i].st = "INACTIVE",
         NEW n \in Node, n.st = "ACTIVE", n.queued = port.nodes[i].queued + 1
  PROVE  /\ PortOK(p, WithNode(port, i, n)) /\ SamePort(port, WithNode(port, i, n))
         /\ NodeChanged(port, WithNode(port, i, n), i, n)
<1> DEFINE new == WithNode(port, i, n)
<1>1. PortTyped(p, new) /\ SamePort(port, new) /\ NodeChanged(port, new, i, n)
  BY WithNodeTyped DEF PortOneOver
<1> HIDE DEF new
<1>2. i \notin ActiveNodes(port)
  BY DEF ActiveNodes
<1>3. ActiveNodes(new) = ActiveNodes(port) \cup {i}
  BY <1>1 DEF ActiveNodes, NodeChanged
<1>4. port.nodes \in Seq(Node)
  BY DEF PortOneOver, PortTyped, PortRec
<1>5. IsFiniteSet(ActiveNodes(port)) /\ Cardinality(ActiveNodes(port)) \in Nat
  BY <1>4, ActiveFinite
<1>6. Cardinality(ActiveNodes(new)) = Cardinality(ActiveNodes(port)) + 1
  BY <1>2, <1>3, <1>5, FS_AddElement
<1>7. new.active = Cardinality(ActiveNodes(new))
  BY <1>1, <1>6 DEF PortOneOver, SamePort
<1>8. \A j \in DOMAIN new.nodes : NodeOK(new.nodes[j])
  BY <1>1 DEF PortOneOver, NodeOK, NodeChanged
<1> QED BY <1>1, <1>7, <1>8 DEF PortOK, new

\* A number below the modulus is its own remainder.
LEMMA SmallMod ==
  ASSUME NEW m \in Nat \ {0}, NEW k \in 0..m - 1
  PROVE  k % m = k
BY Z3

\* Or there is one active stream less.
OneLess(port) == [port EXCEPT !.active = Wrap(@ - 1)]

\* Taking one off that count makes it exact again.
LEMMA OneLessOK ==
  ASSUME NEW p \in Ports, NEW port, PortOneOver(p, port)
  PROVE  /\ PortOK(p, OneLess(port)) /\ OneLess(port).nodes = port.nodes
         /\ OneLess(port).state = port.state /\ OneLess(port).event = port.event
         /\ OneLess(port).prog = port.prog /\ OneLess(port).timed = port.timed
         /\ OneLess(port).ends = port.ends
         /\ ActiveNodes(OneLess(port)) = ActiveNodes(port)
<1> DEFINE a == Wrap(port.active - 1)
           new == OneLess(port)
<1>1. port \in PortRec /\ port.nodes \in Seq(Node) /\ port.active \in 0..Modulus - 1
  BY DEF PortOneOver, PortTyped, PortRec
<1>2. Cardinality(ActiveNodes(port)) \in Nat /\ port.active = Cardinality(ActiveNodes(port)) + 1
  BY <1>1, ActiveFinite DEF PortOneOver
<1>3. Modulus \in Nat \ {0}
  BY BoundsAssumption
<1>4. port.active - 1 \in 0..Modulus - 1
  BY <1>1, <1>2, <1>3
<1>5. a = port.active - 1
  BY <1>3, <1>4, SmallMod DEF Wrap
<1>6. a = Cardinality(ActiveNodes(port)) /\ a \in 0..Modulus - 1
  BY <1>2, <1>4, <1>5
<1>7. new = [port EXCEPT !.active = a]
  BY DEF OneLess
<1> HIDE DEF a, new
<1>8. new = [state |-> port.state, active |-> a, event |-> port.event,
             prog |-> port.prog, nodes |-> port.nodes, factor |-> port.factor,
             timed |-> port.timed, ends |-> port.ends]
  BY <1>1, <1>7, PortFields DEF IsPort
<1>9. new \in PortRec
  BY <1>1, <1>6, <1>8 DEF PortRec
<1>10. /\ new.state = port.state /\ new.active = a /\ new.event = port.event
       /\ new.prog = port.prog /\ new.nodes = port.nodes /\ new.ends = port.ends
       /\ new.timed = port.timed
  BY <1>8
<1>11. PortTyped(p, new)
  BY <1>9, <1>10 DEF PortOneOver, PortTyped
<1>12. ActiveNodes(new) = ActiveNodes(port)
  BY <1>10 DEF ActiveNodes
<1> QED BY <1>6, <1>10, <1>11, <1>12 DEF PortOK, PortOneOver, new

-----------------------------------------------------------------------------
(* The invariant of the core.                                              *)

Cmd == [port : Ports, run : Nat, when : Nat]

PortsOK ==
  /\ ports = [p \in Ports |-> ports[p]]
  /\ \A p \in Ports : PortOK(p, ports[p])

FreedOK == freed \subseteq Freed /\ IsFiniteSet(freed)

\* The durations in the queue are counted, and none is of a run to come.
CmdsOK ==
  /\ cmds \subseteq Cmd /\ IsFiniteSet(cmds)
  /\ nonActive = Cardinality(cmds)
  /\ \A c \in cmds : c.run <= ports[c.port].event

TimesOK ==
  /\ exits \subseteq Nat /\ IsFiniteSet(exits)
  /\ sync \in {NoSync} \cup 0..SyncTime
  /\ phase = "sched" => sync # NoSync

NothingQueued ==
  \A p \in Ports : \A i \in DOMAIN ports[p].nodes : ports[p].nodes[i].queued = 0

\* What the thread knows where it is: a scheduler that was not told to quit ends
\* with no stream in the queue, and an idle core has nothing in it at all.
LoopOK ==
  /\ core \in {"IDLE", "TRANSMITTING", "TERMINATE"}
  /\ phase \in {"idle", "sched", "sync", "exit", "done"} \cup Aborted
  /\ terminated \in BOOLEAN
  /\ core = "TERMINATE" => terminated
  /\ exits # {} => terminated
  /\ phase = "exit" /\ ~terminated => NothingQueued
  /\ phase = "idle" /\ core = "IDLE" =>
       NothingQueued /\ freed = {} /\ cmds = {} /\ sync = NoSync /\ exits = {}

CoreInv == PortsOK /\ FreedOK /\ CmdsOK /\ TimesOK /\ LoopOK

\* One port changes.
LEMMA OnePort ==
  ASSUME PortsOK, NEW p \in Ports, NEW new, PortOK(p, new), ports' = [ports EXCEPT ![p] = new]
  PROVE  /\ PortsOK' /\ ports'[p] = new
         /\ \A q \in Ports : q # p => ports'[q] = ports[q]
<1>1. ports' = [q \in Ports |-> IF q = p THEN new ELSE ports[q]]
  BY DEF PortsOK
<1>2. /\ ports'[p] = new /\ \A q \in Ports : q # p => ports'[q] = ports[q]
      /\ ports' = [q \in Ports |-> ports'[q]]
  BY <1>1
<1> QED BY <1>2 DEF PortsOK

\* The queue, as pairs of a port and a node.
LEMMA QueuedNodes ==
  ASSUME PortsOK
  PROVE  /\ \A q \in Queued : /\ q[1] \in Ports /\ q[2] \in DOMAIN ports[q[1]].nodes
                              /\ ports[q[1]].nodes[q[2]].queued > 0 /\ q = <<q[1], q[2]>>
         /\ \A p \in Ports : \A i \in DOMAIN ports[p].nodes :
              ports[p].nodes[i].queued > 0 => <<p, i>> \in Queued
         /\ Queued = {} <=> NothingQueued
<1>1. \A q \in Queued : /\ q[1] \in Ports /\ q[2] \in DOMAIN ports[q[1]].nodes
                        /\ ports[q[1]].nodes[q[2]].queued > 0 /\ q = <<q[1], q[2]>>
  BY DEF Queued
<1>2. \A p \in Ports : \A i \in DOMAIN ports[p].nodes :
        ports[p].nodes[i].queued > 0 => <<p, i>> \in Queued
  <2> SUFFICES ASSUME NEW p \in Ports, NEW i \in DOMAIN ports[p].nodes,
                      ports[p].nodes[i].queued > 0
               PROVE  <<p, i>> \in Queued
    OBVIOUS
  <2>1. <<p, i>> \in UNION {{r} \X DOMAIN ports[r].nodes : r \in Ports}
    <3>1. <<p, i>> \in {p} \X DOMAIN ports[p].nodes
      OBVIOUS
    <3> QED BY <3>1
  <2>2. <<p, i>>[1] = p /\ <<p, i>>[2] = i
    OBVIOUS
  <2> DEFINE q == <<p, i>>
  <2> HIDE DEF q
  <2>3. q \in Queued
    BY <2>1, <2>2 DEF Queued, q
  <2> QED BY <2>3 DEF q
<1>3. \A p \in Ports : \A i \in DOMAIN ports[p].nodes : ports[p].nodes[i].queued \in Nat
  <2>1. \A p \in Ports : ports[p].nodes \in Seq(Node)
    BY DEF PortsOK, PortOK, PortTyped, PortRec
  <2> QED BY <2>1, NodeFacts
<1>4. ASSUME Queued = {} PROVE NothingQueued
  <2> SUFFICES ASSUME NEW p \in Ports, NEW i \in DOMAIN ports[p].nodes
               PROVE  ports[p].nodes[i].queued = 0
    BY DEF NothingQueued
  <2>1. ~(ports[p].nodes[i].queued > 0)
    BY <1>2, <1>4, Zenon
  <2> QED BY <1>3, <2>1
<1>5. ASSUME NothingQueued, NEW q \in Queued PROVE FALSE
  <2>1. /\ q[1] \in Ports /\ q[2] \in DOMAIN ports[q[1]].nodes
        /\ ports[q[1]].nodes[q[2]].queued > 0
    BY <1>1
  <2>2. ports[q[1]].nodes[q[2]].queued = 0
    BY <1>5, <2>1, Zenon DEF NothingQueued
  <2> QED BY <2>1, <2>2
<1> QED BY <1>1, <1>2, <1>4, <1>5, Zenon

\* The core starts in the invariant.
LEMMA InitCore == Init => CoreInv
<1> SUFFICES ASSUME Init PROVE CoreInv
  OBVIOUS
<1> DEFINE new == [state |-> "IDLE", active |-> 0, event |-> -1, prog |-> <<>>,
                   nodes |-> <<>>, factor |-> 1, timed |-> FALSE, ends |-> <<>>]
<1>1. 0 \in 0..Modulus - 1 /\ \A p \in Ports : MaxStarts[p] \in Nat
  BY BoundsAssumption
<1>2. <<>> \in Seq(Node) /\ <<>> \in Seq(Stream) /\ <<>> \in Seq(Int \X Causes) /\ Len(<<>>) = 0
  OBVIOUS
<1>3. new \in PortRec
  BY <1>1, <1>2 DEF PortRec
<1>4. new.active = Cardinality(ActiveNodes(new))
  BY NoNodes
<1>5. \A p \in Ports : PortOK(p, new)
  BY <1>1, <1>2, <1>3, <1>4 DEF PortOK, PortTyped
<1>6. ports = [p \in Ports |-> new]
  BY DEF Init
<1>7. PortsOK /\ NothingQueued
  BY <1>5, <1>6 DEF PortsOK, NothingQueued
<1>8. FreedOK /\ CmdsOK /\ TimesOK
  BY FS_EmptySet DEF Init, FreedOK, CmdsOK, TimesOK
<1> QED BY <1>7, <1>8 DEF Init, CoreInv, LoopOK

\* Stopping a port, for whatever cause: no assertion fails.
LEMMA StopPort ==
  ASSUME PortsOK, FreedOK, NEW p \in Ports, NEW port, PortOK(p, port),
         NEW cause \in Causes, stop_port(p, port, cause)
  PROVE  /\ phase' = phase /\ PortsOK' /\ FreedOK'
         /\ ports'[p] = Stopped(port, cause)
         /\ ports'[p].nodes = <<>> /\ ports'[p].event = port.event
         /\ ports'[p].state = "IDLE"
         /\ \A q \in Ports : q # p => ports'[q] = ports[q]
         /\ (\A i \in DOMAIN port.nodes : port.nodes[i].queued = 0) => freed' = freed
<1>1. StopAsserts(port)
  BY StopAssertsHold
<1>2. /\ phase' = phase /\ ports' = [ports EXCEPT ![p] = Stopped(port, cause)]
      /\ freed' = freed \cup Marked(p, port)
  BY <1>1 DEF stop_port
<1>3. /\ PortOK(p, Stopped(port, cause)) /\ Stopped(port, cause).nodes = <<>>
      /\ Stopped(port, cause).event = port.event /\ Stopped(port, cause).state = "IDLE"
  BY StoppedOK
<1>4. /\ PortsOK' /\ ports'[p] = Stopped(port, cause)
      /\ \A q \in Ports : q # p => ports'[q] = ports[q]
  BY <1>2, <1>3, OnePort
<1>5. /\ Marked(p, port) \subseteq Freed /\ IsFiniteSet(Marked(p, port))
      /\ (\A i \in DOMAIN port.nodes : port.nodes[i].queued = 0) => Marked(p, port) = {}
  BY MarkedOK
<1>6. FreedOK'
  BY <1>2, <1>5, FS_Union DEF FreedOK
<1> QED BY <1>2, <1>3, <1>4, <1>5, <1>6

-----------------------------------------------------------------------------
(* The messages.                                                           *)

\* The durations stay counted as long as no run goes back to an earlier one.
LEMMA SameCmds ==
  ASSUME CmdsOK, UNCHANGED <<cmds, nonActive>>,
         \A q \in Ports : ports'[q].event = ports[q].event
  PROVE  CmdsOK'
BY DEF CmdsOK, Cmd

\* A message that changes one port: a port with nothing in the queue still has
\* nothing in it.
LEMMA MessageStep ==
  ASSUME CoreInv, PortsOK', FreedOK', phase \in {"idle", "sync"}, NEW p \in Ports,
         UNCHANGED <<core, phase, terminated, cmds, nonActive, sync, exits>>,
         ports'[p].event = ports[p].event, \A q \in Ports : q # p => ports'[q] = ports[q],
         (\A i \in DOMAIN ports[p].nodes : ports[p].nodes[i].queued = 0) =>
            /\ freed' = freed
            /\ \A i \in DOMAIN ports'[p].nodes : ports'[p].nodes[i].queued = 0
  PROVE  CoreInv'
<1>1. CmdsOK'
  BY SameCmds DEF CoreInv
<1>2. TimesOK'
  BY DEF CoreInv, TimesOK
<1>3. NothingQueued => NothingQueued' /\ freed' = freed
  BY DEF NothingQueued
<1>4. LoopOK'
  BY <1>3 DEF CoreInv, LoopOK
<1> QED BY <1>1, <1>2, <1>4 DEF CoreInv

\* stop_traffic keeps the invariant.
LEMMA StopTraffic ==
  ASSUME CoreInv, NEW p \in Ports, stop_traffic(p)
  PROVE  CoreInv'
<1>1. PortsOK /\ FreedOK /\ PortOK(p, ports[p]) /\ stop_port(p, ports[p], "stop")
  BY DEF CoreInv, PortsOK, stop_traffic
<1>2. "stop" \in Causes
  BY DEF Causes
<1>3. /\ phase' = phase /\ PortsOK' /\ FreedOK'
      /\ ports'[p].nodes = <<>> /\ ports'[p].event = ports[p].event
      /\ \A q \in Ports : q # p => ports'[q] = ports[q]
      /\ (\A i \in DOMAIN ports[p].nodes : ports[p].nodes[i].queued = 0) => freed' = freed
  BY <1>1, <1>2, StopPort
<1> QED BY <1>3, MessageStep DEF stop_traffic, ReadsMessages

\* A message that changes the state or the rate of a port and no node.
WithState(port, st) == [port EXCEPT !.state = st]
WithFactor(port, f) == [port EXCEPT !.factor = f]

\* is_all_continues.
AllContinues(prog) == \A i \in DOMAIN prog : prog[i].type = "continuous"

\* A running port that is to stay one, with the same nodes.
Adjusted(p, port, new) ==
  /\ port.state # "IDLE"
  /\ PortOK(p, new) /\ new.nodes = port.nodes /\ new.event = port.event
  /\ new.prog = port.prog /\ new.state # "IDLE" /\ new.ends = port.ends
  /\ new.timed = port.timed /\ new.active = port.active
  /\ \/ new.state \in {port.state, "TRANSMITTING"}
     \/ AllContinues(port.prog)

\* Pausing and resuming change the state of a port and nothing else.
LEMMA WithStateOK ==
  ASSUME NEW p \in Ports, NEW port, PortOK(p, port), port.state # "IDLE",
         NEW st \in {"TRANSMITTING", "PAUSE"}, st = "PAUSE" => AllContinues(port.prog)
  PROVE  Adjusted(p, port, WithState(port, st)) /\ WithState(port, st).state = st
<1> DEFINE new == WithState(port, st)
<1>1. port \in PortRec
  BY DEF PortOK, PortTyped
<1>2. new = [state |-> st, active |-> port.active, event |-> port.event,
             prog |-> port.prog, nodes |-> port.nodes, factor |-> port.factor,
             timed |-> port.timed, ends |-> port.ends]
  BY <1>1, PortFields DEF WithState, IsPort
<1> HIDE DEF new
<1>3. new \in PortRec
  BY <1>1, <1>2 DEF PortRec
<1>4. /\ new.state = st /\ new.active = port.active /\ new.event = port.event
      /\ new.prog = port.prog /\ new.nodes = port.nodes /\ new.ends = port.ends
      /\ new.timed = port.timed
  BY <1>2
<1>5. PortTyped(p, new)
  BY <1>3, <1>4 DEF PortOK, PortTyped
<1>6. ActiveNodes(new) = ActiveNodes(port)
  BY <1>4 DEF ActiveNodes
<1> QED BY <1>4, <1>5, <1>6 DEF PortOK, Adjusted, new

\* A rate update changes the factor of a port and nothing else.
LEMMA WithFactorOK ==
  ASSUME NEW p \in Ports, NEW port, PortOK(p, port), port.state # "IDLE", NEW f \in Nat
  PROVE  Adjusted(p, port, WithFactor(port, f)) /\ WithFactor(port, f).state = port.state
<1> DEFINE new == WithFactor(port, f)
<1>1. port \in PortRec
  BY DEF PortOK, PortTyped
<1>2. new = [state |-> port.state, active |-> port.active, event |-> port.event,
             prog |-> port.prog, nodes |-> port.nodes, factor |-> f,
             timed |-> port.timed, ends |-> port.ends]
  BY <1>1, PortFields DEF WithFactor, IsPort
<1> HIDE DEF new
<1>3. new \in PortRec
  BY <1>1, <1>2 DEF PortRec
<1>4. /\ new.state = port.state /\ new.active = port.active /\ new.event = port.event
      /\ new.prog = port.prog /\ new.nodes = port.nodes /\ new.ends = port.ends
      /\ new.timed = port.timed
  BY <1>2
<1>5. PortTyped(p, new)
  BY <1>3, <1>4 DEF PortOK, PortTyped
<1>6. ActiveNodes(new) = ActiveNodes(port)
  BY <1>4 DEF ActiveNodes
<1> QED BY <1>4, <1>5, <1>6 DEF PortOK, Adjusted, new

\* Pause, resume and update keep the invariant and touch one port.
LEMMA RateOrPause ==
  ASSUME CoreInv, NEW p \in Ports,
         \/ pause_traffic(p) \/ resume_traffic(p)
         \/ \E f \in Factors : update_traffic(p, f)
  PROVE  /\ CoreInv' /\ Adjusted(p, ports[p], ports'[p])
         /\ \A q \in Ports : q # p => ports'[q] = ports[q]
<1> DEFINE port == ports[p]
<1>1. PortsOK /\ FreedOK /\ PortOK(p, port) /\ ports = [q \in Ports |-> ports[q]]
  BY DEF CoreInv, PortsOK
<1>2. /\ UNCHANGED <<core, phase, terminated, freed, cmds, nonActive, sync, exits>>
      /\ phase \in {"idle", "sync"} /\ port.state # "IDLE"
  BY DEF pause_traffic, resume_traffic, update_traffic, SetState, ReadsMessages
<1>3. PICK new : Adjusted(p, port, new) /\ ports' = [ports EXCEPT ![p] = new]
  <2>1. CASE pause_traffic(p)
    <3>1. ports' = [ports EXCEPT ![p] = WithState(port, "PAUSE")]
      BY <1>1, <2>1 DEF pause_traffic, SetState, WithState
    <3>2. AllContinues(port.prog)
      BY <2>1 DEF pause_traffic, MayPause, AllContinues
    <3>3. Adjusted(p, port, WithState(port, "PAUSE"))
      BY <1>1, <1>2, <3>2, WithStateOK
    <3> QED BY <3>1, <3>3
  <2>2. CASE resume_traffic(p)
    <3>1. ports' = [ports EXCEPT ![p] = WithState(port, "TRANSMITTING")]
      BY <1>1, <2>2 DEF resume_traffic, SetState, WithState
    <3>2. Adjusted(p, port, WithState(port, "TRANSMITTING"))
      BY <1>1, <1>2, WithStateOK
    <3> QED BY <3>1, <3>2
  <2>3. ASSUME NEW f \in Factors, update_traffic(p, f)
        PROVE  \E new : Adjusted(p, port, new) /\ ports' = [ports EXCEPT ![p] = new]
    <3>1. ports' = [ports EXCEPT ![p] = WithFactor(port, f)]
      BY <1>1, <2>3 DEF update_traffic, WithFactor
    <3>2. f \in Nat
      BY TimeAssumption
    <3>3. Adjusted(p, port, WithFactor(port, f))
      BY <1>1, <1>2, <3>2, WithFactorOK
    <3> QED BY <3>1, <3>3
  <2> QED BY <2>1, <2>2, <2>3
<1>4. PortsOK' /\ ports'[p] = new /\ \A q \in Ports : q # p => ports'[q] = ports[q]
  BY <1>1, <1>3, OnePort DEF Adjusted
<1>5. FreedOK'
  BY <1>1, <1>2 DEF FreedOK
<1>6. CoreInv'
  BY <1>2, <1>3, <1>4, <1>5, MessageStep DEF Adjusted
<1> QED BY <1>3, <1>4, <1>6

\* Starting a port.
Starts(prog) == {i \in DOMAIN prog : prog[i].start}

StartNodes(prog) == [i \in DOMAIN prog |-> add_stream(prog[i])]

Started(port, prog, duration) ==
  [state |-> "TRANSMITTING", active |-> Cardinality(Starts(prog)), event |-> port.event + 1,
   prog |-> prog, nodes |-> StartNodes(prog), factor |-> 1, timed |-> duration > 0,
   ends |-> port.ends]

\* The node of a stream is active exactly if the stream starts by itself.
LEMMA AddStreamOK ==
  ASSUME NEW s \in Stream
  PROVE  /\ add_stream(s) \in Node /\ NodeOK(add_stream(s))
         /\ add_stream(s).st = "ACTIVE" <=> s.start
<1> DEFINE n == add_stream(s)
<1>1. /\ s.start \in BOOLEAN /\ s.pkts \in 0..Modulus - 1 /\ s.bursts \in 0..Modulus - 1
      /\ s.isg \in Nat
  BY DEF Stream
<1>2. 0 \in 0..Modulus - 1
  BY BoundsAssumption
<1>3. /\ n.st = IF s.start THEN "ACTIVE" ELSE "INACTIVE"
      /\ n.queued = IF s.start THEN 1 ELSE 0
  BY DEF add_stream
<1>4. n \in Node
  <2> DEFINE a == IF s.start THEN "ACTIVE" ELSE "INACTIVE"
             b == IF s.type = "burst" THEN s.pkts ELSE 0
             c == IF s.type = "burst" THEN s.bursts ELSE 0
             d == IF s.start THEN s.isg ELSE 0
             e == IF s.start THEN 1 ELSE 0
  <2>1. /\ a \in {"INACTIVE", "ACTIVE"} /\ b \in 0..Modulus - 1 /\ c \in 0..Modulus - 1
        /\ d \in Nat /\ e \in Nat
    BY <1>1, <1>2
  <2>2. n = [st |-> a, single |-> b, multi |-> c, when |-> d, queued |-> e, sent |-> 0]
    BY DEF add_stream
  <2> HIDE DEF a, b, c, d, e, n
  <2> QED BY <2>1, <2>2 DEF Node
<1> QED BY <1>1, <1>3, <1>4 DEF NodeOK

\* A started port is consistent.
LEMMA StartedOK ==
  ASSUME NEW p \in Ports, NEW port, PortOK(p, port), port.event + 1 < MaxStarts[p],
         NEW prog \in Programs, NEW d \in Nat
  PROVE  PortOK(p, Started(port, prog, d))
<1> DEFINE new == Started(port, prog, d)
           ns == StartNodes(prog)
<1>1. /\ port \in PortRec /\ port.event \in -1..MaxStarts[p] /\ MaxStarts[p] \in Nat
      /\ Len(port.ends) <= port.event + 1 /\ port.ends \in Seq(Int \X Causes)
  BY BoundsAssumption DEF PortOK, PortTyped, PortRec
<1>2. /\ prog \in Seq(Stream) /\ Len(prog) \in Nat /\ Len(prog) < Modulus
      /\ DOMAIN prog = 1..Len(prog)
  BY ProgramsAssumption
<1>3. \A i \in DOMAIN prog : /\ add_stream(prog[i]) \in Node /\ NodeOK(add_stream(prog[i]))
                             /\ add_stream(prog[i]).st = "ACTIVE" <=> prog[i].start
  BY <1>2, AddStreamOK
<1>4. /\ ns \in Seq(Node) /\ Len(ns) = Len(prog) /\ DOMAIN ns = DOMAIN prog
      /\ \A i \in DOMAIN prog : ns[i] = add_stream(prog[i])
  BY <1>2, <1>3 DEF StartNodes
<1> DEFINE a == Cardinality(Starts(prog))
<1>5. /\ new.state = "TRANSMITTING" /\ new.active = a
      /\ new.event = port.event + 1 /\ new.prog = prog /\ new.nodes = ns
      /\ new.ends = port.ends
  BY DEF Started
<1>6. ActiveNodes(new) = Starts(prog)
  <2> HIDE DEF new, ns
  <2> QED BY <1>3, <1>4, <1>5 DEF ActiveNodes, Starts
<1>7. a \in 0..Modulus - 1
  <2>1. a \in Nat /\ a <= Len(ns)
    BY <1>4, <1>5, <1>6, ActiveFinite
  <2> QED BY <1>2, <1>4, <2>1, BoundsAssumption
<1>8. new \in PortRec
  <2>1. port.event + 1 \in Int /\ (d > 0) \in BOOLEAN
    BY <1>1
  <2>2. new = [state |-> "TRANSMITTING", active |-> a, event |-> port.event + 1,
               prog |-> prog, nodes |-> ns, factor |-> 1, timed |-> d > 0,
               ends |-> port.ends]
    BY DEF Started
  <2> HIDE DEF new, ns, a
  <2> QED BY <1>1, <1>2, <1>4, <1>7, <2>1, <2>2 DEF PortRec
<1> HIDE DEF new, ns, a
<1>9. PortTyped(p, new)
  <2>1. new.event \in -1..MaxStarts[p] /\ Len(new.ends) <= new.event
    BY <1>1, <1>5
  <2> QED BY <1>4, <1>5, <1>8, <2>1 DEF PortTyped
<1>10. \A i \in DOMAIN new.nodes : NodeOK(new.nodes[i])
  BY <1>3, <1>4, <1>5
<1> QED BY <1>5, <1>6, <1>9, <1>10 DEF PortOK, new, a

\* What start_traffic makes of the port.
LEMMA StartTraffic ==
  ASSUME CoreInv, NEW p \in Ports, NEW prog \in Programs, NEW d \in Durations,
         start_traffic(p, prog, d)
  PROVE  /\ CoreInv' /\ phase' = phase
         /\ ports'[p] = Started(ports[p], prog, d) /\ ports[p].nodes = <<>>
         /\ \A q \in Ports : q # p => ports'[q] = ports[q]
<1> DEFINE port == ports[p]
           new == Started(port, prog, d)
           id == port.event + 1
           c == [port |-> p, run |-> id, when |-> d]
<1>1. PortsOK /\ PortOK(p, port) /\ port \in PortRec
  BY DEF CoreInv, PortsOK, PortOK, PortTyped
<1>2. /\ phase \in {"idle", "sync"} /\ port.nodes = <<>> /\ id < MaxStarts[p]
      /\ core' = "TRANSMITTING" /\ UNCHANGED <<terminated, freed, sync, exits>>
      /\ d \in Nat
  BY TimeAssumption DEF start_traffic, ReadsMessages
<1>3. phase' = phase
  BY DEF start_traffic
<1>4. ports' = [ports EXCEPT ![p] = new]
  BY <1>1 DEF start_traffic, Starts, StartNodes, Started, PortsOK
<1>5. PortOK(p, new)
  BY <1>1, <1>2, StartedOK
<1>6. new.event = id
  BY DEF Started
<1> HIDE DEF new
<1>7. PortsOK' /\ ports'[p] = new /\ \A q \in Ports : q # p => ports'[q] = ports[q]
  BY <1>1, <1>4, <1>5, OnePort
<1>8. FreedOK' /\ TimesOK'
  BY <1>2, <1>3 DEF CoreInv, FreedOK, TimesOK
<1>9. CmdsOK'
  <2>1. id \in Nat /\ port.event \in Int
    BY <1>1 DEF PortOK, PortTyped, PortRec
  <2>2. /\ cmds \subseteq Cmd /\ IsFiniteSet(cmds) /\ nonActive = Cardinality(cmds)
        /\ \A x \in cmds : x.run <= ports[x.port].event /\ x.port \in Ports /\ x.run \in Nat
    BY DEF CoreInv, CmdsOK, Cmd
  <2>3. \A x \in cmds : x.run <= ports'[x.port].event
    BY <1>6, <1>7, <2>1, <2>2
  <2>4. CASE d > 0
    <3>1. cmds' = cmds \cup {c} /\ nonActive' = nonActive + 1
      BY <2>4 DEF start_traffic
    <3>2. c \in Cmd /\ c.run = id /\ c.port = p
      BY <1>2, <2>1 DEF Cmd
    <3> HIDE DEF c
    <3>3. c \notin cmds
      BY <2>1, <2>2, <3>2
    <3>4. IsFiniteSet(cmds') /\ Cardinality(cmds') = Cardinality(cmds) + 1
      BY <2>2, <3>1, <3>3, FS_AddElement
    <3>5. \A x \in cmds' : x.run <= ports'[x.port].event
      BY <1>6, <1>7, <2>1, <2>3, <3>1, <3>2
    <3> QED BY <2>2, <3>1, <3>2, <3>4, <3>5 DEF CmdsOK
  <2>5. CASE ~(d > 0)
    <3>1. UNCHANGED <<cmds, nonActive>>
      BY <2>5 DEF start_traffic
    <3> QED BY <2>2, <2>3, <3>1 DEF CmdsOK
  <2> QED BY <2>4, <2>5
<1>10. LoopOK'
  BY <1>2, <1>3 DEF CoreInv, LoopOK
<1> QED BY <1>2, <1>3, <1>7, <1>8, <1>9, <1>10 DEF CoreInv, new

\* A message that ends the process leaves everything as it is.
LEMMA MessageFails == CoreInv /\ message_assert_fails => CoreInv' /\ ports' = ports
<1> SUFFICES ASSUME CoreInv, message_assert_fails PROVE CoreInv' /\ ports' = ports
  OBVIOUS
<1>1. /\ UNCHANGED <<core, terminated, ports, freed, cmds, nonActive, sync, exits>>
      /\ phase' = "abort_message"
  BY DEF message_assert_fails
<1>2. PortsOK' /\ FreedOK' /\ CmdsOK' /\ TimesOK'
  BY <1>1 DEF CoreInv, PortsOK, FreedOK, CmdsOK, TimesOK
<1>3. LoopOK'
  BY <1>1 DEF CoreInv, LoopOK
<1> QED BY <1>1, <1>2, <1>3 DEF CoreInv

\* quit_main_loop keeps the invariant.
LEMMA QuitMainLoop == CoreInv /\ quit_main_loop => CoreInv'
<1> SUFFICES ASSUME CoreInv, quit_main_loop PROVE CoreInv'
  OBVIOUS
<1>1. /\ terminated' = TRUE /\ core' = "TERMINATE" /\ exits' = exits \cup {ExitTime}
      /\ UNCHANGED <<phase, ports, freed, cmds, nonActive, sync>>
      /\ phase \in {"idle", "sync"}
  BY DEF quit_main_loop, ReadsMessages
<1>2. IsFiniteSet(exits') /\ exits' \subseteq Nat
  BY <1>1, TimeAssumption, FS_AddElement DEF CoreInv, TimesOK
<1>3. PortsOK' /\ FreedOK' /\ CmdsOK' /\ TimesOK'
  BY <1>1, <1>2 DEF CoreInv, PortsOK, FreedOK, CmdsOK, TimesOK
<1>4. LoopOK'
  BY <1>1 DEF CoreInv, LoopOK
<1> QED BY <1>3, <1>4 DEF CoreInv

-----------------------------------------------------------------------------
(* The loop of the thread.                                                 *)

\* The end of the idle loop keeps the invariant.
LEMMA LeaveIdle == CoreInv /\ leave_idle => CoreInv'
<1> SUFFICES ASSUME CoreInv, leave_idle PROVE CoreInv'
  OBVIOUS
<1>1. /\ UNCHANGED <<core, terminated, ports, freed, cmds, nonActive, exits>>
      /\ \/ phase' = "done" /\ sync' = sync
         \/ phase' = "sched" /\ sync' = SyncTime
  BY DEF leave_idle
<1>2. PortsOK' /\ FreedOK' /\ CmdsOK'
  BY <1>1 DEF CoreInv, PortsOK, FreedOK, CmdsOK
<1>3. TimesOK'
  BY <1>1, TimeAssumption DEF CoreInv, TimesOK, NoSync
<1>4. LoopOK'
  BY <1>1 DEF CoreInv, LoopOK
<1> QED BY <1>2, <1>3, <1>4 DEF CoreInv

\* The nodes of a port when the clock has moved by d.
ShiftedNodes(port, d) ==
  [i \in DOMAIN port.nodes |->
     IF port.nodes[i].queued > 0 THEN Earlier(port.nodes[i], d) ELSE port.nodes[i]]

\* Nothing but the times of two lists of nodes differs.
SameButTimes(ns, ms) ==
  /\ DOMAIN ms = DOMAIN ns
  /\ \A i \in DOMAIN ns :
       /\ ms[i].st = ns[i].st /\ ms[i].queued = ns[i].queued /\ ms[i].sent = ns[i].sent
       /\ ms[i].single = ns[i].single /\ ms[i].multi = ns[i].multi

\* When time is counted from a later moment, nodes change in their times only.
LEMMA ShiftedNodesOK ==
  ASSUME NEW port, port.nodes \in Seq(Node), NEW d \in Nat,
         \A i \in DOMAIN port.nodes : port.nodes[i].queued > 0 => d <= port.nodes[i].when
  PROVE  /\ ShiftedNodes(port, d) \in Seq(Node)
         /\ Len(ShiftedNodes(port, d)) = Len(port.nodes)
         /\ SameButTimes(port.nodes, ShiftedNodes(port, d))
<1> DEFINE ns == port.nodes
           ms == ShiftedNodes(port, d)
<1>1. ASSUME NEW i \in DOMAIN ns
      PROVE  /\ ms[i] \in Node /\ ms[i].st = ns[i].st /\ ms[i].queued = ns[i].queued
             /\ ms[i].single = ns[i].single /\ ms[i].multi = ns[i].multi
             /\ ms[i].sent = ns[i].sent
  <2> DEFINE n == ns[i]
             w == IF n.queued > 0 THEN n.when - d ELSE n.when
  <2>1. /\ n \in Node /\ n.st \in {"INACTIVE", "ACTIVE"}
        /\ n.single \in 0..Modulus - 1 /\ n.multi \in 0..Modulus - 1
        /\ n.when \in Nat /\ n.queued \in Nat /\ n.sent \in Nat
    BY NodeFacts
  <2>2. w \in Nat
    BY <2>1
  <2>3. ms[i] = IF n.queued > 0 THEN Earlier(n, d) ELSE n
    BY DEF ShiftedNodes
  <2>4. ms[i] = [st |-> n.st, single |-> n.single, multi |-> n.multi, when |-> w,
                 queued |-> n.queued, sent |-> n.sent]
    <3>1. CASE n.queued > 0
      <4>1. ms[i] = [n EXCEPT !.when = w]
        BY <2>3, <3>1 DEF Earlier
      <4> HIDE DEF w, n, ms
      <4> QED BY <2>1, <4>1 DEF Node
    <3>2. CASE ~(n.queued > 0)
      <4>1. ms[i] = n /\ w = n.when
        BY <2>3, <3>2
      <4> HIDE DEF w, n, ms
      <4> QED BY <2>1, <4>1 DEF Node
    <3> QED BY <3>1, <3>2
  <2> HIDE DEF w, n, ms
  <2>5. ms[i] \in Node
    BY <2>1, <2>2, <2>4 DEF Node
  <2> QED BY <2>4, <2>5 DEF n
<1>2. DOMAIN ms = DOMAIN ns
  BY DEF ShiftedNodes
<1>3. ms = [i \in DOMAIN ns |-> ms[i]]
  BY DEF ShiftedNodes
<1> HIDE DEF ms
<1>4. ms \in Seq(Node) /\ Len(ms) = Len(ns)
  <2>1. ns \in Seq(Node) /\ DOMAIN ns = 1..Len(ns) /\ Len(ns) \in Nat
    OBVIOUS
  <2>2. ms \in [1..Len(ns) -> Node]
    BY <1>1, <1>2, <1>3, <2>1
  <2> QED BY <2>1, <2>2
<1> QED BY <1>1, <1>2, <1>4 DEF ms, SameButTimes

\* The same for a port.
LEMMA ShiftedPort ==
  ASSUME NEW p \in Ports, NEW port, PortOK(p, port), NEW d \in Nat,
         \A i \in DOMAIN port.nodes : port.nodes[i].queued > 0 => d <= port.nodes[i].when,
         NEW new, new = WithNodes(port, ShiftedNodes(port, d))
  PROVE  PortOK(p, new) /\ SamePort(port, new) /\ SameButTimes(port.nodes, new.nodes)
<1> DEFINE ms == ShiftedNodes(port, d)
<1>1. PortTyped(p, port) /\ port.nodes \in Seq(Node)
  BY DEF PortOK, PortTyped, PortRec
<1>2. ms \in Seq(Node) /\ Len(ms) = Len(port.nodes) /\ SameButTimes(port.nodes, ms)
  BY <1>1, ShiftedNodesOK
<1> HIDE DEF ms
<1>3. PortTyped(p, new) /\ SamePort(port, new) /\ new.nodes = ms
  BY <1>1, <1>2, WithNodesTyped DEF ms
<1>4. ActiveNodes(new) = ActiveNodes(port)
  BY <1>2, <1>3 DEF ActiveNodes, SameButTimes
<1>5. \A i \in DOMAIN new.nodes : NodeOK(new.nodes[i])
  BY <1>2, <1>3 DEF PortOK, NodeOK, SameButTimes
<1> QED BY <1>2, <1>3, <1>4, <1>5 DEF PortOK, SamePort

\* A queued thing is not earlier than the top of the queue.
LEMMA TopIsFirst ==
  ASSUME CoreInv, NEW t, IsTop(t)
  PROVE  /\ \A p \in Ports : \A i \in DOMAIN ports[p].nodes :
              ports[p].nodes[i].queued > 0 => t <= ports[p].nodes[i].when
         /\ \A f \in freed : t <= f.when
         /\ \A c \in cmds : t <= c.when
         /\ \A u \in exits : t <= u
<1>1. ASSUME NEW p \in Ports, NEW i \in DOMAIN ports[p].nodes, ports[p].nodes[i].queued > 0
      PROVE  t <= ports[p].nodes[i].when
  <2> DEFINE q == <<p, i>>
  <2>1. q \in Queued
    BY <1>1, QueuedNodes DEF CoreInv
  <2>2. q[1] = p /\ q[2] = i
    OBVIOUS
  <2> HIDE DEF q
  <2>3. ports[q[1]].nodes[q[2]].when \in Times
    BY <2>1 DEF Times
  <2> QED BY <2>2, <2>3 DEF IsTop
<1>2. \A f \in freed : f.when \in Times
  BY DEF Times
<1>3. \A c \in cmds : c.when \in Times
  BY DEF Times
<1>4. \A u \in exits : u \in Times
  BY DEF Times
<1> QED BY <1>1, <1>2, <1>3, <1>4 DEF IsTop

\* The same for the nodes of stopped ports in the queue.
LEMMA FreedEarlier ==
  ASSUME NEW S, S \subseteq Freed, IsFiniteSet(S), NEW d \in Nat, \A f \in S : d <= f.when
  PROVE  /\ {Earlier(f, d) : f \in S} \subseteq Freed
         /\ IsFiniteSet({Earlier(f, d) : f \in S})
<1> DEFINE g == [f \in S |-> Earlier(f, d)]
           T == {Earlier(f, d) : f \in S}
<1>1. ASSUME NEW f \in S PROVE Earlier(f, d) \in Freed
  <2> DEFINE w == f.when - d
  <2>1. f \in Freed /\ f.when \in Nat
    BY DEF Freed
  <2>2. w \in Nat
    BY <2>1
  <2>3. Earlier(f, d) = [f EXCEPT !.when = w]
    BY DEF Earlier
  <2> HIDE DEF w
  <2> QED BY <2>1, <2>2, <2>3 DEF Freed
<1>2. g \in Surjection(S, T)
  <2>1. /\ \A f \in S : g[f] = Earlier(f, d)
        /\ g = [f \in S |-> g[f]]
    OBVIOUS
  <2> HIDE DEF g
  <2> QED BY <2>1 DEF Surjection
<1> HIDE DEF g
<1>3. IsFiniteSet(T)
  BY <1>2, FS_Surjection
<1> QED BY <1>1, <1>3

\* The same for one duration.
LEMMA CmdEarlier ==
  ASSUME NEW c \in Cmd, NEW d \in Nat, d <= c.when
  PROVE  /\ Earlier(c, d) \in Cmd /\ Earlier(c, d).port = c.port /\ Earlier(c, d).run = c.run
         /\ Earlier(c, d).when = c.when - d
<1> DEFINE w == c.when - d
<1>1. c.when \in Nat /\ c.port \in Ports /\ c.run \in Nat
  BY DEF Cmd
<1>2. w \in Nat
  BY <1>1
<1>3. Earlier(c, d) = [c EXCEPT !.when = w]
  BY DEF Earlier
<1> HIDE DEF w
<1>4. Earlier(c, d) = [port |-> c.port, run |-> c.run, when |-> w]
  BY <1>3 DEF Cmd
<1> QED BY <1>1, <1>2, <1>4 DEF Cmd, w

\* The same for the durations in the queue: none is lost.
LEMMA CmdsEarlier ==
  ASSUME NEW S, S \subseteq Cmd, IsFiniteSet(S), NEW d \in Nat, \A c \in S : d <= c.when
  PROVE  /\ {Earlier(c, d) : c \in S} \subseteq Cmd
         /\ IsFiniteSet({Earlier(c, d) : c \in S})
         /\ Cardinality({Earlier(c, d) : c \in S}) = Cardinality(S)
<1> DEFINE g == [c \in S |-> Earlier(c, d)]
           T == {Earlier(c, d) : c \in S}
<1>1. \A c \in S : /\ Earlier(c, d) \in Cmd /\ Earlier(c, d).port = c.port
                   /\ Earlier(c, d).run = c.run /\ Earlier(c, d).when = c.when - d
  BY CmdEarlier
<1>2. ASSUME NEW c \in S, NEW b \in S, Earlier(c, d) = Earlier(b, d)
      PROVE  c = b
  <2>1. c.port = b.port /\ c.run = b.run /\ c.when - d = b.when - d
    BY <1>1, <1>2
  <2>2. c \in Cmd /\ b \in Cmd /\ c.when \in Nat /\ b.when \in Nat
    BY DEF Cmd
  <2>3. c.when = b.when
    BY <2>1, <2>2
  <2> QED BY <2>1, <2>2, <2>3 DEF Cmd
<1>3. /\ \A c \in S : g[c] = Earlier(c, d)
      /\ g = [c \in S |-> g[c]]
  OBVIOUS
<1> HIDE DEF g
<1>4. g \in Surjection(S, T)
  BY <1>3 DEF Surjection
<1>5. g \in Injection(S, T)
  <2>1. g \in [S -> T]
    BY <1>3
  <2>2. \A a, b \in S : g[a] = g[b] => a = b
    BY <1>2, <1>3
  <2> QED BY <2>1, <2>2 DEF Injection, IsInjective
<1>6. IsFiniteSet(T) /\ Cardinality(T) = Cardinality(S)
  BY <1>4, <1>5, FS_Surjection
<1> QED BY <1>1, <1>6

\* The same for the exit nodes.
LEMMA TimesEarlier ==
  ASSUME NEW S, S \subseteq Nat, IsFiniteSet(S), NEW d \in Nat, \A t \in S : d <= t
  PROVE  {t - d : t \in S} \subseteq Nat /\ IsFiniteSet({t - d : t \in S})
<1> DEFINE g == [t \in S |-> t - d]
           T == {t - d : t \in S}
<1>1. g \in Surjection(S, T)
  <2>1. /\ \A t \in S : g[t] = t - d
        /\ g = [t \in S |-> g[t]]
    OBVIOUS
  <2> HIDE DEF g
  <2> QED BY <2>1 DEF Surjection
<1> HIDE DEF g
<1>2. IsFiniteSet(T)
  BY <1>1, FS_Surjection
<1>3. T \subseteq Nat
  OBVIOUS
<1> QED BY <1>2, <1>3

\* FLOW_SYNC: no time becomes negative, since the node is the first of the queue.
LEMMA PopSync ==
  ASSUME CoreInv, pop_sync
  PROVE  /\ CoreInv'
         /\ \A p \in Ports : /\ SamePort(ports[p], ports'[p])
                             /\ SameButTimes(ports[p].nodes, ports'[p].nodes)
<1>1. /\ sync \in Nat /\ IsTop(sync) /\ phase' = "sync" /\ sync' = NoSync
      /\ UNCHANGED <<core, terminated, nonActive>>
  BY DEF CoreInv, TimesOK, pop_sync, NoSync
<1>2. /\ \A p \in Ports : \A i \in DOMAIN ports[p].nodes :
           ports[p].nodes[i].queued > 0 => sync <= ports[p].nodes[i].when
      /\ \A f \in freed : sync <= f.when
      /\ \A c \in cmds : sync <= c.when
      /\ \A u \in exits : sync <= u
  BY <1>1, TopIsFirst
<1>3. ports' = [p \in Ports |-> WithNodes(ports[p], ShiftedNodes(ports[p], sync))]
  BY DEF pop_sync, WithNodes, ShiftedNodes
<1>4. ASSUME NEW p \in Ports
      PROVE  /\ PortOK(p, ports'[p]) /\ SamePort(ports[p], ports'[p])
             /\ SameButTimes(ports[p].nodes, ports'[p].nodes)
  <2>1. PortOK(p, ports[p])
    BY DEF CoreInv, PortsOK
  <2>2. ports'[p] = WithNodes(ports[p], ShiftedNodes(ports[p], sync))
    BY <1>3
  <2> QED BY <1>1, <1>2, <2>1, <2>2, ShiftedPort
<1>5. PortsOK'
  <2>1. ports' = [p \in Ports |-> ports'[p]]
    BY <1>3
  <2> QED BY <1>4, <2>1 DEF PortsOK
<1>6. FreedOK'
  <2>1. freed' = {Earlier(f, sync) : f \in freed}
    BY DEF pop_sync
  <2> QED BY <1>1, <1>2, <2>1, FreedEarlier DEF CoreInv, FreedOK
<1>7. CmdsOK'
  <2>1. cmds' = {Earlier(c, sync) : c \in cmds}
    BY DEF pop_sync
  <2>2. /\ cmds \subseteq Cmd /\ IsFiniteSet(cmds) /\ nonActive = Cardinality(cmds)
        /\ \A x \in cmds : x.run <= ports[x.port].event /\ x.port \in Ports
    BY DEF CoreInv, CmdsOK, Cmd
  <2>3. cmds' \subseteq Cmd /\ IsFiniteSet(cmds') /\ Cardinality(cmds') = Cardinality(cmds)
    BY <1>1, <1>2, <2>1, <2>2, CmdsEarlier
  <2>4. \A x \in cmds' : \E c \in cmds : x.port = c.port /\ x.run = c.run
    BY <1>1, <1>2, <2>1, <2>2, CmdEarlier
  <2>5. \A x \in cmds' : x.run <= ports'[x.port].event
    BY <1>4, <2>2, <2>4 DEF SamePort
  <2> QED BY <1>1, <2>2, <2>3, <2>5 DEF CmdsOK
<1>8. TimesOK'
  <2>1. exits' = {t - sync : t \in exits}
    BY DEF pop_sync
  <2>2. exits' \subseteq Nat /\ IsFiniteSet(exits')
    BY <1>1, <1>2, <2>1, TimesEarlier DEF CoreInv, TimesOK
  <2> QED BY <1>1, <2>2 DEF TimesOK
<1>9. LoopOK'
  <2>1. exits' # {} => exits # {}
    BY DEF pop_sync
  <2> QED BY <1>1, <2>1 DEF CoreInv, LoopOK
<1> QED BY <1>4, <1>5, <1>6, <1>7, <1>8, <1>9 DEF CoreInv

\* The queue holds finitely many nodes.
LEMMA QueueIsFinite ==
  ASSUME CoreInv
  PROVE  IsFiniteSet(NodesInQueue) /\ Cardinality(NodesInQueue) \in Nat
<1> DEFINE Pos == (Ports \X (1..Modulus)) \X {1}
<1>1. Modulus \in Nat
  BY BoundsAssumption
<1>2. IsFiniteSet(Pos)
  <2>1. IsFiniteSet(1..Modulus)
    BY <1>1, FS_Interval
  <2>2. IsFiniteSet(Ports \X (1..Modulus))
    BY <2>1, PortsAssumption, FS_Product
  <2>3. IsFiniteSet({1})
    BY FS_Singleton
  <2> QED BY <2>2, <2>3, FS_Product
<1>3. ASSUME NEW q \in Queued PROVE {q} \X (1..ports[q[1]].nodes[q[2]].queued) \subseteq Pos
  <2> DEFINE n == ports[q[1]].nodes[q[2]]
  <2>1. /\ q[1] \in Ports /\ q[2] \in DOMAIN ports[q[1]].nodes
        /\ n.queued > 0 /\ q = <<q[1], q[2]>>
    BY QueuedNodes DEF CoreInv
  <2>2. PortOK(q[1], ports[q[1]])
    BY <2>1 DEF CoreInv, PortsOK
  <2>3. NodeOK(n)
    BY <2>1, <2>2 DEF PortOK
  <2>4. n.queued = 1
    BY <2>1, <2>3 DEF NodeOK
  <2>5. PortTyped(q[1], ports[q[1]]) /\ ports[q[1]].prog \in Seq(Stream)
    BY <2>2 DEF PortOK, PortTyped, PortRec
  <2>6. /\ q[2] \in DOMAIN ports[q[1]].prog /\ ports[q[1]].prog \in Programs
    BY <2>1, <2>5, NodeHasStream
  <2>7. q[2] \in 1..Modulus
    BY <1>1, <2>5, <2>6, ProgramsAssumption
  <2>8. q \in Ports \X (1..Modulus)
    BY <2>1, <2>7
  <2>9. 1..n.queued = {1}
    BY <2>4
  <2> QED BY <2>8, <2>9
<1>4. NodesInQueue \subseteq Pos
  BY <1>3 DEF NodesInQueue
<1> QED BY <1>2, <1>4, FS_Subset, FS_CardinalityType

\* When the queue is as long as the list of durations, no stream is in it.
LEMMA OnlyDurationsLeft ==
  ASSUME CoreInv, QueueSize = nonActive
  PROVE  NothingQueued /\ freed = {}
<1> DEFINE a == Cardinality(NodesInQueue)
           b == Cardinality(freed)
           c == Cardinality(cmds)
           d == Cardinality(exits)
           e == IF sync = NoSync THEN 0 ELSE 1
<1>1. a \in Nat /\ b \in Nat /\ c \in Nat /\ d \in Nat /\ e \in Nat
  BY QueueIsFinite, FS_CardinalityType DEF CoreInv, FreedOK, CmdsOK, TimesOK
<1>2. a + b + c + d + e = c
  BY DEF QueueSize, CoreInv, CmdsOK
<1>3. a = 0 /\ b = 0
  <2> HIDE DEF a, b, c, d, e
  <2> QED BY <1>1, <1>2
<1>4. NodesInQueue = {} /\ freed = {}
  BY <1>3, QueueIsFinite, FS_EmptySet DEF CoreInv, FreedOK
<1>5. Queued = {}
  <2> SUFFICES ASSUME NEW q \in Queued PROVE FALSE
    OBVIOUS
  <2> DEFINE n == ports[q[1]].nodes[q[2]]
  <2>1. /\ q[1] \in Ports /\ q[2] \in DOMAIN ports[q[1]].nodes /\ n.queued > 0
    BY QueuedNodes DEF CoreInv
  <2>2. NodeOK(n)
    BY <2>1 DEF CoreInv, PortsOK, PortOK
  <2>3. 1 \in 1..n.queued
    BY <2>1, <2>2 DEF NodeOK
  <2>4. <<q, 1>> \in {q} \X (1..n.queued)
    BY <2>3
  <2>5. <<q, 1>> \in NodesInQueue
    BY <2>4 DEF NodesInQueue
  <2> QED BY <1>4, <2>5
<1> QED BY <1>4, <1>5, QueuedNodes DEF CoreInv

\* A sync keeps the invariant.
LEMMA EndSync == CoreInv /\ end_sync => CoreInv'
<1> SUFFICES ASSUME CoreInv, end_sync PROVE CoreInv'
  OBVIOUS
<1>1. /\ UNCHANGED <<core, terminated, ports, freed, cmds, nonActive, exits>>
      /\ \/ QueueSize = nonActive /\ phase' = "exit" /\ sync' = sync
         \/ phase' = "sched" /\ sync' = SyncTime
  BY DEF end_sync
<1>2. PortsOK' /\ FreedOK' /\ CmdsOK'
  BY <1>1 DEF CoreInv, PortsOK, FreedOK, CmdsOK
<1>3. TimesOK'
  BY <1>1, TimeAssumption DEF CoreInv, TimesOK, NoSync
<1>4. phase' = "exit" => NothingQueued'
  <2>1. phase' = "exit" => NothingQueued
    BY <1>1, OnlyDurationsLeft
  <2> QED BY <1>1, <2>1 DEF NothingQueued
<1>5. LoopOK'
  BY <1>1, <1>4 DEF CoreInv, LoopOK
<1> QED BY <1>2, <1>3, <1>5 DEF CoreInv

\* The exit node keeps the invariant.
LEMMA PopExit ==
  ASSUME CoreInv, NEW t \in exits, pop_exit(t)
  PROVE  CoreInv'
<1>1. /\ exits' = exits \ {t} /\ phase' = "exit"
      /\ UNCHANGED <<core, terminated, ports, freed, cmds, nonActive, sync>>
  BY DEF pop_exit
<1>2. PortsOK' /\ FreedOK' /\ CmdsOK'
  BY <1>1 DEF CoreInv, PortsOK, FreedOK, CmdsOK
<1>3. TimesOK'
  BY <1>1, FS_RemoveElement DEF CoreInv, TimesOK
<1>4. terminated
  BY DEF CoreInv, LoopOK
<1>5. LoopOK'
  BY <1>1, <1>4 DEF CoreInv, LoopOK
<1> QED BY <1>2, <1>3, <1>5 DEF CoreInv

\* The end of the scheduler keeps the invariant.
LEMMA ExitScheduler == CoreInv /\ exit_scheduler => CoreInv'
<1> SUFFICES ASSUME CoreInv, exit_scheduler PROVE CoreInv'
  OBVIOUS
<1>1. UNCHANGED <<terminated, ports>> /\ phase = "exit"
  BY DEF exit_scheduler
<1>2. PortsOK'
  BY <1>1 DEF CoreInv, PortsOK
<1>3. CASE core = "TERMINATE"
  <2>1. UNCHANGED <<core, freed, cmds, nonActive, sync, exits>> /\ phase' = "done"
    BY <1>3 DEF exit_scheduler, CoreInv, LoopOK
  <2>2. FreedOK' /\ CmdsOK' /\ TimesOK' /\ LoopOK'
    BY <1>1, <2>1 DEF CoreInv, FreedOK, CmdsOK, TimesOK, LoopOK
  <2> QED BY <1>2, <2>2 DEF CoreInv
<1>4. CASE core # "TERMINATE"
  <2>1. /\ core' = "IDLE" /\ freed' = {} /\ cmds' = {} /\ sync' = NoSync /\ exits' = {}
        /\ nonActive' = nonActive - Cardinality(cmds)
        /\ phase' = IF Queued # {} THEN "abort_queue" ELSE IF terminated THEN "done" ELSE "idle"
    BY <1>4 DEF exit_scheduler
  <2>2. FreedOK' /\ TimesOK'
    BY <2>1, FS_EmptySet DEF FreedOK, TimesOK
  <2>3. CmdsOK'
    <3>1. Cardinality(cmds) \in Nat /\ nonActive' = 0
      BY <2>1, FS_CardinalityType DEF CoreInv, CmdsOK
    <3> QED BY <2>1, <3>1, FS_EmptySet DEF CmdsOK
  <2>4. phase' = "idle" => NothingQueued'
    <3>1. phase' = "idle" => NothingQueued
      BY <2>1, QueuedNodes DEF CoreInv
    <3> QED BY <1>1, <3>1 DEF NothingQueued
  <2>5. LoopOK'
    BY <1>1, <2>1, <2>4 DEF CoreInv, LoopOK
  <2> QED BY <1>2, <2>2, <2>3, <2>5 DEF CoreInv
<1> QED BY <1>3, <1>4

-----------------------------------------------------------------------------
(* The nodes.                                                              *)

\* A step of the scheduler that leaves its loop as it is.
LEMMA SchedulerStep ==
  ASSUME CoreInv, phase = "sched", PortsOK', FreedOK', CmdsOK',
         UNCHANGED <<core, phase, terminated, sync, exits>>
  PROVE  CoreInv'
<1>1. TimesOK'
  BY DEF CoreInv, TimesOK
<1>2. LoopOK'
  BY DEF CoreInv, LoopOK
<1> QED BY <1>1, <1>2 DEF CoreInv

\* Freeing the node of a stopped port keeps the invariant.
LEMMA PopFree ==
  ASSUME CoreInv, NEW f \in freed, pop_free(f)
  PROVE  CoreInv'
<1>1. /\ freed' = freed \ {f} /\ phase = "sched"
      /\ UNCHANGED <<core, phase, terminated, ports, cmds, nonActive, sync, exits>>
  BY DEF pop_free
<1>2. PortsOK' /\ CmdsOK'
  BY <1>1 DEF CoreInv, PortsOK, CmdsOK
<1>3. FreedOK'
  BY <1>1, FS_RemoveElement DEF CoreInv, FreedOK
<1> QED BY <1>1, <1>2, <1>3, SchedulerStep

\* A duration that is over keeps the invariant, and stops its port or nothing.
LEMMA PopCommand ==
  ASSUME CoreInv, NEW c \in cmds, pop_command(c)
  PROVE  /\ CoreInv' /\ c.port \in Ports
         /\ \A q \in Ports : q # c.port => ports'[q] = ports[q]
         /\ \/ UNCHANGED ports
            \/ ports'[c.port] = Stopped(ports[c.port], "duration")
<1> DEFINE p == c.port
<1>1. /\ cmds' = cmds \ {c} /\ nonActive' = nonActive - 1 /\ phase = "sched"
      /\ UNCHANGED <<core, terminated, sync, exits>>
  BY DEF pop_command
<1>2. p \in Ports /\ PortsOK /\ FreedOK
  BY DEF CoreInv, CmdsOK, Cmd
<1>3. /\ phase' = phase /\ PortsOK' /\ FreedOK' /\ ports'[p].event = ports[p].event
      /\ \A q \in Ports : q # p => ports'[q] = ports[q]
      /\ UNCHANGED ports \/ ports'[p] = Stopped(ports[p], "duration")
  <2>1. CASE UNCHANGED <<phase, ports, freed>>
    BY <1>2, <2>1 DEF PortsOK, FreedOK
  <2>2. CASE stop_port(p, ports[p], "duration")
    <3>1. PortOK(p, ports[p]) /\ "duration" \in Causes
      BY <1>2 DEF PortsOK, Causes
    <3> QED BY <1>2, <2>2, <3>1, StopPort
  <2> QED BY <2>1, <2>2 DEF pop_command
<1>4. CmdsOK'
  <2>1. /\ cmds \subseteq Cmd /\ IsFiniteSet(cmds) /\ nonActive = Cardinality(cmds)
        /\ \A x \in cmds : x.run <= ports[x.port].event /\ x.port \in Ports
    BY DEF CoreInv, CmdsOK, Cmd
  <2>2. IsFiniteSet(cmds') /\ Cardinality(cmds') = nonActive'
    BY <1>1, <2>1, FS_RemoveElement
  <2>3. \A x \in cmds' : x.run <= ports'[x.port].event
    BY <1>1, <1>3, <2>1
  <2> QED BY <1>1, <2>1, <2>2, <2>3 DEF CmdsOK
<1> QED BY <1>1, <1>2, <1>3, <1>4, SchedulerStep

\* A packet of a continuous stream keeps the invariant and moves one node in time.
LEMMA HandleContinues ==
  ASSUME CoreInv, NEW p \in Ports, NEW i \in DOMAIN ports[p].nodes, handle_continues(p, i)
  PROVE  /\ CoreInv' /\ SamePort(ports[p], ports'[p])
         /\ SameButTimes(ports[p].nodes, ports'[p].nodes)
         /\ \A q \in Ports : q # p => ports'[q] = ports[q]
<1> DEFINE port == ports[p]
           n == port.nodes[i]
           w == n.when + Gap(port, i)
           m == [n EXCEPT !.when = w]
           new == WithNode(port, i, m)
<1>1. /\ phase = "sched"
      /\ UNCHANGED <<core, phase, terminated, freed, cmds, nonActive, sync, exits>>
  BY DEF handle_continues
<1>2. PortsOK /\ PortOK(p, port) /\ PortTyped(p, port) /\ port.nodes \in Seq(Node)
  BY DEF CoreInv, PortsOK, PortOK, PortTyped, PortRec
<1>3. ports' = [ports EXCEPT ![p] = new]
  BY <1>2 DEF handle_continues, WithNode, PortsOK
<1>4. /\ n \in Node /\ n.st \in {"INACTIVE", "ACTIVE"}
      /\ n.single \in 0..Modulus - 1 /\ n.multi \in 0..Modulus - 1
      /\ n.when \in Nat /\ n.queued \in Nat /\ n.sent \in Nat
  BY <1>2, NodeFacts
<1>5. w \in Nat
  <2>1. port.prog[i].gap \in Nat /\ port.factor \in Nat
    BY <1>2, NodeHasStream DEF PortTyped, PortRec, Stream
  <2> QED BY <1>4, <2>1 DEF Gap
<1>6. m = [st |-> n.st, single |-> n.single, multi |-> n.multi, when |-> w,
           queued |-> n.queued, sent |-> n.sent]
  <2> HIDE DEF w, n
  <2> QED BY <1>4 DEF Node
<1> HIDE DEF w
<1>7. /\ m \in Node /\ m.st = n.st /\ m.queued = n.queued /\ m.sent = n.sent
      /\ m.single = n.single /\ m.multi = n.multi
  BY <1>4, <1>5, <1>6 DEF Node
<1> HIDE DEF m
<1>8. PortOK(p, new)
  BY <1>2, <1>7, GoesOn
<1>9. SamePort(port, new) /\ NodeChanged(port, new, i, m)
  BY <1>2, <1>7, WithNodeTyped
<1> HIDE DEF new
<1>10. SameButTimes(port.nodes, new.nodes)
  BY <1>7, <1>9 DEF SameButTimes, NodeChanged
<1>11. PortsOK' /\ ports'[p] = new /\ \A q \in Ports : q # p => ports'[q] = ports[q]
  BY <1>2, <1>3, <1>8, OnePort
<1>12. FreedOK'
  BY <1>1 DEF CoreInv, FreedOK
<1>13. CmdsOK'
  <2>1. \A q \in Ports : ports'[q].event = ports[q].event
    BY <1>9, <1>11 DEF SamePort
  <2> QED BY <1>1, <2>1, SameCmds DEF CoreInv
<1> QED BY <1>1, <1>9, <1>10, <1>11, <1>12, <1>13, SchedulerStep

\* The node when the last packet of the last burst is sent.
Over(n) == [st |-> "INACTIVE", single |-> 0, multi |-> 0, when |-> 0,
            queued |-> n.queued - 1, sent |-> n.sent + 1]

\* The ways a packet of a burst stream ends.
MoreToSend(p, i) ==
  LET n == ports[p].nodes[i]
      s == ports[p].prog[i]
  IN \E single, multi \in 0..Modulus - 1, t \in Nat :
       /\ \/ single = Wrap(n.single - 1) /\ single > 0 /\ multi = n.multi
          \/ /\ Wrap(n.single - 1) = 0 /\ multi = Wrap(n.multi - 1) /\ multi > 0
             /\ single = s.pkts
       /\ ports' = [ports EXCEPT ![p] =
            WithNode(ports[p], i, pushed_back(n, single, multi, t))]
       /\ UNCHANGED <<phase, freed>>

LastSent(p, i) ==
  LET n == ports[p].nodes[i] IN Wrap(n.single - 1) = 0 /\ Wrap(n.multi - 1) = 0

NextTaken(p, i) ==
  LET port == WithNode(ports[p], i, Over(ports[p].nodes[i]))
      nx == port.prog[i].next
      t == ports[p].nodes[i].when
  IN /\ LastSent(p, i) /\ NextStarts(port, i)
     /\ ports' = [ports EXCEPT ![p] =
          WithNode(port, nx, refresh(port.nodes[nx], port.prog[nx], t))]
     /\ UNCHANGED <<phase, freed>>

OneEnded(p, i) ==
  LET port == WithNode(ports[p], i, Over(ports[p].nodes[i])) IN
  /\ LastSent(p, i) /\ ~NextStarts(port, i) /\ OneLess(port).active > 0
  /\ ports' = [ports EXCEPT ![p] = OneLess(port)]
  /\ UNCHANGED <<phase, freed>>

AllEnded(p, i) ==
  LET port == WithNode(ports[p], i, Over(ports[p].nodes[i])) IN
  /\ LastSent(p, i) /\ ~NextStarts(port, i) /\ OneLess(port).active = 0
  /\ stop_port(p, OneLess(port), "finished")

\* A counter stays within its width.
LEMMA WrapType ==
  ASSUME NEW k \in Int
  PROVE  Wrap(k) \in 0..Modulus - 1
<1>1. Modulus \in Nat \ {0}
  BY BoundsAssumption
<1> HIDE DEF Modulus
<1> QED BY <1>1 DEF Wrap

\* The four outcomes of a packet of a burst stream.
LEMMA BurstCases ==
  ASSUME CoreInv, NEW p \in Ports, NEW i \in DOMAIN ports[p].nodes, handle_multi_burst(p, i)
  PROVE  MoreToSend(p, i) \/ NextTaken(p, i) \/ OneEnded(p, i) \/ AllEnded(p, i)
<1> DEFINE port == ports[p]
           n == port.nodes[i]
           s == port.prog[i]
           single == Wrap(n.single - 1)
           multi == Wrap(n.multi - 1)
           o == WithNode(port, i, Over(n))
<1>1. PortsOK /\ PortTyped(p, port) /\ port.nodes \in Seq(Node) /\ port.factor \in Nat
  BY DEF CoreInv, PortsOK, PortOK, PortTyped, PortRec
<1>2. /\ n.single \in 0..Modulus - 1 /\ n.multi \in 0..Modulus - 1
      /\ n.when \in Nat /\ n.queued \in Nat /\ n.sent \in Nat
  BY <1>1, NodeFacts
<1>3. /\ s.gap \in Nat /\ s.ibg \in Nat /\ s.pkts \in 0..Modulus - 1
  BY <1>1, NodeHasStream DEF Stream
<1>4. single \in 0..Modulus - 1 /\ multi \in 0..Modulus - 1
  BY <1>2, WrapType
<1>5. n.when + Gap(port, i) \in Nat /\ n.when + s.ibg \in Nat
  <2>1. Gap(port, i) \in Nat
    BY <1>1, <1>3 DEF Gap
  <2> QED BY <1>2, <1>3, <2>1
<1> DEFINE First == /\ single > 0
                    /\ ports' = [ports EXCEPT ![p].nodes[i] =
                         pushed_back(n, single, n.multi, n.when + Gap(port, i))]
                    /\ UNCHANGED <<phase, freed>>
           Second == /\ single = 0 /\ multi > 0
                     /\ ports' = [ports EXCEPT ![p].nodes[i] =
                          pushed_back(n, s.pkts, multi, n.when + s.ibg)]
                     /\ UNCHANGED <<phase, freed>>
           Third == /\ single = 0 /\ multi = 0
                    /\ set_stateless_next_node(p, o, i, n.when)
<1>6. First \/ Second \/ Third
  BY DEF handle_multi_burst, WithNode, Over
<1>7. CASE First
  <2>1. ports' = [ports EXCEPT ![p] =
          WithNode(port, i, pushed_back(n, single, n.multi, n.when + Gap(port, i)))]
    BY <1>1, <1>7 DEF WithNode, PortsOK
  <2> HIDE DEF single
  <2>2. MoreToSend(p, i)
    BY <1>2, <1>4, <1>5, <1>7, <2>1 DEF MoreToSend, single
  <2> QED BY <2>2
<1>8. CASE Second
  <2>1. ports' = [ports EXCEPT ![p] =
          WithNode(port, i, pushed_back(n, s.pkts, multi, n.when + s.ibg))]
    BY <1>1, <1>8 DEF WithNode, PortsOK
  <2>2. MoreToSend(p, i)
    BY <1>3, <1>4, <1>5, <1>8, <2>1, ZenonT(60) DEF MoreToSend
  <2> QED BY <2>2
<1>9. CASE Third
  <2>1. LastSent(p, i)
    BY <1>9 DEF LastSent
  <2> HIDE DEF o
  <2>2. \/ /\ NextStarts(o, i)
           /\ ports' = [ports EXCEPT ![p] = WithNode(o, o.prog[i].next,
                refresh(o.nodes[o.prog[i].next], o.prog[o.prog[i].next], n.when))]
           /\ UNCHANGED <<phase, freed>>
        \/ /\ ~NextStarts(o, i) /\ OneLess(o).active > 0
           /\ ports' = [ports EXCEPT ![p] = OneLess(o)]
           /\ UNCHANGED <<phase, freed>>
        \/ /\ ~NextStarts(o, i) /\ OneLess(o).active = 0
           /\ stop_port(p, OneLess(o), "finished")
    BY <1>9 DEF set_stateless_next_node, OneLess, WithNode
  <2> QED BY <2>1, <2>2 DEF NextTaken, OneEnded, AllEnded, o
<1> QED BY <1>6, <1>7, <1>8, <1>9

\* The node of a burst that goes on.
LEMMA PushedBackOK ==
  ASSUME NEW n \in Node, NEW single \in 0..Modulus - 1, NEW multi \in 0..Modulus - 1,
         NEW t \in Nat
  PROVE  LET m == pushed_back(n, single, multi, t)
         IN  /\ m \in Node /\ m.st = n.st /\ m.queued = n.queued /\ m.sent = n.sent + 1
             /\ m.single = single /\ m.multi = multi
BY DEF pushed_back, Node

\* The node of a burst stream that is over.
LEMMA OverOK ==
  ASSUME NEW n \in Node, NodeOK(n), n.queued > 0
  PROVE  /\ Over(n) \in Node /\ Over(n).st = "INACTIVE" /\ Over(n).queued = 0
         /\ Over(n).sent = n.sent + 1
<1>1. n.queued = 1 /\ n.sent \in Nat /\ 0 \in 0..Modulus - 1
  BY BoundsAssumption DEF NodeOK, Node
<1> QED BY <1>1 DEF Over, Node

\* The node of a stream that another one leads to.
LEMMA RefreshOK ==
  ASSUME NEW n \in Node, NEW s \in Stream, NEW t \in Nat
  PROVE  LET m == refresh(n, s, t)
         IN  /\ m \in Node /\ m.st = "ACTIVE" /\ m.queued = n.queued + 1 /\ m.sent = 0
             /\ m.single = s.pkts /\ m.multi = s.bursts
BY DEF refresh, Node, Stream

\* A packet of a burst stream, as the port sees it: the node at i is still at it, or
\* it is over and the next stream has started, or there is one active stream less.
NewBurst(port, new, i) ==
  \E single, multi \in 0..Modulus - 1, t \in Nat :
    /\ \/ single = Wrap(port.nodes[i].single - 1) /\ single > 0 /\ multi = port.nodes[i].multi
       \/ /\ Wrap(port.nodes[i].single - 1) = 0
          /\ multi = Wrap(port.nodes[i].multi - 1) /\ multi > 0
          /\ single = port.prog[i].pkts
    /\ NodeChanged(port, new, i, pushed_back(port.nodes[i], single, multi, t))

\* Outcome one: there is more to send.
LEMMA MoreToSendOK ==
  ASSUME CoreInv, NEW p \in Ports, NEW i \in DOMAIN ports[p].nodes, MoreToSend(p, i)
  PROVE  /\ PortsOK' /\ UNCHANGED <<phase, freed>> /\ SamePort(ports[p], ports'[p])
         /\ NewBurst(ports[p], ports'[p], i)
         /\ \A q \in Ports : q # p => ports'[q] = ports[q]
<1> DEFINE port == ports[p]
           n == port.nodes[i]
<1>1. PortsOK /\ PortOK(p, port) /\ PortTyped(p, port) /\ port.nodes \in Seq(Node)
  BY DEF CoreInv, PortsOK, PortOK, PortTyped, PortRec
<1>2. PICK single \in 0..Modulus - 1, multi \in 0..Modulus - 1, t \in Nat :
       /\ \/ single = Wrap(n.single - 1) /\ single > 0 /\ multi = n.multi
          \/ /\ Wrap(n.single - 1) = 0 /\ multi = Wrap(n.multi - 1) /\ multi > 0
             /\ single = port.prog[i].pkts
       /\ ports' = [ports EXCEPT ![p] =
            WithNode(port, i, pushed_back(n, single, multi, t))]
       /\ UNCHANGED <<phase, freed>>
  BY DEF MoreToSend
<1> DEFINE m == pushed_back(n, single, multi, t)
           new == WithNode(port, i, m)
<1>3. n \in Node
  BY <1>1, NodeFacts
<1>4. m \in Node /\ m.st = n.st /\ m.queued = n.queued
  BY <1>3, PushedBackOK
<1> HIDE DEF m
<1>5. PortOK(p, new)
  BY <1>1, <1>4, GoesOn
<1>6. SamePort(port, new) /\ NodeChanged(port, new, i, m)
  BY <1>1, <1>4, WithNodeTyped
<1> HIDE DEF new
<1>7. PortsOK' /\ ports'[p] = new /\ \A q \in Ports : q # p => ports'[q] = ports[q]
  BY <1>1, <1>2, <1>5, OnePort DEF m, new
<1>8. NewBurst(port, new, i)
  BY <1>2, <1>6 DEF NewBurst, m
<1> QED BY <1>2, <1>6, <1>7, <1>8

\* The node at i is over, and no other node has changed.
PortAfter(p, i) == WithNode(ports[p], i, Over(ports[p].nodes[i]))

\* The port when a burst stream is over and the count is not yet taken down.
LEMMA PortAfterOK ==
  ASSUME CoreInv, NEW p \in Ports, NEW i \in DOMAIN ports[p].nodes,
         ports[p].nodes[i].queued > 0
  PROVE  /\ PortOneOver(p, PortAfter(p, i)) /\ SamePort(ports[p], PortAfter(p, i))
         /\ NodeChanged(ports[p], PortAfter(p, i), i, Over(ports[p].nodes[i]))
<1> DEFINE n == ports[p].nodes[i]
<1>1. PortOK(p, ports[p]) /\ ports[p].nodes \in Seq(Node)
  BY DEF CoreInv, PortsOK, PortOK, PortTyped, PortRec
<1>2. n \in Node /\ NodeOK(n)
  BY <1>1, NodeFacts DEF PortOK
<1>3. Over(n) \in Node /\ Over(n).st = "INACTIVE" /\ Over(n).queued = 0
  BY <1>2, OverOK
<1> QED BY <1>1, <1>3, NodeOver DEF PortAfter

\* The next stream has started.
Taken(p, i) ==
  LET port == PortAfter(p, i)
      nx == port.prog[i].next
  IN /\ NextStarts(port, i) /\ nx \in DOMAIN port.nodes
     /\ SamePort(port, ports'[p])
     /\ \E t \in Nat : NodeChanged(port, ports'[p], nx, refresh(port.nodes[nx], port.prog[nx], t))

\* Outcome two: the next stream takes over, and the count stands.
LEMMA NextTakenOK ==
  ASSUME CoreInv, NEW p \in Ports, NEW i \in DOMAIN ports[p].nodes,
         ports[p].nodes[i].queued > 0, NextTaken(p, i)
  PROVE  /\ PortsOK' /\ UNCHANGED <<phase, freed>> /\ Taken(p, i)
         /\ \A q \in Ports : q # p => ports'[q] = ports[q]
<1> DEFINE port == PortAfter(p, i)
           nx == port.prog[i].next
           t == ports[p].nodes[i].when
           m == refresh(port.nodes[nx], port.prog[nx], t)
           new == WithNode(port, nx, m)
<1>1. /\ PortOneOver(p, port) /\ SamePort(ports[p], port)
      /\ DOMAIN port.nodes = DOMAIN ports[p].nodes
  BY PortAfterOK DEF NodeChanged
<1>2. /\ NextStarts(port, i) /\ ports' = [ports EXCEPT ![p] = new]
      /\ UNCHANGED <<phase, freed>>
  BY DEF NextTaken, PortAfter
<1>3. PortTyped(p, port) /\ i \in DOMAIN port.nodes /\ port.nodes \in Seq(Node)
  BY <1>1 DEF PortOneOver, PortTyped, PortRec
<1>4. nx \in DOMAIN port.nodes /\ port.nodes[nx].st = "INACTIVE"
  <2>1. nx # NONE /\ port.nodes[nx].st = "INACTIVE"
    BY <1>2 DEF NextStarts
  <2>2. nx = NONE \/ nx \in DOMAIN port.nodes
    BY <1>3, NodeHasStream
  <2> QED BY <2>1, <2>2
<1>5. port.nodes[nx] \in Node /\ port.prog[nx] \in Stream /\ t \in Nat
  <2>1. ports[p].nodes \in Seq(Node)
    BY DEF CoreInv, PortsOK, PortOK, PortTyped, PortRec
  <2> QED BY <1>3, <1>4, <2>1, NodeHasStream, NodeFacts
<1>6. m \in Node /\ m.st = "ACTIVE" /\ m.queued = port.nodes[nx].queued + 1
  BY <1>5, RefreshOK
<1>7. PortOK(p, new) /\ SamePort(port, new) /\ NodeChanged(port, new, nx, m)
  <2> HIDE DEF port, nx, m
  <2> QED BY <1>1, <1>4, <1>6, NextRefreshed
<1>8. PortsOK
  BY DEF CoreInv
<1>9. PortsOK' /\ ports'[p] = new /\ \A q \in Ports : q # p => ports'[q] = ports[q]
  <2> HIDE DEF port, nx, m, new
  <2> QED BY <1>2, <1>7, <1>8, OnePort
<1>10. Taken(p, i)
  BY <1>2, <1>4, <1>5, <1>7, <1>9 DEF Taken
<1> QED BY <1>2, <1>9, <1>10

\* Outcome three: a stream ends and others go on.
LEMMA OneEndedOK ==
  ASSUME CoreInv, NEW p \in Ports, NEW i \in DOMAIN ports[p].nodes,
         ports[p].nodes[i].queued > 0, OneEnded(p, i)
  PROVE  /\ PortsOK' /\ UNCHANGED <<phase, freed>>
         /\ ports'[p] = OneLess(PortAfter(p, i)) /\ ports'[p].event = ports[p].event
         /\ ports'[p].active > 0
         /\ \A q \in Ports : q # p => ports'[q] = ports[q]
<1> DEFINE port == PortAfter(p, i)
           new == OneLess(port)
<1>1. PortOneOver(p, port) /\ SamePort(ports[p], port)
  BY PortAfterOK
<1>2. ports' = [ports EXCEPT ![p] = new] /\ UNCHANGED <<phase, freed>> /\ new.active > 0
  BY DEF OneEnded, PortAfter
<1>3. PortOK(p, new) /\ new.event = port.event
  <2> HIDE DEF port
  <2> QED BY <1>1, OneLessOK
<1>4. PortsOK
  BY DEF CoreInv
<1>5. PortsOK' /\ ports'[p] = new /\ \A q \in Ports : q # p => ports'[q] = ports[q]
  <2> HIDE DEF new
  <2> QED BY <1>2, <1>3, <1>4, OnePort
<1> QED BY <1>1, <1>2, <1>3, <1>5 DEF SamePort

\* Outcome four: the last stream ends, and the port reports that it is finished.
LEMMA AllEndedOK ==
  ASSUME CoreInv, NEW p \in Ports, NEW i \in DOMAIN ports[p].nodes,
         ports[p].nodes[i].queued > 0, AllEnded(p, i)
  PROVE  /\ PortsOK' /\ FreedOK' /\ phase' = phase
         /\ ports'[p] = Stopped(OneLess(PortAfter(p, i)), "finished")
         /\ ports'[p].event = ports[p].event /\ ports'[p].state = "IDLE"
         /\ ports'[p].nodes = <<>>
         /\ \A q \in Ports : q # p => ports'[q] = ports[q]
<1> DEFINE port == PortAfter(p, i)
           new == OneLess(port)
<1>1. PortOneOver(p, port) /\ SamePort(ports[p], port)
  BY PortAfterOK
<1>2. stop_port(p, new, "finished") /\ "finished" \in Causes
  BY DEF AllEnded, PortAfter, Causes
<1>3. PortOK(p, new) /\ new.event = port.event
  <2> HIDE DEF port
  <2> QED BY <1>1, OneLessOK
<1>4. PortsOK /\ FreedOK
  BY DEF CoreInv
<1>5. /\ phase' = phase /\ PortsOK' /\ FreedOK' /\ ports'[p] = Stopped(new, "finished")
      /\ ports'[p].nodes = <<>> /\ ports'[p].event = new.event /\ ports'[p].state = "IDLE"
      /\ \A q \in Ports : q # p => ports'[q] = ports[q]
  <2> HIDE DEF new
  <2> QED BY <1>2, <1>3, <1>4, StopPort
<1> QED BY <1>1, <1>3, <1>5 DEF SamePort

\* A packet of a burst stream keeps the invariant.
LEMMA HandleMultiBurst ==
  ASSUME CoreInv, NEW p \in Ports, NEW i \in DOMAIN ports[p].nodes,
         ports[p].nodes[i].queued > 0, handle_multi_burst(p, i)
  PROVE  CoreInv'
<1>1. /\ phase = "sched" /\ UNCHANGED <<core, terminated, cmds, nonActive, sync, exits>>
  BY DEF handle_multi_burst
<1>2. /\ PortsOK' /\ phase' = phase /\ FreedOK'
      /\ \A q \in Ports : ports'[q].event = ports[q].event
  <2>1. FreedOK
    BY DEF CoreInv
  <2>2. CASE MoreToSend(p, i)
    BY <2>1, <2>2, MoreToSendOK DEF FreedOK, SamePort
  <2>3. CASE NextTaken(p, i)
    <3>1. /\ PortsOK' /\ UNCHANGED <<phase, freed>> /\ Taken(p, i)
          /\ \A q \in Ports : q # p => ports'[q] = ports[q]
      BY <2>3, NextTakenOK
    <3>2. ports'[p].event = ports[p].event
      BY <3>1, PortAfterOK DEF Taken, SamePort
    <3> QED BY <2>1, <3>1, <3>2 DEF FreedOK
  <2>4. CASE OneEnded(p, i)
    BY <2>1, <2>4, OneEndedOK DEF FreedOK
  <2>5. CASE AllEnded(p, i)
    BY <2>5, AllEndedOK
  <2> QED BY <2>2, <2>3, <2>4, <2>5, BurstCases
<1>3. CmdsOK'
  BY <1>1, <1>2, SameCmds DEF CoreInv
<1> QED BY <1>1, <1>2, <1>3, SchedulerStep

-----------------------------------------------------------------------------
(* A step of the core, as one of its ports sees it.                        *)

\* No stream sends a packet that counts, starts or stops.
GoesOnAsItIs(port, new) == SamePort(port, new) /\ SameButTimes(port.nodes, new.nodes)

\* A node of the port that is in the queue.
InQueue(p, i) == i \in DOMAIN ports[p].nodes /\ ports[p].nodes[i].queued > 0

\* A burst stream sends a packet.
Sends(p) ==
  \E i \in DOMAIN ports[p].nodes :
    /\ InQueue(p, i) /\ ports[p].prog[i].type = "burst"
    /\ \/ SamePort(ports[p], ports'[p]) /\ NewBurst(ports[p], ports'[p], i)
       \/ LastSent(p, i) /\ Taken(p, i)
       \/ /\ LastSent(p, i) /\ ~NextStarts(PortAfter(p, i), i)
          /\ ports'[p] = OneLess(PortAfter(p, i)) /\ ports'[p].active > 0
       \/ /\ LastSent(p, i) /\ ~NextStarts(PortAfter(p, i), i)
          /\ OneLess(PortAfter(p, i)).active = 0
          /\ ports'[p] = Stopped(OneLess(PortAfter(p, i)), "finished")

\* A run starts, is stopped, or its rate or state is changed.
Begins(p) ==
  /\ ports[p].nodes = <<>>
  /\ \E prog \in Programs, d \in Durations : ports'[p] = Started(ports[p], prog, d)

Ends(p) ==
  \/ ports'[p] = Stopped(ports[p], "stop")
  \/ /\ ports'[p] = Stopped(ports[p], "duration")
     /\ \/ ports[p].state = "IDLE"
        \/ \E c \in cmds : c.port = p /\ c.run = ports[p].event

PortStep(p) ==
  \/ GoesOnAsItIs(ports[p], ports'[p])
  \/ Adjusted(p, ports[p], ports'[p])
  \/ Begins(p)
  \/ Ends(p)
  \/ Sends(p)

\* A port that does not change goes on as it is.
LEMMA Unchanged ==
  ASSUME NEW port
  PROVE  GoesOnAsItIs(port, port)
BY DEF GoesOnAsItIs, SamePort, SameButTimes

\* What a packet of a burst stream does to its port, and that it leaves the others alone.
LEMMA BurstStep ==
  ASSUME CoreInv, NEW p \in Ports, NEW i \in DOMAIN ports[p].nodes,
         ports[p].nodes[i].queued > 0, handle_multi_burst(p, i)
  PROVE  Sends(p) /\ \A q \in Ports : q # p => ports'[q] = ports[q]
<1>1. InQueue(p, i) /\ ports[p].prog[i].type = "burst"
  BY DEF InQueue, handle_multi_burst
<1>2. CASE MoreToSend(p, i)
  <2>1. /\ SamePort(ports[p], ports'[p]) /\ NewBurst(ports[p], ports'[p], i)
        /\ \A q \in Ports : q # p => ports'[q] = ports[q]
    BY <1>2, MoreToSendOK
  <2> QED BY <1>1, <2>1 DEF Sends
<1>3. CASE NextTaken(p, i)
  <2>1. Taken(p, i) /\ \A q \in Ports : q # p => ports'[q] = ports[q]
    BY <1>3, NextTakenOK
  <2>2. LastSent(p, i)
    BY <1>3 DEF NextTaken
  <2> QED BY <1>1, <2>1, <2>2 DEF Sends
<1>4. CASE OneEnded(p, i)
  <2>1. /\ ports'[p] = OneLess(PortAfter(p, i)) /\ ports'[p].active > 0
        /\ \A q \in Ports : q # p => ports'[q] = ports[q]
    BY <1>4, OneEndedOK
  <2>2. LastSent(p, i) /\ ~NextStarts(PortAfter(p, i), i)
    BY <1>4 DEF OneEnded, PortAfter
  <2> QED BY <1>1, <2>1, <2>2 DEF Sends
<1>5. CASE AllEnded(p, i)
  <2>1. /\ ports'[p] = Stopped(OneLess(PortAfter(p, i)), "finished")
        /\ \A q \in Ports : q # p => ports'[q] = ports[q]
    BY <1>5, AllEndedOK
  <2>2. /\ LastSent(p, i) /\ ~NextStarts(PortAfter(p, i), i)
        /\ OneLess(PortAfter(p, i)).active = 0
    BY <1>5 DEF AllEnded, PortAfter
  <2> QED BY <1>1, <2>1, <2>2 DEF Sends
<1> QED BY <1>2, <1>3, <1>4, <1>5, BurstCases

\* The invariant is inductive, and every step is one of those above to every port.
LEMMA EveryStep ==
  ASSUME CoreInv, [Next]_vars
  PROVE  CoreInv' /\ \A p \in Ports : PortStep(p)
<1>1. ASSUME UNCHANGED ports PROVE \A p \in Ports : PortStep(p)
  BY <1>1, Unchanged DEF PortStep
<1>2. ASSUME NEW p \in Ports, PortStep(p), \A q \in Ports : q # p => ports'[q] = ports[q]
      PROVE  \A q \in Ports : PortStep(q)
  BY <1>2, Unchanged DEF PortStep
<1>3. CASE UNCHANGED vars
  <2>1. PortsOK' /\ FreedOK' /\ CmdsOK' /\ TimesOK'
    BY <1>3 DEF CoreInv, PortsOK, FreedOK, CmdsOK, TimesOK, vars
  <2>2. LoopOK'
    BY <1>3 DEF CoreInv, LoopOK, NothingQueued, vars
  <2> QED BY <1>1, <1>3, <2>1, <2>2 DEF CoreInv, vars
<1>4. ASSUME NEW p \in Ports, NEW prog \in Programs, NEW d \in Durations,
             start_traffic(p, prog, d)
      PROVE  CoreInv' /\ \A q \in Ports : PortStep(q)
  <2>1. /\ CoreInv' /\ ports'[p] = Started(ports[p], prog, d) /\ ports[p].nodes = <<>>
        /\ \A q \in Ports : q # p => ports'[q] = ports[q]
    BY <1>4, StartTraffic
  <2>2. PortStep(p)
    BY <2>1 DEF PortStep, Begins
  <2> QED BY <1>2, <2>1, <2>2
<1>5. ASSUME NEW p \in Ports, stop_traffic(p)
      PROVE  CoreInv' /\ \A q \in Ports : PortStep(q)
  <2>1. PortsOK /\ FreedOK /\ PortOK(p, ports[p]) /\ "stop" \in Causes
    BY DEF CoreInv, PortsOK, Causes
  <2>2. stop_port(p, ports[p], "stop")
    BY <1>5 DEF stop_traffic
  <2>3. /\ ports'[p] = Stopped(ports[p], "stop")
        /\ \A q \in Ports : q # p => ports'[q] = ports[q]
    BY <2>1, <2>2, StopPort
  <2>4. PortStep(p)
    BY <2>3 DEF PortStep, Ends
  <2> QED BY <1>2, <1>5, <2>3, <2>4, StopTraffic
<1>6. ASSUME NEW p \in Ports,
             \/ pause_traffic(p) \/ resume_traffic(p)
             \/ \E f \in Factors : update_traffic(p, f)
      PROVE  CoreInv' /\ \A q \in Ports : PortStep(q)
  <2>1. /\ CoreInv' /\ Adjusted(p, ports[p], ports'[p])
        /\ \A q \in Ports : q # p => ports'[q] = ports[q]
    BY <1>6, RateOrPause
  <2>2. PortStep(p)
    BY <2>1 DEF PortStep
  <2> QED BY <1>2, <2>1, <2>2
<1>7. CASE quit_main_loop
  BY <1>1, <1>7, QuitMainLoop DEF quit_main_loop
<1>8. CASE leave_idle
  BY <1>1, <1>8, LeaveIdle DEF leave_idle
<1>9. CASE pop_sync
  BY <1>9, PopSync DEF PortStep, GoesOnAsItIs
<1>10. CASE end_sync
  BY <1>1, <1>10, EndSync DEF end_sync
<1>11. ASSUME NEW t \in exits, pop_exit(t)
       PROVE  CoreInv' /\ \A q \in Ports : PortStep(q)
  BY <1>1, <1>11, PopExit DEF pop_exit
<1>12. CASE exit_scheduler
  BY <1>1, <1>12, ExitScheduler DEF exit_scheduler
<1>13. ASSUME NEW f \in freed, pop_free(f)
       PROVE  CoreInv' /\ \A q \in Ports : PortStep(q)
  BY <1>1, <1>13, PopFree DEF pop_free
<1>14. ASSUME NEW c \in cmds, pop_command(c)
       PROVE  CoreInv' /\ \A q \in Ports : PortStep(q)
  <2>1. /\ CoreInv' /\ c.port \in Ports
        /\ \A q \in Ports : q # c.port => ports'[q] = ports[q]
        /\ \/ UNCHANGED ports
           \/ ports'[c.port] = Stopped(ports[c.port], "duration")
    BY <1>14, PopCommand
  <2>2. CASE UNCHANGED ports
    BY <1>1, <2>1, <2>2
  <2>3. CASE ~UNCHANGED ports
    <3>1. ports[c.port].state = "IDLE" \/ c.run = ports[c.port].event
      BY <1>14, <2>3 DEF pop_command
    <3>2. PortStep(c.port)
      BY <2>1, <2>3, <3>1 DEF PortStep, Ends
    <3> QED BY <1>2, <2>1, <3>2
  <2> QED BY <2>2, <2>3
<1>15. ASSUME NEW q \in Queued, handle_continues(q[1], q[2])
       PROVE  CoreInv' /\ \A r \in Ports : PortStep(r)
  <2>1. q[1] \in Ports /\ q[2] \in DOMAIN ports[q[1]].nodes
    BY QueuedNodes DEF CoreInv
  <2>2. /\ CoreInv' /\ SamePort(ports[q[1]], ports'[q[1]])
        /\ SameButTimes(ports[q[1]].nodes, ports'[q[1]].nodes)
        /\ \A r \in Ports : r # q[1] => ports'[r] = ports[r]
    BY <1>15, <2>1, HandleContinues
  <2>3. PortStep(q[1])
    BY <2>2 DEF PortStep, GoesOnAsItIs
  <2> QED BY <1>2, <2>1, <2>2, <2>3
<1>16. ASSUME NEW q \in Queued, handle_multi_burst(q[1], q[2])
       PROVE  CoreInv' /\ \A r \in Ports : PortStep(r)
  <2>1. /\ q[1] \in Ports /\ q[2] \in DOMAIN ports[q[1]].nodes
        /\ ports[q[1]].nodes[q[2]].queued > 0
    BY QueuedNodes DEF CoreInv
  <2>2. CoreInv'
    BY <1>16, <2>1, HandleMultiBurst
  <2>3. Sends(q[1]) /\ \A r \in Ports : r # q[1] => ports'[r] = ports[r]
    BY <1>16, <2>1, BurstStep
  <2>4. PortStep(q[1])
    BY <2>3 DEF PortStep
  <2> QED BY <1>2, <2>1, <2>2, <2>3, <2>4
<1>17. CASE over_or_aborted
  BY <1>3, <1>17 DEF over_or_aborted
<1>18. ASSUME NEW p \in Ports, start_traffic_fails(p) \/ control_fails(p)
       PROVE  CoreInv' /\ \A q \in Ports : PortStep(q)
  BY <1>1, <1>18, MessageFails DEF start_traffic_fails, control_fails
<1>19. CASE Next
  <2>1. CASE ControlPlane
    BY <1>4, <1>5, <1>6, <1>7, <1>18, <2>1 DEF ControlPlane
  <2>2. CASE Scheduler
    BY <1>8, <1>9, <1>10, <1>11, <1>12, <1>13, <1>14, <1>15, <1>16, <2>2 DEF Scheduler
  <2> QED BY <1>17, <1>19, <2>1, <2>2 DEF Next
<1> QED BY <1>3, <1>19

\* CoreInv holds of every reachable state.
LEMMA CoreIsConsistent == Spec => []CoreInv
<1>1. CoreInv /\ [Next]_vars => CoreInv'
  BY EveryStep
<1> QED BY <1>1, InitCore, PTL DEF Spec

\* m_active_streams is the number of ACTIVE nodes of the port at all times, whatever
\* the messages and durations do between two nodes, and an IDLE port has no nodes.
THEOREM CountIsExact == Spec => []ActiveCountIsExact
<1>1. CoreInv => ActiveCountIsExact
  BY DEF CoreInv, PortsOK, PortOK, PortTyped, ActiveCountIsExact
<1> QED BY <1>1, CoreIsConsistent, PTL

-----------------------------------------------------------------------------
(* The queue.                                                              *)

\* A port that runs has an active stream, unless its program started none.
RunsOK ==
  \A p \in Ports :
    ports[p].state # "IDLE" => ports[p].active > 0 \/ StartsNothing(ports[p].prog)

\* What stopping leaves of a port.
LEMMA EndedPort ==
  ASSUME CoreInv, NEW p \in Ports, Ends(p)
  PROVE  ports'[p].state = "IDLE" /\ ports'[p].nodes = <<>>
<1>1. PortOK(p, ports[p]) /\ "stop" \in Causes /\ "duration" \in Causes
  BY DEF CoreInv, PortsOK, Causes
<1> QED BY <1>1, StoppedOK DEF Ends

\* A finished port is idle and has no nodes.
LEMMA FinishedPort ==
  ASSUME CoreInv, NEW p \in Ports, NEW i, InQueue(p, i),
         ports'[p] = Stopped(OneLess(PortAfter(p, i)), "finished")
  PROVE  ports'[p].state = "IDLE" /\ ports'[p].nodes = <<>>
<1> DEFINE o == PortAfter(p, i)
<1>1. PortOneOver(p, o)
  BY PortAfterOK DEF InQueue
<1> HIDE DEF o
<1>2. PortOK(p, OneLess(o)) /\ "finished" \in Causes
  BY <1>1, OneLessOK DEF Causes
<1> QED BY <1>2, StoppedOK DEF o

\* Every step keeps a stream active in a port that runs, if its program started one.
LEMMA RunsStep ==
  ASSUME CoreInv, RunsOK, [Next]_vars
  PROVE  RunsOK'
<1> SUFFICES ASSUME NEW p \in Ports, ports'[p].state # "IDLE"
             PROVE  ports'[p].active > 0 \/ StartsNothing(ports'[p].prog)
  BY DEF RunsOK
<1>1. CASE GoesOnAsItIs(ports[p], ports'[p])
  BY <1>1 DEF GoesOnAsItIs, SamePort, RunsOK
<1>2. CASE Adjusted(p, ports[p], ports'[p])
  BY <1>2 DEF Adjusted, RunsOK
<1>3. CASE Begins(p)
  <2>1. PICK prog \in Programs, d \in Durations : ports'[p] = Started(ports[p], prog, d)
    BY <1>3 DEF Begins
  <2>2. ports'[p].active = Cardinality(Starts(prog)) /\ ports'[p].prog = prog
    BY <2>1 DEF Started
  <2>3. Starts(prog) = {} => StartsNothing(prog)
    BY DEF StartsNothing, Starts
  <2>4. IsFiniteSet(Starts(prog))
    <3>1. prog \in Seq(Stream)
      BY ProgramsAssumption
    <3>2. Starts(prog) \subseteq 1..Len(prog) /\ Len(prog) \in Nat
      BY <3>1 DEF Starts
    <3>3. 1 \in Int /\ Len(prog) \in Int
      BY <3>2
    <3>4. IsFiniteSet(1..Len(prog))
      BY <3>3, FS_Interval
    <3> QED BY <3>2, <3>4, FS_Subset
  <2>5. /\ Cardinality(Starts(prog)) \in Nat
        /\ Cardinality(Starts(prog)) = 0 => Starts(prog) = {}
    BY <2>4, FS_CardinalityType, FS_EmptySet
  <2> QED BY <2>2, <2>3, <2>5
<1>4. CASE Ends(p)
  BY <1>4, EndedPort
<1>5. CASE Sends(p)
  <2>1. PICK i \in DOMAIN ports[p].nodes :
          /\ InQueue(p, i)
          /\ \/ SamePort(ports[p], ports'[p])
             \/ Taken(p, i)
             \/ ports'[p].active > 0
             \/ ports'[p] = Stopped(OneLess(PortAfter(p, i)), "finished")
    BY <1>5 DEF Sends
  <2>2. CASE SamePort(ports[p], ports'[p])
    BY <2>2 DEF SamePort, RunsOK
  <2>3. CASE Taken(p, i)
    <3>1. SamePort(PortAfter(p, i), ports'[p])
      BY <2>3 DEF Taken
    <3>2. SamePort(ports[p], PortAfter(p, i))
      BY <2>1, PortAfterOK DEF InQueue
    <3> QED BY <3>1, <3>2 DEF SamePort, RunsOK
  <2>4. CASE ports'[p].active > 0
    BY <2>4
  <2>5. CASE ports'[p] = Stopped(OneLess(PortAfter(p, i)), "finished")
    BY <2>1, <2>5, FinishedPort
  <2> QED BY <2>1, <2>2, <2>3, <2>4, <2>5
<1> QED BY <1>1, <1>2, <1>3, <1>4, <1>5, EveryStep DEF PortStep

\* No port runs at the start.
LEMMA InitRuns == Init => RunsOK
BY DEF Init, RunsOK

\* The type invariant is part of CoreInv.
LEMMA CoreTypes == CoreInv => TypeOK
<1> SUFFICES ASSUME CoreInv PROVE TypeOK
  OBVIOUS
<1>1. DOMAIN ports = Ports
  BY DEF CoreInv, PortsOK
<1>2. ASSUME NEW p \in Ports
      PROVE  /\ ports[p].state \in {"IDLE", "TRANSMITTING", "PAUSE"}
             /\ ports[p].active \in 0..Modulus - 1
             /\ ports[p].event \in -1..MaxStarts[p]
             /\ ports[p].nodes \in Seq(Node)
             /\ Len(ports[p].nodes) \in {0, Len(ports[p].prog)}
             /\ Len(ports[p].ends) <= ports[p].event + 1
  <2>1. PortTyped(p, ports[p]) /\ ports[p] \in PortRec
    BY DEF CoreInv, PortsOK, PortOK, PortTyped
  <2>2. /\ ports[p].state \in {"IDLE", "TRANSMITTING", "PAUSE"}
        /\ ports[p].active \in 0..Modulus - 1 /\ ports[p].nodes \in Seq(Node)
        /\ ports[p].event \in Int /\ Len(ports[p].ends) \in Nat
    BY <2>1 DEF PortRec
  <2>3. Len(ports[p].nodes) \in {0, Len(ports[p].prog)}
    BY <2>1 DEF PortTyped
  <2>4. Len(ports[p].ends) <= ports[p].event + 1
    BY <2>1, <2>2 DEF PortTyped
  <2> QED BY <2>1, <2>2, <2>3, <2>4 DEF PortTyped
<1>3. nonActive \in Nat
  BY FS_CardinalityType DEF CoreInv, CmdsOK
<1> QED BY <1>1, <1>2, <1>3 DEF TypeOK, CoreInv, TimesOK, LoopOK

\* IdleCoreIsEmpty follows.
LEMMA IdleIsEmpty == CoreInv /\ RunsOK => IdleCoreIsEmpty
<1> SUFFICES ASSUME CoreInv, RunsOK, phase = "idle", core = "IDLE"
             PROVE  /\ \A p \in Ports :
                         ports[p].state = "IDLE" \/ StartsNothing(ports[p].prog)
                    /\ Times = {}
  BY DEF IdleCoreIsEmpty
<1>1. NothingQueued /\ freed = {} /\ cmds = {} /\ sync = NoSync /\ exits = {}
  BY DEF CoreInv, LoopOK
<1>2. Queued = {}
  BY <1>1, QueuedNodes DEF CoreInv
<1>3. Times = {}
  BY <1>1, <1>2 DEF Times
<1>4. ASSUME NEW p \in Ports
      PROVE  ports[p].state = "IDLE" \/ StartsNothing(ports[p].prog)
  <2>1. PortOK(p, ports[p])
    BY DEF CoreInv, PortsOK
  <2>2. ActiveNodes(ports[p]) = {}
    <3>1. \A i \in DOMAIN ports[p].nodes : ports[p].nodes[i].queued = 0
      BY <1>1 DEF NothingQueued
    <3>2. \A i \in DOMAIN ports[p].nodes : ports[p].nodes[i].st # "ACTIVE"
      BY <2>1, <3>1 DEF PortOK, NodeOK
    <3> QED BY <3>2 DEF ActiveNodes
  <2>3. ports[p].active = 0
    BY <2>1, <2>2, FS_EmptySet DEF PortOK
  <2> QED BY <2>3 DEF RunsOK
<1> QED BY <1>3, <1>4

\* The queue is what the ports and the counters say it is, and a core that idles has
\* no port running but those whose program started no stream.
THEOREM QueueIsConsistent == Spec => []QueueInv
<1>1. CoreInv /\ RunsOK /\ [Next]_vars => (CoreInv /\ RunsOK)'
  BY EveryStep, RunsStep
<1>2. CoreInv /\ RunsOK => QueueInv
  <2> SUFFICES ASSUME CoreInv, RunsOK PROVE QueueInv
    OBVIOUS
  <2>1. TypeOK /\ IdleCoreIsEmpty
    BY CoreTypes, IdleIsEmpty
  <2>2. ActiveIsScheduledOnce
    BY DEF ActiveIsScheduledOnce, CoreInv, PortsOK, PortOK, NodeOK
  <2>3. DurationsAreCounted
    BY DEF DurationsAreCounted, CoreInv, CmdsOK
  <2> QED BY <2>1, <2>2, <2>3 DEF QueueInv
<1>3. Init => CoreInv /\ RunsOK
  BY InitCore, InitRuns
<1> QED BY <1>1, <1>2, <1>3, PTL DEF Spec

-----------------------------------------------------------------------------
(* The assertions.                                                         *)

\* How the process may come to fail an assertion: of the handler of a message, or, with a
\* quit on its way, when the queue is emptied.
AbortCases ==
  \/ UNCHANGED vars
  \/ phase \notin Aborted /\ phase' \notin Aborted
  \/ /\ phase \notin Aborted /\ phase' = "abort_message" /\ UNCHANGED <<ports, terminated>>
  \/ /\ phase \notin Aborted /\ phase' = "abort_queue" /\ UNCHANGED <<ports, terminated>>
     /\ terminated /\ core' = "IDLE"

\* There is no other way.
LEMMA AbortStep ==
  ASSUME CoreInv, [Next]_vars
  PROVE  AbortCases
<1> USE DEF AbortCases
<1>1. CASE UNCHANGED vars
  BY <1>1
<1>2. ASSUME NEW p \in Ports, NEW prog \in Programs, NEW d \in Durations,
             start_traffic(p, prog, d)
      PROVE  AbortCases
  <2>1. phase' = phase
    BY <1>2, StartTraffic
  <2>2. phase \in {"idle", "sync"}
    BY <1>2 DEF start_traffic, ReadsMessages
  <2> QED BY <2>1, <2>2
<1>3. ASSUME NEW p \in Ports, NEW cause \in Causes, stop_port(p, ports[p], cause)
      PROVE  phase' = phase
  <2>1. PortsOK /\ FreedOK /\ PortOK(p, ports[p])
    BY DEF CoreInv, PortsOK
  <2> QED BY <1>3, <2>1, StopPort
<1>4. ASSUME NEW p \in Ports, stop_traffic(p) PROVE AbortCases
  BY <1>3, <1>4 DEF stop_traffic, ReadsMessages, Causes
<1>5. ASSUME NEW p \in Ports,
             \/ pause_traffic(p) \/ resume_traffic(p)
             \/ \E f \in Factors : update_traffic(p, f)
      PROVE  AbortCases
  BY <1>5 DEF pause_traffic, resume_traffic, update_traffic, SetState, ReadsMessages
<1>6. CASE quit_main_loop
  BY <1>6 DEF quit_main_loop, ReadsMessages
<1>7. CASE leave_idle \/ pop_sync \/ end_sync
  BY <1>7 DEF leave_idle, pop_sync, end_sync
<1>8. ASSUME NEW t \in exits, pop_exit(t) PROVE AbortCases
  BY <1>8 DEF pop_exit
<1>9. CASE exit_scheduler
  <2>1. ~terminated => Queued = {}
    BY <1>9, QueuedNodes DEF exit_scheduler, CoreInv, LoopOK
  <2> QED BY <1>9, <2>1 DEF exit_scheduler
<1>10. ASSUME NEW f \in freed, pop_free(f) PROVE AbortCases
  BY <1>10 DEF pop_free
<1>11. ASSUME NEW c \in cmds, pop_command(c) PROVE AbortCases
  <2>1. c.port \in Ports /\ "duration" \in Causes
    BY DEF CoreInv, CmdsOK, Cmd, Causes
  <2>2. phase' = phase
    BY <1>3, <1>11, <2>1 DEF pop_command
  <2> QED BY <1>11, <2>2 DEF pop_command
<1>12. ASSUME NEW q \in Queued, handle_continues(q[1], q[2])
       PROVE  AbortCases
  BY <1>12 DEF handle_continues
<1>13. ASSUME NEW q \in Queued, handle_multi_burst(q[1], q[2])
       PROVE  AbortCases
  <2>1. /\ q[1] \in Ports /\ q[2] \in DOMAIN ports[q[1]].nodes
        /\ ports[q[1]].nodes[q[2]].queued > 0
    BY QueuedNodes DEF CoreInv
  <2>2. \/ MoreToSend(q[1], q[2]) \/ NextTaken(q[1], q[2])
        \/ OneEnded(q[1], q[2]) \/ AllEnded(q[1], q[2])
    BY <1>13, <2>1, BurstCases
  <2>3. phase' = phase
    BY <2>1, <2>2, MoreToSendOK, NextTakenOK, OneEndedOK, AllEndedOK
  <2> QED BY <1>13, <2>3 DEF handle_multi_burst
<1>14. CASE over_or_aborted
  BY <1>1, <1>14 DEF over_or_aborted
<1>15. ASSUME NEW p \in Ports, start_traffic_fails(p) \/ control_fails(p)
       PROVE  AbortCases
  BY <1>15 DEF start_traffic_fails, control_fails, message_assert_fails, ReadsMessages
<1>16. CASE Next
  <2>1. CASE ControlPlane
    BY <1>2, <1>4, <1>5, <1>6, <1>15, <2>1 DEF ControlPlane
  <2>2. CASE Scheduler
    BY <1>7, <1>8, <1>9, <1>10, <1>11, <1>12, <1>13, <2>2 DEF Scheduler
  <2> QED BY <1>14, <1>16, <2>1, <2>2 DEF Next
<1> QED BY <1>1, <1>16

\* The assertions about the core's own work hold: those of stop_traffic always, and the
\* sanity check of remove_all unless a start took a core out of TERMINATE.
THEOREM NoAssertionFails == Spec => []AssertionsHold
<1> DEFINE Inv == CoreInv /\ AssertionsHold
<1>1. Inv /\ [Next]_vars => Inv'
  <2> SUFFICES ASSUME CoreInv, AssertionsHold, [Next]_vars PROVE AssertionsHold'
    BY EveryStep
  <2> QED BY AbortStep DEF AbortCases, AssertionsHold, vars
<1>2. Init => Inv
  BY InitCore DEF Init, AssertionsHold
<1>3. Inv => AssertionsHold
  OBVIOUS
<1> HIDE DEF Inv
<1> QED BY <1>1, <1>2, <1>3, PTL DEF Spec

-----------------------------------------------------------------------------
(* The packets of a burst.                                                 *)

\* What was sent and what is left to send.
BurstOK(n, s) ==
  s.type = "burst" =>
    IF n.st = "ACTIVE"
    THEN n.sent + (Rounds(n.multi) - 1) * Rounds(s.pkts) + Rounds(n.single)
           = Rounds(s.pkts) * Rounds(s.bursts)
    ELSE n.sent \in {0, Rounds(s.pkts) * Rounds(s.bursts)}

BurstsOK == \A p \in Ports : \A i \in DOMAIN ports[p].nodes :
              BurstOK(ports[p].nodes[i], ports[p].prog[i])

\* A counter goes round at least once.
LEMMA RoundsType ==
  ASSUME NEW k \in 0..Modulus - 1
  PROVE  Rounds(k) \in Int /\ Rounds(k) > 0
<1>1. Modulus \in Nat \ {0}
  BY BoundsAssumption
<1> HIDE DEF Modulus
<1> QED BY <1>1 DEF Rounds

\* A round less: a counter of 0 wraps.
LEMMA RoundsDown ==
  ASSUME NEW k \in 0..Modulus - 1
  PROVE  Wrap(k - 1) = Rounds(k) - 1
<1>1. Modulus \in Nat \ {0}
  BY BoundsAssumption
<1> HIDE DEF Modulus
<1>2. CASE k > 0
  <2>1. k - 1 \in 0..Modulus - 1
    BY <1>1, <1>2
  <2> QED BY <1>1, <1>2, <2>1, SmallMod DEF Wrap, Rounds
<1>3. CASE k = 0
  <2>1. (-1) % Modulus = Modulus - 1
    BY <1>1
  <2> QED BY <1>1, <1>3, <2>1 DEF Wrap, Rounds
<1> QED BY <1>2, <1>3

\* A counter that is not 0 goes round as often as it says.
LEMMA RoundsLeft ==
  ASSUME NEW k \in 0..Modulus - 1, k > 0
  PROVE  Rounds(k) = k
BY DEF Rounds

\* All of a burst is left to send.
LEMMA FullBurst ==
  ASSUME NEW n, NEW s \in Stream, n.st = "ACTIVE", n.sent = 0,
         n.single = s.pkts, n.multi = s.bursts
  PROVE  BurstOK(n, s)
<1> DEFINE a == Rounds(s.pkts)
           b == Rounds(s.bursts)
<1>1. a \in Int /\ b \in Int
  BY RoundsType DEF Stream
<1>2. 0 + (b - 1) * a + a = a * b
  <2> HIDE DEF a, b
  <2> QED BY <1>1
<1> QED BY <1>2 DEF BurstOK

\* A packet that is not the last moves one from what the counters have left to what is sent.
LEMMA SentOne ==
  ASSUME NEW n \in Node, NEW s \in Stream, s.type = "burst", BurstOK(n, s), n.st = "ACTIVE",
         NEW single \in 0..Modulus - 1, NEW multi \in 0..Modulus - 1, NEW t \in Nat,
         \/ single = Wrap(n.single - 1) /\ single > 0 /\ multi = n.multi
         \/ /\ Wrap(n.single - 1) = 0 /\ multi = Wrap(n.multi - 1) /\ multi > 0
            /\ single = s.pkts
  PROVE  BurstOK(pushed_back(n, single, multi, t), s)
<1> DEFINE m == pushed_back(n, single, multi, t)
           a == Rounds(s.pkts)
           x == Rounds(n.single)
           y == Rounds(n.multi)
           u == Rounds(single)
           v == Rounds(multi)
           total == Rounds(s.pkts) * Rounds(s.bursts)
<1>1. /\ n.single \in 0..Modulus - 1 /\ n.multi \in 0..Modulus - 1 /\ n.sent \in Nat
      /\ s.pkts \in 0..Modulus - 1 /\ s.bursts \in 0..Modulus - 1
  BY DEF Node, Stream
<1>2. n.sent + (y - 1) * a + x = total
  BY DEF BurstOK
<1>3. m.st = "ACTIVE" /\ m.sent = n.sent + 1 /\ m.single = single /\ m.multi = multi
  BY DEF pushed_back
<1>4. /\ a \in Int /\ x \in Int /\ y \in Int /\ u \in Int /\ v \in Int /\ n.sent \in Int
      /\ total \in Int
  <2>1. a \in Int /\ x \in Int /\ y \in Int /\ u \in Int /\ v \in Int /\ n.sent \in Int
    BY <1>1, RoundsType
  <2>2. Rounds(s.bursts) \in Int
    BY <1>1, RoundsType
  <2> HIDE DEF a, x, y, u, v
  <2> QED BY <2>1, <2>2 DEF a
<1>5. \/ u = x - 1 /\ v = y
      \/ x = 1 /\ v = y - 1 /\ u = a
  <2>1. Wrap(n.single - 1) = x - 1 /\ Wrap(n.multi - 1) = y - 1
    BY <1>1, RoundsDown
  <2>2. CASE single = Wrap(n.single - 1) /\ single > 0 /\ multi = n.multi
    <3>1. u = single
      BY <2>2, RoundsLeft
    <3> QED BY <2>1, <2>2, <3>1
  <2>3. CASE /\ Wrap(n.single - 1) = 0 /\ multi = Wrap(n.multi - 1) /\ multi > 0
             /\ single = s.pkts
    <3>1. v = multi
      BY <2>3, RoundsLeft
    <3>2. x = 1
      <4> HIDE DEF x
      <4> QED BY <1>4, <2>1, <2>3
    <3> QED BY <2>1, <2>3, <3>1, <3>2
  <2> QED BY <2>2, <2>3
<1>6. n.sent + 1 + (v - 1) * a + u = total
  <2> HIDE DEF a, x, y, u, v, total, m
  <2>1. CASE u = x - 1 /\ v = y
    <3> DEFINE k == (y - 1) * a
    <3>1. k \in Int /\ n.sent + k + x = total /\ (v - 1) * a = k
      BY <1>2, <1>4, <2>1
    <3> HIDE DEF k
    <3>2. n.sent + 1 + k + u = total
      BY <1>4, <2>1, <3>1
    <3> QED BY <3>1, <3>2, Zenon
  <2>2. CASE x = 1 /\ v = y - 1 /\ u = a
    <3> DEFINE k == (y - 1) * a
               l == (y - 2) * a
    <3>1. k \in Int /\ l \in Int /\ k = l + a
      BY <1>4
    <3>2. n.sent + k + 1 = total
      BY <1>2, <2>2
    <3>3. (v - 1) * a = l
      BY <1>4, <2>2
    <3> HIDE DEF k, l
    <3>4. n.sent + 1 + l + u = total
      BY <1>4, <2>2, <3>1, <3>2
    <3> QED BY <3>3, <3>4, Zenon
  <2> QED BY <1>5, <2>1, <2>2
<1> HIDE DEF m
<1> QED BY <1>3, <1>6 DEF BurstOK, m

\* When both counters reach 0 everything is sent.
LEMMA AllSent ==
  ASSUME NEW n \in Node, NodeOK(n), n.queued > 0,
         NEW s \in Stream, s.type = "burst", BurstOK(n, s), n.st = "ACTIVE",
         Wrap(n.single - 1) = 0, Wrap(n.multi - 1) = 0
  PROVE  BurstOK(Over(n), s)
<1> DEFINE a == Rounds(s.pkts)
           x == Rounds(n.single)
           y == Rounds(n.multi)
           total == Rounds(s.pkts) * Rounds(s.bursts)
<1>1. /\ n.single \in 0..Modulus - 1 /\ n.multi \in 0..Modulus - 1 /\ n.sent \in Nat
      /\ s.pkts \in 0..Modulus - 1
  BY DEF Node, Stream
<1>2. n.sent + (y - 1) * a + x = total
  BY DEF BurstOK
<1>3. a \in Int /\ x \in Int /\ y \in Int /\ x - 1 = 0 /\ y - 1 = 0
  BY <1>1, RoundsType, RoundsDown
<1>4. n.sent + 1 = total
  <2> HIDE DEF total, a, x, y
  <2>1. x = 1 /\ (y - 1) * a = 0
    BY <1>3
  <2> QED BY <1>1, <1>2, <2>1
<1>5. Over(n).st = "INACTIVE" /\ Over(n).sent = total
  BY <1>4, OverOK
<1> QED BY <1>5 DEF BurstOK

\* A new node has everything left to send.
LEMMA StartBurst ==
  ASSUME NEW s \in Stream
  PROVE  BurstOK(add_stream(s), s)
<1> DEFINE n == add_stream(s)
<1>1. s.start \in BOOLEAN
  BY DEF Stream
<1>2. /\ n.st = "ACTIVE" <=> s.start
      /\ n.sent = 0
      /\ s.type = "burst" => n.single = s.pkts /\ n.multi = s.bursts
  BY AddStreamOK DEF add_stream
<1> HIDE DEF n
<1>3. CASE s.type = "burst" /\ n.st = "ACTIVE"
  BY <1>2, <1>3, FullBurst DEF n
<1>4. CASE ~(s.type = "burst" /\ n.st = "ACTIVE")
  BY <1>2, <1>4 DEF BurstOK, n
<1> QED BY <1>3, <1>4

\* The node of the port that has sent its last packet, and all others.
LEMMA BurstsAfter ==
  ASSUME CoreInv, BurstsOK, NEW p \in Ports, NEW i, InQueue(p, i), LastSent(p, i),
         ports[p].prog[i].type = "burst"
  PROVE  \A j \in DOMAIN PortAfter(p, i).nodes :
           BurstOK(PortAfter(p, i).nodes[j], PortAfter(p, i).prog[j])
<1> DEFINE port == ports[p]
           o == PortAfter(p, i)
           n == port.nodes[i]
<1>1. SamePort(port, o) /\ NodeChanged(port, o, i, Over(n))
  BY PortAfterOK DEF InQueue
<1>2. PortOK(p, port) /\ PortTyped(p, port) /\ port.nodes \in Seq(Node)
  BY DEF CoreInv, PortsOK, PortOK, PortTyped, PortRec
<1>3. i \in DOMAIN port.nodes /\ n.queued > 0
  BY DEF InQueue
<1>4. n \in Node /\ NodeOK(n) /\ port.prog[i] \in Stream
  BY <1>2, <1>3, NodeFacts, NodeHasStream DEF PortOK
<1>5. n.st = "ACTIVE"
  BY <1>3, <1>4 DEF NodeOK
<1>6. BurstOK(n, port.prog[i])
  BY <1>3 DEF BurstsOK
<1>7. Wrap(n.single - 1) = 0 /\ Wrap(n.multi - 1) = 0
  BY DEF LastSent
<1>8. BurstOK(Over(n), port.prog[i])
  BY <1>3, <1>4, <1>5, <1>6, <1>7, AllSent
<1>9. \A j \in DOMAIN port.nodes : BurstOK(port.nodes[j], port.prog[j])
  BY DEF BurstsOK
<1> HIDE DEF o
<1> QED BY <1>1, <1>8, <1>9 DEF SamePort, NodeChanged, o

\* Every step keeps sent and left together equal to all packets of the bursts.
LEMMA BurstsStep ==
  ASSUME CoreInv, BurstsOK, [Next]_vars
  PROVE  BurstsOK'
<1> SUFFICES ASSUME NEW p \in Ports, NEW j \in DOMAIN ports'[p].nodes
             PROVE  BurstOK(ports'[p].nodes[j], ports'[p].prog[j])
  BY DEF BurstsOK
<1>1. \A k \in DOMAIN ports[p].nodes : BurstOK(ports[p].nodes[k], ports[p].prog[k])
  BY DEF BurstsOK
<1>2. PortTyped(p, ports[p]) /\ PortOK(p, ports[p]) /\ ports[p].nodes \in Seq(Node)
  BY DEF CoreInv, PortsOK, PortOK, PortTyped, PortRec
<1>3. CASE GoesOnAsItIs(ports[p], ports'[p])
  BY <1>1, <1>3 DEF GoesOnAsItIs, SamePort, SameButTimes, BurstOK
<1>4. CASE Adjusted(p, ports[p], ports'[p])
  BY <1>1, <1>4 DEF Adjusted
<1>5. CASE Begins(p)
  <2>1. PICK prog \in Programs, d \in Durations : ports'[p] = Started(ports[p], prog, d)
    BY <1>5 DEF Begins
  <2>2. ports'[p].nodes = StartNodes(prog) /\ ports'[p].prog = prog
    BY <2>1 DEF Started
  <2>3. j \in DOMAIN prog /\ ports'[p].nodes[j] = add_stream(prog[j])
    BY <2>2 DEF StartNodes
  <2>4. prog[j] \in Stream
    BY <2>3, ProgramsAssumption
  <2> QED BY <2>2, <2>3, <2>4, StartBurst
<1>6. CASE Ends(p)
  BY <1>6, EndedPort
<1>7. CASE Sends(p)
  <2>1. PICK i \in DOMAIN ports[p].nodes :
          /\ InQueue(p, i) /\ ports[p].prog[i].type = "burst"
          /\ \/ SamePort(ports[p], ports'[p]) /\ NewBurst(ports[p], ports'[p], i)
             \/ LastSent(p, i) /\ Taken(p, i)
             \/ LastSent(p, i) /\ ports'[p] = OneLess(PortAfter(p, i))
             \/ ports'[p] = Stopped(OneLess(PortAfter(p, i)), "finished")
    BY <1>7 DEF Sends
  <2> DEFINE port == ports[p]
             n == port.nodes[i]
             s == port.prog[i]
             o == PortAfter(p, i)
  <2>2. /\ n \in Node /\ NodeOK(n) /\ s \in Stream /\ n.queued > 0 /\ port.prog \in Programs
        /\ i \in DOMAIN port.prog
    BY <1>2, <2>1, NodeFacts, NodeHasStream DEF PortOK, InQueue
  <2>3. n.st = "ACTIVE"
    BY <2>2 DEF NodeOK
  <2>4. CASE SamePort(port, ports'[p]) /\ NewBurst(port, ports'[p], i)
    <3>1. PICK single \in 0..Modulus - 1, multi \in 0..Modulus - 1, t \in Nat :
            /\ \/ single = Wrap(n.single - 1) /\ single > 0 /\ multi = n.multi
               \/ /\ Wrap(n.single - 1) = 0 /\ multi = Wrap(n.multi - 1) /\ multi > 0
                  /\ single = s.pkts
            /\ NodeChanged(port, ports'[p], i, pushed_back(n, single, multi, t))
      BY <2>4 DEF NewBurst
    <3>2. BurstOK(pushed_back(n, single, multi, t), s)
      BY <1>1, <2>1, <2>2, <2>3, <3>1, SentOne
    <3> QED BY <1>1, <2>4, <3>1, <3>2 DEF NodeChanged, SamePort
  <2>5. LastSent(p, i) => \A k \in DOMAIN o.nodes : BurstOK(o.nodes[k], o.prog[k])
    BY <2>1, BurstsAfter
  <2>6. PortOneOver(p, o) /\ PortTyped(p, o) /\ o.nodes \in Seq(Node) /\ o.prog \in Programs
    <3>1. PortOneOver(p, o) /\ SamePort(port, o)
      BY <2>1, PortAfterOK DEF InQueue
    <3> QED BY <2>2, <3>1 DEF PortOneOver, PortTyped, PortRec, SamePort
  <2> HIDE DEF o
  <2>7. CASE LastSent(p, i) /\ Taken(p, i)
    <3> DEFINE nx == o.prog[i].next
    <3>1. /\ nx \in DOMAIN o.nodes /\ SamePort(o, ports'[p])
          /\ \E t \in Nat :
               NodeChanged(o, ports'[p], nx, refresh(o.nodes[nx], o.prog[nx], t))
      BY <2>7 DEF Taken, o
    <3>2. PICK t \in Nat : NodeChanged(o, ports'[p], nx, refresh(o.nodes[nx], o.prog[nx], t))
      BY <3>1
    <3>3. o.nodes[nx] \in Node /\ o.prog[nx] \in Stream /\ nx \in DOMAIN o.prog
      BY <2>6, <3>1, NodeFacts, NodeHasStream
    <3>4. BurstOK(refresh(o.nodes[nx], o.prog[nx], t), o.prog[nx])
      <4> DEFINE m == refresh(o.nodes[nx], o.prog[nx], t)
                 r == o.prog[nx]
      <4>1. m.st = "ACTIVE" /\ m.sent = 0 /\ m.single = r.pkts /\ m.multi = r.bursts
        BY <3>3, RefreshOK
      <4> HIDE DEF m, r
      <4> QED BY <3>3, <4>1, FullBurst DEF m, r
    <3> QED BY <2>5, <2>7, <3>1, <3>2, <3>4 DEF NodeChanged, SamePort
  <2>8. CASE LastSent(p, i) /\ ports'[p] = OneLess(o)
    <3>1. OneLess(o).nodes = o.nodes /\ OneLess(o).prog = o.prog
      BY <2>6, OneLessOK
    <3> QED BY <2>5, <2>8, <3>1
  <2>9. CASE ports'[p] = Stopped(OneLess(o), "finished")
    BY <2>1, <2>9, FinishedPort DEF o
  <2> QED BY <2>1, <2>4, <2>7, <2>8, <2>9 DEF o
<1> QED BY <1>3, <1>4, <1>5, <1>6, <1>7, EveryStep DEF PortStep

\* A burst stream sends bursts * pkts packets each time it is activated, whatever its
\* port does meanwhile; a count of 0, which the share of a core may be, goes once round
\* all values of the counter.
THEOREM BurstsAreComplete == Spec => []BurstSendsItsPackets
<1>1. CoreInv /\ BurstsOK /\ [Next]_vars => (CoreInv /\ BurstsOK)'
  BY EveryStep, BurstsStep
<1>2. Init => CoreInv /\ BurstsOK
  <2>1. Init => BurstsOK
    BY DEF Init, BurstsOK
  <2> QED BY <2>1, InitCore
<1>3. CoreInv /\ BurstsOK => BurstSendsItsPackets
  BY DEF BurstsOK, BurstOK, BurstSendsItsPackets
<1> QED BY <1>1, <1>2, <1>3, PTL DEF Spec

-----------------------------------------------------------------------------
(* Programs that end.                                                      *)

\* A set of streams that, once one of them is active, is never without one.
Endless(prog, B) ==
  /\ B \subseteq DOMAIN prog
  /\ \A i \in B : prog[i].type = "continuous" \/ prog[i].next \in B

\* A program is finite if no endless part of it starts.
LEMMA FiniteProgram ==
  ASSUME NEW prog \in Programs,
         \A B \in SUBSET DOMAIN prog : Endless(prog, B) => \A i \in B : ~prog[i].start
  PROVE  Finite(prog)
<1> DEFINE D == DOMAIN prog
           U == UNION {B \in SUBSET D : Endless(prog, B)}
           S == D \ U
<1>1. prog \in Seq(Stream) /\ \A i \in D : prog[i] \in Stream
  BY ProgramsAssumption
<1>2. \A i \in D : prog[i].next = NONE \/ prog[i].next \in D
  BY ProgramsAssumption
<1>3. \A i \in D : prog[i].type \in {"continuous", "burst"}
  BY <1>1 DEF Stream
<1>4. U \subseteq D /\ Endless(prog, U)
  BY DEF Endless
<1>5. ASSUME NEW B \in SUBSET D, Endless(prog, B) PROVE B \subseteq U
  BY <1>5
<1>6. \A i \in D : prog[i].start => i \in S
  BY <1>4
<1>7. ASSUME NEW j \in S, prog[j].next # NONE PROVE prog[j].next \in S
  <2> SUFFICES ASSUME prog[j].next \in U PROVE FALSE
    BY <1>2, <1>7
  <2>1. Endless(prog, U \cup {j})
    BY <1>4 DEF Endless
  <2>2. U \cup {j} \in SUBSET D
    BY <1>4
  <2>3. j \in U
    BY <1>5, <2>1, <2>2
  <2> QED BY <2>3
<1>8. S \in SUBSET D
  OBVIOUS
<1> HIDE DEF U, S
<1>9. Reached(prog) \subseteq S
  BY <1>6, <1>7, <1>8 DEF Reached
<1>10. \A i \in Reached(prog) : prog[i].type = "burst"
  <2> SUFFICES ASSUME NEW i \in Reached(prog), prog[i].type # "burst" PROVE FALSE
    OBVIOUS
  <2>1. i \in D /\ i \in S
    BY <1>8, <1>9
  <2>2. Endless(prog, {i})
    BY <1>3, <2>1 DEF Endless
  <2>3. i \in U
    BY <1>5, <2>1, <2>2
  <2> QED BY <2>1, <2>3 DEF S
<1>11. ASSUME NEW C \in SUBSET Reached(prog), C # {} PROVE \E i \in C : prog[i].next \notin C
  <2> SUFFICES ASSUME \A i \in C : prog[i].next \in C PROVE FALSE
    OBVIOUS
  <2>1. C \in SUBSET D
    BY <1>8, <1>9
  <2>2. Endless(prog, C)
    BY <2>1 DEF Endless
  <2>3. C \subseteq U
    BY <1>5, <2>1, <2>2
  <2> QED BY <1>9, <1>11, <2>3 DEF S
<1> QED BY <1>10, <1>11 DEF Finite

\* One of the streams that never end is active, if the program starts one.
EndlessRuns(port) ==
  \A B \in SUBSET DOMAIN port.prog :
    Endless(port.prog, B) /\ (\E i \in B : port.prog[i].start) =>
      \E i \in B : port.nodes[i].st = "ACTIVE"

\* It is when a stream is over and does not start its next one: that one is active.
LEMMA EndlessAfter ==
  ASSUME CoreInv, NEW p \in Ports, NEW i, InQueue(p, i), EndlessRuns(ports[p]),
         ports[p].prog[i].type = "burst", ~NextStarts(PortAfter(p, i), i)
  PROVE  EndlessRuns(PortAfter(p, i))
<1> DEFINE port == ports[p]
           o == PortAfter(p, i)
           nx == port.prog[i].next
<1>1. /\ SamePort(port, o) /\ NodeChanged(port, o, i, Over(port.nodes[i]))
      /\ i \in DOMAIN port.nodes
  BY PortAfterOK DEF InQueue
<1>2. /\ PortTyped(p, port) /\ port.nodes \in Seq(Node)
  BY DEF CoreInv, PortsOK, PortOK, PortTyped, PortRec
<1>3. /\ port.prog \in Programs /\ DOMAIN port.prog = DOMAIN port.nodes
      /\ port.prog \in Seq(Stream)
  BY <1>1, <1>2, NodeHasStream, ProgramsAssumption
<1>4. o.prog = port.prog /\ DOMAIN o.nodes = DOMAIN port.nodes
  BY <1>1 DEF SamePort, NodeChanged
<1> SUFFICES ASSUME NEW B \in SUBSET DOMAIN port.prog, Endless(port.prog, B),
                    \E k \in B : port.prog[k].start
             PROVE  \E k \in B : o.nodes[k].st = "ACTIVE"
  BY <1>4 DEF EndlessRuns
<1>5. PICK k \in B : port.nodes[k].st = "ACTIVE"
  BY DEF EndlessRuns
<1>6. CASE k # i
  <2>1. o.nodes[k] = port.nodes[k]
    BY <1>1, <1>3, <1>6 DEF NodeChanged
  <2> QED BY <1>5, <2>1
<1>7. CASE k = i
  <2>1. nx \in B /\ nx \in DOMAIN port.nodes
    BY <1>3, <1>7 DEF Endless
  <2>2. nx # NONE
    BY <1>2, <2>1 DEF NONE
  <2>3. o.nodes[nx].st # "INACTIVE"
    BY <1>4, <2>2 DEF NextStarts
  <2>4. PortTyped(p, o) /\ o.nodes \in Seq(Node)
    BY PortAfterOK DEF InQueue, PortOneOver, PortTyped, PortRec
  <2>5. o.nodes[nx].st = "ACTIVE"
    BY <1>4, <2>1, <2>3, <2>4, NodeFacts
  <2> QED BY <2>1, <2>5
<1> QED BY <1>6, <1>7

\* What the steps of the abstract port need to know.
PauseOK == \A p \in Ports : ports[p].state = "PAUSE" => AllContinues(ports[p].prog)
TimedOK == \A c \in cmds : c.run = ports[c.port].event => ports[c.port].timed
EndlessOK == \A p \in Ports : ports[p].state # "IDLE" => EndlessRuns(ports[p])

RefInv == CoreInv /\ PauseOK /\ TimedOK /\ EndlessOK

\* The strengthening for the refinement holds at the start.
LEMMA InitRef == Init => RefInv
<1> SUFFICES ASSUME Init PROVE RefInv
  OBVIOUS
<1>1. PauseOK /\ TimedOK /\ EndlessOK
  BY DEF Init, PauseOK, TimedOK, EndlessOK
<1> QED BY <1>1, InitCore DEF RefInv

\* The run of a port stays what it is.
SameRun(port, new) ==
  new.event = port.event /\ new.prog = port.prog /\ new.timed = port.timed

\* And nothing is reported.
SameEvents(port, new) ==
  SameRun(port, new) /\ new.state = port.state /\ new.ends = port.ends

\* The run ends, and is reported with its id.
Reported(port, new, cause) ==
  /\ SameRun(port, new) /\ new.state = "IDLE"
  /\ new.ends = Append(port.ends, <<port.event, cause>>)

\* Stopping reports a run once, and an idle port not at all.
LEMMA StoppedRun ==
  ASSUME NEW p \in Ports, NEW port, PortOK(p, port), NEW cause \in Causes
  PROVE  /\ port.state = "IDLE" => Stopped(port, cause) = port
         /\ port.state # "IDLE" => Reported(port, Stopped(port, cause), cause)
<1>1. port.state = "IDLE" => Stopped(port, cause) = port
  BY DEF Stopped
<1>2. ASSUME port.state # "IDLE" PROVE Reported(port, Stopped(port, cause), cause)
  <2> DEFINE e == Append(port.ends, <<port.event, cause>>)
  <2>1. port \in PortRec
    BY DEF PortOK, PortTyped
  <2>2. Stopped(port, cause) =
          [state |-> "IDLE", active |-> 0, event |-> port.event, prog |-> port.prog,
           nodes |-> <<>>, factor |-> port.factor, timed |-> port.timed, ends |-> e]
    BY <1>2, <2>1, StoppedFields
  <2> HIDE DEF e
  <2> QED BY <2>2 DEF Reported, SameRun, e
<1> QED BY <1>1, <1>2

\* A packet of a burst stream leaves the run as it is, or is the last one of all.
LEMMA SendsRun ==
  ASSUME CoreInv, NEW p \in Ports, Sends(p)
  PROVE  \/ SameEvents(ports[p], ports'[p])
         \/ /\ Reported(ports[p], ports'[p], "finished") /\ ports[p].state # "IDLE"
            /\ \E i : /\ InQueue(p, i) /\ ports[p].prog[i].type = "burst"
                      /\ ~NextStarts(PortAfter(p, i), i)
                      /\ ActiveNodes(PortAfter(p, i)) = {}
<1>1. PICK i \in DOMAIN ports[p].nodes :
        /\ InQueue(p, i) /\ ports[p].prog[i].type = "burst"
        /\ \/ SamePort(ports[p], ports'[p])
           \/ Taken(p, i)
           \/ ports'[p] = OneLess(PortAfter(p, i))
           \/ /\ ~NextStarts(PortAfter(p, i), i)
              /\ OneLess(PortAfter(p, i)).active = 0
              /\ ports'[p] = Stopped(OneLess(PortAfter(p, i)), "finished")
  BY DEF Sends
<1> DEFINE o == PortAfter(p, i)
           l == OneLess(o)
<1>2. PortOneOver(p, o) /\ SamePort(ports[p], o)
  BY <1>1, PortAfterOK DEF InQueue
<1>3. SameEvents(ports[p], o) /\ o.state # "IDLE"
  BY <1>2 DEF SamePort, SameEvents, SameRun, PortOneOver
<1>4. CASE SamePort(ports[p], ports'[p])
  BY <1>4 DEF SamePort, SameEvents, SameRun
<1>5. CASE Taken(p, i)
  <2>1. SamePort(o, ports'[p])
    BY <1>5 DEF Taken
  <2> QED BY <1>3, <2>1 DEF SamePort, SameEvents, SameRun
<1>6. /\ PortOK(p, l) /\ SameEvents(o, l) /\ ActiveNodes(l) = ActiveNodes(o)
      /\ l.nodes = o.nodes
  <2> HIDE DEF o
  <2>1. /\ PortOK(p, l) /\ l.nodes = o.nodes /\ l.state = o.state /\ l.event = o.event
        /\ l.prog = o.prog /\ l.timed = o.timed /\ l.ends = o.ends
        /\ ActiveNodes(l) = ActiveNodes(o)
    BY <1>2, OneLessOK
  <2> QED BY <2>1 DEF SameEvents, SameRun
<1>7. CASE ports'[p] = l
  BY <1>3, <1>6, <1>7 DEF SameEvents, SameRun
<1>8. CASE ~NextStarts(o, i) /\ l.active = 0 /\ ports'[p] = Stopped(l, "finished")
  <2>1. Reported(l, ports'[p], "finished")
    <3> HIDE DEF l
    <3> QED BY <1>3, <1>6, <1>8, StoppedRun DEF Causes, SameEvents
  <2>2. Reported(ports[p], ports'[p], "finished") /\ ports[p].state # "IDLE"
    <3> HIDE DEF l, o
    <3> QED BY <1>3, <1>6, <2>1 DEF Reported, SameEvents, SameRun
  <2>3. ActiveNodes(o) = {}
    <3>1. l.nodes \in Seq(Node) /\ Cardinality(ActiveNodes(l)) = 0
      <4> HIDE DEF l
      <4> QED BY <1>6, <1>8 DEF PortOK, PortTyped, PortRec
    <3>2. ActiveNodes(l) = {}
      BY <3>1, ActiveFinite
    <3> QED BY <1>6, <3>2
  <2> QED BY <1>1, <1>8, <2>2, <2>3
<1> QED BY <1>1, <1>4, <1>5, <1>7, <1>8

\* A run that is ended from outside is reported with its cause, a duration of its own included.
LEMMA EndsRun ==
  ASSUME CoreInv, NEW p \in Ports, Ends(p)
  PROVE  \/ ports'[p] = ports[p]
         \/ ports[p].state # "IDLE" /\ Reported(ports[p], ports'[p], "stop")
         \/ /\ ports[p].state # "IDLE" /\ Reported(ports[p], ports'[p], "duration")
            /\ \E c \in cmds : c.port = p /\ c.run = ports[p].event
<1>1. PortOK(p, ports[p]) /\ "stop" \in Causes /\ "duration" \in Causes
  BY DEF CoreInv, PortsOK, Causes
<1>2. CASE ports'[p] = Stopped(ports[p], "stop")
  BY <1>1, <1>2, StoppedRun
<1>3. CASE ports'[p] = Stopped(ports[p], "duration") /\ ports[p].state = "IDLE"
  BY <1>1, <1>3, StoppedRun
<1>4. CASE /\ ports'[p] = Stopped(ports[p], "duration") /\ ports[p].state # "IDLE"
           /\ \E c \in cmds : c.port = p /\ c.run = ports[p].event
  BY <1>1, <1>4, StoppedRun
<1> QED BY <1>2, <1>3, <1>4 DEF Ends

\* Only a start changes the run of a port.
LEMMA RunKept ==
  ASSUME CoreInv, NEW p \in Ports, PortStep(p)
  PROVE  SameRun(ports[p], ports'[p]) \/ Begins(p)
<1>1. CASE GoesOnAsItIs(ports[p], ports'[p])
  BY <1>1 DEF GoesOnAsItIs, SamePort, SameRun
<1>2. CASE Adjusted(p, ports[p], ports'[p])
  BY <1>2 DEF Adjusted, SameRun
<1>3. CASE Ends(p)
  BY <1>3, EndsRun DEF Reported, SameRun
<1>4. CASE Sends(p)
  BY <1>4, SendsRun DEF Reported, SameEvents
<1> QED BY <1>1, <1>2, <1>3, <1>4 DEF PortStep

\* Every step keeps a paused program continuous.
LEMMA PauseStep ==
  ASSUME CoreInv, PauseOK, [Next]_vars
  PROVE  PauseOK'
<1> SUFFICES ASSUME NEW p \in Ports, ports'[p].state = "PAUSE"
             PROVE  AllContinues(ports'[p].prog)
  BY DEF PauseOK
<1>1. CASE GoesOnAsItIs(ports[p], ports'[p])
  BY <1>1 DEF GoesOnAsItIs, SamePort, PauseOK
<1>2. CASE Adjusted(p, ports[p], ports'[p])
  BY <1>2 DEF Adjusted, PauseOK
<1>3. CASE Begins(p)
  BY <1>3 DEF Begins, Started
<1>4. CASE Ends(p)
  BY <1>4, EndsRun DEF Reported, PauseOK
<1>5. CASE Sends(p)
  BY <1>5, SendsRun DEF Reported, SameEvents, SameRun, PauseOK
<1> QED BY <1>1, <1>2, <1>3, <1>4, <1>5, EveryStep DEF PortStep

\* Every step keeps an endless part of a program running.
LEMMA EndlessStep ==
  ASSUME CoreInv, EndlessOK, [Next]_vars
  PROVE  EndlessOK'
<1> SUFFICES ASSUME NEW p \in Ports, ports'[p].state # "IDLE"
             PROVE  EndlessRuns(ports'[p])
  BY DEF EndlessOK
<1>1. CASE GoesOnAsItIs(ports[p], ports'[p])
  <2>1. ports[p].state # "IDLE" /\ ports'[p].prog = ports[p].prog
    BY <1>1 DEF GoesOnAsItIs, SamePort
  <2>2. PortTyped(p, ports[p]) /\ ports[p].nodes \in Seq(Node) /\ ports[p].prog \in Seq(Stream)
    BY DEF CoreInv, PortsOK, PortOK, PortTyped, PortRec
  <2>3. DOMAIN ports[p].nodes = DOMAIN ports[p].prog
    BY <2>1, <2>2 DEF PortTyped
  <2>4. \A i \in DOMAIN ports[p].prog : ports'[p].nodes[i].st = ports[p].nodes[i].st
    BY <1>1, <2>3 DEF GoesOnAsItIs, SameButTimes
  <2> QED BY <2>1, <2>4 DEF EndlessRuns, EndlessOK
<1>2. CASE Adjusted(p, ports[p], ports'[p])
  BY <1>2 DEF Adjusted, EndlessOK, EndlessRuns
<1>3. CASE Begins(p)
  <2>1. PICK prog \in Programs, d \in Durations : ports'[p] = Started(ports[p], prog, d)
    BY <1>3 DEF Begins
  <2>2. ports'[p].nodes = StartNodes(prog) /\ ports'[p].prog = prog
    BY <2>1 DEF Started
  <2>3. \A i \in DOMAIN prog : prog[i].start => ports'[p].nodes[i].st = "ACTIVE"
    BY <2>2, AddStreamOK, ProgramsAssumption DEF StartNodes, add_stream
  <2> QED BY <2>2, <2>3 DEF EndlessRuns
<1>4. CASE Ends(p)
  BY <1>4, EndedPort
<1>5. CASE Sends(p)
  <2>1. PICK i \in DOMAIN ports[p].nodes :
          /\ InQueue(p, i) /\ ports[p].prog[i].type = "burst"
          /\ \/ SamePort(ports[p], ports'[p]) /\ NewBurst(ports[p], ports'[p], i)
             \/ Taken(p, i)
             \/ ~NextStarts(PortAfter(p, i), i) /\ ports'[p] = OneLess(PortAfter(p, i))
             \/ ports'[p] = Stopped(OneLess(PortAfter(p, i)), "finished")
    BY <1>5 DEF Sends
  <2> DEFINE port == ports[p]
             o == PortAfter(p, i)
  <2>2. /\ PortTyped(p, port) /\ port.nodes \in Seq(Node) /\ port.state # "IDLE"
        /\ DOMAIN port.prog = DOMAIN port.nodes
    BY NodeHasStream DEF CoreInv, PortsOK, PortOK, PortTyped, PortRec
  <2>3. EndlessRuns(port)
    BY <2>2 DEF EndlessOK
  <2>4. /\ SamePort(port, o) /\ NodeChanged(port, o, i, Over(port.nodes[i]))
        /\ PortOneOver(p, o)
    BY <2>1, PortAfterOK DEF InQueue
  <2>5. CASE SamePort(port, ports'[p]) /\ NewBurst(port, ports'[p], i)
    <3>1. PICK single \in 0..Modulus - 1, multi \in 0..Modulus - 1, t \in Nat :
            NodeChanged(port, ports'[p], i, pushed_back(port.nodes[i], single, multi, t))
      BY <2>5 DEF NewBurst
    <3>2. pushed_back(port.nodes[i], single, multi, t).st = port.nodes[i].st
      BY DEF pushed_back
    <3>3. \A j \in DOMAIN port.prog : ports'[p].nodes[j].st = port.nodes[j].st
      BY <2>2, <3>1, <3>2 DEF NodeChanged
    <3>4. ports'[p].prog = port.prog
      BY <2>5 DEF SamePort
    <3> QED BY <2>3, <3>3, <3>4 DEF EndlessRuns
  <2>6. CASE Taken(p, i)
    <3> DEFINE nx == o.prog[i].next
    <3>1. /\ nx \in DOMAIN o.nodes /\ SamePort(o, ports'[p])
          /\ \E t \in Nat :
               NodeChanged(o, ports'[p], nx, refresh(o.nodes[nx], o.prog[nx], t))
      BY <2>6 DEF Taken
    <3>2. PICK t \in Nat : NodeChanged(o, ports'[p], nx, refresh(o.nodes[nx], o.prog[nx], t))
      BY <3>1
    <3>3. ports'[p].nodes[nx].st = "ACTIVE"
      BY <3>2 DEF NodeChanged, refresh
    <3>4. ports'[p].prog = port.prog /\ o.prog = port.prog
      BY <2>4, <3>1 DEF SamePort
    <3>5. \A j \in DOMAIN port.nodes :
            j # i /\ port.nodes[j].st = "ACTIVE" => ports'[p].nodes[j].st = "ACTIVE"
      BY <2>4, <3>2, <3>3 DEF NodeChanged
    <3> SUFFICES ASSUME NEW B \in SUBSET DOMAIN port.prog, Endless(port.prog, B),
                        \E k \in B : port.prog[k].start
                 PROVE  \E k \in B : ports'[p].nodes[k].st = "ACTIVE"
      BY <3>4 DEF EndlessRuns
    <3>6. PICK k \in B : port.nodes[k].st = "ACTIVE"
      BY <2>3 DEF EndlessRuns
    <3>7. CASE k = i
      <4>1. nx \in B
        BY <2>1, <3>4, <3>7 DEF Endless
      <4> QED BY <3>3, <4>1
    <3>8. CASE k # i
      BY <2>2, <3>5, <3>6, <3>8
    <3> QED BY <3>7, <3>8
  <2>7. CASE ~NextStarts(o, i) /\ ports'[p] = OneLess(o)
    <3>1. EndlessRuns(o)
      BY <2>1, <2>3, <2>7, EndlessAfter
    <3>2. OneLess(o).nodes = o.nodes /\ OneLess(o).prog = o.prog
      <4> HIDE DEF o
      <4> QED BY <2>4, OneLessOK
    <3> HIDE DEF o
    <3> QED BY <2>7, <3>1, <3>2 DEF EndlessRuns
  <2>8. CASE ports'[p] = Stopped(OneLess(o), "finished")
    BY <2>1, <2>8, FinishedPort
  <2> QED BY <2>1, <2>5, <2>6, <2>7, <2>8
<1> QED BY <1>1, <1>2, <1>3, <1>4, <1>5, EveryStep DEF PortStep

\* A duration in the queue was there before, or is that of a run that starts.
LEMMA CmdsStep ==
  ASSUME CoreInv, [Next]_vars, NEW x \in cmds'
  PROVE  \/ \E c \in cmds : c.port = x.port /\ c.run = x.run
         \/ /\ x.port \in Ports /\ Begins(x.port) /\ ports'[x.port].timed
<1>1. ASSUME cmds' \subseteq cmds PROVE \E c \in cmds : c.port = x.port /\ c.run = x.run
  BY <1>1
<1>2. ASSUME NEW p \in Ports, NEW prog \in Programs, NEW d \in Durations,
             start_traffic(p, prog, d), x \notin cmds
      PROVE  x.port = p /\ Begins(p) /\ ports'[p].timed
  <2>1. ports'[p] = Started(ports[p], prog, d) /\ ports[p].nodes = <<>>
    BY <1>2, StartTraffic
  <2>2. d > 0 /\ x.port = p
    BY <1>2 DEF start_traffic
  <2>3. ports'[p].timed = (d > 0)
    BY <2>1 DEF Started
  <2> QED BY <2>1, <2>2, <2>3 DEF Begins
<1>3. CASE pop_sync
  <2>1. PICK c \in cmds : x = Earlier(c, sync)
    BY <1>3 DEF pop_sync
  <2>2. sync \in Nat /\ sync <= c.when /\ c \in Cmd
    BY <1>3, TopIsFirst DEF pop_sync, CoreInv, TimesOK, CmdsOK, NoSync
  <2> QED BY <2>1, <2>2, CmdEarlier
<1>4. CASE ~(cmds' \subseteq cmds) /\ ~pop_sync
  <2>1. \E p \in Ports, prog \in Programs, d \in Durations : start_traffic(p, prog, d)
    <3>1. CASE UNCHANGED vars
      BY <1>4, <3>1 DEF vars
    <3>2. CASE ControlPlane
      BY <1>4, <3>2 DEF ControlPlane, stop_traffic, pause_traffic, resume_traffic,
                        update_traffic, SetState, quit_main_loop, start_traffic_fails,
                        control_fails, message_assert_fails
    <3>3. CASE Scheduler
      <4>1. CASE leave_idle \/ end_sync \/ exit_scheduler
        BY <1>4, <4>1 DEF leave_idle, end_sync, exit_scheduler
      <4>2. CASE \E t \in exits : pop_exit(t)
        BY <1>4, <4>2 DEF pop_exit
      <4>3. CASE \E f \in freed : pop_free(f)
        BY <1>4, <4>3 DEF pop_free
      <4>4. CASE \E c \in cmds : pop_command(c)
        BY <1>4, <4>4 DEF pop_command
      <4>5. CASE \E q \in Queued : handle_continues(q[1], q[2])
        BY <1>4, <4>5 DEF handle_continues
      <4>6. CASE \E q \in Queued : handle_multi_burst(q[1], q[2])
        BY <1>4, <4>6 DEF handle_multi_burst
      <4> QED BY <1>4, <3>3, <4>1, <4>2, <4>3, <4>4, <4>5, <4>6 DEF Scheduler
    <3>4. CASE over_or_aborted
      BY <3>1, <3>4 DEF over_or_aborted
    <3> QED BY <3>1, <3>2, <3>3, <3>4 DEF Next
  <2>2. x \in cmds => \E c \in cmds : c.port = x.port /\ c.run = x.run
    OBVIOUS
  <2> QED BY <1>2, <2>1, <2>2
<1> QED BY <1>1, <1>3, <1>4

\* Every step keeps a duration of the present run the duration of a timed run.
LEMMA TimedStep ==
  ASSUME CoreInv, TimedOK, [Next]_vars
  PROVE  TimedOK'
<1> SUFFICES ASSUME NEW x \in cmds', x.run = ports'[x.port].event
             PROVE  ports'[x.port].timed
  BY DEF TimedOK
<1>1. CASE x.port \in Ports /\ Begins(x.port) /\ ports'[x.port].timed
  BY <1>1
<1>2. ASSUME NEW c \in cmds, c.port = x.port, c.run = x.run
      PROVE  ports'[x.port].timed
  <2>1. c.port \in Ports /\ c.run <= ports[c.port].event /\ c.run \in Nat
    BY DEF CoreInv, CmdsOK, Cmd
  <2>2. PortStep(c.port)
    BY <2>1, EveryStep
  <2>3. CASE SameRun(ports[c.port], ports'[c.port])
    BY <1>2, <2>3 DEF SameRun, TimedOK
  <2>4. CASE Begins(c.port)
    <3>1. ports'[c.port].event = ports[c.port].event + 1
      BY <2>4 DEF Begins, Started
    <3>2. ports[c.port].event \in Int
      BY <2>1 DEF CoreInv, PortsOK, PortOK, PortTyped, PortRec
    <3> QED BY <1>2, <2>1, <3>1, <3>2
  <2> QED BY <2>1, <2>2, <2>3, <2>4, RunKept
<1> QED BY <1>1, <1>2, CmdsStep

\* The quit is told once, and the ports do not change with it.
LEMMA QuitStep ==
  ASSUME CoreInv, [Next]_vars
  PROVE  \/ terminated' = terminated
         \/ ~terminated /\ terminated' = TRUE /\ ports' = ports
<1>1. CASE UNCHANGED vars
  BY <1>1 DEF vars
<1>2. CASE ControlPlane
  BY <1>2 DEF ControlPlane, start_traffic, stop_traffic, pause_traffic, resume_traffic,
              update_traffic, SetState, quit_main_loop, start_traffic_fails,
              control_fails, message_assert_fails
<1>3. CASE Scheduler
  <2>1. CASE leave_idle \/ pop_sync \/ end_sync \/ exit_scheduler
    BY <2>1 DEF leave_idle, pop_sync, end_sync, exit_scheduler
  <2>2. CASE \E t \in exits : pop_exit(t)
    BY <2>2 DEF pop_exit
  <2>3. CASE \E f \in freed : pop_free(f)
    BY <2>3 DEF pop_free
  <2>4. CASE \E c \in cmds : pop_command(c)
    BY <2>4 DEF pop_command
  <2>5. CASE \E q \in Queued : handle_continues(q[1], q[2])
    BY <2>5 DEF handle_continues
  <2>6. CASE \E q \in Queued : handle_multi_burst(q[1], q[2])
    BY <2>6 DEF handle_multi_burst
  <2> QED BY <1>3, <2>1, <2>2, <2>3, <2>4, <2>5, <2>6 DEF Scheduler
<1>4. CASE over_or_aborted
  BY <1>1, <1>4 DEF over_or_aborted
<1> QED BY <1>1, <1>2, <1>3, <1>4 DEF Next

\* The core is told to quit, or the process has died.
Gone == terminated \/ phase \in Aborted

\* The core is gone once and for all, and the ports do not change with it.
LEMMA GoneStep ==
  ASSUME CoreInv, [Next]_vars
  PROVE  \/ Gone' = Gone
         \/ ~Gone /\ Gone' = TRUE /\ ports' = ports
<1>1. CASE UNCHANGED vars
  BY <1>1 DEF vars, Gone
<1>2. CASE terminated' # terminated
  <2>1. ~terminated /\ terminated' = TRUE /\ ports' = ports
    BY <1>2, QuitStep
  <2>2. phase \notin Aborted
    BY <1>2, AbortStep DEF AbortCases, vars
  <2> QED BY <2>1, <2>2 DEF Gone
<1>3. CASE terminated' = terminated /\ ~UNCHANGED vars
  BY <1>3, AbortStep DEF AbortCases, Gone, CoreInv, LoopOK
<1> QED BY <1>1, <1>2, <1>3

\* When the last stream of a port is over, its program is one that ends.
LEMMA FinishedIsFinite ==
  ASSUME RefInv, NEW p \in Ports, NEW i, InQueue(p, i), ports[p].prog[i].type = "burst",
         ~NextStarts(PortAfter(p, i), i), ActiveNodes(PortAfter(p, i)) = {}
  PROVE  Finite(ports[p].prog) /\ ports[p].state = "TRANSMITTING"
<1> DEFINE port == ports[p]
           o == PortAfter(p, i)
<1>1. CoreInv /\ i \in DOMAIN port.nodes
  BY DEF RefInv, InQueue
<1>2. PortTyped(p, port) /\ port \in PortRec
  BY <1>1 DEF CoreInv, PortsOK, PortOK, PortTyped
<1>3. /\ port.state # "IDLE" /\ port.prog \in Programs /\ i \in DOMAIN port.prog
      /\ DOMAIN port.prog = DOMAIN port.nodes
  BY <1>1, <1>2, NodeHasStream
<1>4. port.state = "TRANSMITTING"
  BY <1>2, <1>3 DEF RefInv, PauseOK, AllContinues, PortRec
<1>5. EndlessRuns(port)
  BY <1>3 DEF RefInv, EndlessOK
<1>6. EndlessRuns(o)
  BY <1>1, <1>5, EndlessAfter
<1>7. o.prog = port.prog /\ DOMAIN o.nodes = DOMAIN port.nodes
  BY <1>1, PortAfterOK DEF InQueue, SamePort, NodeChanged
<1>8. \A k \in DOMAIN port.prog : o.nodes[k].st # "ACTIVE"
  BY <1>3, <1>7 DEF ActiveNodes
<1> HIDE DEF o
<1>9. \A B \in SUBSET DOMAIN port.prog :
        Endless(port.prog, B) => \A k \in B : ~port.prog[k].start
  BY <1>6, <1>7, <1>8 DEF EndlessRuns
<1> QED BY <1>3, <1>4, <1>9, FiniteProgram

\* A step of the core is a step of the abstract port, or none.
LEMMA PortSimulation ==
  ASSUME RefInv, [Next]_vars, p1 \in Ports
  PROVE  [Port!Next]_(Port!vars)
<1> DEFINE port == ports[p1]
           new == ports'[p1]
<1>1. CoreInv /\ PortStep(p1) /\ PortOK(p1, port) /\ port \in PortRec /\ port.event \in Int
  BY EveryStep DEF RefInv, CoreInv, PortsOK, PortOK, PortTyped, PortRec
<1>2. CoreInv' /\ new \in PortRec
  BY <1>1, EveryStep DEF CoreInv, PortsOK, PortOK, PortTyped
<1>3. CASE ~Gone /\ Gone' = TRUE /\ ports' = ports
  BY <1>3 DEF Port!Next, Port!Quit, Gone
<1>4. CASE Gone' = Gone
  <2>1. ASSUME SameEvents(port, new) PROVE UNCHANGED Port!vars
    BY <1>4, <2>1 DEF SameEvents, SameRun, Port!vars, Gone
  <2>2. ASSUME NEW cause \in Causes, Reported(port, new, cause), port.state # "IDLE"
        PROVE  Port!End(cause)
    BY <1>4, <2>2 DEF Reported, SameRun, Port!End, Gone
  <2>3. CASE GoesOnAsItIs(port, new)
    BY <2>1, <2>3 DEF GoesOnAsItIs, SamePort, SameEvents, SameRun
  <2>4. CASE Adjusted(p1, port, new)
    <3>1. /\ port.state \in {"TRANSMITTING", "PAUSE"} /\ new.state \in {"TRANSMITTING", "PAUSE"}
          /\ SameRun(port, new) /\ new.ends = port.ends
      BY <1>1, <1>2, <2>4 DEF Adjusted, PortRec, SameRun
    <3>2. CASE new.state = port.state
      BY <2>1, <3>1, <3>2 DEF SameEvents
    <3>3. CASE port.state = "TRANSMITTING" /\ new.state = "PAUSE"
      <4>1. Port!Pause
        BY <1>4, <3>1, <3>3 DEF Port!Pause, SameRun, Gone
      <4> QED BY <4>1 DEF Port!Next
    <3>4. CASE port.state = "PAUSE" /\ new.state = "TRANSMITTING"
      <4>1. Port!Resume
        BY <1>4, <3>1, <3>4 DEF Port!Resume, SameRun, Gone
      <4> QED BY <4>1 DEF Port!Next
    <3> QED BY <3>1, <3>2, <3>3, <3>4
  <2>5. CASE Begins(p1)
    <3>1. PICK prog \in Programs, d \in Durations : new = Started(port, prog, d)
      BY <2>5 DEF Begins
    <3>2. /\ new.state = "TRANSMITTING" /\ new.event = port.event + 1 /\ new.ends = port.ends
      BY <3>1 DEF Started
    <3>3. new.timed \in BOOLEAN
      BY <1>2 DEF PortRec
    <3>4. Finite(new.prog) \in BOOLEAN /\ StartsNothing(new.prog) \in BOOLEAN
      BY DEF Finite, StartsNothing
    <3>5. new.event > port.event
      BY <1>1, <3>2
    <3>6. port.state = "IDLE" \/ StartsNothing(port.prog)
      <4>1. CASE port.state # "IDLE"
        <5>1. Len(port.prog) = 0 /\ port.prog \in Seq(Stream)
          BY <1>1, <2>5, <4>1 DEF Begins, PortOK, PortTyped, PortRec
        <5>2. DOMAIN port.prog = {}
          BY <5>1
        <5> QED BY <5>2 DEF StartsNothing
      <4> QED BY <4>1
    <3>7. Port!Start
      BY <1>4, <3>2, <3>3, <3>4, <3>5, <3>6 DEF Port!Start, Gone
    <3> QED BY <3>7 DEF Port!Next
  <2>6. CASE Ends(p1)
    <3>1. CASE new = port
      BY <2>1, <3>1 DEF SameEvents, SameRun
    <3>2. CASE port.state # "IDLE" /\ Reported(port, new, "stop")
      <4>1. Port!End("stop")
        BY <2>2, <3>2 DEF Causes
      <4> QED BY <4>1 DEF Port!Next, Port!Stop
    <3>3. CASE /\ port.state # "IDLE" /\ Reported(port, new, "duration")
               /\ \E c \in cmds : c.port = p1 /\ c.run = port.event
      <4>1. port.timed
        BY <3>3 DEF RefInv, TimedOK
      <4>2. Port!End("duration")
        BY <2>2, <3>3 DEF Causes
      <4> QED BY <4>1, <4>2 DEF Port!Next, Port!Expire
    <3> QED BY <1>1, <2>6, <3>1, <3>2, <3>3, EndsRun
  <2>7. CASE Sends(p1)
    <3>1. CASE SameEvents(port, new)
      BY <2>1, <3>1
    <3>2. ASSUME Reported(port, new, "finished"), port.state # "IDLE", NEW i, InQueue(p1, i),
                 port.prog[i].type = "burst", ~NextStarts(PortAfter(p1, i), i),
                 ActiveNodes(PortAfter(p1, i)) = {}
          PROVE  Port!Next
      <4>1. Finite(port.prog) /\ port.state = "TRANSMITTING"
        BY <3>2, FinishedIsFinite
      <4>2. Port!End("finished")
        BY <2>2, <3>2 DEF Causes
      <4> QED BY <4>1, <4>2 DEF Port!Next, Port!Finish
    <3> QED BY <1>1, <2>7, <3>1, <3>2, SendsRun
  <2> QED BY <1>1, <2>3, <2>4, <2>5, <2>6, <2>7 DEF PortStep
<1> QED BY <1>1, <1>3, <1>4, GoneStep

\* A port of the core does what DpPort allows and nothing else, for any other ports,
\* programs and durations: ids ascend, a run is reported once and with its own id, as
\* expired only if it has a duration, and as finished only if its program ends.
THEOREM PortKeepsItsWord ==
  p1 \in Ports => (Spec => Port!Init /\ [][Port!Next]_(Port!vars))
<1> SUFFICES ASSUME p1 \in Ports PROVE Spec => Port!Init /\ [][Port!Next]_(Port!vars)
  OBVIOUS
<1>1. RefInv /\ [Next]_vars => RefInv'
  BY EveryStep, PauseStep, TimedStep, EndlessStep DEF RefInv
<1>2. Init => Port!Init
  BY DEF Init, Port!Init
<1>3. RefInv /\ [Next]_vars => [Port!Next]_(Port!vars)
  BY PortSimulation
<1> QED BY <1>1, <1>2, <1>3, InitRef, PTL DEF Spec

=============================================================================
