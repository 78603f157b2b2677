------------------------------ MODULE MCDpCore ------------------------------
(* Programs for small instances of DpCore.                                 *)
EXTENDS DpCore

Cont(start, next) ==
  [type |-> "continuous", start |-> start, next |-> next, pkts |-> 0, bursts |-> 0,
   isg |-> 0, gap |-> 1, ibg |-> 0]

Burst(start, next, pkts, bursts, isg) ==
  [type |-> "burst", start |-> start, next |-> next, pkts |-> pkts, bursts |-> bursts,
   isg |-> isg, gap |-> 1, ibg |-> 1]

\* A chain of two streams, and one stream that goes on for ever.
Chained == <<Burst(TRUE, 2, 1, 1, 0), Burst(FALSE, NONE, 2, 1, 0)>>
Forever == <<Cont(TRUE, NONE)>>

\* A burst that leads to a stream already running, and to a continuous one.
IntoRunning == <<Burst(TRUE, 2, 1, 1, 0), Cont(TRUE, NONE)>>

\* What core 1 of 2 gets of a burst of one packet that leads to a stream that may
\* still run.
MeetingShare == <<Burst(TRUE, 2, 0, 1, 0), Burst(TRUE, NONE, 1, 2, 2)>>

\* Two streams of one packet that lead to each other with no gap.
OneByOne == <<Burst(TRUE, 2, 1, 1, 0), Burst(FALSE, 1, 1, 1, 0)>>

\* What is left of a table whose streams are all disabled.
Nothing == <<>>

SafePrograms == {MeetingShare, Forever, Nothing}
LivePrograms == {Chained, IntoRunning, OneByOne, Nothing}

CONSTANT p1   \* one of the ports

Port == INSTANCE DpPort WITH
  state <- ports[p1].state, run <- ports[p1].event, finite <- Finite(ports[p1].prog),
  empty <- StartsNothing(ports[p1].prog), timed <- ports[p1].timed, ends <- ports[p1].ends,
  gone <- terminated \/ phase \in Aborted, stalled <- Stalled

\* Whatever happens on the other port, a port of the core keeps the promises of DpPort:
\* its runs end once, each for a cause of its own, and a finite program does end
\* (stop_traffic, set_stateless_next_node, add_port_duration).
PortKeepsItsPromise == Port!Spec

\* How often the ports are started.
Uneven == [p \in Ports |-> IF p = p1 THEN 2 ELSE 1]
=============================================================================
