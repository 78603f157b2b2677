---------------------------- MODULE StreamsGraph ----------------------------
(***************************************************************************)
(* TrexStreamsGraph::generate: the rate graph of a stream table, from      *)
(* which the port takes the highest rate (a start or an update that asks   *)
(* for a rate or a share of the line is turned into a factor with it) and  *)
(* the time the streams take.  Every self-started stream is followed until *)
(* its chain ends or closes on itself; each stream adds the moments at     *)
(* which the rate rises and falls; the sorted moments are added up.        *)
(* One step scans one stream.  A rate stands for the packets and the bits: *)
(* the code folds both the same way.                                       *)
(***************************************************************************)
EXTENDS Integers, Sequences, FiniteSets, FiniteSetsExt

CONSTANTS
  Tables,    \* the stream tables a port may hold, as sequences
  Second,    \* how many units of time make a second
  IntMax,    \* INT_MAX
  Garbage,   \* what back() of an empty list may be read as
  Horizon    \* bound: the moments at which the properties look

NONE == -1      \* m_next_stream_id of a stream that leads nowhere
INFINITE == -1  \* the duration of streams that never end

Stream == [id : Nat, enabled : BOOLEAN, self_start : BOOLEAN, next : Nat \cup {NONE},
           type : {"continuous", "single_burst", "multi_burst"},
           isg : Nat, pps : Nat \ {0}, pkts : Nat, bursts : Nat, ibg : Nat]

\* The table is a map from ids, so no two of its streams have the same one.
\* Times are whole numbers here and doubles in the code: the bursts are chosen
\* so that none is rounded.
ASSUME TablesAssumption ==
  /\ Tables \subseteq Seq(Stream)
  /\ \A t \in Tables : \A j, k \in DOMAIN t : t[j].id = t[k].id => j = k
  /\ \A t \in Tables : \A k \in DOMAIN t : (t[k].pkts * Second) % t[k].pps = 0
ASSUME SecondAssumption  == Second \in Nat \ {0}
ASSUME WidthAssumption   == IntMax \in Nat \ {0}
ASSUME HorizonAssumption == Horizon \in Nat
ASSUME GarbageAssumption == Garbage \subseteq Int /\ Garbage # {}

VARIABLES
  table,      \* the input
  pc,         \* where generate() is
  hash,       \* m_streams_hash
  roots,      \* root_streams that are still to be scanned
  stream_id,  \* the stream scanned next
  offset,     \* when the chain has come to it
  loop_hash,  \* the streams of the chain so far
  events,     \* m_rate_events, as they are added
  duration,   \* m_expected_duration
  max_rate    \* m_max_pps

vars == <<table, pc, hash, roots, stream_id, offset, loop_hash, events, duration, max_rate>>

Init ==
  /\ table \in Tables
  /\ pc = "collect"
  /\ hash = <<>> /\ roots = <<>>
  /\ stream_id = NONE /\ offset = 0 /\ loop_hash = {}
  /\ events = <<>> /\ duration = 0 /\ max_rate = 0

-----------------------------------------------------------------------------
\* root_streams, once the whole table is read.
RootStreams(t) ==
  LET after[k \in 0..Len(t)] ==
        IF k = 0 THEN <<>>
        ELSE IF t[k].enabled /\ t[k].self_start THEN Append(after[k - 1], t[k].id) ELSE after[k - 1]
  IN  after[Len(t)]

Kept(t) == {k \in DOMAIN t : t[k].enabled}

\* The first loop of generate(): a later stream replaces one of the same id.
collect ==
  /\ pc = "collect"
  /\ hash' = [n \in {table[k].id : k \in Kept(table)} |->
                table[Max({k \in Kept(table) : table[k].id = n})]]
  /\ roots' = RootStreams(table)
  /\ pc' = "root"
  /\ UNCHANGED <<table, stream_id, offset, loop_hash, events, duration, max_rate>>

\* Every chain starts at time 0, with an empty loop hash.
next_root ==
  /\ pc = "root" /\ roots # <<>>
  /\ stream_id' = Head(roots) /\ roots' = Tail(roots)
  /\ offset' = 0 /\ loop_hash' = {}
  /\ pc' = "scan"
  /\ UNCHANGED <<table, hash, events, duration, max_rate>>

get_burst_length(s) == (s.pkts * Second) \div s.pps

Rise(s, t) == [time |-> t, diff |-> s.pps]
Fall(s, t) == [time |-> t, diff |-> -s.pps]

\* Mutant: the gap before the stream is taken before every burst.
BurstStart_IsgEachTime(s, at, b) == at + s.isg + b * (get_burst_length(s) + s.isg)

\* When burst b (from 0) of a stream that is reached at time `at' begins: the
\* first one after the stream's gap, the others after the gap between bursts.
BurstStart(s, at, b) == at + s.isg + b * (get_burst_length(s) + s.ibg)

BurstEnd(s, at, b) == BurstStart(s, at, b) + get_burst_length(s)

\* A rise and a fall for each of n bursts.
BurstEvents(s, at, n) ==
  [k \in 1..(2 * n) |->
     IF k % 2 = 1 THEN Rise(s, BurstStart(s, at, k \div 2)) ELSE Fall(s, BurstEnd(s, at, k \div 2 - 1))]

BurstsOf(s) == IF s.type = "single_burst" THEN 1 ELSE s.bursts

add_rate_events_for_stream(s) ==
  IF s.type = "continuous"
    THEN /\ events' = Append(events, Rise(s, offset + s.isg))
         /\ offset' = -1
    ELSE /\ events' = events \o BurstEvents(s, offset, BurstsOf(s))
         /\ offset' = IF BurstsOf(s) = 0 THEN offset ELSE BurstEnd(s, offset, BurstsOf(s) - 1)

\* Mutant: only a return to the stream before is taken for a loop.
ClosesLoop_Self(n, seen) == n = stream_id

ClosesLoop(n, seen) == n \in seen

\* One turn of the loop in generate_graph_for_one_root.
generate_graph_for_one_root ==
  /\ pc = "scan"
  /\ \/ /\ stream_id \notin DOMAIN hash
        /\ pc' = "error"
        /\ UNCHANGED <<stream_id, offset, loop_hash, events, duration>>
     \/ /\ stream_id \in DOMAIN hash
        /\ LET s     == hash[stream_id]
               seen  == loop_hash \cup {stream_id}
               loops == s.next # NONE /\ ClosesLoop(s.next, seen)
           IN  /\ loop_hash' = seen
               /\ add_rate_events_for_stream(s)
               /\ duration' = IF s.type = "continuous" \/ loops THEN INFINITE ELSE duration
               /\ pc' = IF s.next = NONE \/ loops THEN "root" ELSE "scan"
               /\ stream_id' = IF s.next = NONE \/ loops THEN stream_id ELSE s.next
  /\ UNCHANGED <<table, hash, roots, max_rate>>

\* Mutant: a sort that turns equal moments round.
NotAfter_Unstable(evs, j, k) ==
  evs[j].time < evs[k].time \/ (evs[j].time = evs[k].time /\ j >= k)

\* list::sort is stable: of two events at one moment the first added comes first.
NotAfter(evs, j, k) ==
  evs[j].time < evs[k].time \/ (evs[j].time = evs[k].time /\ j <= k)

\* The rate once event k of the sorted list is added.
RateAfter(evs, k) ==
  SumFunctionOnSet([j \in DOMAIN evs |-> evs[j].diff], {j \in DOMAIN evs : NotAfter(evs, j, k)})

\* Mutant: the end of the list before it is sorted.
LastTime_Added(evs) == evs[Len(evs)].time

LastTime(evs) == Max({evs[k].time : k \in DOMAIN evs})

\* A double that an int cannot hold becomes INT_MIN (x86's cvttsd2si).
ToInt(x) == IF x <= IntMax THEN x ELSE -IntMax - 1

\* TrexStreamsGraphObj::generate: sort, add up, and take the time of the last
\* event for the duration, which is an int; there may be none.
find_max_rate ==
  /\ pc = "root" /\ roots = <<>>
  /\ max_rate' = Max({0} \cup {RateAfter(events, k) : k \in DOMAIN events})
  /\ \/ /\ duration = INFINITE
        /\ UNCHANGED duration
     \/ /\ duration # INFINITE /\ events # <<>>
        /\ duration' = ToInt(LastTime(events))
     \/ /\ duration # INFINITE /\ events = <<>>
        /\ duration' \in Garbage
  /\ pc' = "done"
  /\ UNCHANGED <<table, hash, roots, stream_id, offset, loop_hash, events>>

Stopped == pc \in {"done", "error"} /\ UNCHANGED vars

Step == collect \/ next_root \/ generate_graph_for_one_root \/ find_max_rate

Next == Step \/ Stopped
Spec == Init /\ [][Next]_vars

\* generate() is a sequential program: it goes on while it can.
FairSpec == Spec /\ WF_vars(Step)

-----------------------------------------------------------------------------
(* The same from the table alone: the chain of a root as a function of the *)
(* position, and what every stream of it sends as intervals of time.       *)

Roots == {table[k].id : k \in {k \in DOMAIN table : table[k].enabled /\ table[k].self_start}}
Present == {table[k].id : k \in {k \in DOMAIN table : table[k].enabled}}
Of(n) == CHOOSE s \in {table[k] : k \in DOMAIN table} : s.enabled /\ s.id = n

\* The ids on the way from a root; NONE after the last, a missing one included.
Chain(r) ==
  LET way[k \in 0..Cardinality(Present)] ==
        IF k = 0 THEN r ELSE IF way[k - 1] \in Present THEN Of(way[k - 1]).next ELSE NONE
  IN  way

\* The positions up to the first return.
Visited(r) ==
  LET way == Chain(r)
  IN  {k \in DOMAIN way : way[k] \in Present /\ \A a, b \in 0..k : way[a] = way[b] => a = b}

Broken(r) == \E k \in DOMAIN Chain(r) : Chain(r)[k] \notin Present \cup {NONE}
Loops(r)  == \A k \in DOMAIN Chain(r) : Chain(r)[k] \in Present
Endless(r) ==
  \/ Loops(r)
  \/ \E k \in Visited(r) : Of(Chain(r)[k]).type = "continuous"

\* A stream's whole stay: its gap, its bursts and the gaps between them.
Stay(s) ==
  IF BurstsOf(s) = 0 THEN 0
  ELSE s.isg + BurstsOf(s) * get_burst_length(s) + (BurstsOf(s) - 1) * s.ibg

\* When the chain of root r comes to position k.
Reached(r, k) ==
  LET way == Chain(r) IN SumFunctionOnSet([m \in 0..(k - 1) |-> Stay(Of(way[m]))], 0..(k - 1))

\* What root r makes the port send at position k: the rate, from when and until when.
IntervalsAt(r, k) ==
  LET s  == Of(Chain(r)[k])
      at == Reached(r, k) + s.isg
  IN  IF s.type = "continuous" THEN {[pps |-> s.pps, from |-> at, to |-> INFINITE]}
      ELSE {[pps |-> s.pps, from |-> at + b * (get_burst_length(s) + s.ibg),
             to |-> at + b * (get_burst_length(s) + s.ibg) + get_burst_length(s)]
              : b \in 0..(BurstsOf(s) - 1)}

Intervals(r) == UNION {IntervalsAt(r, k) : k \in Visited(r)}

\* The moments at which something begins, and the rates root r has at a moment of
\* its first round, without and with what ends then.
Moments == UNION {{i.from : i \in Intervals(r)} : r \in Roots}
Sends(r, t) == {i.pps : i \in {j \in Intervals(r) : j.from <= t /\ (j.to = INFINITE \/ t < j.to)}}
Touches(r, t) == {i.pps : i \in {j \in Intervals(r) : j.from <= t /\ (j.to = INFINITE \/ t <= j.to)}}

\* A root that loops comes back, after all the streams it visits, to one of them.
Turn(r)      == Cardinality(Visited(r))
Entry(r)     == CHOOSE k \in Visited(r) : Chain(r)[k] = Chain(r)[Turn(r)]
LoopStart(r) == Reached(r, Entry(r))
LoopEnd(r)   == Reached(r, Turn(r))

\* The moment of its first round at which root r did what it does at moment t.
Folded(r, t) ==
  IF Loops(r) /\ LoopStart(r) < LoopEnd(r) /\ LoopEnd(r) <= t
  THEN LoopStart(r) + ((t - LoopStart(r)) % (LoopEnd(r) - LoopStart(r))) ELSE t

\* What the table sends at moment t, loops repeated.
RateSent(t) == SumFunctionOnSet([r \in Roots |-> Max({0} \cup Sends(r, Folded(r, t)))], Roots)

\* What the first rounds send at moment t, with what ends then.
RateTouched(t) == SumFunctionOnSet([r \in Roots |-> Max({0} \cup Touches(r, t))], Roots)

\* The roots do at t what they did together at one moment of the first round: no loop
\* has come back, or there is one root only, or the loops go in step.
InStep(t) == \A q, r \in Roots : Folded(q, t) = Folded(r, t)

\* When the bursts end.
Ends == UNION {{i.to : i \in Intervals(r)} : r \in Roots}

\* A table in which a continuous stream leads nowhere, the compiler's first demand.
ContinuousIsLast ==
  \A k \in DOMAIN table : table[k].enabled /\ table[k].type = "continuous" => table[k].next = NONE

-----------------------------------------------------------------------------
TypeOK ==
  /\ table \in Seq(Stream)
  /\ pc \in {"collect", "root", "scan", "done", "error"}
  /\ DOMAIN hash \subseteq Nat /\ \A n \in DOMAIN hash : hash[n] \in Stream
  /\ roots \in Seq(DOMAIN hash)
  /\ stream_id \in Nat \cup {NONE}
  /\ offset \in Int /\ offset >= -1
  /\ loop_hash \subseteq DOMAIN hash
  /\ events \in Seq([time : Int, diff : Int])
  /\ duration \in Int
  /\ max_rate \in Nat

\* The graph is refused exactly when some chain runs into a stream that is
\* missing or disabled (the exception of generate_graph_for_one_root): the loop
\* detection neither hides one nor finds one that no root leads to.
RefusesExactlyBroken ==
  /\ pc = "error" => \E r \in Roots : Broken(r)
  /\ pc = "done" => \A r \in Roots : ~Broken(r)

\* The highest rate is at least what the table sends at any moment, loops repeated, at
\* which the roots are in step, and at most what it sends at some moment if everything
\* that ends then overlaps what starts then: the streams of one root never do, and a
\* burst of no packets may count.  It must not be larger, or a start that asks for a
\* share of the line gets less.  A stream that two roots lead to counts for both.
MaxIsHighestRate ==
  pc = "done" /\ ContinuousIsLast =>
    /\ \A t \in 0..Horizon : InStep(t) => RateSent(t) <= max_rate
    /\ max_rate = 0 \/ \E t \in Moments : max_rate <= RateTouched(t)

\* The duration is infinite exactly when a root leads to a continuous stream or into a
\* loop; otherwise it is the moment the last burst of any root ends, if an int holds it,
\* and negative if not.  Only if nothing is sent it may be anything.
DurationIsLastEnd ==
  pc = "done" /\ ContinuousIsLast =>
    IF \E r \in Roots : Endless(r) THEN duration = INFINITE
    ELSE Ends # {} => duration = IF Max(Ends) <= IntMax THEN Max(Ends) ELSE -IntMax - 1

\* Walking the sorted events the rate is never below zero: no fall is seen
\* before its rise, not even for a burst of no packets whose rise and fall are
\* one moment.
RateNeverNegative ==
  pc = "done" => \A k \in DOMAIN events : RateAfter(events, k) >= 0

\* What generate() keeps to whatever the table is: its state has its types, it
\* refuses the broken chains and no others, and no event pulls the rate below
\* zero.
GraphInv == TypeOK /\ RefusesExactlyBroken /\ RateNeverNegative

\* The scan ends, although streams may lead in a circle that does not hold the
\* stream it started from.
GraphEnds == <>(pc \in {"done", "error"})
=============================================================================
