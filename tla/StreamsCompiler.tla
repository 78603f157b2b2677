-------------------------- MODULE StreamsCompiler --------------------------
(***************************************************************************)
(* TrexStreamsCompiler::compile: from the stream table of a port to one    *)
(* object per data-plane core.  The passes are the code's: allocate a node *)
(* per enabled stream, direct the graph, look for streams no self-started  *)
(* stream leads to, compile every stream for every core.  The loops over   *)
(* the table and over the work list are stepped through.                   *)
(***************************************************************************)
EXTENDS Integers, Sequences, FiniteSets, FiniteSetsExt

CONSTANTS
  Tables,    \* the stream tables a port may hold, as sequences
  DpCores    \* how many cores the streams are compiled for

NONE == -1   \* m_next_stream_id of a stream that leads nowhere

Stream == [id : Nat, enabled : BOOLEAN, self_start : BOOLEAN,
           type : {"continuous", "burst"}, next : Nat \cup {NONE}, pkts : Nat]

ASSUME TablesAssumption == Tables \subseteq Seq(Stream)
ASSUME CoresAssumption  == DpCores \in Nat \ {0}

Cores == 0..(DpCores - 1)

VARIABLES
  table,    \* the input
  pc,       \* the pass the compiler is in
  i,        \* the stream a loop over the table looks at
  comp,     \* GraphNodeMap: the compressed id of every node
  roots,    \* the self-started nodes, as found
  next,     \* m_next of every node; the dead end follows a stream without next
  warned,   \* streams the compiler warns about
  marked,   \* m_marked
  work,     \* next_nodes
  objs      \* the compiled streams of every core

vars == <<table, pc, i, comp, roots, next, warned, marked, work, objs>>

Nodes == DOMAIN comp
DeadEnd == NONE

Init ==
  /\ table \in Tables
  /\ pc = "allocate" /\ i = 1
  /\ comp = [n \in {} |-> 0] /\ roots = <<>>
  /\ next = [n \in {} |-> NONE] /\ warned = {}
  /\ marked = {} /\ work = <<>>
  /\ objs = [c \in Cores |-> <<>>]

-----------------------------------------------------------------------------
\* A continuous stream never ends, so it leads nowhere.
check_stream(s) == s.type = "continuous" => s.next = NONE

\* One stream of the table: skipped, refused, or given a node.
allocate_pass ==
  /\ pc = "allocate" /\ i <= Len(table)
  /\ LET s == table[i] IN
       \/ /\ ~s.enabled
          /\ UNCHANGED <<pc, comp, roots>>
       \/ /\ s.enabled /\ (~check_stream(s) \/ s.id \in Nodes)
          /\ pc' = "error"
          /\ UNCHANGED <<comp, roots>>
       \/ /\ s.enabled /\ check_stream(s) /\ s.id \notin Nodes
          /\ comp' = [n \in Nodes \cup {s.id} |-> IF n = s.id THEN Cardinality(Nodes) ELSE comp[n]]
          /\ roots' = IF s.self_start THEN Append(roots, s.id) ELSE roots
          /\ UNCHANGED pc
  /\ i' = i + 1
  /\ UNCHANGED <<table, next, warned, marked, work, objs>>

\* The stream a node was made for.
StreamOf(n) == CHOOSE s \in {table[k] : k \in DOMAIN table} : s.enabled /\ s.id = n

\* Point every node at its next one; then warn.  The work list of the last
\* check starts with the roots.
direct_pass ==
  /\ pc = "allocate" /\ i > Len(table)
  /\ IF \A n \in Nodes : StreamOf(n).next \in Nodes \cup {NONE}
       THEN /\ next' = [n \in Nodes |-> StreamOf(n).next]
            /\ warned' = {n \in Nodes : \E m \in Nodes : StreamOf(m).next = n}
            /\ work' = roots
            /\ pc' = "reach"
       ELSE /\ pc' = "error"
            /\ UNCHANGED <<next, warned, work>>
  /\ UNCHANGED <<table, i, comp, roots, marked, objs>>

Top == work[Len(work)]
Rest == SubSeq(work, 1, Len(work) - 1)

\* Mutant: a marked node is followed once more.
check_for_unreachable_streams_Loop ==
  /\ pc = "reach" /\ work # <<>>
  /\ marked' = marked \cup {Top}
  /\ work' = IF Top # DeadEnd THEN Append(Rest, next[Top]) ELSE Rest
  /\ UNCHANGED <<table, pc, i, comp, roots, next, warned, objs>>

\* Pull one node; mark it and follow it unless it is marked.
check_for_unreachable_streams ==
  /\ pc = "reach" /\ work # <<>>
  /\ marked' = marked \cup {Top}
  /\ work' = IF Top \notin marked /\ Top # DeadEnd THEN Append(Rest, next[Top]) ELSE Rest
  /\ UNCHANGED <<table, pc, i, comp, roots, next, warned, objs>>

\* Mutant: only a root has to be marked.
get_unmarked_Roots == {n \in Nodes : n \notin marked /\ \E k \in DOMAIN roots : roots[k] = n}

get_unmarked == Nodes \ marked

check_unmarked ==
  /\ pc = "reach" /\ work = <<>>
  /\ pc' = IF get_unmarked = {} THEN "compile" ELSE "error"
  /\ i' = 1
  /\ UNCHANGED <<table, comp, roots, next, warned, marked, work, objs>>

\* Mutant: every core gets the rounded share.
burst_share_Even(total, c) == total \div DpCores

\* A burst is shared out; the first core takes what is left over.
burst_share(total, c) ==
  total \div DpCores + (IF c = 0 THEN total - (total \div DpCores) * DpCores ELSE 0)

\* Mutant: the next stream keeps the id the client gave it.
compressed_next_Id(s) == s.next

compressed_next(s) == IF s.next >= 0 THEN comp[s.next] ELSE NONE

\* One stream, for all the cores.
compile_stream ==
  /\ pc = "compile" /\ i <= Len(table)
  /\ LET s == table[i] IN
       objs' = IF ~s.enabled THEN objs
               ELSE [c \in Cores |->
                      Append(objs[c], [id |-> comp[s.id], next |-> compressed_next(s),
                                       type |-> s.type, pkts |-> burst_share(s.pkts, c)])]
  /\ i' = i + 1
  /\ UNCHANGED <<table, pc, comp, roots, next, warned, marked, work>>

compiled ==
  /\ pc = "compile" /\ i > Len(table)
  /\ pc' = "ok"
  /\ UNCHANGED <<table, i, comp, roots, next, warned, marked, work, objs>>

Stopped == pc \in {"ok", "error"} /\ UNCHANGED vars

Step ==
  \/ allocate_pass \/ direct_pass \/ check_for_unreachable_streams \/ check_unmarked
  \/ compile_stream \/ compiled

Next == Step \/ Stopped
Spec == Init /\ [][Next]_vars

\* The compiler is a sequential program: it goes on while it can.
FairSpec == Spec /\ WF_vars(Step)

-----------------------------------------------------------------------------
(* The table as a graph, without the passes.                               *)

EnabledStreams == {table[k] : k \in {k \in DOMAIN table : table[k].enabled}}

\* A set of ids that holds the self-started streams and what follows its members.
Closed(S) ==
  \A s \in EnabledStreams : /\ s.self_start => s.id \in S
                            /\ s.id \in S => s.next \in S

\* The streams that some self-started stream leads to: the smallest such set.
Started(ids) == {x \in ids : \A S \in SUBSET ids : Closed(S \cup {NONE}) => x \in S}

\* A table a port can run: continuous streams lead nowhere, ids are unique,
\* no stream leads to one that is not there, every stream is started sometime.
WellFormed ==
  LET ids == {s.id : s \in EnabledStreams} IN
  /\ \A s \in EnabledStreams : s.type = "continuous" => s.next = NONE
  /\ \A k, m \in DOMAIN table :
       table[k].enabled /\ table[m].enabled /\ table[k].id = table[m].id => k = m
  /\ \A s \in EnabledStreams : s.next \in ids \cup {NONE}
  /\ Started(ids) = ids

-----------------------------------------------------------------------------
TypeOK ==
  /\ table \in Tables
  /\ pc \in {"allocate", "reach", "compile", "ok", "error"}
  /\ i \in 1..(Len(table) + 1)
  /\ comp \in [Nodes -> Nat] /\ Nodes \subseteq Nat
  /\ roots \in Seq(Nodes)
  /\ next \in [DOMAIN next -> Nodes \cup {NONE}] /\ DOMAIN next \subseteq Nodes
  /\ warned \subseteq Nodes
  /\ marked \subseteq Nodes \cup {DeadEnd}
  /\ work \in Seq(Nodes \cup {DeadEnd})

\* The compiler accepts exactly the well-formed tables, whatever the order of
\* the streams, loops among them included.
AcceptsExactlyWellFormed ==
  /\ pc = "ok" => WellFormed
  /\ pc = "error" => ~WellFormed

\* On every core the next stream of a compiled stream is a position in the
\* core's list, and the stream at that position is the one the client named:
\* the data plane takes the compressed id as an index.
NextIsAPosition ==
  pc = "ok" =>
    \A c \in Cores : \A k \in DOMAIN objs[c] :
      \E s \in EnabledStreams :
        /\ comp[s.id] = k - 1 /\ objs[c][k].id = k - 1
        /\ IF s.next = NONE THEN objs[c][k].next = NONE
           ELSE /\ objs[c][k].next + 1 \in DOMAIN objs[c]
                /\ comp[s.next] = objs[c][k].next

\* The ids the compiler hands out stay within what it has allocated, at every
\* step, and end as positions (allocate_pass, direct_pass, compile_stream).
PositionsInv == TypeOK /\ NextIsAPosition

\* The shares of a burst add up to the burst.
BurstIsShared ==
  pc = "ok" =>
    \A s \in EnabledStreams :
      MapThenSumSet(LAMBDA c : objs[c][comp[s.id] + 1].pkts, Cores) = s.pkts

\* The compiler always comes to an answer: the search for unreachable streams
\* ends although the streams may lead in a circle.
Terminates == <>(pc \in {"ok", "error"})
=============================================================================
