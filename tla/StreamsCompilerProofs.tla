------------------------ MODULE StreamsCompilerProofs ------------------------
(***************************************************************************)
(* Proofs about the compiler, for every table and every number of cores.   *)
(* CompilerInv says, pass by pass, how far the compiler has come: what the *)
(* nodes are (Allocated), where they point (Directed), what the search for *)
(* unreachable streams has found (Searched), the answer it leads to        *)
(* (Answered), and what the lists of the cores hold (Listed).              *)
(***************************************************************************)
EXTENDS StreamsCompiler, FiniteSetTheorems, WellFoundedInduction, TLAPS

\* The enabled streams of a table before position k, as positions.
Before(t, k) == {m \in DOMAIN t : m < k /\ t[m].enabled}

\* How many they are: the position of an enabled stream among them.
Pos(t, k) == Cardinality(Before(t, k))

\* What the compiler has allocated for, what it has compiled.
Allocs == Before(table, IF pc = "allocate" THEN i ELSE Len(table) + 1)
Compiles == IF pc = "compile" THEN i ELSE Len(table) + 1

Allocated ==
  /\ Nodes = {table[k].id : k \in Allocs}
  /\ IsFiniteSet(Nodes) /\ Cardinality(Nodes) = Cardinality(Allocs)
  /\ \A k \in Allocs : check_stream(table[k])
  /\ \A k, m \in Allocs : table[k].id = table[m].id => k = m
  /\ \A k \in Allocs : comp[table[k].id] = Pos(table, k)
  /\ \A k \in Allocs : table[k].self_start => \E j \in DOMAIN roots : roots[j] = table[k].id
  /\ \A j \in DOMAIN roots : \E k \in Allocs : table[k].self_start /\ table[k].id = roots[j]

\* Every node points where its stream says, and that is a node.
Directed ==
  /\ DOMAIN next = Nodes
  /\ \A k \in Allocs : /\ next[table[k].id] = table[k].next
                       /\ table[k].next \in Nodes \cup {NONE}

Waiting == {work[j] : j \in DOMAIN work}

\* What a root leads to is marked or waits in the work list; and both stay
\* within every set that the self-started streams do not lead out of.
Searched ==
  /\ \A j \in DOMAIN roots : roots[j] \in marked \cup Waiting
  /\ \A n \in marked \ {DeadEnd} : next[n] \in marked \cup Waiting
  /\ \A S \in SUBSET Nodes :
       Closed(S \cup {NONE}) => marked \cup Waiting \subseteq S \cup {NONE}

Answered ==
  /\ pc \in {"compile", "ok"} => WellFormed
  /\ pc = "error" => ~WellFormed

\* The compiled form of the stream at k, for core c.
Compiled(k, c) ==
  [id |-> comp[table[k].id], next |-> compressed_next(table[k]),
   type |-> table[k].type, pkts |-> burst_share(table[k].pkts, c)]

Obj == [id : Nat, next : Nat \cup {NONE}, type : {"continuous", "burst"}, pkts : Nat]

\* The list of a core holds the enabled streams in the order of the table.
Listed ==
  \A c \in Cores :
    /\ objs[c] \in Seq(Obj)
    /\ Len(objs[c]) = Pos(table, Compiles)
    /\ \A k \in Before(table, Compiles) : objs[c][Pos(table, k) + 1] = Compiled(k, c)
    /\ \A x \in DOMAIN objs[c] : \E k \in Before(table, Compiles) : Pos(table, k) = x - 1

CompilerInv ==
  /\ TypeOK
  /\ DOMAIN objs = Cores
  /\ pc = "allocate" => marked = {}
  /\ pc # "error" => Allocated
  /\ pc \in {"reach", "compile", "ok"} => Directed
  /\ pc = "reach" => Searched
  /\ pc \in {"allocate", "reach"} => \A c \in Cores : objs[c] = <<>>
  /\ pc \in {"compile", "ok"} => Listed
  /\ Answered

-----------------------------------------------------------------------------
(* Tables and positions.                                                   *)

\* The fields of a stream of a table.
LEMMA StreamFacts ==
  ASSUME NEW t \in Tables, NEW k \in DOMAIN t
  PROVE  /\ t[k] \in Stream /\ t[k].id \in Nat /\ t[k].enabled \in BOOLEAN
         /\ t[k].self_start \in BOOLEAN /\ t[k].type \in {"continuous", "burst"}
         /\ t[k].next \in Nat \cup {NONE} /\ t[k].pkts \in Nat
<1>1. t \in Seq(Stream)
  BY TablesAssumption
<1>2. t[k] \in Stream
  BY <1>1
<1> QED BY <1>2 DEF Stream

\* A table is a sequence of streams.
LEMMA TableFacts ==
  ASSUME NEW t \in Tables
  PROVE  t \in Seq(Stream) /\ Len(t) \in Nat /\ DOMAIN t = 1..Len(t)
BY TablesAssumption

\* The enabled streams before the next position.
LEMMA BeforeStep ==
  ASSUME NEW t \in Tables, NEW k \in DOMAIN t
  PROVE  /\ k \notin Before(t, k)
         /\ t[k].enabled => Before(t, k + 1) = Before(t, k) \cup {k}
         /\ ~t[k].enabled => Before(t, k + 1) = Before(t, k)
BY TableFacts DEF Before

\* They are finitely many.
LEMMA BeforeFinite ==
  ASSUME NEW t \in Tables, NEW k \in Nat
  PROVE  IsFiniteSet(Before(t, k)) /\ Pos(t, k) \in Nat
<1>1. Before(t, k) \in SUBSET (1..Len(t)) /\ Len(t) \in Nat
  BY TableFacts DEF Before
<1>2. IsFiniteSet(1..Len(t))
  BY <1>1, FS_Interval
<1>3. IsFiniteSet(Before(t, k))
  BY <1>1, <1>2, FS_Subset
<1> QED BY <1>3, FS_CardinalityType DEF Pos

\* No stream comes before the first.
LEMMA PosFirst ==
  ASSUME NEW t \in Tables
  PROVE  Before(t, 1) = {} /\ Pos(t, 1) = 0
<1>1. Before(t, 1) = {}
  BY TableFacts DEF Before
<1> QED BY <1>1, FS_EmptySet DEF Pos

\* A position grows by one at each enabled stream.
LEMMA PosStep ==
  ASSUME NEW t \in Tables, NEW k \in DOMAIN t
  PROVE  /\ k \in Nat /\ Pos(t, k) \in Nat
         /\ t[k].enabled => Pos(t, k + 1) = Pos(t, k) + 1
         /\ ~t[k].enabled => Pos(t, k + 1) = Pos(t, k)
<1>1. k \in Nat
  BY TableFacts
<1>2. IsFiniteSet(Before(t, k)) /\ Pos(t, k) \in Nat
  BY <1>1, BeforeFinite
<1>3. ~t[k].enabled => Pos(t, k + 1) = Pos(t, k)
  BY BeforeStep DEF Pos
<1>4. t[k].enabled => Pos(t, k + 1) = Pos(t, k) + 1
  <2> HAVE t[k].enabled
  <2>1. Before(t, k + 1) = Before(t, k) \cup {k} /\ k \notin Before(t, k)
    BY BeforeStep
  <2> QED BY <2>1, <1>2, FS_AddElement DEF Pos
<1> QED BY <1>1, <1>2, <1>3, <1>4

\* An earlier stream has a lower position.
LEMMA PosGrows ==
  ASSUME NEW t \in Tables, NEW k \in Nat, NEW m \in Before(t, k)
  PROVE  Pos(t, m) \in Nat /\ Pos(t, m) < Pos(t, k)
<1>1. m \in DOMAIN t /\ m \in Nat /\ m < k
  BY TableFacts DEF Before
<1>2. IsFiniteSet(Before(t, k)) /\ Pos(t, k) \in Nat /\ Pos(t, m) \in Nat
  BY <1>1, BeforeFinite
<1>3. Before(t, m) \in SUBSET Before(t, k) /\ m \notin Before(t, m)
  BY <1>1, TableFacts DEF Before
<1>4. Cardinality(Before(t, m)) <= Cardinality(Before(t, k))
      /\ Cardinality(Before(t, m)) # Cardinality(Before(t, k))
  BY <1>2, <1>3, FS_Subset
<1> QED BY <1>2, <1>4 DEF Pos

\* What is said of the table alone stays as it is.
LEMMA Frozen ==
  ASSUME table' = table
  PROVE  /\ EnabledStreams' = EnabledStreams
         /\ \A S : Closed(S)' <=> Closed(S)
         /\ WellFormed' <=> WellFormed
<1>1. EnabledStreams' = EnabledStreams
  BY DEF EnabledStreams
<1>2. \A S : Closed(S)' <=> Closed(S)
  BY <1>1 DEF Closed
<1>3. \A ids : Started(ids)' = Started(ids)
  BY <1>2 DEF Started
<1>4. WellFormed' <=> WellFormed
  BY <1>1, <1>3 DEF WellFormed
<1> QED BY <1>1, <1>2, <1>4

\* The enabled streams are those before the end.
LEMMA AllEnabled ==
  ASSUME table \in Tables
  PROVE  EnabledStreams = {table[k] : k \in Before(table, Len(table) + 1)}
<1>1. {k \in DOMAIN table : table[k].enabled} = Before(table, Len(table) + 1)
  BY TableFacts DEF Before
<1> QED BY <1>1 DEF EnabledStreams

-----------------------------------------------------------------------------
(* The steps.                                                              *)

\* compile() starts in the invariant.
LEMMA CompilerInit == Init => CompilerInv
<1> SUFFICES ASSUME Init PROVE CompilerInv
  OBVIOUS
<1>1. table \in Tables /\ Len(table) \in Nat
  BY TableFacts DEF Init
<1>2. Nodes = {} /\ DOMAIN next = {}
  BY DEF Init, Nodes
<1>3. TypeOK
  <2>1. comp \in [Nodes -> Nat] /\ next \in [DOMAIN next -> Nodes \cup {NONE}]
    BY <1>2 DEF Init
  <2>2. roots \in Seq(Nodes) /\ work \in Seq(Nodes \cup {DeadEnd})
    BY DEF Init
  <2>3. i \in 1..(Len(table) + 1)
    BY <1>1 DEF Init
  <2> QED BY <1>1, <1>2, <2>1, <2>2, <2>3 DEF Init, TypeOK
<1>4. Allocs = {}
  BY <1>1, PosFirst DEF Allocs, Init
<1>5. Allocated
  BY <1>2, <1>4, FS_EmptySet DEF Allocated, Init
<1> QED BY <1>3, <1>5 DEF CompilerInv, Init, Answered

\* What is left alone keeps the invariant.
LEMMA CompilerStutter == CompilerInv /\ UNCHANGED vars => CompilerInv'
<1> SUFFICES ASSUME CompilerInv, UNCHANGED vars PROVE CompilerInv'
  OBVIOUS
<1> USE DEF vars
<1>1. Nodes' = Nodes /\ Allocs' = Allocs /\ Compiles' = Compiles /\ Waiting' = Waiting
  BY DEF Nodes, Allocs, Compiles, Waiting
<1>2. TypeOK'
  BY <1>1 DEF CompilerInv, TypeOK
<1>3. Allocated' <=> Allocated
  BY <1>1 DEF Allocated, check_stream, Pos
<1>4. Directed' <=> Directed
  BY <1>1 DEF Directed
<1>5. Searched' <=> Searched
  BY <1>1, Frozen DEF Searched, DeadEnd
<1>6. Answered' <=> Answered
  BY Frozen DEF Answered
<1>7. \A k, c : Compiled(k, c)' = Compiled(k, c)
  BY DEF Compiled, compressed_next, burst_share
<1>8. Listed' <=> Listed
  BY <1>1, <1>7 DEF Listed
<1> QED BY <1>2, <1>3, <1>4, <1>5, <1>6, <1>8 DEF CompilerInv

\* A node is made for an enabled stream whose id is new.
LEMMA AllocateOne ==
  ASSUME CompilerInv, pc = "allocate", i \in DOMAIN table,
         NEW s, s = table[i], s.enabled, check_stream(s), s.id \notin Nodes,
         comp' = [n \in Nodes \cup {s.id} |-> IF n = s.id THEN Cardinality(Nodes) ELSE comp[n]],
         roots' = IF s.self_start THEN Append(roots, s.id) ELSE roots,
         i' = i + 1, UNCHANGED <<pc, table>>
  PROVE  Allocated' /\ Nodes' = Nodes \cup {s.id}
         /\ comp' \in [Nodes' -> Nat] /\ roots' \in Seq(Nodes')
<1>1. table \in Tables /\ Allocated /\ TypeOK
  BY DEF CompilerInv, TypeOK
<1>2. Nodes' = Nodes \cup {s.id}
  BY DEF Nodes
<1>3. i \in Nat /\ s.id \in Nat /\ s.self_start \in BOOLEAN /\ s \in Stream
  BY <1>1, StreamFacts, TableFacts
<1>4. Allocs = Before(table, i) /\ Allocs' = Allocs \cup {i} /\ i \notin Allocs
  BY <1>1, BeforeStep DEF Allocs
<1>5. IsFiniteSet(Nodes) /\ Cardinality(Nodes) = Pos(table, i) /\ Pos(table, i) \in Nat
  BY <1>1, <1>3, <1>4, BeforeFinite DEF Allocated, Pos
<1>6. comp' \in [Nodes' -> Nat]
  BY <1>1, <1>2, <1>5 DEF TypeOK
<1>7. roots \in Seq(Nodes') /\ s.id \in Nodes'
  BY <1>1, <1>2 DEF TypeOK
<1>8. roots' \in Seq(Nodes')
  BY <1>7
<1>9. Nodes' = {table'[k].id : k \in Allocs'}
  BY <1>1, <1>2, <1>4 DEF Allocated
<1>10. IsFiniteSet(Nodes') /\ Cardinality(Nodes') = Cardinality(Allocs')
  <2>1. IsFiniteSet(Nodes') /\ Cardinality(Nodes') = Cardinality(Nodes) + 1
    BY <1>2, <1>5, FS_AddElement
  <2>2. IsFiniteSet(Allocs)
    BY <1>1, <1>3, <1>4, BeforeFinite
  <2>3. Cardinality(Allocs') = Cardinality(Allocs) + 1
    BY <2>2, <1>4, FS_AddElement
  <2> QED BY <2>1, <2>3, <1>1 DEF Allocated
<1>11. \A k \in Allocs' : check_stream(table[k])
  BY <1>1, <1>4 DEF Allocated
<1>12. \A k \in Allocs : table[k].id \in Nodes /\ table[k].id # s.id
  BY <1>1 DEF Allocated
<1>13. \A k, m \in Allocs' : table[k].id = table[m].id => k = m
  BY <1>1, <1>4, <1>12 DEF Allocated
<1>14. \A k \in Allocs' : comp'[table[k].id] = Pos(table, k)
  <2> TAKE k \in Allocs'
  <2>1. CASE k = i
    BY <2>1, <1>5
  <2>2. CASE k \in Allocs
    <3>1. comp'[table[k].id] = comp[table[k].id]
      BY <2>2, <1>12
    <3> QED BY <2>2, <3>1, <1>1 DEF Allocated
  <2> QED BY <2>1, <2>2, <1>4
<1>15. \A k \in Allocs' :
         table[k].self_start => \E j \in DOMAIN roots' : roots'[j] = table[k].id
  <2> TAKE k \in Allocs'
  <2> HAVE table[k].self_start
  <2>1. CASE k = i
    <3>1. roots' = Append(roots, s.id)
      BY <2>1
    <3>2. Len(roots) + 1 \in DOMAIN roots' /\ roots'[Len(roots) + 1] = s.id
      BY <3>1, <1>7
    <3> QED BY <2>1, <3>2
  <2>2. CASE k \in Allocs
    <3>1. PICK j \in DOMAIN roots : roots[j] = table[k].id
      BY <2>2, <1>1 DEF Allocated
    <3>2. j \in DOMAIN roots' /\ roots'[j] = roots[j]
      BY <1>7
    <3> QED BY <3>1, <3>2
  <2> QED BY <2>1, <2>2, <1>4
<1>16. \A j \in DOMAIN roots' : \E k \in Allocs' : table[k].self_start /\ table[k].id = roots'[j]
  <2> TAKE j \in DOMAIN roots'
  <2>1. CASE j \in DOMAIN roots
    <3>1. roots'[j] = roots[j]
      BY <2>1, <1>7
    <3> QED BY <2>1, <3>1, <1>1, <1>4 DEF Allocated
  <2>2. CASE j \notin DOMAIN roots
    <3>1. s.self_start /\ roots'[j] = s.id
      BY <2>2, <1>7
    <3> QED BY <3>1, <1>4
  <2> QED BY <2>1, <2>2
<1>17. \A k : check_stream(table[k])' <=> check_stream(table[k])
  BY DEF check_stream
<1>18. \A k : Pos(table, k)' = Pos(table, k)
  OBVIOUS
<1>19. Allocated'
  BY <1>9, <1>10, <1>11, <1>13, <1>14, <1>15, <1>16, <1>17, <1>18, ZenonT(60) DEF Allocated
<1> QED BY <1>2, <1>6, <1>8, <1>19

\* allocate_pass keeps the invariant.
LEMMA CompilerAllocate == CompilerInv /\ allocate_pass => CompilerInv'
<1> SUFFICES ASSUME CompilerInv, allocate_pass PROVE CompilerInv'
  OBVIOUS
<1>1. table \in Tables /\ Allocated /\ TypeOK /\ pc = "allocate"
  BY DEF CompilerInv, TypeOK, allocate_pass
<1>2. i \in DOMAIN table /\ i \in Nat /\ Len(table) \in Nat /\ i + 1 \in 1..(Len(table) + 1)
  BY <1>1, TableFacts DEF TypeOK, allocate_pass
<1>3. i' = i + 1 /\ UNCHANGED <<table, next, warned, marked, work, objs>>
  BY DEF allocate_pass
<1> DEFINE s == table[i]
<1>4. Cores' = Cores /\ Waiting' = Waiting /\ DeadEnd' = DeadEnd
  BY <1>3 DEF Cores, Waiting, DeadEnd
<1>5. \A c \in Cores : objs'[c] = <<>>
  BY <1>1, <1>3 DEF CompilerInv
<1>6. CASE ~s.enabled /\ UNCHANGED <<pc, comp, roots>>
  <2>1. Nodes' = Nodes
    BY <1>6 DEF Nodes
  <2>2. Allocs' = Allocs
    BY <1>1, <1>2, <1>3, <1>6, BeforeStep DEF Allocs
  <2>3. TypeOK'
    BY <1>1, <1>2, <1>3, <1>4, <1>6, <2>1 DEF TypeOK
  <2>4. Allocated'
    BY <1>1, <1>3, <1>6, <2>1, <2>2 DEF Allocated, check_stream, Pos
  <2> QED BY <1>1, <1>3, <1>4, <1>5, <1>6, <2>3, <2>4 DEF CompilerInv, Answered
<1>7. CASE /\ s.enabled /\ (~check_stream(s) \/ s.id \in Nodes)
           /\ pc' = "error" /\ UNCHANGED <<comp, roots>>
  <2>1. Nodes' = Nodes
    BY <1>7 DEF Nodes
  <2>2. TypeOK'
    BY <1>1, <1>2, <1>3, <1>4, <1>7, <2>1 DEF TypeOK
  <2>3. s \in EnabledStreams
    BY <1>2, <1>7 DEF EnabledStreams
  <2>4. CASE ~check_stream(s)
    BY <2>3, <2>4, <1>3, <1>4, <1>5, <1>7, <2>2, Frozen
    DEF WellFormed, check_stream, CompilerInv, Answered
  <2>5. CASE s.id \in Nodes
    <3>1. PICK k \in Allocs : table[k].id = s.id
      BY <1>1, <2>5 DEF Allocated
    <3>2. k \in DOMAIN table /\ table[k].enabled /\ k # i
      BY <1>1, <1>2 DEF Allocs, Before
    <3>3. ~WellFormed
      BY <1>2, <1>7, <3>1, <3>2 DEF WellFormed
    <3> QED BY <3>3, <1>3, <1>4, <1>5, <1>7, <2>2, Frozen DEF CompilerInv, Answered
  <2> QED BY <1>7, <2>4, <2>5
<1>8. CASE /\ s.enabled /\ check_stream(s) /\ s.id \notin Nodes
           /\ comp' = [n \in Nodes \cup {s.id} |->
                         IF n = s.id THEN Cardinality(Nodes) ELSE comp[n]]
           /\ roots' = (IF s.self_start THEN Append(roots, s.id) ELSE roots)
           /\ UNCHANGED pc
  <2>1. Allocated' /\ Nodes' = Nodes \cup {s.id}
        /\ comp' \in [Nodes' -> Nat] /\ roots' \in Seq(Nodes')
    BY <1>1, <1>2, <1>3, <1>8, AllocateOne
  <2>2. s.id \in Nat
    BY <1>1, <1>2, StreamFacts
  <2>3. Nodes \subseteq Nat /\ DOMAIN next \subseteq Nodes /\ warned \subseteq Nodes
        /\ marked \subseteq Nodes \cup {DeadEnd} /\ work \in Seq(Nodes \cup {DeadEnd})
        /\ next \in [DOMAIN next -> Nodes \cup {NONE}]
    BY <1>1 DEF TypeOK
  <2>4. Nodes' \subseteq Nat /\ DOMAIN next' \subseteq Nodes' /\ warned' \subseteq Nodes'
        /\ marked' \subseteq Nodes' \cup {DeadEnd}
        /\ next' \in [DOMAIN next' -> Nodes' \cup {NONE}]
    BY <1>3, <2>1, <2>2, <2>3
  <2>5. work' \in Seq(Nodes' \cup {DeadEnd})
    BY <1>3, <2>1, <2>3
  <2>6. TypeOK'
    BY <1>1, <1>2, <1>3, <1>4, <1>8, <2>1, <2>4, <2>5 DEF TypeOK
  <2> QED BY <1>1, <1>3, <1>4, <1>5, <1>8, <2>1, <2>6 DEF CompilerInv, Answered
<1> QED BY <1>6, <1>7, <1>8 DEF allocate_pass

\* A table is well formed up to what no self-started stream leads to.
LEMMA NodesAreTheIds ==
  ASSUME table \in Tables, Allocated, Allocs = Before(table, Len(table) + 1)
  PROVE  /\ Nodes = {s.id : s \in EnabledStreams}
         /\ \A s \in EnabledStreams : s.type = "continuous" => s.next = NONE
         /\ \A k, m \in DOMAIN table :
              table[k].enabled /\ table[m].enabled /\ table[k].id = table[m].id => k = m
<1>1. EnabledStreams = {table[k] : k \in Allocs}
  BY AllEnabled
<1>2. Nodes = {s.id : s \in EnabledStreams}
  BY <1>1 DEF Allocated
<1>3. \A k \in DOMAIN table : table[k].enabled => k \in Allocs
  BY TableFacts DEF Before
<1> QED BY <1>1, <1>2, <1>3 DEF Allocated, check_stream

\* A node is found by its id.
LEMMA StreamOfNode ==
  ASSUME table \in Tables, Allocated, Allocs = Before(table, Len(table) + 1),
         NEW k \in Allocs
  PROVE  StreamOf(table[k].id) = table[k]
<1>1. k \in DOMAIN table /\ table[k].enabled
  BY DEF Before
<1>2. \A m \in DOMAIN table : table[m].enabled /\ table[m].id = table[k].id => m = k
  BY <1>1, NodesAreTheIds
<1> DEFINE T == {table[m] : m \in DOMAIN table}
<1>3. table[k] \in T /\ table[k].enabled
  BY <1>1
<1>4. \A x \in T : x.enabled /\ x.id = table[k].id => x = table[k]
  BY <1>2
<1> HIDE DEF T
<1>5. (CHOOSE x \in T : x.enabled /\ x.id = table[k].id) = table[k]
  BY <1>3, <1>4
<1> QED BY <1>5 DEF StreamOf, T

\* direct_pass keeps the invariant.
LEMMA CompilerDirect == CompilerInv /\ direct_pass => CompilerInv'
<1> SUFFICES ASSUME CompilerInv, direct_pass PROVE CompilerInv'
  OBVIOUS
<1>1. table \in Tables /\ Allocated /\ TypeOK /\ pc = "allocate" /\ i > Len(table)
  BY DEF CompilerInv, TypeOK, direct_pass
<1>2. Len(table) \in Nat /\ i = Len(table) + 1
  BY <1>1, TableFacts DEF TypeOK
<1>3. UNCHANGED <<table, i, comp, roots, marked, objs>>
  BY DEF direct_pass
<1>4. Nodes' = Nodes /\ Cores' = Cores /\ DeadEnd' = DeadEnd
  BY <1>3 DEF Nodes, Cores, DeadEnd
<1>5. Allocs = Before(table, Len(table) + 1)
  BY <1>1, <1>2 DEF Allocs
<1>6. \A n \in Nodes : \E k \in Allocs : n = table[k].id /\ StreamOf(n) = table[k]
  <2> TAKE n \in Nodes
  <2>1. PICK k \in Allocs : n = table[k].id
    BY <1>1 DEF Allocated
  <2> QED BY <2>1, <1>1, <1>5, StreamOfNode
<1>7. \A k \in Allocs : table[k].id \in Nodes /\ StreamOf(table[k].id) = table[k]
  BY <1>1, <1>5, StreamOfNode DEF Allocated
<1>8. CASE \A n \in Nodes : StreamOf(n).next \in Nodes \cup {NONE}
  <2>1. /\ next' = [n \in Nodes |-> StreamOf(n).next] /\ pc' = "reach" /\ work' = roots
        /\ warned' = {n \in Nodes : \E m \in Nodes : StreamOf(m).next = n}
    BY <1>8 DEF direct_pass
  <2>2. next' \in [Nodes -> Nodes \cup {NONE}] /\ DOMAIN next' = Nodes
    BY <1>8, <2>1
  <2>3. warned' \subseteq Nodes
    BY <2>1
  <2>4. roots \in Seq(Nodes \cup {DeadEnd})
    BY <1>1 DEF TypeOK
  <2>5. TypeOK'
    BY <1>1, <1>3, <1>4, <2>1, <2>2, <2>3, <2>4 DEF TypeOK
  <2>6. Allocs' = Allocs
    BY <1>3, <1>5, <2>1 DEF Allocs
  <2>7. Allocated'
    BY <1>1, <1>3, <1>4, <2>6 DEF Allocated, check_stream, Pos
  <2>8. Directed'
    BY <1>3, <1>4, <1>7, <1>8, <2>1, <2>2, <2>6 DEF Directed
  <2>9. marked = {}
    BY <1>1 DEF CompilerInv
  <2>10. Waiting' = {roots[j] : j \in DOMAIN roots}
    BY <2>1 DEF Waiting
  <2>11. \A S \in SUBSET Nodes : Closed(S \cup {NONE}) => Waiting' \subseteq S \cup {NONE}
    <3> SUFFICES ASSUME NEW S \in SUBSET Nodes, Closed(S \cup {NONE}), NEW j \in DOMAIN roots
                 PROVE  roots[j] \in S \cup {NONE}
      BY <2>10
    <3>1. PICK k \in Allocs : table[k].self_start /\ table[k].id = roots[j]
      BY <1>1 DEF Allocated
    <3>2. table[k] \in EnabledStreams
      BY <1>1, <1>5, <3>1, AllEnabled
    <3> QED BY <3>1, <3>2 DEF Closed
  <2>12. Searched'
    BY <1>3, <1>4, <2>9, <2>10, <2>11, Frozen DEF Searched
  <2> QED BY <1>1, <1>3, <1>4, <2>1, <2>5, <2>7, <2>8, <2>12 DEF CompilerInv, Answered
<1>9. CASE ~\A n \in Nodes : StreamOf(n).next \in Nodes \cup {NONE}
  <2>1. pc' = "error" /\ UNCHANGED <<next, warned, work>>
    BY <1>9 DEF direct_pass
  <2>2. TypeOK'
    BY <1>1, <1>3, <1>4, <2>1 DEF TypeOK
  <2>3. PICK n \in Nodes : StreamOf(n).next \notin Nodes \cup {NONE}
    BY <1>9
  <2>4. PICK k \in Allocs : n = table[k].id /\ StreamOf(n) = table[k]
    BY <1>6
  <2>5. table[k] \in EnabledStreams /\ table[k].next \notin Nodes \cup {NONE}
    BY <1>1, <1>5, <2>3, <2>4, AllEnabled
  <2>6. ~WellFormed
    BY <1>1, <1>5, <2>5, NodesAreTheIds DEF WellFormed
  <2> QED BY <1>3, <1>4, <2>1, <2>2, <2>6, Frozen DEF CompilerInv, Answered
<1> QED BY <1>8, <1>9

\* check_for_unreachable_streams keeps the invariant.
LEMMA CompilerSearch == CompilerInv /\ check_for_unreachable_streams => CompilerInv'
<1> SUFFICES ASSUME CompilerInv, check_for_unreachable_streams PROVE CompilerInv'
  OBVIOUS
<1>1. table \in Tables /\ Allocated /\ Directed /\ Searched /\ TypeOK /\ pc = "reach" /\ work # <<>>
  BY DEF CompilerInv, TypeOK, check_for_unreachable_streams
<1>2. UNCHANGED <<table, pc, i, comp, roots, next, warned, objs>>
  BY DEF check_for_unreachable_streams
<1>3. Nodes' = Nodes /\ Cores' = Cores /\ DeadEnd' = DeadEnd /\ Allocs' = Allocs
  BY <1>2 DEF Nodes, Cores, DeadEnd, Allocs
<1> DEFINE Found == Nodes \cup {DeadEnd}
<1>4. work \in Seq(Found) /\ Len(work) \in Nat \ {0} /\ DOMAIN work = 1..Len(work)
  BY <1>1 DEF TypeOK
<1>5. Top \in Found /\ Top = work[Len(work)] /\ Len(work) \in DOMAIN work
  BY <1>4 DEF Top
<1>6. Rest \in Seq(Found) /\ DOMAIN Rest = 1..(Len(work) - 1)
      /\ \A j \in DOMAIN Rest : Rest[j] = work[j] /\ j \in DOMAIN work
  <2>1. Rest = [j \in 1..(Len(work) - 1) |-> work[j]]
    BY <1>4 DEF Rest
  <2> QED BY <1>4, <2>1
<1>7. Waiting = {Rest[j] : j \in DOMAIN Rest} \cup {Top}
  <2>1. \A j \in DOMAIN work : j \in DOMAIN Rest \/ j = Len(work)
    BY <1>4, <1>6
  <2> QED BY <1>5, <1>6, <2>1 DEF Waiting
<1>8. marked' = marked \cup {Top} /\ marked' \subseteq Found
  BY <1>1, <1>5 DEF check_for_unreachable_streams, TypeOK
<1>9. Top # DeadEnd => Top \in DOMAIN next /\ next[Top] \in Found
  BY <1>1, <1>5 DEF Directed, TypeOK, DeadEnd
<1> DEFINE Follow == Top \notin marked /\ Top # DeadEnd
<1>10. work' = IF Follow THEN Append(Rest, next[Top]) ELSE Rest
  BY DEF check_for_unreachable_streams
<1>11. Follow => next[Top] \in Found
  BY <1>9
<1> HIDE DEF Found
<1>12. work' \in Seq(Found)
  BY <1>6, <1>10, <1>11
<1>13. Waiting' = IF Follow THEN {Rest[j] : j \in DOMAIN Rest} \cup {next[Top]}
                            ELSE {Rest[j] : j \in DOMAIN Rest}
  <2>1. CASE ~Follow
    BY <1>10, <2>1 DEF Waiting
  <2>2. CASE Follow
    <3> HIDE DEF Follow
    <3>1. work' = Append(Rest, next[Top])
      BY <1>10, <2>2
    <3>2. /\ DOMAIN work' = 1..(Len(Rest) + 1) /\ DOMAIN Rest = 1..Len(Rest) /\ Len(Rest) \in Nat
          /\ \A j \in DOMAIN Rest : work'[j] = Rest[j]
          /\ work'[Len(Rest) + 1] = next[Top]
      BY <3>1, <1>6, <1>11, <2>2
    <3>3. DOMAIN work' = DOMAIN Rest \cup {Len(Rest) + 1}
      BY <3>2
    <3>4. {work'[j] : j \in DOMAIN work'} = {Rest[j] : j \in DOMAIN Rest} \cup {next[Top]}
      BY <3>2, <3>3
    <3> QED BY <2>2, <3>4 DEF Waiting
  <2> QED BY <2>1, <2>2
<1>14. marked \cup Waiting \subseteq marked' \cup Waiting'
  BY <1>7, <1>8, <1>13
<1>15. TypeOK'
  BY <1>1, <1>2, <1>3, <1>8, <1>12 DEF TypeOK, Found
<1>16. Allocated'
  BY <1>1, <1>2, <1>3 DEF Allocated, check_stream, Pos
<1>17. Directed'
  BY <1>1, <1>2, <1>3 DEF Directed
<1>18. \A j \in DOMAIN roots : roots[j] \in marked' \cup Waiting'
  BY <1>1, <1>14 DEF Searched
<1>19. \A n \in marked' \ {DeadEnd} : next[n] \in marked' \cup Waiting'
  <2> TAKE n \in marked' \ {DeadEnd}
  <2>1. CASE n \in marked
    BY <2>1, <1>1, <1>14 DEF Searched
  <2>2. CASE n \notin marked
    BY <2>2, <1>8, <1>13
  <2> QED BY <2>1, <2>2
<1>20. \A S \in SUBSET Nodes :
         Closed(S \cup {NONE}) => marked' \cup Waiting' \subseteq S \cup {NONE}
  <2> TAKE S \in SUBSET Nodes
  <2> HAVE Closed(S \cup {NONE})
  <2>1. marked \cup Waiting \subseteq S \cup {NONE}
    BY <1>1 DEF Searched
  <2>2. Top \in S \cup {NONE}
    BY <2>1, <1>7
  <2>3. Follow => next[Top] \in S \cup {NONE}
    <3> HAVE Follow
    <3>1. Top \in Nodes
      BY <1>5 DEF Found
    <3>2. PICK k \in Allocs : Top = table[k].id
      BY <1>1, <3>1 DEF Allocated
    <3>3. next[Top] = table[k].next
      BY <1>1, <3>2 DEF Directed
    <3>4. table[k] \in EnabledStreams
      BY <1>1, <3>2, AllEnabled DEF Allocs
    <3> QED BY <2>2, <3>2, <3>3, <3>4 DEF Closed
  <2> QED BY <2>1, <2>2, <2>3, <1>7, <1>8, <1>13
<1>21. Searched'
  BY <1>2, <1>3, <1>18, <1>19, <1>20, Frozen DEF Searched
<1> QED BY <1>1, <1>2, <1>3, <1>15, <1>16, <1>17, <1>21 DEF CompilerInv, Answered

\* The search is over: what is marked is what the self-started streams lead to.
LEMMA CompilerUnmarked == CompilerInv /\ check_unmarked => CompilerInv'
<1> SUFFICES ASSUME CompilerInv, check_unmarked PROVE CompilerInv'
  OBVIOUS
<1>1. table \in Tables /\ Allocated /\ Directed /\ Searched /\ TypeOK /\ pc = "reach" /\ work = <<>>
  BY DEF CompilerInv, TypeOK, check_unmarked
<1>2. UNCHANGED <<table, comp, roots, next, warned, marked, work, objs>> /\ i' = 1
  BY DEF check_unmarked
<1>3. Nodes' = Nodes /\ Cores' = Cores /\ DeadEnd' = DeadEnd
  BY <1>2 DEF Nodes, Cores, DeadEnd
<1>4. Allocs = Before(table, Len(table) + 1) /\ Len(table) \in Nat
  BY <1>1, TableFacts DEF Allocs
<1>5. Waiting = {}
  BY <1>1 DEF Waiting
<1> DEFINE M == Nodes \cap marked
<1>6. M \in SUBSET Nodes /\ marked \cup {NONE} = M \cup {NONE}
  BY <1>1 DEF TypeOK, DeadEnd
<1>7. Closed(M \cup {NONE})
  <2> SUFFICES ASSUME NEW s \in EnabledStreams
               PROVE  /\ s.self_start => s.id \in M \cup {NONE}
                      /\ s.id \in M \cup {NONE} => s.next \in M \cup {NONE}
    BY DEF Closed
  <2>1. PICK k \in Allocs : s = table[k]
    BY <1>1, <1>4, AllEnabled
  <2>2. s.id \in Nodes /\ s.id \in Nat /\ s.id # NONE
    BY <1>1, <1>4, <2>1, StreamFacts DEF Allocated, Before, NONE
  <2>3. s.self_start => s.id \in M
    BY <1>1, <1>5, <2>1, <2>2 DEF Allocated, Searched
  <2>4. s.id \in M => s.next \in M \cup {NONE}
    <3> HAVE s.id \in M
    <3>1. s.id \in marked \ {DeadEnd}
      BY <2>2 DEF DeadEnd
    <3>2. next[s.id] \in marked /\ next[s.id] = s.next
      BY <1>1, <1>5, <2>1, <3>1 DEF Searched, Directed
    <3> QED BY <3>2, <1>6
  <2> QED BY <2>2, <2>3, <2>4
<1>8. \A S \in SUBSET Nodes : Closed(S \cup {NONE}) => M \subseteq S
  <2> TAKE S \in SUBSET Nodes
  <2> HAVE Closed(S \cup {NONE})
  <2>1. marked \subseteq S \cup {NONE}
    BY <1>1 DEF Searched
  <2>2. \A n \in Nodes : n \in Nat /\ n # NONE
    BY <1>1 DEF TypeOK, NONE
  <2> QED BY <2>1, <2>2
<1>9. Started(Nodes) = M
  BY <1>6, <1>7, <1>8 DEF Started
<1>10. WellFormed <=> get_unmarked = {}
  <2>1. \A s \in EnabledStreams : s.next \in Nodes \cup {NONE}
    BY <1>1, <1>4, AllEnabled DEF Directed
  <2>2. get_unmarked = {} <=> M = Nodes
    BY DEF get_unmarked
  <2> HIDE DEF M
  <2> QED BY <1>1, <1>4, <1>9, <2>1, <2>2, NodesAreTheIds DEF WellFormed
<1>11. pc' = IF get_unmarked = {} THEN "compile" ELSE "error"
  BY DEF check_unmarked
<1>12. TypeOK'
  BY <1>1, <1>2, <1>3, <1>4, <1>11 DEF TypeOK
<1>13. Allocs' = Allocs
  BY <1>2, <1>4, <1>11 DEF Allocs
<1>14. Allocated'
  BY <1>1, <1>2, <1>3, <1>13 DEF Allocated, check_stream, Pos
<1>15. Directed'
  BY <1>1, <1>2, <1>3, <1>13 DEF Directed
<1>16. Answered'
  BY <1>2, <1>10, <1>11, Frozen DEF Answered
<1>17. pc' = "compile" => Listed'
  <2> SUFFICES ASSUME pc' = "compile", NEW c \in Cores
               PROVE  /\ objs'[c] \in Seq(Obj)
                      /\ Len(objs'[c]) = Pos(table', Compiles')
                      /\ Before(table', Compiles') = {} /\ DOMAIN objs'[c] = {}
    BY <1>3 DEF Listed
  <2>1. Compiles' = 1
    BY <1>2 DEF Compiles
  <2>2. objs'[c] = <<>>
    BY <1>1, <1>2 DEF CompilerInv
  <2> QED BY <1>1, <1>2, <2>1, <2>2, PosFirst
<1> QED BY <1>1, <1>2, <1>3, <1>11, <1>12, <1>14, <1>15, <1>16, <1>17 DEF CompilerInv

\* The share of a core.
LEMMA ShareIsNat ==
  ASSUME NEW total \in Nat, NEW c \in Cores
  PROVE  burst_share(total, c) \in Nat
<1> DEFINE q == total \div DpCores
<1>1. q \in Nat /\ total >= q * DpCores /\ q * DpCores \in Nat
  BY CoresAssumption
<1> DEFINE p == q * DpCores
<1>2. burst_share(total, c) = q + (IF c = 0 THEN total - p ELSE 0)
  BY DEF burst_share
<1> HIDE DEF q, p
<1> QED BY <1>1, <1>2 DEF p

\* compile_stream keeps the invariant.
LEMMA CompilerStream == CompilerInv /\ compile_stream => CompilerInv'
<1> SUFFICES ASSUME CompilerInv, compile_stream PROVE CompilerInv'
  OBVIOUS
<1>1. table \in Tables /\ Allocated /\ Directed /\ Listed /\ TypeOK /\ pc = "compile"
      /\ i <= Len(table) /\ DOMAIN objs = Cores
  BY DEF CompilerInv, TypeOK, compile_stream
<1>2. UNCHANGED <<table, pc, comp, roots, next, warned, marked, work>> /\ i' = i + 1
  BY DEF compile_stream
<1>3. Nodes' = Nodes /\ Cores' = Cores /\ DeadEnd' = DeadEnd /\ Allocs' = Allocs
  BY <1>1, <1>2 DEF Nodes, Cores, DeadEnd, Allocs
<1>4. i \in DOMAIN table /\ i \in Nat /\ Len(table) \in Nat /\ i + 1 \in 1..(Len(table) + 1)
      /\ Allocs = Before(table, Len(table) + 1)
  BY <1>1, TableFacts DEF TypeOK, Allocs
<1>5. TypeOK'
  BY <1>1, <1>2, <1>3, <1>4 DEF TypeOK
<1>6. Allocated'
  BY <1>1, <1>2, <1>3 DEF Allocated, check_stream, Pos
<1>7. Directed'
  BY <1>1, <1>2, <1>3 DEF Directed
<1>8. Answered'
  BY <1>2, Frozen DEF Answered, CompilerInv
<1>9. \A k, c : Compiled(k, c)' = Compiled(k, c)
  BY <1>2 DEF Compiled, compressed_next, burst_share
<1>10. Compiles = i /\ Compiles' = i + 1
  BY <1>1, <1>2 DEF Compiles
<1> DEFINE p == Pos(table, i)
<1>11. p \in Nat /\ i \notin Before(table, i)
  BY <1>1, <1>4, PosStep, BeforeStep
<1>12. CASE ~table[i].enabled
  <2>1. objs' = objs
    BY <1>12 DEF compile_stream
  <2>2. Before(table, i + 1) = Before(table, i) /\ Pos(table, i + 1) = Pos(table, i)
    BY <1>1, <1>4, <1>12, BeforeStep, PosStep
  <2>3. Listed'
    BY <1>1, <1>2, <1>3, <1>9, <1>10, <2>1, <2>2 DEF Listed
  <2> QED BY <1>1, <1>2, <1>3, <1>5, <1>6, <1>7, <1>8, <2>1, <2>3 DEF CompilerInv
<1>13. CASE table[i].enabled
  <2>1. objs' = [c \in Cores |-> Append(objs[c], Compiled(i, c))]
    BY <1>13 DEF compile_stream, Compiled
  <2>2. Before(table, i + 1) = Before(table, i) \cup {i} /\ Pos(table, i + 1) = p + 1
    BY <1>1, <1>4, <1>13, BeforeStep, PosStep
  <2>3. i \in Allocs
    BY <1>1, <1>4, <1>13 DEF Before
  <2>4. \A c \in Cores : Compiled(i, c) \in Obj
    <3> TAKE c \in Cores
    <3>1. table[i].pkts \in Nat /\ table[i].next \in Nat \cup {NONE}
          /\ table[i].type \in {"continuous", "burst"}
      BY <1>1, <1>4, StreamFacts
    <3>2. burst_share(table[i].pkts, c) \in Nat
      BY <3>1, ShareIsNat
    <3>3. comp[table[i].id] \in Nat
      BY <1>1, <2>3 DEF Allocated, TypeOK
    <3>4. compressed_next(table[i]) \in Nat \cup {NONE}
      <4>1. table[i].next \in Nodes \cup {NONE}
        BY <1>1, <2>3 DEF Directed
      <4> QED BY <3>1, <4>1, <1>1 DEF compressed_next, TypeOK, NONE
    <3> QED BY <3>1, <3>2, <3>3, <3>4 DEF Compiled, Obj
  <2>5. Listed'
    <3> SUFFICES ASSUME NEW c \in Cores
                 PROVE  /\ objs'[c] \in Seq(Obj)
                        /\ Len(objs'[c]) = p + 1
                        /\ \A k \in Before(table, i + 1) :
                             objs'[c][Pos(table, k) + 1] = Compiled(k, c)
                        /\ \A x \in DOMAIN objs'[c] :
                             \E k \in Before(table, i + 1) : Pos(table, k) = x - 1
      BY <1>2, <1>3, <1>9, <1>10, <2>2 DEF Listed
    <3> DEFINE o == objs[c]
               e == Compiled(i, c)
    <3>1. /\ o \in Seq(Obj) /\ Len(o) = p
          /\ \A k \in Before(table, i) : o[Pos(table, k) + 1] = Compiled(k, c)
          /\ \A x \in DOMAIN o : \E k \in Before(table, i) : Pos(table, k) = x - 1
      BY <1>1, <1>10 DEF Listed
    <3>2. objs'[c] = Append(o, e) /\ e \in Obj
      BY <2>1, <2>4
    <3> HIDE DEF o, e, p
    <3>3. /\ Append(o, e) \in Seq(Obj) /\ Len(Append(o, e)) = p + 1
          /\ DOMAIN Append(o, e) = 1..(p + 1)
          /\ DOMAIN o = 1..p
          /\ Append(o, e)[p + 1] = e
          /\ \A x \in 1..p : Append(o, e)[x] = o[x]
      BY <3>1, <3>2, <1>11
    <3>4. \A k \in Before(table, i + 1) : Append(o, e)[Pos(table, k) + 1] = Compiled(k, c)
      <4> TAKE k \in Before(table, i + 1)
      <4>1. CASE k = i
        BY <4>1, <3>3 DEF p, e
      <4>2. CASE k \in Before(table, i)
        <5>1. Pos(table, k) \in Nat /\ Pos(table, k) < p
          BY <4>2, <1>1, <1>4, PosGrows DEF p
        <5>2. Pos(table, k) + 1 \in 1..p
          BY <5>1, <1>11
        <5> QED BY <4>2, <5>2, <3>1, <3>3
      <4> QED BY <4>1, <4>2, <2>2
    <3>5. \A x \in 1..(p + 1) : \E k \in Before(table, i + 1) : Pos(table, k) = x - 1
      <4> TAKE x \in 1..(p + 1)
      <4>1. CASE x = p + 1
        <5>1. i \in Before(table, i + 1) /\ Pos(table, i) = x - 1
          BY <4>1, <2>2, <1>11 DEF p
        <5> QED BY <5>1
      <4>2. CASE x # p + 1
        <5>1. x \in DOMAIN o
          BY <4>2, <3>3, <1>11
        <5>2. PICK k \in Before(table, i) : Pos(table, k) = x - 1
          BY <5>1, <3>1
        <5> QED BY <5>2, <2>2
      <4> QED BY <4>1, <4>2
    <3> QED BY <3>2, <3>3, <3>4, <3>5
  <2> QED BY <1>1, <1>2, <1>3, <1>5, <1>6, <1>7, <1>8, <2>1, <2>5 DEF CompilerInv
<1> QED BY <1>12, <1>13

\* The end of compile() keeps the invariant.
LEMMA CompilerDone == CompilerInv /\ compiled => CompilerInv'
<1> SUFFICES ASSUME CompilerInv, compiled PROVE CompilerInv'
  OBVIOUS
<1>1. table \in Tables /\ Allocated /\ Directed /\ Listed /\ TypeOK /\ pc = "compile"
      /\ i > Len(table) /\ pc' = "ok"
  BY DEF CompilerInv, TypeOK, compiled
<1>2. UNCHANGED <<table, i, comp, roots, next, warned, marked, work, objs>>
  BY DEF compiled
<1>3. i = Len(table) + 1
  BY ONLY <1>1, TableFacts, SMTT(60) DEF TypeOK
<1>4. Nodes' = Nodes /\ Cores' = Cores /\ DeadEnd' = DeadEnd /\ Allocs' = Allocs
      /\ Compiles' = Compiles
  BY <1>1, <1>2, <1>3 DEF Nodes, Cores, DeadEnd, Allocs, Compiles
<1>5. TypeOK'
  BY <1>1, <1>2, <1>4 DEF TypeOK
<1>6. Allocated'
  BY <1>1, <1>2, <1>4 DEF Allocated, check_stream, Pos
<1>7. Directed'
  BY <1>1, <1>2, <1>4 DEF Directed
<1>8. Answered'
  BY <1>1, <1>2, Frozen DEF Answered, CompilerInv
<1>9. \A k, c : Compiled(k, c)' = Compiled(k, c)
  BY <1>2 DEF Compiled, compressed_next, burst_share
<1>10. Listed'
  BY <1>1, <1>2, <1>4, <1>9 DEF Listed
<1> QED BY <1>1, <1>2, <1>4, <1>5, <1>6, <1>7, <1>8, <1>10 DEF CompilerInv

-----------------------------------------------------------------------------
(* Sums over a finite set.  The library's MapThenSumSet is a recursion over *)
(* the subsets; induction is by a smallest counterexample.                 *)

\* A set of subsets of a finite set has a smallest member.
LEMMA SmallestSubset ==
  ASSUME NEW S, IsFiniteSet(S), NEW T, T \subseteq SUBSET S, T # {}
  PROVE  \E x \in T : \A y \in T : ~(y \subseteq x /\ y # x)
<1>1. IsWellFoundedOn(StrictSubsetOrdering(S), FiniteSubsetsOf(S))
  BY FS_StrictSubsetOrderingWellFounded
<1>2. FiniteSubsetsOf(S) = SUBSET S
  BY FS_FiniteSubsetsOfFinite
<1>3. PICK x \in T : \A y \in T : ~(<<y, x>> \in StrictSubsetOrdering(S))
  BY <1>1, <1>2, WFMin
<1> QED BY <1>3 DEF StrictSubsetOrdering

Pick(s) == CHOOSE x \in s : TRUE

\* f adds up the packets of position k on the cores of a set.
AddsUp(o, k, S, f) ==
  f = [s \in SUBSET S |-> IF s = {} THEN 0
                          ELSE LET x == Pick(s) IN o[x][k].pkts + f[s \ {x}]]

\* The sum over the cores, as the function that the library chooses.
LEMMA SumAddsUp ==
  ASSUME NEW o, NEW k, NEW S
  PROVE  MapThenSumSet(LAMBDA c : o[c][k].pkts, S) = (CHOOSE f : AddsUp(o, k, S, f))[S]
BY Zenon DEF MapThenSumSet, MapThenFoldSet, AddsUp, Pick

\* Only one function does.
LEMMA SumIsUnique ==
  ASSUME NEW o, NEW k, NEW S, IsFiniteSet(S), NEW g, AddsUp(o, k, S, g)
  PROVE  MapThenSumSet(LAMBDA c : o[c][k].pkts, S) = g[S]
<1> DEFINE f == CHOOSE h : AddsUp(o, k, S, h)
<1>1. AddsUp(o, k, S, f)
  OBVIOUS
<1> HIDE DEF f
<1>2. ASSUME NEW h, AddsUp(o, k, S, h), NEW s \in SUBSET S
      PROVE  h[s] = IF s = {} THEN 0 ELSE o[Pick(s)][k].pkts + h[s \ {Pick(s)}]
  BY <1>2 DEF AddsUp
<1> DEFINE T == {s \in SUBSET S : f[s] # g[s]}
<1>3. T = {}
  <2> SUFFICES ASSUME T # {} PROVE FALSE
    OBVIOUS
  <2>1. T \subseteq SUBSET S
    OBVIOUS
  <2> HIDE DEF T
  <2>2. PICK s \in T : \A y \in T : ~(y \subseteq s /\ y # s)
    BY <2>1, SmallestSubset
  <2>3. s \in SUBSET S /\ f[s] # g[s]
    BY DEF T
  <2>4. s # {}
    BY <2>3, <1>1, <1>2
  <2>5. Pick(s) \in s
    BY <2>4 DEF Pick
  <2> DEFINE r == s \ {Pick(s)}
  <2>6. r \in SUBSET S /\ r \subseteq s /\ r # s
    BY <2>3, <2>5
  <2>7. f[r] = g[r]
    BY <2>2, <2>6 DEF T
  <2>8. f[s] = o[Pick(s)][k].pkts + f[r]
    BY <1>1, <1>2, <2>3, <2>4
  <2>9. g[s] = o[Pick(s)][k].pkts + g[r]
    BY <1>2, <2>3, <2>4
  <2> QED BY <2>3, <2>7, <2>8, <2>9
<1>4. f[S] = g[S]
  BY <1>3
<1> QED BY <1>4, SumAddsUp DEF f

\* The shares of the cores add up: each core has the quotient, the first the rest too.
LEMMA SharesAddUp ==
  ASSUME NEW o, NEW k, NEW total \in Nat,
         \A c \in Cores : o[c][k].pkts = burst_share(total, c)
  PROVE  MapThenSumSet(LAMBDA c : o[c][k].pkts, Cores) = total
<1> DEFINE q == total \div DpCores
           r == total - q * DpCores
           g == [s \in SUBSET Cores |-> Cardinality(s) * q + (IF 0 \in s THEN r ELSE 0)]
<1>1. q \in Nat /\ r \in Nat
  BY CoresAssumption
<1>2. IsFiniteSet(Cores) /\ Cardinality(Cores) = DpCores /\ 0 \in Cores
  BY CoresAssumption, FS_Interval DEF Cores
<1>3. \A c \in Cores : o[c][k].pkts = q + (IF c = 0 THEN r ELSE 0)
  BY DEF burst_share
<1>4. g[Cores] = total
  <2>1. g[Cores] = DpCores * q + r
    BY <1>2
  <2>2. q * DpCores \in Nat /\ DpCores * q = q * DpCores
    BY <1>1, CoresAssumption
  <2> DEFINE p == q * DpCores
  <2>3. r = total - p
    OBVIOUS
  <2>4. g[Cores] = p + r
    BY <2>1, <2>2
  <2> HIDE DEF p, r, g, q
  <2> QED BY <2>2, <2>3, <2>4 DEF p
<1> HIDE DEF q, r
<1>5. \A s \in SUBSET Cores :
        g[s] = IF s = {} THEN 0 ELSE o[Pick(s)][k].pkts + g[s \ {Pick(s)}]
  <2> TAKE s \in SUBSET Cores
  <2>1. IsFiniteSet(s)
    BY <1>2, FS_Subset
  <2>2. CASE s = {}
    <3>1. Cardinality(s) = 0 /\ 0 \notin s
      BY <2>2, FS_EmptySet
    <3>2. g[s] = 0 * q + 0
      BY <3>1
    <3> HIDE DEF g
    <3> QED BY <2>2, <3>2, <1>1
  <2>3. CASE s # {}
    <3> DEFINE x == Pick(s)
               n == Cardinality(s)
    <3>1. x \in s /\ x \in Cores
      BY <2>3 DEF Pick
    <3>2. n \in Nat /\ Cardinality(s \ {x}) = n - 1 /\ n - 1 \in Nat
      <4>1. Cardinality(s \ {x}) = n - 1 /\ IsFiniteSet(s \ {x})
        BY <2>1, <3>1, FS_RemoveElement
      <4> QED BY <2>1, <4>1, FS_CardinalityType
    <3>3. s \ {x} \in SUBSET Cores
      OBVIOUS
    <3>4. g[s] = n * q + (IF 0 \in s THEN r ELSE 0)
      OBVIOUS
    <3>5. g[s \ {x}] = (n - 1) * q + (IF 0 \in s \ {x} THEN r ELSE 0)
      BY <3>2, <3>3
    <3>6. n * q = (n - 1) * q + q /\ (n - 1) * q \in Nat /\ n * q \in Nat
      BY <3>2, <1>1
    <3>7. o[x][k].pkts = q + (IF x = 0 THEN r ELSE 0)
      BY <1>3, <3>1
    <3> DEFINE a == n * q
               b == (n - 1) * q
               d == IF x = 0 THEN r ELSE 0
               e == IF 0 \in s \ {x} THEN r ELSE 0
    <3>8. d \in Nat /\ e \in Nat /\ (IF 0 \in s THEN r ELSE 0) = d + e
      BY <1>1, <3>1
    <3>9. g[s] = a + (d + e) /\ g[s \ {x}] = b + e /\ o[x][k].pkts = q + d
      BY <3>4, <3>5, <3>7, <3>8
    <3>10. a = b + q /\ b \in Nat
      BY <3>6
    <3> HIDE DEF a, b, d, e, n, g
    <3>11. g[s] = o[x][k].pkts + g[s \ {x}]
      BY <3>8, <3>9, <3>10, <1>1
    <3> QED BY <2>3, <3>11
  <2> QED BY <2>2, <2>3
<1>6. AddsUp(o, k, Cores, g)
  <2>1. g = [s \in SUBSET Cores |-> g[s]]
    OBVIOUS
  <2> HIDE DEF g
  <2> QED BY <2>1, <1>5 DEF AddsUp
<1> HIDE DEF g
<1> QED BY ONLY <1>2, <1>4, <1>6, SumIsUnique, ZenonT(60)

-----------------------------------------------------------------------------
(* The theorems.                                                           *)

\* At every step of every pass the nodes, the marks and the lists of the cores
\* are those the streams looked at so far call for.
THEOREM CompilerIsConsistent == Spec => []CompilerInv
<1>1. CompilerInv /\ [Next]_vars => CompilerInv'
  <2> SUFFICES ASSUME CompilerInv, [Next]_vars PROVE CompilerInv'
    OBVIOUS
  <2>1. CASE Stopped \/ UNCHANGED vars
    BY <2>1, CompilerStutter DEF Stopped
  <2>2. CASE Step
    BY <2>2, CompilerAllocate, CompilerDirect, CompilerSearch, CompilerUnmarked,
       CompilerStream, CompilerDone DEF Step
  <2> QED BY <2>1, <2>2 DEF Next
<1> QED BY CompilerInit, <1>1, PTL DEF Spec

\* Whatever the table, and whatever loops are in it, compile() returns true
\* exactly for the tables that can run.
THEOREM AcceptanceIsExact == Spec => []AcceptsExactlyWellFormed
<1>1. CompilerInv => AcceptsExactlyWellFormed
  BY DEF CompilerInv, Answered, AcceptsExactlyWellFormed
<1> QED BY <1>1, CompilerIsConsistent, PTL

\* The compressed ids are positions in the list of every core: what the data
\* plane indexes with them is the stream the client named.
THEOREM IdsArePositions == Spec => []PositionsInv
<1>1. CompilerInv => PositionsInv
  <2> SUFFICES ASSUME CompilerInv PROVE PositionsInv
    OBVIOUS
  <2>1. NextIsAPosition
    <3> SUFFICES ASSUME pc = "ok", NEW c \in Cores, NEW k \in DOMAIN objs[c]
                 PROVE  \E s \in EnabledStreams :
                          /\ comp[s.id] = k - 1 /\ objs[c][k].id = k - 1
                          /\ IF s.next = NONE THEN objs[c][k].next = NONE
                             ELSE /\ objs[c][k].next + 1 \in DOMAIN objs[c]
                                  /\ comp[s.next] = objs[c][k].next
      BY DEF NextIsAPosition
    <3>1. table \in Tables /\ Allocated /\ Directed /\ Listed
      BY DEF CompilerInv, TypeOK
    <3>2. Len(table) \in Nat /\ Compiles = Len(table) + 1
          /\ Allocs = Before(table, Len(table) + 1)
      BY <3>1, TableFacts DEF Compiles, Allocs
    <3>3. objs[c] \in Seq(Obj) /\ k \in Nat /\ DOMAIN objs[c] = 1..Pos(table, Len(table) + 1)
      BY <3>1, <3>2 DEF Listed
    <3>4. PICK m \in Allocs : Pos(table, m) = k - 1
      BY <3>1, <3>2 DEF Listed
    <3>5. objs[c][k] = Compiled(m, c)
      <4>1. objs[c][Pos(table, m) + 1] = Compiled(m, c)
        BY <3>1, <3>2 DEF Listed
      <4> QED BY <4>1, <3>3, <3>4
    <3>6. objs[c][k].id = comp[table[m].id] /\ objs[c][k].next = compressed_next(table[m])
      BY <3>5 DEF Compiled
    <3>7. comp[table[m].id] = k - 1 /\ table[m] \in EnabledStreams
      BY <3>1, <3>2, <3>4, AllEnabled DEF Allocated
    <3>8. CASE table[m].next = NONE
      BY <3>6, <3>7, <3>8 DEF compressed_next, NONE
    <3>9. CASE table[m].next # NONE
      <4>1. table[m].next \in Nodes
        BY <3>1, <3>9 DEF Directed
      <4>2. table[m].next \in Nat
        BY <4>1 DEF CompilerInv, TypeOK
      <4>3. PICK j \in Allocs : table[j].id = table[m].next
        BY <3>1, <4>1 DEF Allocated
      <4>4. objs[c][k].next = comp[table[m].next] /\ comp[table[m].next] = Pos(table, j)
        BY <3>1, <3>6, <4>2, <4>3 DEF compressed_next, Allocated
      <4>5. Pos(table, j) \in Nat /\ Pos(table, j) < Pos(table, Len(table) + 1)
        BY <3>1, <3>2, <4>3, PosGrows
      <4>6. Pos(table, Len(table) + 1) \in Nat
        BY <3>1, <3>2, BeforeFinite
      <4>7. objs[c][k].next + 1 \in DOMAIN objs[c]
        BY <3>3, <4>4, <4>5, <4>6
      <4> QED BY <3>6, <3>7, <3>9, <4>4, <4>7
    <3> QED BY <3>8, <3>9
  <2> QED BY <2>1 DEF CompilerInv, PositionsInv
<1> QED BY <1>1, CompilerIsConsistent, PTL

\* No packet of a burst is lost or sent twice by the division among the cores,
\* however many there are.
THEOREM BurstsAreShared == Spec => []BurstIsShared
<1>1. CompilerInv => BurstIsShared
  <2> SUFFICES ASSUME CompilerInv, pc = "ok", NEW s \in EnabledStreams
               PROVE  MapThenSumSet(LAMBDA c : objs[c][comp[s.id] + 1].pkts, Cores) = s.pkts
    BY DEF BurstIsShared
  <2>1. table \in Tables /\ Allocated /\ Listed
    BY DEF CompilerInv, TypeOK
  <2>2. Compiles = Len(table) + 1 /\ Allocs = Before(table, Len(table) + 1)
    BY DEF Compiles, Allocs
  <2>3. PICK k \in Allocs : s = table[k]
    BY <2>1, <2>2, AllEnabled
  <2>4. s.pkts \in Nat
    BY <2>1, <2>2, <2>3, StreamFacts DEF Before
  <2> DEFINE x == comp[s.id] + 1
  <2>5. \A c \in Cores : objs[c][x] = Compiled(k, c)
    BY <2>1, <2>2, <2>3 DEF Allocated, Listed
  <2> HIDE DEF x
  <2>6. \A c \in Cores : objs[c][x].pkts = burst_share(s.pkts, c)
    <3> TAKE c \in Cores
    <3>1. Compiled(k, c).pkts = burst_share(s.pkts, c)
      BY <2>3 DEF Compiled
    <3>2. objs[c][x] = Compiled(k, c)
      BY <2>5
    <3> QED BY <3>1, <3>2, Zenon
  <2>7. MapThenSumSet(LAMBDA c : objs[c][x].pkts, Cores) = s.pkts
    BY <2>4, <2>6, SharesAddUp
  <2> QED BY <2>7 DEF x
<1> QED BY <1>1, CompilerIsConsistent, PTL
=============================================================================
