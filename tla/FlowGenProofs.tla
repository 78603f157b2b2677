--------------------------- MODULE FlowGenProofs ---------------------------
(***************************************************************************)
(* Proofs about the stateful generator: its invariants hold for all pools, *)
(* templates, numbers of nodes and sizes of the batches.                   *)
(*                                                                         *)
(* FlowInv is inductive.  Its core is HeapOK, about the heap that a        *)
(* handler finds: what flows and batches hold is what the tuple generator  *)
(* has noted (PortsOK), only flows and batches hold ports (NodeOK), and    *)
(* the open batches are two different ones with room (DpcOK).  PassOK      *)
(* says which EXIT_SCHED nodes there are in which pass: without it the     *)
(* closing pass could end with flows still open.                           *)
(*                                                                         *)
(* A handler is a chain of helpers on a heap, so each helper has a lemma   *)
(* of its own: what PortsOK says of a set of places is kept when a port is *)
(* taken at a new place, when places are given back, and when they only    *)
(* move, from a flow to a batch or from a batch to the next one.           *)
(***************************************************************************)
EXTENDS FlowGen, FiniteSetTheorems, TLAPS

-----------------------------------------------------------------------------
(* What is held, and by whom.  A place is a node and a position in its     *)
(* ports; the tuple generator is told apart from the nodes by PortsOK,     *)
(* which speaks of any set of places and what is held there.               *)

Large(c) == Pools[c[1]].large

IpRec   == [large : BOOLEAN, m_bitmap_port : SUBSET Port, m_head_port : MinPort .. MaxPort + 1]
GenRec  == [m_ip_info : [Client -> IpRec], m_cur_idx : [DOMAIN Pools -> Nat],
            m_active_alloc : [DOMAIN Pools -> Nat],
            m_port_allocation_error : [DOMAIN Pools -> BOOLEAN]]
NodeRec == [m_type : NodeType, tmpl : {0} \cup DOMAIN Templates, ports : Seq(HeldPort),
            left : Nat]
HeapRec == [node : [Node -> NodeRec], dpc : [Proto -> Node \cup {NoNode}], gen : GenRec,
            fail : {"", "abort", "exit"}]

\* The tuple generator by itself.
GenOK(gen) ==
    /\ gen \in GenRec
    /\ \A p \in DOMAIN Pools : gen.m_cur_idx[p] < Pools[p].ips
    /\ \A c \in Client : /\ gen.m_ip_info[c].large = Large(c)
                         /\ Large(c) => gen.m_ip_info[c].m_bitmap_port = {}

\* What is held is noted: in the bitmap, or as an error if it is no port.
Noted(e, gen) ==
    IF Large(e.client) THEN e.port # IllegalPort
    ELSE IF e.port = IllegalPort THEN gen.m_port_allocation_error[e.client[1]]
    ELSE e.port \in gen.m_ip_info[e.client].m_bitmap_port

OfPool(H, at, p) == {x \in H : at[x].client[1] = p}

PortsOK(H, at, gen) ==
    /\ IsFiniteSet(H) /\ at \in [H -> HeldPort]
    /\ \A x \in H : Noted(at[x], gen)
    /\ \A c \in Client : \A a \in gen.m_ip_info[c].m_bitmap_port :
          \E x \in H : at[x] = Held(c, a)
    /\ \A x, y \in H :
          at[x] = at[y] /\ ~Large(at[x].client) /\ at[x].port # IllegalPort => x = y
    /\ \A p \in DOMAIN Pools : gen.m_active_alloc[p] = Cardinality(OfPool(H, at, p))

Places(node) == {x \in Node \X Nat : x[2] \in DOMAIN node[x[1]].ports}
AtIn(node) == [x \in Places(node) |-> node[x[1]].ports[x[2]]]

\* Only flows, of which it is one to three, and batches hold ports.
NodeOK(node) ==
    \A n \in Node :
       /\ node[n].m_type = "FREE" => node[n] = FreeNode
       /\ node[n].m_type = "FLOW_PKT" =>
             node[n].tmpl \in DOMAIN Templates /\ Len(node[n].ports) \in 1 .. 3
       /\ node[n].m_type \notin {"FLOW_PKT", "FLOW_DEFER_PORT_RELEASE"} => node[n].ports = << >>

\* The open batches are two different ones, and have room.
DpcTyped(node, dpc) ==
    \A k \in Proto : dpc[k] # NoNode => node[dpc[k]].m_type = "FLOW_DEFER_PORT_RELEASE"
DpcOK(node, dpc) ==
    /\ \A k \in Proto : dpc[k] # NoNode => Len(node[dpc[k]].ports) < DeferNum
    /\ dpc["tcp"] = dpc["udp"] => dpc["tcp"] = NoNode

\* A heap, whether the process has ended or not, and one with which it goes on.
HeapTyped(h) == h \in HeapRec /\ GenOK(h.gen) /\ DpcTyped(h.node, h.dpc)
HeapOK(h) ==
    /\ HeapTyped(h) /\ NodeOK(h.node) /\ DpcOK(h.node, h.dpc)
    /\ PortsOK(Places(h.node), AtIn(h.node), h.gen)

AnError(gen) == \E p \in DOMAIN Pools : gen.m_port_allocation_error[p]

\* What a handler may leave.
Outcome(h) ==
    /\ HeapTyped(h)
    /\ h.fail = "" => HeapOK(h)
    /\ h.fail = "abort" => AnError(h.gen)

\* What a handler may leave of a heap that had these nodes, and no EXIT_SCHED
\* node comes or goes.
SameExits(old, node) ==
    \A i \in Node : node[i].m_type = "EXIT_SCHED" <=> old[i].m_type = "EXIT_SCHED"
Handled(old, h) == Outcome(h) /\ (h.fail = "" => SameExits(old, h.node))

TmplOK ==
    \A t \in DOMAIN Templates :
       /\ m_tmpl[t].m_cnt \in 0 .. Templates[t].w - 1
       /\ m_tmpl[t].m_cache_client_idx \in 0 .. Pools[Templates[t].pool].ips - 1

\* The first pass ends with the EXIT_SCHED node; the closing pass has one only
\* if the master has sent it.
ExitNodes == {n \in Node : m_node[n].m_type = "EXIT_SCHED"}
PassOK ==
    /\ phase = "gen" => ExitNodes # {}
    /\ phase = "close" /\ ~m_terminated_by_master => ExitNodes = {}
    /\ ~m_terminated_by_master => \A m, n \in ExitNodes : m = n

\* No open batch is full; that much is kept when the thread has ended.
HasRoom(node, dpc) ==
    \A k \in Proto : dpc[k] # NoNode => Len(node[dpc[k]].ports) < DeferNum

\* The inductive invariant: what the heap is in each phase, and the rest.
HeapInv ==
    /\ phase \in Phase /\ HeapTyped(Heap)
    /\ phase \notin {"abort", "exit"} => HasRoom(m_node, m_dpc)
    /\ Running => HeapOK(Heap) /\ PassOK
    /\ AssertsFailOnlyOnIllegalPort /\ CloseReturnsEverything
FlowInv ==
    /\ m_terminated_by_master \in BOOLEAN
    /\ m_tmpl = [t \in DOMAIN Templates |-> m_tmpl[t]] /\ TmplOK
    /\ HeapInv

-----------------------------------------------------------------------------
(* Taking a port.                                                          *)

\* A set of naturals that is not empty has a smallest element.
LEMMA SmallestNat ==
  ASSUME NEW T \in SUBSET Nat, T # {}
  PROVE  \E n \in T : \A m \in T : n <= m
<1> DEFINE R == OpToRel(<, Nat)
<1>1. \A m, n \in Nat : <<m, n>> \in R <=> m < n
  BY DEF OpToRel
<1>2. IsWellFoundedOn(R, Nat)
  BY NatLessThanWellFounded
<1> HIDE DEF R
<1>3. IsWellFoundedOn(R, T)
  BY <1>2, IsWellFoundedOnSubset
<1>4. T \subseteq T
  OBVIOUS
<1>5. PICK n \in T : \A m \in T : ~(<<m, n>> \in R)
  BY ONLY <1>3, <1>4, T # {}, WFMin, Zenon
<1>6. \A m \in T : ~(m < n)
  BY <1>1, <1>5
<1> QED BY <1>5, <1>6

\* Going round stays within the ports.
LEMMA AfterIsPort ==
  ASSUME NEW a \in Port, NEW j \in Nat
  PROVE  After(a, j) \in Port
<1>1. /\ a \in Nat /\ MinPort \in Nat /\ MaxPort \in Nat /\ MinPort < MaxPort /\ MinPort <= a
  BY PortAssumption DEF Port
<1> DEFINE d == MaxPort - MinPort
           x == (a - MinPort) + j
<1>2. d \in Nat \ {0} /\ x \in Nat
  BY <1>1
<1> HIDE DEF d, x
<1>3. x % d \in 0 .. d - 1
  BY <1>2, Z3
<1> QED BY <1>1, <1>2, <1>3 DEF After, Port, d, x

\* get_next_free_port_by_bit() answers a port that is free, or none.
LEMMA NextFreeIsFree ==
  ASSUME NEW ip \in IpRec
  PROVE  NextFree(ip) # IllegalPort => NextFree(ip) \in Port \ ip.m_bitmap_port
<1> DEFINE a == IF is_port_legal(ip.m_head_port) THEN ip.m_head_port ELSE MinPort
           F == FreeAt(ip, a)
           b == CHOOSE j \in F : \A i \in F : j <= i
<1>1. a \in Port
  BY PortAssumption DEF IpRec, is_port_legal, Port
<1> HIDE DEF a
<1>2. F \subseteq Nat
  BY PortAssumption DEF FreeAt
<1>3. CASE F = {}
  BY <1>3 DEF NextFree, a
<1>4. CASE F # {}
  <2>1. \E j \in F : \A i \in F : j <= i
    BY <1>2, <1>4, SmallestNat
  <2>2. b \in F
    BY <2>1
  <2>3. b \in Nat /\ After(a, b) \notin ip.m_bitmap_port
    BY <1>2, <2>2 DEF FreeAt
  <2>4. After(a, b) \in Port
    BY <1>1, <2>3, AfterIsPort
  <2>5. NextFree(ip) = After(a, b)
    BY <1>4 DEF NextFree, a
  <2> QED BY <2>3, <2>4, <2>5
<1> QED BY <1>3, <1>4

\* get_new_free_port(): the port that is answered is noted for the client, and
\* nothing else changes.
LEMMA NewPortIsNoted ==
  ASSUME NEW ip \in IpRec, ip.large => ip.m_bitmap_port = {}
  PROVE  LET g == get_new_free_port(ip)
             r == NewPort(ip)
         IN  /\ g \in IpRec /\ g.large = ip.large
             /\ ip.large => r \in MinPort .. MaxPort /\ g.m_bitmap_port = {}
             /\ ~ip.large /\ r = IllegalPort => g.m_bitmap_port = ip.m_bitmap_port
             /\ ~ip.large /\ r # IllegalPort =>
                   /\ r \in Port /\ r \notin ip.m_bitmap_port
                   /\ g.m_bitmap_port = ip.m_bitmap_port \cup {r}
<1> DEFINE g == get_new_free_port(ip)
           r == NewPort(ip)
<1>0. /\ MinPort \in Nat /\ MaxPort \in Nat /\ MinPort < MaxPort
      /\ ip.large \in BOOLEAN /\ ip.m_bitmap_port \in SUBSET Port
      /\ ip.m_head_port \in MinPort .. MaxPort + 1
  BY PortAssumption DEF IpRec
<1>1. CASE ip.large
  <2>1. r \in MinPort .. MaxPort
    BY <1>0, <1>1 DEF NewPort
  <2> HIDE DEF r
  <2>2. g = [ip EXCEPT !.m_head_port = r + 1]
    BY <1>1 DEF get_new_free_port, r
  <2>3. r + 1 \in MinPort .. MaxPort + 1
    BY <1>0, <2>1
  <2> HIDE DEF g
  <2>4. g \in IpRec /\ g.large = ip.large /\ g.m_bitmap_port = ip.m_bitmap_port
    BY <2>2, <2>3 DEF IpRec
  <2> QED BY <1>1, <2>1, <2>4 DEF g, r
<1>2. CASE ~ip.large /\ r = IllegalPort
  <2>1. g = [ip EXCEPT !.m_head_port = MinPort]
    BY <1>2 DEF get_new_free_port
  <2>2. MinPort \in MinPort .. MaxPort + 1
    BY <1>0
  <2> HIDE DEF g
  <2>3. g \in IpRec /\ g.large = ip.large /\ g.m_bitmap_port = ip.m_bitmap_port
    BY <2>1, <2>2 DEF IpRec
  <2> QED BY <1>2, <2>3 DEF g
<1>3. CASE ~ip.large /\ r # IllegalPort
  <2>1. r = NextFree(ip)
    BY <1>3 DEF NewPort
  <2>2. r \in Port /\ r \notin ip.m_bitmap_port
    BY <1>3, <2>1, NextFreeIsFree
  <2> HIDE DEF r
  <2>3. g = [ip EXCEPT !.m_bitmap_port = @ \cup {r}, !.m_head_port = r + 1]
    BY <1>3 DEF get_new_free_port, r
  <2>4. r + 1 \in MinPort .. MaxPort + 1 /\ ip.m_bitmap_port \cup {r} \in SUBSET Port
    BY <1>0, <2>2 DEF Port
  <2> HIDE DEF g
  <2>5. g \in IpRec /\ g.large = ip.large /\ g.m_bitmap_port = ip.m_bitmap_port \cup {r}
    BY <2>3, <2>4 DEF IpRec
  <2> QED BY <1>3, <2>2, <2>5 DEF g, r
<1> QED BY <1>0, <1>1, <1>2, <1>3

-----------------------------------------------------------------------------
(* The three things that happen to what is held.                           *)

\* Ports change their places, as when a flow's go to a batch: f tells where the
\* port of each new place was before.
LEMMA PortsMoved ==
  ASSUME NEW H, NEW at, NEW gen, PortsOK(H, at, gen),
         NEW K, NEW bt, DOMAIN bt = K, bt = [y \in K |-> bt[y]],
         NEW f \in [K -> H],
         \A y, z \in K : f[y] = f[z] => y = z,
         \A x \in H : \E y \in K : f[y] = x,
         \A y \in K : bt[y] = at[f[y]]
  PROVE  PortsOK(K, bt, gen)
<1>1. IsFiniteSet(H) /\ at \in [H -> HeldPort]
  BY DEF PortsOK
<1>2. IsFiniteSet(K)
  <2>1. f \in Injection(K, H)
    BY DEF Injection, IsInjective
  <2> QED BY <1>1, <2>1, FS_Injection
<1>3. bt \in [K -> HeldPort]
  BY <1>1
<1>4. \A y \in K : Noted(bt[y], gen)
  BY DEF PortsOK
<1>5. \A c \in Client : \A a \in gen.m_ip_info[c].m_bitmap_port :
         \E y \in K : bt[y] = Held(c, a)
  <2> SUFFICES ASSUME NEW c \in Client, NEW a \in gen.m_ip_info[c].m_bitmap_port
               PROVE  \E y \in K : bt[y] = Held(c, a)
    OBVIOUS
  <2>1. PICK x \in H : at[x] = Held(c, a)
    BY DEF PortsOK
  <2>2. PICK y \in K : f[y] = x
    OBVIOUS
  <2> QED BY <2>1, <2>2
<1>6. \A y, z \in K :
         bt[y] = bt[z] /\ ~Large(bt[y].client) /\ bt[y].port # IllegalPort => y = z
  <2> SUFFICES ASSUME NEW y \in K, NEW z \in K, bt[y] = bt[z], ~Large(bt[y].client),
                      bt[y].port # IllegalPort
               PROVE  y = z
    OBVIOUS
  <2>1. f[y] \in H /\ f[z] \in H /\ at[f[y]] = bt[y] /\ at[f[z]] = bt[y]
    OBVIOUS
  <2>2. f[y] = f[z]
    BY <2>1 DEF PortsOK
  <2> QED BY <2>2
<1>7. ASSUME NEW p \in DOMAIN Pools
      PROVE  gen.m_active_alloc[p] = Cardinality(OfPool(K, bt, p))
  <2> DEFINE S == OfPool(K, bt, p)
             T == OfPool(H, at, p)
             g == [y \in S |-> f[y]]
  <2>1. S \subseteq K /\ T \subseteq H
    BY DEF OfPool
  <2>2. \A y \in K : y \in S <=> f[y] \in T
    BY DEF OfPool
  <2> HIDE DEF S, T
  <2>3. g \in [S -> T] /\ \A y \in S : g[y] = f[y]
    BY <2>1, <2>2
  <2>4. IsFiniteSet(T)
    BY <1>1, <2>1, FS_Subset
  <2>5. \A y, z \in S : g[y] = g[z] => y = z
    BY <2>1, <2>3
  <2>6. \A x \in T : \E y \in S : g[y] = x
    BY <2>1, <2>2, <2>3
  <2> HIDE DEF g
  <2>7. g \in Injection(S, T)
    BY <2>3, <2>5 DEF Injection, IsInjective
  <2>8. g \in Surjection(S, T)
    BY <2>3, <2>6 DEF Surjection
  <2>9. Cardinality(S) = Cardinality(T)
    BY <2>4, <2>7, <2>8, FS_Injection
  <2>10. gen.m_active_alloc[p] = Cardinality(T)
    BY DEF PortsOK, T
  <2> QED BY <2>9, <2>10 DEF S
<1> QED BY <1>2, <1>3, <1>4, <1>5, <1>6, <1>7 DEF PortsOK

\* A client has a pool and an index in it.
LEMMA ClientPool ==
  ASSUME NEW c \in Client
  PROVE  /\ c[1] \in DOMAIN Pools /\ c[2] \in 0 .. Pools[c[1]].ips - 1
         /\ Large(c) \in BOOLEAN
<1>1. PICK p \in DOMAIN Pools : c \in {p} \X (0 .. Pools[p].ips - 1)
  BY DEF Client
<1>2. c[1] = p /\ c[2] \in 0 .. Pools[p].ips - 1
  BY <1>1
<1>3. Pools[p].large \in BOOLEAN
  BY FlowGenAssumption
<1> QED BY <1>2, <1>3 DEF Large

\* The tuple generator after a port of client c was taken.
Taken(gen, c) ==
    [m_ip_info |-> [gen.m_ip_info EXCEPT ![c] = get_new_free_port(gen.m_ip_info[c])],
     m_cur_idx |-> gen.m_cur_idx,
     m_active_alloc |-> [gen.m_active_alloc EXCEPT ![c[1]] = gen.m_active_alloc[c[1]] + 1],
     m_port_allocation_error |->
        [gen.m_port_allocation_error EXCEPT ![c[1]] =
            gen.m_port_allocation_error[c[1]] \/ NewPort(gen.m_ip_info[c]) = IllegalPort]]

\* What is answered for client c.
Answer(gen, c) == Held(c, NewPort(gen.m_ip_info[c]))

\* What the tuple generator answers, and what it is after it.
LEMMA AnswerFacts ==
  ASSUME NEW gen, GenOK(gen), NEW c \in Client
  PROVE  /\ GenOK(Taken(gen, c)) /\ Answer(gen, c) \in HeldPort
         /\ Answer(gen, c).client = c
         /\ Large(c) => Answer(gen, c).port # IllegalPort
         /\ ~Large(c) /\ Answer(gen, c).port # IllegalPort =>
               /\ Answer(gen, c).port \notin gen.m_ip_info[c].m_bitmap_port
               /\ Taken(gen, c).m_ip_info[c].m_bitmap_port
                     = gen.m_ip_info[c].m_bitmap_port \cup {Answer(gen, c).port}
         /\ Large(c) \/ Answer(gen, c).port = IllegalPort =>
               Taken(gen, c).m_ip_info[c].m_bitmap_port = gen.m_ip_info[c].m_bitmap_port
         /\ ~Large(c) /\ Answer(gen, c).port = IllegalPort =>
               Taken(gen, c).m_port_allocation_error[c[1]]
<1> DEFINE ip == gen.m_ip_info[c]
           r == NewPort(ip)
           g == get_new_free_port(ip)
           t == Taken(gen, c)
<1>1. /\ gen.m_ip_info \in [Client -> IpRec] /\ gen.m_cur_idx \in [DOMAIN Pools -> Nat]
      /\ gen.m_active_alloc \in [DOMAIN Pools -> Nat]
      /\ gen.m_port_allocation_error \in [DOMAIN Pools -> BOOLEAN]
      /\ \A p \in DOMAIN Pools : gen.m_cur_idx[p] < Pools[p].ips
      /\ \A d \in Client : /\ gen.m_ip_info[d].large = Large(d)
                           /\ Large(d) => gen.m_ip_info[d].m_bitmap_port = {}
  BY DEF GenOK, GenRec
<1>2. c[1] \in DOMAIN Pools /\ Large(c) \in BOOLEAN
  BY ClientPool
<1>3. ip \in IpRec /\ ip.large = Large(c) /\ (ip.large => ip.m_bitmap_port = {})
  BY <1>1
<1>4. /\ g \in IpRec /\ g.large = ip.large
      /\ ip.large => r \in MinPort .. MaxPort /\ g.m_bitmap_port = {}
      /\ ~ip.large /\ r = IllegalPort => g.m_bitmap_port = ip.m_bitmap_port
      /\ ~ip.large /\ r # IllegalPort =>
            /\ r \in Port /\ r \notin ip.m_bitmap_port
            /\ g.m_bitmap_port = ip.m_bitmap_port \cup {r}
  BY <1>3, NewPortIsNoted
<1>5. /\ t.m_ip_info = [gen.m_ip_info EXCEPT ![c] = g]
      /\ t.m_cur_idx = gen.m_cur_idx
      /\ t.m_active_alloc = [gen.m_active_alloc EXCEPT ![c[1]] = gen.m_active_alloc[c[1]] + 1]
      /\ t.m_port_allocation_error = [gen.m_port_allocation_error EXCEPT ![c[1]] =
            gen.m_port_allocation_error[c[1]] \/ r = IllegalPort]
      /\ t = [m_ip_info |-> t.m_ip_info, m_cur_idx |-> t.m_cur_idx,
              m_active_alloc |-> t.m_active_alloc,
              m_port_allocation_error |-> t.m_port_allocation_error]
  BY DEF Taken
<1> HIDE DEF t, g, r
<1>6. t.m_ip_info \in [Client -> IpRec] /\ t.m_ip_info[c] = g
  BY <1>1, <1>4, <1>5
<1>7. t.m_active_alloc \in [DOMAIN Pools -> Nat]
  BY <1>1, <1>2, <1>5
<1>8. /\ t.m_port_allocation_error \in [DOMAIN Pools -> BOOLEAN]
      /\ r = IllegalPort => t.m_port_allocation_error[c[1]]
  BY <1>1, <1>2, <1>5
<1>9. t \in GenRec
  BY <1>1, <1>5, <1>6, <1>7, <1>8 DEF GenRec
<1>10. \A d \in Client : /\ t.m_ip_info[d].large = Large(d)
                         /\ Large(d) => t.m_ip_info[d].m_bitmap_port = {}
  BY <1>1, <1>3, <1>4, <1>5
<1>11. GenOK(t)
  BY <1>1, <1>5, <1>9, <1>10 DEF GenOK
<1>12. r \in {IllegalPort} \cup (MinPort .. MaxPort) /\ (ip.large => r # IllegalPort)
  BY <1>3, <1>4, PortAssumption DEF Port, IpRec
<1>13. /\ Answer(gen, c) = [client |-> c, port |-> r] /\ Answer(gen, c).port = r
       /\ Answer(gen, c).client = c /\ Answer(gen, c) \in HeldPort
  BY <1>12 DEF Answer, Held, HeldPort, r
<1>14. Large(c) \/ r = IllegalPort => g.m_bitmap_port = ip.m_bitmap_port
  BY <1>3, <1>4
<1> QED BY <1>2, <1>3, <1>4, <1>6, <1>8, <1>11, <1>12, <1>13, <1>14 DEF t

\* A port is taken for a new place.
LEMMA PortTaken ==
  ASSUME NEW H, NEW at, NEW gen, PortsOK(H, at, gen), GenOK(gen),
         NEW c \in Client, NEW z, z \notin H,
         NEW bt, bt = [x \in H \cup {z} |-> IF x = z THEN Answer(gen, c) ELSE at[x]]
  PROVE  PortsOK(H \cup {z}, bt, Taken(gen, c))
<1> DEFINE t == Taken(gen, c)
           e == Answer(gen, c)
           K == H \cup {z}
           ip(d) == gen.m_ip_info[d]
           jp(d) == t.m_ip_info[d]
<1>1. /\ IsFiniteSet(H) /\ at \in [H -> HeldPort]
      /\ \A x \in H : Noted(at[x], gen)
      /\ \A d \in Client : \A a \in gen.m_ip_info[d].m_bitmap_port :
            \E x \in H : at[x] = Held(d, a)
      /\ \A x, y \in H :
            at[x] = at[y] /\ ~Large(at[x].client) /\ at[x].port # IllegalPort => x = y
      /\ \A p \in DOMAIN Pools : gen.m_active_alloc[p] = Cardinality(OfPool(H, at, p))
  BY DEF PortsOK
<1>2. /\ GenOK(t) /\ e \in HeldPort /\ e.client = c
      /\ Large(c) => e.port # IllegalPort
      /\ ~Large(c) /\ e.port # IllegalPort =>
            /\ e.port \notin gen.m_ip_info[c].m_bitmap_port
            /\ t.m_ip_info[c].m_bitmap_port = gen.m_ip_info[c].m_bitmap_port \cup {e.port}
      /\ Large(c) \/ e.port = IllegalPort =>
            t.m_ip_info[c].m_bitmap_port = gen.m_ip_info[c].m_bitmap_port
      /\ ~Large(c) /\ e.port = IllegalPort => t.m_port_allocation_error[c[1]]
  BY AnswerFacts
<1>3. c[1] \in DOMAIN Pools /\ Large(c) \in BOOLEAN
  BY ClientPool
<1>4. /\ gen.m_ip_info \in [Client -> IpRec]
      /\ gen.m_active_alloc \in [DOMAIN Pools -> Nat]
      /\ gen.m_port_allocation_error \in [DOMAIN Pools -> BOOLEAN]
  BY DEF GenOK, GenRec
<1>5. \A d \in Client : d # c => t.m_ip_info[d] = gen.m_ip_info[d]
  BY <1>4 DEF Taken
<1>6. \A p \in DOMAIN Pools :
         /\ gen.m_port_allocation_error[p] => t.m_port_allocation_error[p]
         /\ t.m_active_alloc[p] = IF p = c[1] THEN gen.m_active_alloc[p] + 1
                                  ELSE gen.m_active_alloc[p]
  BY <1>3, <1>4 DEF Taken
<1>7. \A d \in Client : gen.m_ip_info[d].m_bitmap_port \subseteq t.m_ip_info[d].m_bitmap_port
  BY <1>2, <1>3, <1>5
<1> HIDE DEF t, e
<1>8. bt \in [K -> HeldPort] /\ bt[z] = e /\ \A x \in H : bt[x] = at[x]
  BY <1>1, <1>2 DEF e
<1>9. IsFiniteSet(K)
  BY <1>1, FS_AddElement
<1>10. ASSUME NEW x \in K PROVE Noted(bt[x], t)
  <2>1. CASE x = z
    BY <1>2, <1>3, <1>8, <2>1 DEF Noted
  <2>2. CASE x # z
    <3>1. x \in H /\ bt[x] = at[x] /\ Noted(at[x], gen) /\ at[x] \in HeldPort
      BY <1>1, <1>8, <2>2
    <3>2. at[x].client \in Client /\ at[x].client[1] \in DOMAIN Pools
      BY <3>1, ClientPool DEF HeldPort
    <3> QED BY <1>6, <1>7, <3>1, <3>2 DEF Noted
  <2> QED BY <2>1, <2>2
<1>11. ASSUME NEW d \in Client, NEW a \in t.m_ip_info[d].m_bitmap_port
       PROVE  \E x \in K : bt[x] = Held(d, a)
  <2>1. CASE a \in gen.m_ip_info[d].m_bitmap_port
    BY <1>1, <1>8, <2>1
  <2>2. CASE a \notin gen.m_ip_info[d].m_bitmap_port
    <3>1. d = c /\ a = e.port
      BY <1>2, <1>3, <1>5, <2>2
    <3>2. e = Held(c, e.port)
      BY <1>2 DEF HeldPort, Held
    <3> QED BY <1>8, <3>1, <3>2
  <2> QED BY <2>1, <2>2
<1>12. ASSUME NEW x \in H, ~Large(c), e.port # IllegalPort
       PROVE  at[x] # e
  <2> SUFFICES ASSUME at[x] = e PROVE FALSE
    OBVIOUS
  <2>1. Noted(e, gen)
    BY <1>1
  <2>2. e.port \in gen.m_ip_info[c].m_bitmap_port
    BY <1>2, <1>12, <2>1 DEF Noted
  <2> QED BY <1>2, <1>12, <2>2
<1>13. ASSUME NEW x \in K, NEW y \in K, bt[x] = bt[y], ~Large(bt[x].client),
              bt[x].port # IllegalPort
       PROVE  x = y
  <2>1. CASE x \in H /\ y \in H
    BY <1>1, <1>8, <1>13, <2>1
  <2>2. CASE x = z /\ y \in H
    BY <1>2, <1>8, <1>12, <1>13, <2>2
  <2>3. CASE x \in H /\ y = z
    BY <1>2, <1>8, <1>12, <1>13, <2>3
  <2> QED BY <2>1, <2>2, <2>3
<1>14. ASSUME NEW p \in DOMAIN Pools
       PROVE  t.m_active_alloc[p] = Cardinality(OfPool(K, bt, p))
  <2>1. OfPool(H, at, p) \subseteq H /\ z \notin OfPool(H, at, p)
    BY DEF OfPool
  <2>2. IsFiniteSet(OfPool(H, at, p)) /\ Cardinality(OfPool(H, at, p)) \in Nat
    BY <1>1, <2>1, FS_Subset, FS_CardinalityType
  <2>3. CASE p = c[1]
    <3>1. OfPool(K, bt, p) = OfPool(H, at, p) \cup {z}
      BY <1>2, <1>8, <2>3 DEF OfPool
    <3>2. Cardinality(OfPool(K, bt, p)) = Cardinality(OfPool(H, at, p)) + 1
      BY <2>1, <2>2, <3>1, FS_AddElement
    <3> QED BY <1>1, <1>6, <2>3, <3>2
  <2>4. CASE p # c[1]
    <3>1. OfPool(K, bt, p) = OfPool(H, at, p)
      BY <1>2, <1>8, <2>4 DEF OfPool
    <3> QED BY <1>1, <1>6, <2>4, <3>1
  <2> QED BY <2>3, <2>4
<1> QED BY <1>8, <1>9, <1>10, <1>11, <1>13, <1>14 DEF PortsOK, t

\* The tuple generator after the held ports were returned.
Returned(gen, held) ==
    [m_ip_info |-> [c \in Client |->
        return_ports(gen.m_ip_info[c], {e.port : e \in {d \in Range(held) : d.client = c}})],
     m_cur_idx |-> gen.m_cur_idx,
     m_active_alloc |-> [p \in DOMAIN Pools |->
        gen.m_active_alloc[p] - Cardinality({i \in DOMAIN held : held[i].client[1] = p})],
     m_port_allocation_error |-> gen.m_port_allocation_error]

\* The ports of some places, in any order: q tells the place of each of them.
Lists(held, q, D, at) ==
    /\ held \in Seq(HeldPort) /\ q \in [DOMAIN held -> D]
    /\ \A i, j \in DOMAIN held : q[i] = q[j] => i = j
    /\ \A x \in D : \E i \in DOMAIN held : q[i] = x
    /\ \A i \in DOMAIN held : held[i] = at[q[i]]

\* An assertion of return_port() only fails on the illegal port.
LEMMA OnlyIllegalFails ==
  ASSUME NEW h, NEW H, NEW at, PortsOK(H, at, h.gen), GenOK(h.gen),
         NEW D, D \subseteq H, NEW held, NEW q, Lists(held, q, D, at),
         ~MayReturnAll(h, held)
  PROVE  AnError(h.gen)
<1> SUFFICES ASSUME ~AnError(h.gen) PROVE MayReturnAll(h, held)
  OBVIOUS
<1> DEFINE ip(i) == h.gen.m_ip_info[held[i].client]
<1>1. ASSUME NEW i \in DOMAIN held
      PROVE  /\ held[i].client \in Client /\ ip(i).large = Large(held[i].client)
             /\ ~Large(held[i].client) =>
                   /\ held[i].port # IllegalPort /\ held[i].port \in ip(i).m_bitmap_port
                   /\ held[i].port \in Port
  <2>1. q[i] \in H /\ held[i] = at[q[i]]
    BY DEF Lists
  <2>2. Noted(held[i], h.gen) /\ held[i] \in HeldPort
    BY <2>1 DEF PortsOK
  <2>3. held[i].client \in Client /\ held[i].client[1] \in DOMAIN Pools
    BY <2>2, ClientPool DEF HeldPort
  <2>4. ip(i) \in IpRec /\ ip(i).large = Large(held[i].client)
    BY <2>3 DEF GenOK, GenRec
  <2>5. ip(i).m_bitmap_port \subseteq Port
    BY <2>4 DEF IpRec
  <2> QED BY <2>2, <2>3, <2>4, <2>5 DEF Noted, AnError
<1>2. ASSUME NEW i \in DOMAIN held PROVE MayReturn(ip(i), held[i].port)
  BY <1>1, PortAssumption DEF MayReturn, Port, is_port_legal
<1>3. ASSUME NEW i \in DOMAIN held, NEW j \in 1 .. i - 1, ~ip(i).large
      PROVE  held[j] # held[i]
  <2> SUFFICES ASSUME held[j] = held[i] PROVE FALSE
    OBVIOUS
  <2>1. j \in DOMAIN held /\ j # i
    BY DEF Lists
  <2>2. ~Large(held[i].client) /\ held[i].port # IllegalPort
    BY <1>1, <1>3
  <2>3. q[i] \in H /\ q[j] \in H /\ at[q[i]] = held[i] /\ at[q[j]] = held[i]
    BY <2>1 DEF Lists
  <2>4. q[i] = q[j]
    BY <2>2, <2>3 DEF PortsOK
  <2> QED BY <2>1, <2>4 DEF Lists
<1> QED BY <1>2, <1>3 DEF MayReturnAll

\* The ports of some places are returned.
LEMMA PortsReturned ==
  ASSUME NEW gen, NEW H, NEW at, PortsOK(H, at, gen), GenOK(gen),
         NEW D, D \subseteq H, NEW held, NEW q, Lists(held, q, D, at),
         NEW bt, bt = [x \in H \ D |-> at[x]]
  PROVE  PortsOK(H \ D, bt, Returned(gen, held)) /\ GenOK(Returned(gen, held))
<1> DEFINE t == Returned(gen, held)
           K == H \ D
           R(c) == {e.port : e \in {d \in Range(held) : d.client = c}}
           N(p) == {i \in DOMAIN held : held[i].client[1] = p}
<1>1. /\ IsFiniteSet(H) /\ at \in [H -> HeldPort]
      /\ \A x \in H : Noted(at[x], gen)
      /\ \A d \in Client : \A a \in gen.m_ip_info[d].m_bitmap_port :
            \E x \in H : at[x] = Held(d, a)
      /\ \A x, y \in H :
            at[x] = at[y] /\ ~Large(at[x].client) /\ at[x].port # IllegalPort => x = y
      /\ \A p \in DOMAIN Pools : gen.m_active_alloc[p] = Cardinality(OfPool(H, at, p))
  BY DEF PortsOK
<1>2. /\ gen.m_ip_info \in [Client -> IpRec] /\ gen.m_cur_idx \in [DOMAIN Pools -> Nat]
      /\ gen.m_active_alloc \in [DOMAIN Pools -> Nat]
      /\ gen.m_port_allocation_error \in [DOMAIN Pools -> BOOLEAN]
      /\ \A p \in DOMAIN Pools : gen.m_cur_idx[p] < Pools[p].ips
      /\ \A d \in Client : /\ gen.m_ip_info[d].large = Large(d)
                           /\ Large(d) => gen.m_ip_info[d].m_bitmap_port = {}
  BY DEF GenOK, GenRec
<1>3. /\ held \in Seq(HeldPort) /\ q \in [DOMAIN held -> D]
      /\ \A i, j \in DOMAIN held : q[i] = q[j] => i = j
      /\ \A x \in D : \E i \in DOMAIN held : q[i] = x
      /\ \A i \in DOMAIN held : held[i] = at[q[i]]
  BY DEF Lists
<1>4. \A c : \A a : a \in R(c) <=> \E i \in DOMAIN held : held[i].client = c /\ held[i].port = a
  BY DEF Range
<1>5. /\ t.m_ip_info = [c \in Client |-> return_ports(gen.m_ip_info[c], R(c))]
      /\ t.m_cur_idx = gen.m_cur_idx
      /\ t.m_active_alloc = [p \in DOMAIN Pools |-> gen.m_active_alloc[p] - Cardinality(N(p))]
      /\ t.m_port_allocation_error = gen.m_port_allocation_error
      /\ t = [m_ip_info |-> t.m_ip_info, m_cur_idx |-> t.m_cur_idx,
              m_active_alloc |-> t.m_active_alloc,
              m_port_allocation_error |-> t.m_port_allocation_error]
  BY DEF Returned
<1> HIDE DEF t, R
<1>6. ASSUME NEW c \in Client
      PROVE  /\ t.m_ip_info[c] \in IpRec /\ t.m_ip_info[c].large = gen.m_ip_info[c].large
             /\ t.m_ip_info[c].m_bitmap_port = gen.m_ip_info[c].m_bitmap_port \ R(c)
  <2>1. gen.m_ip_info[c] \in IpRec /\ t.m_ip_info[c] = return_ports(gen.m_ip_info[c], R(c))
    BY <1>2, <1>5
  <2> QED BY <2>1 DEF return_ports, IpRec
<1>7. IsFiniteSet(K) /\ bt \in [K -> HeldPort] /\ \A x \in K : bt[x] = at[x]
  BY <1>1, FS_Subset
<1>8. ASSUME NEW x \in K PROVE Noted(bt[x], t)
  <2> DEFINE e == at[x]
  <2>1. e \in HeldPort /\ Noted(e, gen) /\ bt[x] = e /\ x \in H /\ x \notin D
    BY <1>1, <1>7
  <2> HIDE DEF e
  <2>2. e.client \in Client
    BY <2>1 DEF HeldPort
  <2>3. CASE ~Large(e.client) /\ e.port # IllegalPort
    <3>1. e.port \notin R(e.client)
      <4> SUFFICES ASSUME e.port \in R(e.client) PROVE FALSE
        OBVIOUS
      <4>1. PICK i \in DOMAIN held : held[i].client = e.client /\ held[i].port = e.port
        BY <1>4
      <4>2. held[i] \in HeldPort /\ held[i] = at[q[i]] /\ q[i] \in D
        BY <1>3
      <4>3. held[i] = e
        BY <2>1, <4>1, <4>2 DEF HeldPort
      <4>4. q[i] = x
        BY <1>1, <2>1, <2>3, <4>2, <4>3 DEF e
      <4> QED BY <2>1, <4>2, <4>4
    <3> QED BY <1>6, <2>1, <2>2, <2>3, <3>1 DEF Noted
  <2>4. CASE ~(~Large(e.client) /\ e.port # IllegalPort)
    BY <1>5, <2>1, <2>4 DEF Noted
  <2> QED BY <2>3, <2>4
<1>9. ASSUME NEW c \in Client, NEW a \in t.m_ip_info[c].m_bitmap_port
      PROVE  \E x \in K : bt[x] = Held(c, a)
  <2>1. a \in gen.m_ip_info[c].m_bitmap_port /\ a \notin R(c)
    BY <1>6
  <2>2. PICK x \in H : at[x] = Held(c, a)
    BY <1>1, <2>1
  <2>3. x \notin D
    <3> SUFFICES ASSUME x \in D PROVE FALSE
      OBVIOUS
    <3>1. PICK i \in DOMAIN held : q[i] = x
      BY <1>3
    <3>2. held[i].client = c /\ held[i].port = a
      BY <1>3, <2>2, <3>1 DEF Held
    <3> QED BY <1>4, <2>1, <3>2
  <2> QED BY <1>7, <2>2, <2>3
<1>10. \A x, y \in K :
          bt[x] = bt[y] /\ ~Large(bt[x].client) /\ bt[x].port # IllegalPort => x = y
  BY <1>1, <1>7
<1>11. ASSUME NEW p \in DOMAIN Pools
       PROVE  /\ t.m_active_alloc[p] = Cardinality(OfPool(K, bt, p))
              /\ t.m_active_alloc[p] \in Nat
  <2> DEFINE A == OfPool(K, bt, p)
             B == OfPool(D, at, p)
             C == OfPool(H, at, p)
             I == N(p)
             g == [i \in I |-> q[i]]
  <2>1. /\ A \subseteq K /\ B \subseteq D /\ C = A \cup B /\ A \cap B = {}
        /\ A \subseteq H /\ B \subseteq H
    BY <1>7 DEF OfPool
  <2>2. \A i \in DOMAIN held : i \in I <=> q[i] \in B
    BY <1>3 DEF OfPool
  <2> HIDE DEF A, B, C, I
  <2>3. IsFiniteSet(A) /\ IsFiniteSet(B) /\ Cardinality(A) \in Nat /\ Cardinality(B) \in Nat
    BY <1>1, <2>1, FS_Subset, FS_CardinalityType
  <2>4. Cardinality(C) = Cardinality(A) + Cardinality(B)
    <3>1. Cardinality(A \cup B) = Cardinality(A) + Cardinality(B) - Cardinality(A \cap B)
      BY <2>3, FS_Union
    <3>2. Cardinality(A \cap B) = 0
      BY <2>1, FS_EmptySet, Zenon
    <3> QED BY <2>1, <2>3, <3>1, <3>2
  <2>5. I \subseteq DOMAIN held
    BY DEF I
  <2>6. g \in [I -> B] /\ \A i \in I : g[i] = q[i]
    BY <2>2, <2>5
  <2>7. \A i, j \in I : g[i] = g[j] => i = j
    BY <1>3, <2>5, <2>6
  <2>8. \A x \in B : \E i \in I : g[i] = x
    BY <1>3, <2>1, <2>2, <2>6
  <2> HIDE DEF g
  <2>9. g \in Injection(I, B) /\ g \in Surjection(I, B)
    BY <2>6, <2>7, <2>8 DEF Injection, IsInjective, Surjection
  <2>10. Cardinality(I) = Cardinality(B)
    BY <2>3, <2>9, FS_Injection
  <2>11. t.m_active_alloc[p] = Cardinality(C) - Cardinality(I)
    BY <1>1, <1>5 DEF C, I
  <2> QED BY <2>3, <2>4, <2>10, <2>11 DEF A
<1>12. t.m_active_alloc \in [DOMAIN Pools -> Nat]
  BY <1>5, <1>11
<1>13. t.m_ip_info \in [Client -> IpRec]
  BY <1>5, <1>6
<1>14. t \in GenRec
  BY <1>2, <1>5, <1>12, <1>13 DEF GenRec
<1>15. GenOK(t)
  BY <1>2, <1>5, <1>6, <1>14 DEF GenOK
<1> QED BY <1>7, <1>8, <1>9, <1>10, <1>11, <1>15 DEF PortsOK, t

-----------------------------------------------------------------------------
(* Nodes and the places in them.                                           *)

\* Places, and what is held there.
LEMMA PlaceIs ==
  ASSUME NEW node \in [Node -> NodeRec]
  PROVE  /\ \A n, i : <<n, i>> \in Places(node) <=>
                         n \in Node /\ i \in 1 .. Len(node[n].ports)
         /\ \A x \in Places(node) : /\ x = <<x[1], x[2]>> /\ x[1] \in Node /\ x[2] \in Nat
                                    /\ x[2] \in 1 .. Len(node[x[1]].ports)
         /\ \A n \in Node : /\ node[n].ports \in Seq(HeldPort) /\ Len(node[n].ports) \in Nat
                            /\ DOMAIN node[n].ports = 1 .. Len(node[n].ports)
         /\ AtIn(node) \in [Places(node) -> HeldPort]
         /\ \A x \in Places(node) : AtIn(node)[x] = node[x[1]].ports[x[2]]
<1>1. \A n \in Node : /\ node[n].ports \in Seq(HeldPort) /\ Len(node[n].ports) \in Nat
                      /\ DOMAIN node[n].ports = 1 .. Len(node[n].ports)
  BY DEF NodeRec
<1>2. \A n, i : <<n, i>> \in Places(node) <=> n \in Node /\ i \in 1 .. Len(node[n].ports)
  BY <1>1 DEF Places
<1>3. \A x \in Places(node) : /\ x = <<x[1], x[2]>> /\ x[1] \in Node /\ x[2] \in Nat
                              /\ x[2] \in 1 .. Len(node[x[1]].ports)
  BY <1>1 DEF Places
<1>4. /\ AtIn(node) \in [Places(node) -> HeldPort]
      /\ \A x \in Places(node) : AtIn(node)[x] = node[x[1]].ports[x[2]]
  <2>1. \A x \in Places(node) : node[x[1]].ports[x[2]] \in HeldPort
    BY <1>1, <1>3
  <2> QED BY <2>1 DEF AtIn
<1> QED BY <1>1, <1>2, <1>3, <1>4

\* The fields of a heap.
LEMMA HeapFields ==
  ASSUME NEW h \in HeapRec
  PROVE  /\ h.node \in [Node -> NodeRec] /\ h.dpc \in [Proto -> Node \cup {NoNode}]
         /\ h.gen \in GenRec /\ h.fail \in {"", "abort", "exit"}
         /\ h.gen.m_ip_info \in [Client -> IpRec] /\ h.gen.m_cur_idx \in [DOMAIN Pools -> Nat]
         /\ h.gen.m_active_alloc \in [DOMAIN Pools -> Nat]
         /\ h.gen.m_port_allocation_error \in [DOMAIN Pools -> BOOLEAN]
BY DEF HeapRec, GenRec

\* A free node holds nothing.
LEMMA FreeNodeIsNode == FreeNode \in NodeRec /\ FreeNode.ports = << >> /\ FreeNode.m_type = "FREE"
BY DEF FreeNode, Plain, NodeRec, NodeType

\* No node is numbered NoNode.
LEMMA NodesAreNumbers == Node \subseteq Nat /\ NoNode \notin Node
BY FlowGenAssumption DEF Node, NoNode

\* The object that create_node() returns is a free one.
LEMMA FreshIsFree ==
  ASSUME NEW h, FreeNodes(h) # {}
  PROVE  Fresh(h) \in Node /\ h.node[Fresh(h)].m_type = "FREE"
<1>1. FreeNodes(h) \subseteq Nat /\ FreeNodes(h) \subseteq Node
  BY NodesAreNumbers DEF FreeNodes
<1>2. \E n \in FreeNodes(h) : \A j \in FreeNodes(h) : n <= j
  BY <1>1, SmallestNat
<1>3. Fresh(h) \in FreeNodes(h)
  BY <1>2 DEF Fresh
<1> QED BY <1>3 DEF FreeNodes

\* An assignment to a field of the heap, field by field.
LEMMA RecordSet ==
  ASSUME NEW h, h = [node |-> h.node, dpc |-> h.dpc, gen |-> h.gen, fail |-> h.fail], NEW m
  PROVE  /\ [h EXCEPT !.node = m] = [node |-> m, dpc |-> h.dpc, gen |-> h.gen, fail |-> h.fail]
         /\ [h EXCEPT !.dpc = m] = [node |-> h.node, dpc |-> m, gen |-> h.gen, fail |-> h.fail]
         /\ [h EXCEPT !.gen = m] = [node |-> h.node, dpc |-> h.dpc, gen |-> m, fail |-> h.fail]
         /\ [h EXCEPT !.fail = m] = [node |-> h.node, dpc |-> h.dpc, gen |-> h.gen, fail |-> m]
OBVIOUS

\* An assignment to a node, field by field.
LEMMA NodeSet ==
  ASSUME NEW h \in HeapRec, NEW n \in Node, NEW obj
  PROVE  [h EXCEPT !.node[n] = obj] =
            [node |-> [h.node EXCEPT ![n] = obj], dpc |-> h.dpc, gen |-> h.gen, fail |-> h.fail]
<1> DEFINE g == [h EXCEPT !.node[n] = obj]
           m == [h.node EXCEPT ![n] = obj]
<1>0. DOMAIN h = {"node", "dpc", "gen", "fail"} /\ h.node = [i \in Node |-> h.node[i]]
  BY DEF HeapRec
<1>1. g = [h EXCEPT !.node = m]
  BY <1>0, Zenon
<1> HIDE DEF m
<1>2. h = [node |-> h.node, dpc |-> h.dpc, gen |-> h.gen, fail |-> h.fail]
  BY DEF HeapRec
<1>3. [h EXCEPT !.node = m] = [node |-> m, dpc |-> h.dpc, gen |-> h.gen, fail |-> h.fail]
  BY <1>2, RecordSet, Zenon
<1> QED BY <1>1, <1>3 DEF m

\* free_node(), field by field.
LEMMA FreeNodeFields ==
  ASSUME NEW h \in HeapRec, NEW n \in Node
  PROVE  /\ free_node(h, n) \in HeapRec
         /\ free_node(h, n).node = [h.node EXCEPT ![n] = FreeNode]
         /\ free_node(h, n).dpc = h.dpc /\ free_node(h, n).gen = h.gen
         /\ free_node(h, n).fail = h.fail
<1> DEFINE m == [h.node EXCEPT ![n] = FreeNode]
<1>1. free_node(h, n) = [node |-> m, dpc |-> h.dpc, gen |-> h.gen, fail |-> h.fail]
  BY NodeSet DEF free_node
<1>2. m \in [Node -> NodeRec]
  BY HeapFields, FreeNodeIsNode
<1> HIDE DEF m
<1>3. [node |-> m, dpc |-> h.dpc, gen |-> h.gen, fail |-> h.fail] \in HeapRec
  BY <1>2, HeapFields DEF HeapRec
<1> QED BY <1>1, <1>3 DEF m

\* FreePorts(), field by field.
LEMMA FreePortsFields ==
  ASSUME NEW h \in HeapRec, NEW held
  PROVE  /\ FreePorts(h, held).node = h.node /\ FreePorts(h, held).dpc = h.dpc
         /\ ~MayReturnAll(h, held) =>
               FreePorts(h, held).gen = h.gen /\ FreePorts(h, held).fail = "abort"
         /\ MayReturnAll(h, held) =>
               /\ FreePorts(h, held).gen = Returned(h.gen, held)
               /\ FreePorts(h, held).fail = h.fail
         /\ FreePorts(h, held) = [node |-> h.node, dpc |-> h.dpc, gen |-> FreePorts(h, held).gen,
                                  fail |-> FreePorts(h, held).fail]
<1>1. CASE ~MayReturnAll(h, held)
  BY <1>1 DEF FreePorts, HeapRec
<1>2. CASE MayReturnAll(h, held)
  <2> DEFINE ii == [c \in Client |->
                return_ports(h.gen.m_ip_info[c], {e.port : e \in {d \in Range(held) : d.client = c}})]
             aa == [p \in DOMAIN Pools |->
                h.gen.m_active_alloc[p] - Cardinality({i \in DOMAIN held : held[i].client[1] = p})]
             g == FreePorts(h, held)
  <2>1. g = [h EXCEPT !.gen.m_ip_info = ii, !.gen.m_active_alloc = aa]
    BY <1>2, Zenon DEF FreePorts
  <2>2. Returned(h.gen, held) =
           [m_ip_info |-> ii, m_cur_idx |-> h.gen.m_cur_idx, m_active_alloc |-> aa,
            m_port_allocation_error |-> h.gen.m_port_allocation_error]
    BY Zenon DEF Returned
  <2> HIDE DEF ii, aa, g
  <2>3. /\ g.node = h.node /\ g.dpc = h.dpc /\ g.fail = h.fail
        /\ g = [node |-> h.node, dpc |-> h.dpc, gen |-> g.gen, fail |-> h.fail]
    BY <2>1 DEF HeapRec
  <2>4. g.gen = [m_ip_info |-> ii, m_cur_idx |-> h.gen.m_cur_idx, m_active_alloc |-> aa,
                 m_port_allocation_error |-> h.gen.m_port_allocation_error]
    BY <2>1 DEF HeapRec, GenRec
  <2> QED BY <1>2, <2>2, <2>3, <2>4 DEF g
<1> QED BY <1>1, <1>2

-----------------------------------------------------------------------------
(* Releasing the ports of a node.                                          *)

NodePlaces(node, n) == {x \in Places(node) : x[1] = n}

\* A freed node has no places, and the others keep theirs.
LEMMA FreedPlaces ==
  ASSUME NEW node \in [Node -> NodeRec], NEW n \in Node,
         NEW m, m = [node EXCEPT ![n] = FreeNode]
  PROVE  /\ m \in [Node -> NodeRec]
         /\ Places(m) = Places(node) \ NodePlaces(node, n)
         /\ AtIn(m) = [x \in Places(node) \ NodePlaces(node, n) |-> AtIn(node)[x]]
         /\ NodeOK(node) => NodeOK(m)
<1>1. m \in [Node -> NodeRec] /\ \A i \in Node : m[i] = IF i = n THEN FreeNode ELSE node[i]
  BY FreeNodeIsNode
<1>2. FreeNode.ports = << >> /\ DOMAIN FreeNode.ports = {} /\ FreeNode.m_type = "FREE"
  BY FreeNodeIsNode
<1>3. Places(m) = Places(node) \ NodePlaces(node, n)
  BY <1>1, <1>2 DEF Places, NodePlaces
<1>4. \A x \in Places(m) : m[x[1]].ports[x[2]] = AtIn(node)[x]
  <2> SUFFICES ASSUME NEW x \in Places(m) PROVE m[x[1]].ports[x[2]] = AtIn(node)[x]
    OBVIOUS
  <2>1. x \in Places(node) /\ x[1] # n /\ x[1] \in Node
    BY <1>3 DEF NodePlaces, Places
  <2> QED BY <1>1, <2>1, PlaceIs
<1>5. AtIn(m) = [x \in Places(node) \ NodePlaces(node, n) |-> AtIn(node)[x]]
  BY <1>3, <1>4 DEF AtIn
<1>6. NodeOK(node) => NodeOK(m)
  BY <1>1, <1>2 DEF NodeOK
<1> QED BY <1>1, <1>3, <1>5, <1>6

\* The ports of a node, as it lists them ...
LEMMA ListedInOrder ==
  ASSUME NEW node \in [Node -> NodeRec], NEW n \in Node
  PROVE  \E q : Lists(node[n].ports, q, NodePlaces(node, n), AtIn(node))
<1> DEFINE ps == node[n].ports
           q == [i \in DOMAIN ps |-> <<n, i>>]
<1>1. ps \in Seq(HeldPort) /\ DOMAIN ps = 1 .. Len(ps)
  BY PlaceIs
<1>2. \A i \in DOMAIN ps : /\ <<n, i>> \in NodePlaces(node, n)
                           /\ AtIn(node)[<<n, i>>] = ps[i]
  BY <1>1, PlaceIs DEF NodePlaces
<1>3. \A x \in NodePlaces(node, n) : x[2] \in DOMAIN ps /\ x = <<n, x[2]>>
  BY <1>1, PlaceIs DEF NodePlaces
<1>4. q \in [DOMAIN ps -> NodePlaces(node, n)] /\ \A i \in DOMAIN ps : q[i] = <<n, i>>
  BY <1>2
<1> HIDE DEF q, ps
<1>5. \A i, j \in DOMAIN ps : q[i] = q[j] => i = j
  BY <1>4
<1>6. ASSUME NEW x \in NodePlaces(node, n) PROVE \E i \in DOMAIN ps : q[i] = x
  <2>1. x[2] \in DOMAIN ps /\ q[x[2]] = x
    BY <1>3, <1>4
  <2> QED BY <2>1
<1>7. \A i \in DOMAIN ps : ps[i] = AtIn(node)[q[i]]
  BY <1>2, <1>4
<1>8. Lists(ps, q, NodePlaces(node, n), AtIn(node))
  BY <1>1, <1>4, <1>5, <1>6, <1>7 DEF Lists
<1> QED BY <1>8 DEF ps

\* ... and as free_last_flow_node() does, the source port last.
LEMMA ListedSourceLast ==
  ASSUME NEW node \in [Node -> NodeRec], NEW n \in Node, node[n].ports # << >>
  PROVE  LET held == on_node_last(node[n].ports) \o <<Head(node[n].ports)>>
         IN  /\ held \in Seq(HeldPort) /\ Len(held) = Len(node[n].ports)
             /\ \E q : Lists(held, q, NodePlaces(node, n), AtIn(node))
<1> DEFINE ps == node[n].ports
           l == Len(ps)
           held == on_node_last(ps) \o <<Head(ps)>>
           r(i) == IF i = l THEN 1 ELSE i + 1
           q == [i \in DOMAIN held |-> <<n, r(i)>>]
<1>1. ps \in Seq(HeldPort) /\ DOMAIN ps = 1 .. l /\ l \in Nat \ {0}
  BY PlaceIs
<1>2. /\ Tail(ps) \in Seq(HeldPort) /\ Len(Tail(ps)) = l - 1
      /\ \A i \in 1 .. l - 1 : Tail(ps)[i] = ps[i + 1]
      /\ Head(ps) = ps[1] /\ ps[1] \in HeldPort
  BY <1>1
<1> HIDE DEF ps, l
<1>3. /\ held \in Seq(HeldPort) /\ Len(held) = l /\ DOMAIN held = 1 .. l
      /\ \A i \in 1 .. l : held[i] = ps[r(i)]
  BY <1>1, <1>2 DEF on_node_last
<1>4. \A i \in 1 .. l : /\ r(i) \in 1 .. l
                        /\ <<n, r(i)>> \in NodePlaces(node, n)
                        /\ AtIn(node)[<<n, r(i)>>] = ps[r(i)]
  BY <1>1, PlaceIs DEF NodePlaces, ps, l
<1>5. \A x \in NodePlaces(node, n) : x[2] \in 1 .. l /\ x = <<n, x[2]>>
  BY <1>1, PlaceIs DEF NodePlaces, ps, l
<1>6. \A j \in 1 .. l : \E i \in 1 .. l : r(i) = j
  <2> SUFFICES ASSUME NEW j \in 1 .. l PROVE \E i \in 1 .. l : r(i) = j
    OBVIOUS
  <2>1. CASE j = 1
    BY <1>1, <2>1
  <2>2. CASE j # 1
    <3>1. j - 1 \in 1 .. l /\ r(j - 1) = j
      BY <1>1, <2>2
    <3> QED BY <3>1
  <2> QED BY <2>1, <2>2
<1>7. \A i, j \in 1 .. l : r(i) = r(j) => i = j
  BY <1>1
<1> HIDE DEF held, r
<1>8. q \in [DOMAIN held -> NodePlaces(node, n)] /\ \A i \in DOMAIN held : q[i] = <<n, r(i)>>
  BY <1>3, <1>4
<1> HIDE DEF q
<1>9. \A i, j \in DOMAIN held : q[i] = q[j] => i = j
  BY <1>3, <1>7, <1>8
<1>10. ASSUME NEW x \in NodePlaces(node, n) PROVE \E i \in DOMAIN held : q[i] = x
  <2>1. x[2] \in 1 .. l /\ x = <<n, x[2]>>
    BY <1>5
  <2>2. PICK i \in 1 .. l : r(i) = x[2]
    BY <1>6, <2>1
  <2>3. i \in DOMAIN held /\ q[i] = x
    BY <1>3, <1>8, <2>1, <2>2
  <2> QED BY <2>3
<1>11. \A i \in DOMAIN held : held[i] = AtIn(node)[q[i]]
  BY <1>3, <1>4, <1>8
<1>12. Lists(held, q, NodePlaces(node, n), AtIn(node))
  BY <1>3, <1>8, <1>9, <1>10, <1>11 DEF Lists
<1> QED BY <1>3, <1>12 DEF held, ps, l

\* A node is freed whose ports were returned.
LEMMA NodeReleased ==
  ASSUME NEW h, HeapOK(h), h.fail = "", NEW n \in Node,
         NEW held, NEW q, Lists(held, q, NodePlaces(h.node, n), AtIn(h.node)),
         NEW g, g = free_node(FreePorts(h, held), n)
  PROVE  /\ g \in HeapRec /\ GenOK(g.gen)
         /\ g.node = [h.node EXCEPT ![n] = FreeNode] /\ g.dpc = h.dpc
         /\ g.fail \in {"", "abort"}
         /\ g.fail = "abort" => AnError(g.gen)
         /\ g.fail = "" => /\ NodeOK(g.node)
                           /\ PortsOK(Places(g.node), AtIn(g.node), g.gen)
<1> DEFINE f == FreePorts(h, held)
           m == [h.node EXCEPT ![n] = FreeNode]
<1>1. /\ h \in HeapRec /\ GenOK(h.gen) /\ NodeOK(h.node)
      /\ PortsOK(Places(h.node), AtIn(h.node), h.gen)
      /\ h.node \in [Node -> NodeRec] /\ h.dpc \in [Proto -> Node \cup {NoNode}]
  BY HeapFields DEF HeapOK, HeapTyped
<1>2. NodePlaces(h.node, n) \subseteq Places(h.node)
  BY DEF NodePlaces
<1>0. m = [h.node EXCEPT ![n] = FreeNode]
  OBVIOUS
<1> HIDE DEF m
<1>3. /\ Places(m) = Places(h.node) \ NodePlaces(h.node, n)
      /\ AtIn(m) = [x \in Places(h.node) \ NodePlaces(h.node, n) |-> AtIn(h.node)[x]]
      /\ NodeOK(m)
  <2>1. h.node \in [Node -> NodeRec] /\ NodeOK(h.node)
    BY <1>1
  <2> DEFINE nd == h.node
  <2>2. nd \in [Node -> NodeRec] /\ NodeOK(nd) /\ m = [nd EXCEPT ![n] = FreeNode]
    BY <1>0, <2>1
  <2> HIDE DEF nd
  <2>3. /\ Places(m) = Places(nd) \ NodePlaces(nd, n)
        /\ AtIn(m) = [x \in Places(nd) \ NodePlaces(nd, n) |-> AtIn(nd)[x]]
        /\ NodeOK(m)
    BY <2>2, FreedPlaces
  <2> QED BY <2>3 DEF nd
<1>4. /\ f.node = h.node /\ f.dpc = h.dpc
      /\ ~MayReturnAll(h, held) => f.gen = h.gen /\ f.fail = "abort"
      /\ MayReturnAll(h, held) => f.gen = Returned(h.gen, held) /\ f.fail = h.fail
      /\ f = [node |-> h.node, dpc |-> h.dpc, gen |-> f.gen, fail |-> f.fail]
  BY <1>1, FreePortsFields, Zenon
<1>5. /\ PortsOK(Places(h.node) \ NodePlaces(h.node, n), AtIn(m), Returned(h.gen, held))
      /\ GenOK(Returned(h.gen, held))
  BY <1>1, <1>2, <1>3, PortsReturned
<1>6. ~MayReturnAll(h, held) => AnError(h.gen)
  BY <1>1, <1>2, OnlyIllegalFails
<1> HIDE DEF f
<1>7. GenOK(f.gen) /\ f.fail \in {"", "abort"}
  BY <1>1, <1>4, <1>5
<1>8. f \in HeapRec
  BY <1>1, <1>4, <1>7 DEF HeapRec, GenOK
<1>9. /\ g \in HeapRec /\ g.node = m /\ g.dpc = f.dpc /\ g.gen = f.gen /\ g.fail = f.fail
  BY <1>4, <1>8, FreeNodeFields DEF f, m
<1>10. g.fail = "abort" => AnError(g.gen)
  BY <1>4, <1>6, <1>9
<1>11. g.fail = "" => PortsOK(Places(m), AtIn(m), g.gen)
  BY <1>3, <1>4, <1>5, <1>9
<1> QED BY <1>3, <1>4, <1>7, <1>9, <1>10, <1>11 DEF m

\* flow_defer(), and a flow whose pool has no aging time.
LEMMA ReleaseOutcome ==
  ASSUME NEW h, HeapOK(h), h.fail = "", NEW n \in Node, \A k \in Proto : h.dpc[k] # n,
         h.node[n].m_type # "EXIT_SCHED",
         NEW held, NEW q, Lists(held, q, NodePlaces(h.node, n), AtIn(h.node))
  PROVE  Handled(h.node, free_node(FreePorts(h, held), n))
<1> DEFINE g == free_node(FreePorts(h, held), n)
<1> HIDE DEF g
<1>1. /\ g \in HeapRec /\ GenOK(g.gen)
      /\ g.node = [h.node EXCEPT ![n] = FreeNode] /\ g.dpc = h.dpc
      /\ g.fail \in {"", "abort"}
      /\ g.fail = "abort" => AnError(g.gen)
      /\ g.fail = "" => /\ NodeOK(g.node)
                        /\ PortsOK(Places(g.node), AtIn(g.node), g.gen)
  BY NodeReleased DEF g
<1>2. /\ h.node \in [Node -> NodeRec] /\ h.dpc \in [Proto -> Node \cup {NoNode}]
      /\ DpcTyped(h.node, h.dpc) /\ DpcOK(h.node, h.dpc)
  BY HeapFields DEF HeapOK, HeapTyped
<1>3. \A k \in Proto : g.dpc[k] # NoNode => g.node[g.dpc[k]] = h.node[h.dpc[k]]
  BY <1>1, <1>2
<1>4. DpcTyped(g.node, g.dpc) /\ DpcOK(g.node, g.dpc)
  BY <1>1, <1>2, <1>3 DEF DpcTyped, DpcOK
<1>5. Outcome(g)
  BY <1>1, <1>4 DEF Outcome, HeapTyped, HeapOK
<1>6. SameExits(h.node, g.node)
  BY <1>1, <1>2, FreeNodeIsNode DEF SameExits
<1> QED BY <1>5, <1>6 DEF g, Handled

\* An open batch is flushed.
Flushed(h, k, g) ==
    /\ g.dpc[k] = NoNode /\ \A j \in Proto : j # k => g.dpc[j] = h.dpc[j]
    /\ \A n \in Node : n = h.dpc[k] => g.node[n] = FreeNode
    /\ \A n \in Node : n # h.dpc[k] => g.node[n] = h.node[n]

\* flush_batch() leaves a heap as a handler may.
LEMMA FlushOutcome ==
  ASSUME NEW h, HeapOK(h), h.fail = "", NEW k \in Proto, NEW g, g = flush_batch(h, k)
  PROVE  Outcome(g) /\ (g.fail = "" => Flushed(h, k, g))
<1>1. /\ h \in HeapRec /\ h.node \in [Node -> NodeRec] /\ h.dpc \in [Proto -> Node \cup {NoNode}]
      /\ DpcTyped(h.node, h.dpc) /\ DpcOK(h.node, h.dpc)
  BY HeapFields DEF HeapOK, HeapTyped
<1>2. CASE h.dpc[k] = NoNode
  <2>1. g = h
    BY <1>2 DEF flush_batch
  <2>2. Outcome(h)
    BY DEF Outcome, HeapOK
  <2>4. \A n \in Node : n # h.dpc[k]
    BY <1>2, NodesAreNumbers
  <2> QED BY <1>2, <2>1, <2>2, <2>4 DEF Flushed
<1>3. CASE h.dpc[k] # NoNode
  <2> DEFINE b == h.dpc[k]
             held == h.node[b].ports
             f == free_node(FreePorts(h, held), b)
  <2>1. b \in Node
    BY <1>1, <1>3
  <2>2. g = [f EXCEPT !.dpc[k] = NoNode]
    BY <1>3 DEF flush_batch, handler_defer_job
  <2>3. PICK q : Lists(held, q, NodePlaces(h.node, b), AtIn(h.node))
    BY <1>1, <2>1, ListedInOrder
  <2> HIDE DEF b, f
  <2>4. /\ f \in HeapRec /\ GenOK(f.gen)
        /\ f.node = [h.node EXCEPT ![b] = FreeNode] /\ f.dpc = h.dpc
        /\ f.fail \in {"", "abort"}
        /\ f.fail = "abort" => AnError(f.gen)
        /\ f.fail = "" => NodeOK(f.node) /\ PortsOK(Places(f.node), AtIn(f.node), f.gen)
    BY <2>1, <2>3, NodeReleased DEF f
  <2> DEFINE d == [h.dpc EXCEPT ![k] = NoNode]
  <2>5. d \in [Proto -> Node \cup {NoNode}] /\ d[k] = NoNode
        /\ \A j \in Proto : j # k => d[j] = h.dpc[j]
    BY <1>1
  <2>6. \A j \in Proto : d[j] # NoNode => d[j] = h.dpc[j] /\ d[j] # b
    BY <1>3, <2>5, <1>1 DEF b, Proto, DpcOK
  <2>7. g = [node |-> f.node, dpc |-> d, gen |-> f.gen, fail |-> f.fail]
    <3>1. f = [node |-> f.node, dpc |-> f.dpc, gen |-> f.gen, fail |-> f.fail]
      BY <2>4 DEF HeapRec
    <3>2. g = [f EXCEPT !.dpc = d]
      <4>1. DOMAIN f = {"node", "dpc", "gen", "fail"} /\ f.dpc = h.dpc
        BY <2>4 DEF HeapRec
      <4> QED BY <2>2, <4>1, Zenon
    <3> HIDE DEF d
    <3> QED BY <3>1, <3>2, RecordSet, Zenon
  <2>8. f.node \in [Node -> NodeRec] /\ f.gen \in GenRec
    BY <2>4, HeapFields
  <2> HIDE DEF d
  <2>9. g \in HeapRec /\ g.node = f.node /\ g.dpc = d /\ g.gen = f.gen /\ g.fail = f.fail
    <3>1. g.node = f.node /\ g.dpc = d /\ g.gen = f.gen /\ g.fail = f.fail
      BY ONLY <2>7
    <3>2. f.fail \in {"", "abort", "exit"} /\ d \in [Proto -> Node \cup {NoNode}]
      BY <2>4, <2>5
    <3>3. [node |-> f.node, dpc |-> d, gen |-> f.gen, fail |-> f.fail] \in HeapRec
      BY <2>8, <3>2 DEF HeapRec
    <3> QED BY <2>7, <3>1, <3>3
  <2>10. \A n \in Node : f.node[n] = IF n = b THEN FreeNode ELSE h.node[n]
    BY <1>1, <2>4
  <2>11. DpcTyped(f.node, d) /\ DpcOK(f.node, d)
    <3>1. \A j \in Proto : d[j] # NoNode => f.node[d[j]] = h.node[h.dpc[j]]
      BY <1>1, <2>5, <2>6, <2>10
    <3>2. d["tcp"] = d["udp"] => d["tcp"] = NoNode
      BY <1>1, <2>5, <2>6 DEF Proto, DpcOK
    <3> QED BY <1>1, <2>6, <3>1, <3>2 DEF DpcTyped, DpcOK
  <2>12. Outcome(g)
    BY <2>4, <2>9, <2>11 DEF Outcome, HeapTyped, HeapOK
  <2>13. Flushed(h, k, g)
    BY <2>5, <2>9, <2>10 DEF Flushed, b
  <2> QED BY <2>12, <2>13
<1> QED BY <1>2, <1>3

-----------------------------------------------------------------------------
(* Moving ports from a node to another one.                                *)

\* The ports of n go to the end of those of b.
LEMMA MovedBehind ==
  ASSUME NEW node \in [Node -> NodeRec], NEW gen, PortsOK(Places(node), AtIn(node), gen),
         NEW n \in Node, NEW b \in Node, n # b,
         NEW held, NEW q, Lists(held, q, NodePlaces(node, n), AtIn(node)),
         NEW m \in [Node -> NodeRec],
         m[b].ports = node[b].ports \o held, m[n].ports = << >>,
         \A i \in Node : i # n /\ i # b => m[i].ports = node[i].ports
  PROVE  PortsOK(Places(m), AtIn(m), gen)
<1> DEFINE l == Len(node[b].ports)
           f == [y \in Places(m) |-> IF y[1] = b /\ y[2] > l THEN q[y[2] - l] ELSE y]
<1>1. /\ held \in Seq(HeldPort) /\ q \in [DOMAIN held -> NodePlaces(node, n)]
      /\ \A i, j \in DOMAIN held : q[i] = q[j] => i = j
      /\ \A x \in NodePlaces(node, n) : \E i \in DOMAIN held : q[i] = x
      /\ \A i \in DOMAIN held : held[i] = AtIn(node)[q[i]]
      /\ DOMAIN held = 1 .. Len(held) /\ Len(held) \in Nat
  BY DEF Lists
<1>2. /\ node[b].ports \in Seq(HeldPort) /\ l \in Nat
  BY PlaceIs
<1>3. /\ Len(m[b].ports) = l + Len(held)
      /\ \A i \in 1 .. l : m[b].ports[i] = node[b].ports[i]
      /\ \A i \in 1 .. Len(held) : m[b].ports[l + i] = held[i]
  BY <1>1, <1>2
<1>4. Len(m[n].ports) = 0
  OBVIOUS
<1> HIDE DEF l
<1>5. ASSUME NEW y \in Places(m)
      PROVE  /\ y[1] # n
             /\ y[1] = b /\ y[2] > l =>
                  /\ y[2] - l \in DOMAIN held
                  /\ q[y[2] - l] \in NodePlaces(node, n)
                  /\ AtIn(m)[y] = AtIn(node)[q[y[2] - l]]
             /\ ~(y[1] = b /\ y[2] > l) => y \in Places(node) /\ AtIn(m)[y] = AtIn(node)[y]
  <2>1. /\ y = <<y[1], y[2]>> /\ y[1] \in Node /\ y[2] \in Nat
        /\ y[2] \in 1 .. Len(m[y[1]].ports) /\ AtIn(m)[y] = m[y[1]].ports[y[2]]
    BY PlaceIs
  <2>2. y[1] # n
    BY <1>4, <2>1
  <2>3. CASE y[1] = b /\ y[2] > l
    <3>1. y[2] - l \in DOMAIN held /\ l + (y[2] - l) = y[2]
      BY <1>1, <1>2, <1>3, <2>1, <2>3
    <3>2. AtIn(m)[y] = held[y[2] - l]
      BY <1>1, <1>3, <2>1, <2>3, <3>1
    <3> QED BY <1>1, <2>2, <2>3, <3>1, <3>2
  <2>4. CASE y[1] = b /\ ~(y[2] > l)
    <3>1. y[2] \in 1 .. l
      BY <1>2, <2>1, <2>4
    <3>2. y \in Places(node)
      BY <2>1, <2>4, <3>1, PlaceIs DEF l
    <3> QED BY <1>3, <2>1, <2>2, <2>4, <3>1, <3>2, PlaceIs
  <2>5. CASE y[1] # b
    <3>1. m[y[1]].ports = node[y[1]].ports
      BY <2>1, <2>2, <2>5
    <3>2. y \in Places(node)
      BY <2>1, <3>1, PlaceIs
    <3> QED BY <2>1, <2>2, <2>5, <3>1, <3>2, PlaceIs
  <2> QED BY <2>3, <2>4, <2>5
<1>6. \A x \in NodePlaces(node, n) : x \in Places(node) /\ x[1] = n
  BY DEF NodePlaces
<1>7. \A y \in Places(m) : f[y] = IF y[1] = b /\ y[2] > l THEN q[y[2] - l] ELSE y
  OBVIOUS
<1>8. f \in [Places(m) -> Places(node)]
  BY <1>5, <1>6
<1> HIDE DEF f
<1>9. \A y \in Places(m) : AtIn(m)[y] = AtIn(node)[f[y]]
  BY <1>5, <1>7
<1>10. ASSUME NEW y \in Places(m), NEW z \in Places(m), f[y] = f[z] PROVE y = z
  <2>1. CASE y[1] = b /\ y[2] > l /\ z[1] = b /\ z[2] > l
    <3>1. y[2] - l = z[2] - l
      BY <1>1, <1>5, <1>7, <1>10, <2>1
    <3>2. y = <<y[1], y[2]>> /\ z = <<z[1], z[2]>> /\ y[2] \in Nat /\ z[2] \in Nat
      BY PlaceIs
    <3> QED BY <1>2, <2>1, <3>1, <3>2
  <2>2. CASE ~(y[1] = b /\ y[2] > l) /\ ~(z[1] = b /\ z[2] > l)
    BY <1>7, <1>10, <2>2
  <2>3. CASE y[1] = b /\ y[2] > l /\ ~(z[1] = b /\ z[2] > l)
    BY <1>5, <1>6, <1>7, <1>10, <2>3
  <2>4. CASE ~(y[1] = b /\ y[2] > l) /\ z[1] = b /\ z[2] > l
    BY <1>5, <1>6, <1>7, <1>10, <2>4
  <2> QED BY <2>1, <2>2, <2>3, <2>4
<1>11. ASSUME NEW x \in Places(node) PROVE \E y \in Places(m) : f[y] = x
  <2>1. /\ x = <<x[1], x[2]>> /\ x[1] \in Node /\ x[2] \in Nat
        /\ x[2] \in 1 .. Len(node[x[1]].ports)
    BY PlaceIs
  <2>2. CASE x[1] = n
    <3>1. PICK i \in DOMAIN held : q[i] = x
      BY <1>1, <2>2 DEF NodePlaces
    <3> DEFINE y == <<b, l + i>>
    <3>2. l + i \in 1 .. Len(m[b].ports) /\ l + i > l /\ (l + i) - l = i
      BY <1>1, <1>2, <1>3
    <3>3. y \in Places(m) /\ y[1] = b /\ y[2] = l + i
      BY <3>2, PlaceIs
    <3> HIDE DEF y
    <3>4. f[y] = x
      BY <1>7, <3>1, <3>2, <3>3
    <3> QED BY <3>3, <3>4
  <2>3. CASE x[1] = b
    <3>1. x[2] \in 1 .. l
      BY <2>1, <2>3 DEF l
    <3>2. x[2] \in 1 .. Len(m[b].ports) /\ ~(x[2] > l)
      BY <1>1, <1>2, <1>3, <3>1
    <3>3. x \in Places(m)
      BY <2>1, <2>3, <3>2, PlaceIs
    <3> QED BY <1>7, <3>2, <3>3
  <2>4. CASE x[1] # n /\ x[1] # b
    <3>1. m[x[1]].ports = node[x[1]].ports
      BY <2>1, <2>4
    <3>2. x \in Places(m)
      BY <2>1, <3>1, PlaceIs
    <3> QED BY <1>7, <2>4, <3>2
  <2> QED BY <2>2, <2>3, <2>4
<1>12. DOMAIN AtIn(m) = Places(m) /\ AtIn(m) = [y \in Places(m) |-> AtIn(m)[y]]
  BY DEF AtIn
<1> QED BY <1>8, <1>9, <1>10, <1>11, <1>12, PortsMoved

\* The ports of b after the d-th go to c, which has none.
LEMMA SplitOff ==
  ASSUME NEW node \in [Node -> NodeRec], NEW gen, PortsOK(Places(node), AtIn(node), gen),
         NEW b \in Node, NEW c \in Node, b # c, node[c].ports = << >>,
         NEW d \in Nat, d <= Len(node[b].ports),
         NEW m \in [Node -> NodeRec],
         m[b].ports = SubSeq(node[b].ports, 1, d),
         m[c].ports = SubSeq(node[b].ports, d + 1, Len(node[b].ports)),
         \A i \in Node : i # b /\ i # c => m[i].ports = node[i].ports
  PROVE  PortsOK(Places(m), AtIn(m), gen)
<1> DEFINE ps == node[b].ports
           l == Len(ps)
           f == [y \in Places(m) |-> IF y[1] = c THEN <<b, d + y[2]>> ELSE y]
<1>1. ps \in Seq(HeldPort) /\ l \in Nat /\ d <= l
  BY PlaceIs
<1>2. /\ Len(m[b].ports) = d /\ \A i \in 1 .. d : m[b].ports[i] = ps[i]
  BY <1>1
<1>3. /\ Len(m[c].ports) = l - d /\ \A i \in 1 .. l - d : m[c].ports[i] = ps[d + i]
  BY <1>1
<1>4. Len(node[c].ports) = 0
  OBVIOUS
<1> HIDE DEF ps, l
<1>5. ASSUME NEW y \in Places(m)
      PROVE  /\ y[1] = c => /\ <<b, d + y[2]>> \in Places(node) /\ d + y[2] > d
                            /\ AtIn(m)[y] = AtIn(node)[<<b, d + y[2]>>]
             /\ y[1] # c => y \in Places(node) /\ AtIn(m)[y] = AtIn(node)[y]
             /\ y[1] = b => y[2] <= d
  <2>1. /\ y = <<y[1], y[2]>> /\ y[1] \in Node /\ y[2] \in Nat
        /\ y[2] \in 1 .. Len(m[y[1]].ports) /\ AtIn(m)[y] = m[y[1]].ports[y[2]]
    BY PlaceIs
  <2>2. CASE y[1] = c
    <3>0. y[2] \in 1 .. l - d
      BY <1>3, <2>1, <2>2
    <3>1. y[2] \in 1 .. l - d /\ d + y[2] \in 1 .. l /\ d + y[2] > d
      BY <1>1, <3>0
    <3>2. <<b, d + y[2]>> \in Places(node)
      BY <3>1, PlaceIs DEF l, ps
    <3>3. AtIn(node)[<<b, d + y[2]>>] = ps[d + y[2]]
      BY <3>2, PlaceIs DEF ps
    <3>4. AtIn(m)[y] = ps[d + y[2]]
      BY <1>3, <2>1, <2>2, <3>1
    <3> QED BY <2>2, <3>1, <3>2, <3>3, <3>4
  <2>3. CASE y[1] = b
    <3>1. y[2] \in 1 .. d /\ y[2] \in 1 .. l
      BY <1>1, <1>2, <2>1, <2>3
    <3>2. y \in Places(node)
      BY <2>1, <2>3, <3>1, PlaceIs DEF l, ps
    <3>3. AtIn(node)[y] = ps[y[2]]
      BY <2>3, <3>2, PlaceIs DEF ps
    <3> QED BY <1>2, <2>1, <2>3, <3>1, <3>2, <3>3, SMTT(60)
  <2>4. CASE y[1] # b /\ y[1] # c
    <3>1. m[y[1]].ports = node[y[1]].ports
      BY <2>1, <2>4
    <3>2. y \in Places(node)
      BY ONLY <2>1, <3>1, PlaceIs, SMTT(60)
    <3> QED BY <2>1, <2>4, <3>1, <3>2, PlaceIs
  <2> QED BY <2>2, <2>3, <2>4
<1>7. \A y \in Places(m) : f[y] = IF y[1] = c THEN <<b, d + y[2]>> ELSE y
  OBVIOUS
<1>8. f \in [Places(m) -> Places(node)]
  BY <1>5
<1> HIDE DEF f
<1>9. \A y \in Places(m) : AtIn(m)[y] = AtIn(node)[f[y]]
  BY <1>5, <1>7
<1>10. ASSUME NEW y \in Places(m), NEW z \in Places(m), f[y] = f[z] PROVE y = z
  <2>0. /\ y = <<y[1], y[2]>> /\ z = <<z[1], z[2]>> /\ y[2] \in Nat /\ z[2] \in Nat
    BY PlaceIs
  <2>1. CASE y[1] = c /\ z[1] = c
    <3>1. <<b, d + y[2]>> = <<b, d + z[2]>>
      BY <1>7, <1>10, <2>1
    <3>2. y[2] = z[2]
      BY <2>0, <3>1
    <3> QED BY <2>0, <2>1, <3>2
  <2>2. CASE y[1] # c /\ z[1] # c
    BY <1>7, <1>10, <2>2
  <2>3. CASE y[1] = c /\ z[1] # c
    <3>1. z = <<b, d + y[2]>>
      BY <1>7, <1>10, <2>3
    <3>2. z[1] = b /\ z[2] = d + y[2]
      BY <3>1
    <3>3. z[2] <= d /\ d + y[2] > d
      BY <1>5, <2>3, <3>2
    <3> QED BY <2>0, <3>2, <3>3
  <2>4. CASE y[1] # c /\ z[1] = c
    <3>1. y = <<b, d + z[2]>>
      BY <1>7, <1>10, <2>4
    <3>2. y[1] = b /\ y[2] = d + z[2]
      BY <3>1
    <3>3. y[2] <= d /\ d + z[2] > d
      BY <1>5, <2>4, <3>2
    <3> QED BY <2>0, <3>2, <3>3
  <2> QED BY <2>1, <2>2, <2>3, <2>4
<1>11. ASSUME NEW x \in Places(node) PROVE \E y \in Places(m) : f[y] = x
  <2>1. /\ x = <<x[1], x[2]>> /\ x[1] \in Node /\ x[2] \in Nat
        /\ x[2] \in 1 .. Len(node[x[1]].ports)
    BY PlaceIs
  <2>2. x[1] # c
    BY <1>4, <2>1
  <2>3. CASE x[1] = b /\ x[2] > d
    <3> DEFINE y == <<c, x[2] - d>>
    <3>1. x[2] \in 1 .. l
      BY <2>1, <2>3 DEF l, ps
    <3>2. x[2] - d \in 1 .. Len(m[c].ports) /\ d + (x[2] - d) = x[2]
      BY ONLY <1>1, <1>3, <2>3, <3>1, SMTT(60)
    <3>3. y \in Places(m) /\ y[1] = c /\ y[2] = x[2] - d
      BY <3>2, PlaceIs
    <3> HIDE DEF y
    <3>4. f[y] = x
      BY <1>7, <2>1, <2>3, <3>2, <3>3
    <3> QED BY <3>3, <3>4
  <2>4. CASE x[1] = b /\ ~(x[2] > d)
    <3>1. x[2] \in 1 .. Len(m[b].ports)
      BY <1>2, <2>1, <2>4
    <3>2. x \in Places(m)
      BY <2>1, <2>4, <3>1, PlaceIs
    <3> QED BY <1>7, <2>2, <3>2
  <2>5. CASE x[1] # b
    <3>1. m[x[1]].ports = node[x[1]].ports
      BY <2>1, <2>2, <2>5
    <3>2. x \in Places(m)
      BY <2>1, <3>1, PlaceIs
    <3> QED BY <1>7, <2>2, <3>2
  <2> QED BY <2>3, <2>4, <2>5
<1>12. DOMAIN AtIn(m) = Places(m) /\ AtIn(m) = [y \in Places(m) |-> AtIn(m)[y]]
  BY DEF AtIn
<1>13. \A y, z \in Places(m) : f[y] = f[z] => y = z
  BY <1>10
<1>14. \A x \in Places(node) : \E y \in Places(m) : f[y] = x
  BY <1>11
<1> QED BY ONLY <1>8, <1>9, <1>12, <1>13, <1>14, PortsMoved,
                PortsOK(Places(node), AtIn(node), gen)

-----------------------------------------------------------------------------
(* A flow ends.                                                            *)

Batch(held) == [Plain("FLOW_DEFER_PORT_RELEASE") EXCEPT !.ports = held]
WithPorts(obj, held) == [obj EXCEPT !.ports = held]
HeapOf(node, dpc, gen, fail) == [node |-> node, dpc |-> dpc, gen |-> gen, fail |-> fail]

\* A batch is a node.
LEMMA BatchIsNode ==
  ASSUME NEW held \in Seq(HeldPort)
  PROVE  /\ Batch(held) \in NodeRec /\ Batch(held).ports = held
         /\ Batch(held).m_type = "FLOW_DEFER_PORT_RELEASE"
BY DEF Batch, Plain, NodeRec, NodeType

\* A node with other ports is a node.
LEMMA WithPortsIsNode ==
  ASSUME NEW obj \in NodeRec, NEW held \in Seq(HeldPort)
  PROVE  /\ WithPorts(obj, held) \in NodeRec /\ WithPorts(obj, held).ports = held
         /\ WithPorts(obj, held).m_type = obj.m_type /\ WithPorts(obj, held).tmpl = obj.tmpl
BY DEF WithPorts, NodeRec

\* A heap made of its four fields.
LEMMA HeapOfFields ==
  ASSUME NEW node, NEW dpc, NEW gen, NEW fail
  PROVE  /\ HeapOf(node, dpc, gen, fail).node = node /\ HeapOf(node, dpc, gen, fail).dpc = dpc
         /\ HeapOf(node, dpc, gen, fail).gen = gen /\ HeapOf(node, dpc, gen, fail).fail = fail
BY DEF HeapOf

\* It is a heap if its fields are of their types.
LEMMA HeapOfTyped ==
  ASSUME NEW node \in [Node -> NodeRec], NEW dpc \in [Proto -> Node \cup {NoNode}],
         NEW gen \in GenRec, NEW fail \in {"", "abort", "exit"}
  PROVE  HeapOf(node, dpc, gen, fail) \in HeapRec
BY DEF HeapOf, HeapRec

\* Every heap is made so.
LEMMA HeapIs ==
  ASSUME NEW h \in HeapRec
  PROVE  h = HeapOf(h.node, h.dpc, h.gen, h.fail)
BY DEF HeapOf, HeapRec

Opened(held, b) == IF Len(held) = DeferNum THEN NoNode ELSE b
SetAt(f, i, x) == [f EXCEPT ![i] = x]

\* One node is set.
LEMMA NodeSetAt ==
  ASSUME NEW node \in [Node -> NodeRec], NEW n \in Node, NEW obj \in NodeRec
  PROVE  /\ SetAt(node, n, obj) \in [Node -> NodeRec] /\ SetAt(node, n, obj)[n] = obj
         /\ \A i \in Node : i # n => SetAt(node, n, obj)[i] = node[i]
BY DEF SetAt

\* One open batch is set.
LEMMA DpcSetAt ==
  ASSUME NEW dpc \in [Proto -> Node \cup {NoNode}], NEW k \in Proto, NEW b \in Node \cup {NoNode}
  PROVE  /\ SetAt(dpc, k, b) \in [Proto -> Node \cup {NoNode}] /\ SetAt(dpc, k, b)[k] = b
         /\ \A j \in Proto : j # k => SetAt(dpc, k, b)[j] = dpc[j]
BY DEF SetAt

\* The assignments of the handlers, field by field.
LEMMA FreedHeap ==
  ASSUME NEW node, NEW dpc, NEW gen, NEW fail, NEW n \in Node
  PROVE  free_node(HeapOf(node, dpc, gen, fail), n) =
            HeapOf(SetAt(node, n, FreeNode), dpc, gen, fail)
BY DEF free_node, HeapOf, SetAt

\* Nodes are freed or made batches, and only the open batch of k changes.
LEMMA BatchesKept ==
  ASSUME NEW node \in [Node -> NodeRec], NEW dpc \in [Proto -> Node \cup {NoNode}],
         NodeOK(node), DpcTyped(node, dpc), DpcOK(node, dpc),
         NEW m \in [Node -> NodeRec], NEW d \in [Proto -> Node \cup {NoNode}], NEW k \in Proto,
         \A i \in Node : \/ m[i] = node[i] \/ m[i] = FreeNode
                         \/ m[i].m_type = "FLOW_DEFER_PORT_RELEASE",
         \A j \in Proto : j # k => d[j] = dpc[j],
         \A j \in Proto : j # k /\ dpc[j] # NoNode => m[dpc[j]] = node[dpc[j]] /\ d[k] # dpc[j],
         d[k] # NoNode => /\ m[d[k]].m_type = "FLOW_DEFER_PORT_RELEASE"
                          /\ Len(m[d[k]].ports) < DeferNum
  PROVE  NodeOK(m) /\ DpcTyped(m, d) /\ DpcOK(m, d)
<1>1. NodeOK(m)
  <2> SUFFICES ASSUME NEW i \in Node
               PROVE  /\ m[i].m_type = "FREE" => m[i] = FreeNode
                      /\ m[i].m_type = "FLOW_PKT" =>
                            m[i].tmpl \in DOMAIN Templates /\ Len(m[i].ports) \in 1 .. 3
                      /\ m[i].m_type \notin {"FLOW_PKT", "FLOW_DEFER_PORT_RELEASE"} =>
                            m[i].ports = << >>
    BY DEF NodeOK
  <2>1. CASE m[i] = node[i]
    BY <2>1 DEF NodeOK
  <2>2. CASE m[i] = FreeNode
    BY <2>2, FreeNodeIsNode
  <2>3. CASE m[i].m_type = "FLOW_DEFER_PORT_RELEASE"
    BY <2>3
  <2> QED BY <2>1, <2>2, <2>3
<1>2. \A j \in Proto : j # k /\ d[j] # NoNode =>
          /\ m[d[j]].m_type = "FLOW_DEFER_PORT_RELEASE" /\ Len(m[d[j]].ports) < DeferNum
  BY DEF DpcTyped, DpcOK
<1>3. DpcTyped(m, d)
  BY <1>2 DEF DpcTyped
<1>4. d["tcp"] = d["udp"] => d["tcp"] = NoNode
  BY DEF Proto
<1>5. DpcOK(m, d)
  BY <1>2, <1>4 DEF DpcOK
<1> QED BY <1>1, <1>3, <1>5

\* create_defer(), field by field.
LEMMA DeferCreated ==
  ASSUME NEW node, NEW dpc, NEW gen, NEW fail, NEW k, NEW held,
         NEW h, h = HeapOf(node, dpc, gen, fail)
  PROVE  /\ FreeNodes(h) = {} => create_defer(h, k, held) = HeapOf(node, dpc, gen, "exit")
         /\ FreeNodes(h) # {} =>
               /\ Fresh(h) \in Node /\ node[Fresh(h)].m_type = "FREE"
               /\ create_defer(h, k, held) =
                     HeapOf(SetAt(node, Fresh(h), Batch(held)),
                            SetAt(dpc, k, Opened(held, Fresh(h))),
                            gen, fail)
<1>1. h.node = node
  BY HeapOfFields
<1>3. ASSUME FreeNodes(h) = {} PROVE create_defer(h, k, held) = HeapOf(node, dpc, gen, "exit")
  <2>1. create_defer(h, k, held) = [h EXCEPT !.fail = "exit"]
    BY <1>3 DEF create_defer
  <2>2. [h EXCEPT !.fail = "exit"] = HeapOf(node, dpc, gen, "exit")
    BY ONLY h = HeapOf(node, dpc, gen, fail) DEF HeapOf
  <2> QED BY <2>1, <2>2
<1>4. ASSUME FreeNodes(h) # {}
      PROVE  /\ Fresh(h) \in Node /\ node[Fresh(h)].m_type = "FREE"
             /\ create_defer(h, k, held) =
                     HeapOf(SetAt(node, Fresh(h), Batch(held)),
                            SetAt(dpc, k, Opened(held, Fresh(h))),
                            gen, fail)
  <2> DEFINE b == Fresh(h)
             x == Batch(held)
             y == Opened(held, b)
  <2>1. b \in Node /\ node[b].m_type = "FREE"
    BY <1>1, <1>4, FreshIsFree
  <2>2. create_defer(h, k, held) = [h EXCEPT !.node[b] = x, !.dpc[k] = y]
    BY <1>4 DEF create_defer, Batch, Opened
  <2> HIDE DEF b, x, y
  <2>3. [h EXCEPT !.node[b] = x, !.dpc[k] = y] =
           [[h EXCEPT !.node[b] = x] EXCEPT !.dpc[k] = y]
    BY ONLY h = HeapOf(node, dpc, gen, fail) DEF HeapOf
  <2>4. [h EXCEPT !.node[b] = x] = HeapOf(SetAt(node, b, x), dpc, gen, fail)
    BY ONLY h = HeapOf(node, dpc, gen, fail) DEF HeapOf, SetAt
  <2>5. [HeapOf(SetAt(node, b, x), dpc, gen, fail) EXCEPT !.dpc[k] = y] =
           HeapOf(SetAt(node, b, x), SetAt(dpc, k, y), gen, fail)
    BY ONLY TRUE DEF HeapOf, SetAt
  <2>6. create_defer(h, k, held) = HeapOf(SetAt(node, b, x), SetAt(dpc, k, y), gen, fail)
    BY ONLY <2>2, <2>3, <2>4, <2>5, Zenon
  <2> QED BY <2>1, <2>6 DEF b, x, y
<1> QED BY <1>3, <1>4

\* The process has ended because the node pool is empty.
LEMMA Exited ==
  ASSUME NEW node \in [Node -> NodeRec], NEW dpc \in [Proto -> Node \cup {NoNode}],
         NEW gen, GenOK(gen), DpcTyped(node, dpc)
  PROVE  \A old : Handled(old, HeapOf(node, dpc, gen, "exit"))
<1> DEFINE h == HeapOf(node, dpc, gen, "exit")
<1>1. h.node = node /\ h.dpc = dpc /\ h.gen = gen /\ h.fail = "exit"
  BY HeapOfFields
<1>2. h \in HeapRec
  BY HeapOfTyped DEF GenOK
<1> HIDE DEF h
<1>3. Outcome(h)
  BY <1>1, <1>2 DEF Outcome, HeapTyped
<1> QED BY <1>1, <1>3 DEF h, Handled

\* A handler went well.
LEMMA WentWell ==
  ASSUME NEW node \in [Node -> NodeRec], NEW dpc \in [Proto -> Node \cup {NoNode}],
         NEW gen, NEW fail, GenOK(gen), NodeOK(node), DpcTyped(node, dpc), DpcOK(node, dpc),
         PortsOK(Places(node), AtIn(node), gen), NEW old, SameExits(old, node)
  PROVE  fail = "" => Handled(old, HeapOf(node, dpc, gen, fail))
<1> DEFINE h == HeapOf(node, dpc, gen, fail)
<1>1. h.node = node /\ h.dpc = dpc /\ h.gen = gen /\ h.fail = fail
  BY ONLY TRUE DEF h, HeapOf
<1> SUFFICES ASSUME fail = "" PROVE Handled(old, h)
  OBVIOUS
<1>2. h \in HeapRec
  BY HeapOfTyped DEF GenOK
<1> HIDE DEF h
<1> QED BY <1>1, <1>2 DEF Handled, Outcome, HeapTyped, HeapOK

\* The ports of flow n open a batch.
LEMMA BatchOpened ==
  ASSUME NEW node \in [Node -> NodeRec], NEW dpc \in [Proto -> Node \cup {NoNode}], NEW gen, NEW fail,
         GenOK(gen), NodeOK(node), DpcTyped(node, dpc), DpcOK(node, dpc),
         PortsOK(Places(node), AtIn(node), gen),
         NEW n \in Node, node[n].m_type = "FLOW_PKT", NEW k \in Proto, dpc[k] = NoNode,
         NEW held, held \in Seq(HeldPort), Len(held) <= DeferNum,
         NEW q, Lists(held, q, NodePlaces(node, n), AtIn(node)),
         NEW h, h = HeapOf(node, dpc, gen, fail)
  PROVE  fail = "" => Handled(node, free_node(create_defer(h, k, held), n))
<1>1. CASE FreeNodes(h) = {}
  <2> DEFINE m == SetAt(node, n, FreeNode)
  <2>1. create_defer(h, k, held) = HeapOf(node, dpc, gen, "exit")
    BY ONLY <1>1, DeferCreated, h = HeapOf(node, dpc, gen, fail)
  <2>2. free_node(create_defer(h, k, held), n) = HeapOf(m, dpc, gen, "exit")
    BY ONLY <2>1, FreedHeap, n \in Node
  <2>3. m \in [Node -> NodeRec] /\ \A j \in Node : j # n => m[j] = node[j]
    BY FreeNodeIsNode, NodeSetAt
  <2> HIDE DEF m
  <2>4. \A j \in Proto : dpc[j] # NoNode => m[dpc[j]] = node[dpc[j]]
    BY <2>3 DEF DpcTyped
  <2>5. DpcTyped(m, dpc)
    BY <2>4 DEF DpcTyped
  <2> QED BY <2>2, <2>3, <2>5, Exited
<1>2. CASE FreeNodes(h) # {}
  <2> DEFINE b == Fresh(h)
             m1 == SetAt(node, b, Batch(held))
             m == SetAt(m1, n, FreeNode)
             y == Opened(held, b)
             d == SetAt(dpc, k, y)
  <2>1. /\ b \in Node /\ node[b].m_type = "FREE"
        /\ create_defer(h, k, held) = HeapOf(m1, d, gen, fail)
    BY ONLY <1>2, DeferCreated, h = HeapOf(node, dpc, gen, fail)
  <2> HIDE DEF b
  <2>2. b # n /\ \A j \in Proto : dpc[j] # NoNode => dpc[j] # b /\ dpc[j] # n
    BY <2>1 DEF DpcTyped
  <2>3. node[b].ports = << >>
    BY <2>1, FreeNodeIsNode DEF NodeOK
  <2>4. /\ m1 \in [Node -> NodeRec] /\ m1[b] = Batch(held)
        /\ \A j \in Node : j # b => m1[j] = node[j]
    BY <2>1, BatchIsNode, NodeSetAt
  <2>5. /\ d \in [Proto -> Node \cup {NoNode}]
        /\ d[k] = y /\ \A j \in Proto : j # k => d[j] = dpc[j]
    <3>1. y \in Node \cup {NoNode}
      BY <2>1 DEF Opened
    <3> HIDE DEF y
    <3> QED BY <3>1, DpcSetAt
  <2> HIDE DEF m1, d
  <2>6. /\ m \in [Node -> NodeRec] /\ m[n] = FreeNode
        /\ \A j \in Node : j # n => m[j] = m1[j]
    BY <2>4, FreeNodeIsNode, NodeSetAt
  <2>7. free_node(create_defer(h, k, held), n) = HeapOf(m, d, gen, fail)
    BY ONLY <2>1, FreedHeap, n \in Node
  <2> HIDE DEF m
  <2>8. /\ m[b].ports = held /\ m[b].m_type = "FLOW_DEFER_PORT_RELEASE" /\ m[n].ports = << >>
        /\ \A i \in Node : i # n /\ i # b => m[i] = node[i]
    BY <2>1, <2>2, <2>4, <2>6, BatchIsNode, FreeNodeIsNode
  <2>9. PortsOK(Places(m), AtIn(m), gen)
    <3>1. m[b].ports = node[b].ports \o held
      BY <2>3, <2>8
    <3>2. \A i \in Node : i # n /\ i # b => m[i].ports = node[i].ports
      BY <2>8
    <3>3. b \in Node /\ n # b /\ m \in [Node -> NodeRec] /\ m[n].ports = << >>
      BY <2>1, <2>2, <2>6, <2>8
    <3> QED BY ONLY <3>1, <3>2, <3>3, MovedBehind, n \in Node,
                    node \in [Node -> NodeRec], PortsOK(Places(node), AtIn(node), gen),
                    Lists(held, q, NodePlaces(node, n), AtIn(node)), SMTT(60)
  <2>10. /\ \A i \in Node : \/ m[i] = node[i] \/ m[i] = FreeNode
                            \/ m[i].m_type = "FLOW_DEFER_PORT_RELEASE"
    BY <2>6, <2>8
  <2>11. \A j \in Proto : j # k /\ dpc[j] # NoNode => m[dpc[j]] = node[dpc[j]] /\ d[k] # dpc[j]
    BY <2>2, <2>5, <2>8, NodesAreNumbers DEF Opened
  <2>12. d[k] # NoNode => /\ m[d[k]].m_type = "FLOW_DEFER_PORT_RELEASE"
                          /\ Len(m[d[k]].ports) < DeferNum
    <3>1. Len(held) \in Nat /\ DeferNum \in Nat
      BY FlowGenAssumption
    <3>2. Len(held) # DeferNum => Len(held) < DeferNum
      BY <3>1
    <3>3. d[k] # NoNode => d[k] = b /\ Len(held) # DeferNum
      BY <2>5 DEF Opened
    <3> QED BY <2>8, <3>2, <3>3
  <2>13. NodeOK(m) /\ DpcTyped(m, d) /\ DpcOK(m, d)
    BY <2>5, <2>6, <2>10, <2>11, <2>12, BatchesKept
  <2>14. SameExits(node, m)
    BY <2>1, <2>6, <2>8, FreeNodeIsNode DEF SameExits
  <2> QED BY ONLY <2>5, <2>6, <2>7, <2>9, <2>13, <2>14, WentWell, GenOK(gen)
<1> QED BY <1>1, <1>2

SetPorts(h, b, x) == [h EXCEPT !.node[b].ports = x]

\* The ports of one node are set.
LEMMA PortsSet ==
  ASSUME NEW node, NEW dpc, NEW gen, NEW fail, NEW b \in Node, NEW x,
         NEW h, h = HeapOf(node, dpc, gen, fail)
  PROVE  SetPorts(h, b, x) =
            HeapOf(SetAt(node, b, WithPorts(node[b], x)), dpc, gen, fail)
<1> DEFINE w == WithPorts(node[b], x)
<1>1. h.node = node
  BY DEF HeapOf
<1>2. h.node[b] = node[b]
  BY <1>1
<1>3. [h EXCEPT !.node[b].ports = x] = [h EXCEPT !.node[b] = w]
  BY <1>1, <1>2 DEF WithPorts
<1> HIDE DEF w
<1>4. [h EXCEPT !.node[b] = w] = HeapOf(SetAt(node, b, w), dpc, gen, fail)
  BY ONLY h = HeapOf(node, dpc, gen, fail) DEF HeapOf, SetAt
<1> QED BY ONLY <1>3, <1>4, Zenon DEF w, SetPorts

\* The ports with those added, what a batch takes of them, and what is left.
AllOf(node, b, held) == node[b].ports \o held
FullOf(all) == SubSeq(all, 1, DeferNum)
RestOf(all) == SubSeq(all, DeferNum + 1, Len(all))

Filled(node, b, all) == SetAt(node, b, WithPorts(node[b], all))
Fits(all) == Len(all) < DeferNum
Fills(all) == Len(all) = DeferNum

\* FillBatch(), field by field.
LEMMA BatchFits ==
  ASSUME NEW node, NEW dpc, NEW gen, NEW fail, NEW k, NEW b \in Node, NEW held,
         Fits(AllOf(node, b, held))
  PROVE  FillBatch(HeapOf(node, dpc, gen, fail), k, b, held) =
            HeapOf(Filled(node, b, AllOf(node, b, held)), dpc, gen, fail)
<1> DEFINE h == HeapOf(node, dpc, gen, fail)
           all == AllOf(node, b, held)
<1>0. h.node = node
  BY DEF HeapOf
<1>1. all = h.node[b].ports \o held
  BY ONLY <1>0, Zenon DEF all, AllOf
<1> HIDE DEF all, h
<1>2. Fits(all) => FillBatch(h, k, b, held) = SetPorts(h, b, all)
  BY ONLY <1>1 DEF FillBatch, Fits, SetPorts
<1>3. SetPorts(h, b, all) = HeapOf(Filled(node, b, all), dpc, gen, fail)
  BY PortsSet DEF h, Filled
<1> QED BY <1>2, <1>3 DEF all, h

\* FillBatch() when the ports just fill the batch.
LEMMA BatchFills ==
  ASSUME NEW node, NEW dpc, NEW gen, NEW fail, NEW k, NEW b \in Node, NEW held,
         ~Fits(AllOf(node, b, held)), Fills(AllOf(node, b, held))
  PROVE  FillBatch(HeapOf(node, dpc, gen, fail), k, b, held) =
            HeapOf(Filled(node, b, AllOf(node, b, held)), SetAt(dpc, k, NoNode), gen, fail)
<1> DEFINE h == HeapOf(node, dpc, gen, fail)
           all == AllOf(node, b, held)
           m == Filled(node, b, all)
<1>0. h.node = node
  BY DEF HeapOf
<1>1. all = h.node[b].ports \o held
  BY ONLY <1>0, Zenon DEF all, AllOf
<1> HIDE DEF all, h
<1>2. ~Fits(all) /\ Fills(all) =>
         FillBatch(h, k, b, held) = [h EXCEPT !.node[b].ports = all, !.dpc[k] = NoNode]
  BY ONLY <1>1 DEF FillBatch, Fits, Fills
<1>3. [h EXCEPT !.node[b].ports = all, !.dpc[k] = NoNode] =
         [SetPorts(h, b, all) EXCEPT !.dpc[k] = NoNode]
  BY DEF h, HeapOf, SetPorts
<1>4. SetPorts(h, b, all) = HeapOf(m, dpc, gen, fail)
  BY PortsSet DEF h, Filled
<1> HIDE DEF m
<1>5. [HeapOf(m, dpc, gen, fail) EXCEPT !.dpc[k] = NoNode] =
         HeapOf(m, SetAt(dpc, k, NoNode), gen, fail)
  BY ONLY TRUE DEF HeapOf, SetAt
<1>6. [h EXCEPT !.node[b].ports = all, !.dpc[k] = NoNode] =
         HeapOf(m, SetAt(dpc, k, NoNode), gen, fail)
  BY ONLY <1>3, <1>4, <1>5, Zenon
<1> QED BY <1>2, <1>6 DEF all, h, m

\* FillBatch() when the ports overflow the batch.
LEMMA BatchFlows ==
  ASSUME NEW node, NEW dpc, NEW gen, NEW fail, NEW k, NEW b \in Node, NEW held,
         ~Fits(AllOf(node, b, held)), ~Fills(AllOf(node, b, held))
  PROVE  FillBatch(HeapOf(node, dpc, gen, fail), k, b, held) =
            create_defer(HeapOf(Filled(node, b, FullOf(AllOf(node, b, held))), dpc, gen, fail),
                         k, RestOf(AllOf(node, b, held)))
<1> DEFINE h == HeapOf(node, dpc, gen, fail)
           all == AllOf(node, b, held)
<1>0. h.node = node
  BY DEF HeapOf
<1>1. all = h.node[b].ports \o held
  BY ONLY <1>0, Zenon DEF all, AllOf
<1> HIDE DEF all, h
<1>2. ~Fits(all) /\ ~Fills(all) =>
         FillBatch(h, k, b, held) = create_defer(SetPorts(h, b, FullOf(all)), k, RestOf(all))
  BY ONLY <1>1 DEF FillBatch, Fits, Fills, FullOf, RestOf, SetPorts
<1>3. SetPorts(h, b, FullOf(all)) = HeapOf(Filled(node, b, FullOf(all)), dpc, gen, fail)
  BY PortsSet DEF h, Filled
<1> QED BY <1>2, <1>3 DEF all, h

\* The ports of flow n are added to the open batch.
LEMMA BatchAdded ==
  ASSUME NEW node \in [Node -> NodeRec], NEW dpc \in [Proto -> Node \cup {NoNode}], NEW gen, NEW fail,
         GenOK(gen), NodeOK(node), DpcTyped(node, dpc), DpcOK(node, dpc),
         PortsOK(Places(node), AtIn(node), gen),
         NEW n \in Node, node[n].m_type = "FLOW_PKT", NEW k \in Proto, dpc[k] # NoNode,
         NEW held, held \in Seq(HeldPort), Len(held) <= 3,
         NEW q, Lists(held, q, NodePlaces(node, n), AtIn(node)),
         NEW h, h = HeapOf(node, dpc, gen, fail)
  PROVE  fail = "" => Handled(node, free_node(FillBatch(h, k, dpc[k], held), n))
<1> DEFINE b == dpc[k]
           all == AllOf(node, b, held)
           mid == SetAt(SetAt(node, b, WithPorts(node[b], all)), n, FreeNode)
<1>1. /\ b \in Node /\ b # n /\ node[b].m_type = "FLOW_DEFER_PORT_RELEASE"
      /\ \A j \in Proto : dpc[j] # NoNode => dpc[j] \in Node /\ dpc[j] # n
      /\ \A j \in Proto : j # k /\ dpc[j] # NoNode => dpc[j] # b
  BY DEF DpcTyped, DpcOK, Proto
<1>2. DeferNum \in Nat /\ DeferNum >= 3 /\ Len(held) \in Nat /\ Len(held) <= 3
  <2>1. DeferNum \in Nat /\ DeferNum >= 3
    BY ONLY FlowGenAssumption
  <2>2. Len(held) \in Nat /\ Len(held) <= 3
    OBVIOUS
  <2> QED BY <2>1, <2>2
<1>3. /\ node[b] \in NodeRec /\ node[b].ports \in Seq(HeldPort) /\ Len(node[b].ports) \in Nat
      /\ Len(node[b].ports) < DeferNum
  BY <1>1, PlaceIs DEF DpcOK
<1> HIDE DEF b
<1>4. /\ all \in Seq(HeldPort) /\ Len(all) \in Nat /\ Len(all) = Len(node[b].ports) + Len(held)
  BY <1>3 DEF AllOf
<1> HIDE DEF all
<1>5. /\ Fits(all) => FillBatch(h, k, b, held) = HeapOf(Filled(node, b, all), dpc, gen, fail)
      /\ ~Fits(all) /\ Fills(all) =>
            FillBatch(h, k, b, held) =
               HeapOf(Filled(node, b, all), SetAt(dpc, k, NoNode), gen, fail)
      /\ ~Fits(all) /\ ~Fills(all) =>
            FillBatch(h, k, b, held) =
               create_defer(HeapOf(Filled(node, b, FullOf(all)), dpc, gen, fail), k, RestOf(all))
  <2>1. all = AllOf(node, b, held) /\ b \in Node
    BY <1>1 DEF all
  <2> QED BY ONLY <2>1, BatchFits, BatchFills, BatchFlows, h = HeapOf(node, dpc, gen, fail)
<1> DEFINE w == WithPorts(node[b], all)
           m1 == SetAt(node, b, w)
<1>6. w \in NodeRec /\ w.ports = all /\ w.m_type = "FLOW_DEFER_PORT_RELEASE"
  BY <1>1, <1>3, <1>4, WithPortsIsNode
<1> HIDE DEF w
<1>7. m1 \in [Node -> NodeRec] /\ m1[b] = w /\ \A i \in Node : i # b => m1[i] = node[i]
  BY <1>1, <1>6, NodeSetAt
<1> HIDE DEF m1
<1>8. /\ mid \in [Node -> NodeRec] /\ mid[n] = FreeNode
      /\ \A i \in Node : i # n => mid[i] = m1[i]
  BY ONLY <1>7, FreeNodeIsNode, NodeSetAt, ZenonT(60) DEF m1, w
<1> HIDE DEF mid
<1>9. /\ mid[b] = w /\ mid[b].ports = all /\ mid[n].ports = << >>
      /\ \A i \in Node : i # n /\ i # b => mid[i] = node[i]
  BY <1>1, <1>6, <1>7, <1>8, FreeNodeIsNode
<1>10. PortsOK(Places(mid), AtIn(mid), gen)
  <2>1. mid[b].ports = node[b].ports \o held
    BY <1>9 DEF all, AllOf
  <2>2. \A i \in Node : i # n /\ i # b => mid[i].ports = node[i].ports
    BY <1>9
  <2>3. b \in Node /\ n # b /\ mid \in [Node -> NodeRec] /\ mid[n].ports = << >>
    BY <1>1, <1>8, <1>9
  <2> QED BY ONLY <2>1, <2>2, <2>3, MovedBehind, n \in Node,
                  node \in [Node -> NodeRec], PortsOK(Places(node), AtIn(node), gen),
                  Lists(held, q, NodePlaces(node, n), AtIn(node)), SMTT(60)
<1>11. \A i \in Node : \/ mid[i] = node[i] \/ mid[i] = FreeNode
                       \/ mid[i].m_type = "FLOW_DEFER_PORT_RELEASE"
  BY <1>6, <1>8, <1>9
<1>15. SameExits(node, mid)
  BY <1>1, <1>6, <1>8, <1>9, FreeNodeIsNode DEF SameExits
<1>12. CASE Fits(all)
  <2>1. free_node(FillBatch(h, k, b, held), n) = HeapOf(mid, dpc, gen, fail)
    <3>1. FillBatch(h, k, b, held) = HeapOf(m1, dpc, gen, fail)
      BY <1>5, <1>12 DEF m1, w, Filled
    <3> QED BY ONLY <3>1, FreedHeap, n \in Node DEF mid, m1, w
  <2>2. \A j \in Proto : j # k /\ dpc[j] # NoNode => mid[dpc[j]] = node[dpc[j]] /\ dpc[k] # dpc[j]
    BY <1>1, <1>9 DEF b
  <2>3. mid[dpc[k]].m_type = "FLOW_DEFER_PORT_RELEASE" /\ Len(mid[dpc[k]].ports) < DeferNum
    BY <1>6, <1>9, <1>12 DEF b, Fits
  <2>4. NodeOK(mid) /\ DpcTyped(mid, dpc) /\ DpcOK(mid, dpc)
    BY <1>8, <1>11, <2>2, <2>3, BatchesKept
  <2> QED BY ONLY <1>8, <1>10, <1>15, <2>1, <2>4, WentWell, GenOK(gen),
                  dpc \in [Proto -> Node \cup {NoNode}] DEF b
<1>13. CASE ~Fits(all) /\ Fills(all)
  <2> DEFINE d == SetAt(dpc, k, NoNode)
  <2>1. free_node(FillBatch(h, k, b, held), n) = HeapOf(mid, d, gen, fail)
    <3>1. FillBatch(h, k, b, held) = HeapOf(m1, d, gen, fail)
      BY <1>5, <1>13 DEF m1, w, Filled
    <3> QED BY ONLY <3>1, FreedHeap, n \in Node DEF mid, m1, w
  <2>2. /\ d \in [Proto -> Node \cup {NoNode}] /\ d[k] = NoNode
        /\ \A j \in Proto : j # k => d[j] = dpc[j]
    BY DpcSetAt
  <2> HIDE DEF d
  <2>3. \A j \in Proto : j # k /\ dpc[j] # NoNode => mid[dpc[j]] = node[dpc[j]] /\ d[k] # dpc[j]
    BY <1>1, <1>9, <2>2
  <2>4. NodeOK(mid) /\ DpcTyped(mid, d) /\ DpcOK(mid, d)
    BY <1>8, <1>11, <2>2, <2>3, BatchesKept
  <2> QED BY ONLY <1>8, <1>10, <1>15, <2>1, <2>2, <2>4, WentWell, GenOK(gen) DEF b
<1>14. CASE ~Fits(all) /\ ~Fills(all)
  <2> DEFINE s == FullOf(all)
             r == RestOf(all)
             v == WithPorts(node[b], s)
             m2 == SetAt(node, b, v)
             g == HeapOf(m2, dpc, gen, fail)
  <2>0. Len(all) > DeferNum
    BY <1>2, <1>4, <1>14 DEF Fits, Fills
  <2>1. FillBatch(h, k, b, held) = create_defer(g, k, r)
    BY <1>5, <1>14 DEF Filled
  <2>2. /\ s \in Seq(HeldPort) /\ Len(s) = DeferNum
        /\ r \in Seq(HeldPort) /\ Len(r) = Len(all) - DeferNum
    BY <1>2, <1>4, <2>0 DEF FullOf, RestOf
  <2>3. Len(r) \in Nat /\ Len(r) < DeferNum
    BY <1>2, <1>3, <1>4, <2>0, <2>2
  <2>4. v \in NodeRec /\ v.ports = s /\ v.m_type = "FLOW_DEFER_PORT_RELEASE"
    <3> HIDE DEF s, FullOf
    <3> QED BY <1>1, <1>3, <2>2, WithPortsIsNode
  <2> HIDE DEF v
  <2>5. m2 \in [Node -> NodeRec] /\ m2[b] = v /\ \A i \in Node : i # b => m2[i] = node[i]
    BY <1>1, <2>4, NodeSetAt
  <2> HIDE DEF s, r, m2
  <2> HIDE DEF g
  <2>6. CASE FreeNodes(g) = {}
    <3> DEFINE m3 == SetAt(m2, n, FreeNode)
    <3>1. FillBatch(h, k, b, held) = HeapOf(m2, dpc, gen, "exit")
      BY ONLY <2>1, <2>6, DeferCreated, g = HeapOf(m2, dpc, gen, fail) DEF g
    <3>2. free_node(FillBatch(h, k, b, held), n) = HeapOf(m3, dpc, gen, "exit")
      BY ONLY <3>1, FreedHeap, n \in Node
    <3>3. m3 \in [Node -> NodeRec] /\ \A j \in Node : j # n => m3[j] = m2[j]
      BY <2>5, FreeNodeIsNode, NodeSetAt
    <3> HIDE DEF m3
    <3>4. \A j \in Proto : dpc[j] # NoNode => m3[dpc[j]].m_type = node[dpc[j]].m_type
      BY <1>1, <2>4, <2>5, <3>3
    <3>5. DpcTyped(m3, dpc)
      BY <3>4 DEF DpcTyped
    <3> QED BY ONLY <3>2, <3>3, <3>5, Exited, GenOK(gen),
                    dpc \in [Proto -> Node \cup {NoNode}] DEF b
  <2>7. CASE FreeNodes(g) # {}
    <3> DEFINE c == Fresh(g)
               m3 == SetAt(m2, c, Batch(r))
               m4 == SetAt(m3, n, FreeNode)
               d == SetAt(dpc, k, Opened(r, c))
    <3>1. /\ c \in Node /\ m2[c].m_type = "FREE"
          /\ FillBatch(h, k, b, held) = HeapOf(m3, d, gen, fail)
      BY ONLY <2>1, <2>7, DeferCreated DEF g
    <3> HIDE DEF c
    <3>2. free_node(FillBatch(h, k, b, held), n) = HeapOf(m4, d, gen, fail)
      BY ONLY <3>1, FreedHeap, n \in Node
    <3>3. c # b /\ c # n /\ node[c].m_type = "FREE" /\ m2[c] = node[c]
      BY <1>1, <2>4, <2>5, <3>1
    <3>4. /\ m3 \in [Node -> NodeRec] /\ m3[c] = Batch(r)
          /\ \A i \in Node : i # c => m3[i] = m2[i]
      <4> DEFINE next == Batch(r)
      <4>1. next \in NodeRec
        BY <2>2, BatchIsNode
      <4>2. m3 = SetAt(m2, c, next) /\ m2 \in [Node -> NodeRec] /\ c \in Node
        BY <2>5, <3>1
      <4> HIDE DEF next, m3
      <4>3. m3 \in [Node -> NodeRec] /\ m3[c] = next /\ \A i \in Node : i # c => m3[i] = m2[i]
        BY ONLY <4>1, <4>2 DEF SetAt
      <4> QED BY <4>3 DEF next
    <3> HIDE DEF m3
    <3>5. /\ m4 \in [Node -> NodeRec] /\ m4[n] = FreeNode
          /\ \A i \in Node : i # n => m4[i] = m3[i]
      BY <3>4, FreeNodeIsNode, NodeSetAt, ZenonT(60)
    <3> HIDE DEF m4
    <3>6. Opened(r, c) = c
      BY <1>2, <2>3 DEF Opened
    <3>7. /\ d \in [Proto -> Node \cup {NoNode}] /\ d[k] = c
          /\ \A j \in Proto : j # k => d[j] = dpc[j]
      BY <3>1, <3>6, DpcSetAt
    <3> HIDE DEF d
    <3>8. /\ m4[b] = v /\ m4[c] = Batch(r) /\ m4[n] = FreeNode
          /\ m4[b].ports = s /\ m4[c].ports = r /\ m4[n].ports = << >>
          /\ m4[c].m_type = "FLOW_DEFER_PORT_RELEASE" /\ m4[b].m_type = "FLOW_DEFER_PORT_RELEASE"
          /\ \A i \in Node : i # b /\ i # c /\ i # n => m4[i] = node[i]
      BY <1>1, <2>2, <2>4, <2>5, <3>1, <3>3, <3>4, <3>5, BatchIsNode, FreeNodeIsNode
    <3>9. PortsOK(Places(m4), AtIn(m4), gen)
      <4>1. m4[b].ports = SubSeq(mid[b].ports, 1, DeferNum)
        BY <1>9, <3>8 DEF s, FullOf
      <4>2. m4[c].ports = SubSeq(mid[b].ports, DeferNum + 1, Len(mid[b].ports))
        BY <1>9, <3>8 DEF r, RestOf
      <4>3. mid[c].ports = << >>
        BY <1>9, <3>1, <3>3, FreeNodeIsNode DEF NodeOK
      <4>4. \A i \in Node : i # b /\ i # c => m4[i].ports = mid[i].ports
        BY <1>8, <1>9, <3>8
      <4>5. DeferNum <= Len(mid[b].ports) /\ DeferNum \in Nat
        BY <1>2, <1>4, <1>9, <2>0
      <4>6. b \in Node /\ c \in Node /\ b # c
        BY <1>1, <3>1, <3>3
      <4>7. mid \in [Node -> NodeRec] /\ m4 \in [Node -> NodeRec]
        BY <1>8, <3>5
      <4> QED BY ONLY <1>10, <4>1, <4>2, <4>3, <4>4, <4>5, <4>6, <4>7, SplitOff, ZenonT(120)
    <3>10. \A i \in Node : \/ m4[i] = node[i] \/ m4[i] = FreeNode
                           \/ m4[i].m_type = "FLOW_DEFER_PORT_RELEASE"
      BY <3>8
    <3>11. \A j \in Proto : j # k /\ dpc[j] # NoNode => m4[dpc[j]] = node[dpc[j]] /\ d[k] # dpc[j]
      <4>1. \A j \in Proto : dpc[j] # NoNode => dpc[j] # c
        BY <3>3 DEF DpcTyped
      <4> QED BY <1>1, <3>7, <3>8, <4>1
    <3>12. m4[d[k]].m_type = "FLOW_DEFER_PORT_RELEASE" /\ Len(m4[d[k]].ports) < DeferNum
      BY <2>3, <3>7, <3>8
    <3>13. NodeOK(m4) /\ DpcTyped(m4, d) /\ DpcOK(m4, d)
      BY <3>5, <3>7, <3>10, <3>11, <3>12, BatchesKept
    <3>14. SameExits(node, m4)
      BY <1>1, <3>1, <3>3, <3>8, FreeNodeIsNode DEF SameExits
    <3> QED BY ONLY <3>2, <3>5, <3>7, <3>9, <3>13, <3>14, WentWell, GenOK(gen) DEF b
  <2> QED BY <2>6, <2>7
<1> QED BY <1>12, <1>13, <1>14

\* free_last_flow_node(): the ports go back, or to a batch.
LEMMA FlowFreed ==
  ASSUME NEW h, HeapOK(h), h.fail = "", NEW n \in Node, h.node[n].m_type = "FLOW_PKT"
  PROVE  Handled(h.node, free_last_flow_node(h, n))
<1> DEFINE node == h.node
           dpc == h.dpc
           gen == h.gen
           fail == h.fail
           k == Templates[node[n].tmpl].proto
           held == on_node_last(node[n].ports) \o <<Head(node[n].ports)>>
<1>1. /\ h \in HeapRec /\ node \in [Node -> NodeRec] /\ dpc \in [Proto -> Node \cup {NoNode}]
      /\ GenOK(gen) /\ DpcTyped(node, dpc) /\ DpcOK(node, dpc) /\ NodeOK(node)
      /\ PortsOK(Places(node), AtIn(node), gen)
  BY HeapFields DEF HeapOK, HeapTyped
<1>2. h = HeapOf(node, dpc, gen, fail)
  BY <1>1, HeapIs
<1>3. free_last_flow_node(h, n) = free_node(defer_client_port_free(h, k, held), n)
  BY DEF free_last_flow_node
<1> HIDE DEF node, dpc, gen, fail
<1>4. node[n].m_type = "FLOW_PKT" /\ node[n].tmpl \in DOMAIN Templates
  BY <1>1 DEF node, NodeOK
<1>5. node[n].ports # << >> /\ Len(node[n].ports) <= 3
  <2>1. Len(node[n].ports) \in 1 .. 3
    BY <1>1, <1>4 DEF NodeOK
  <2>2. ASSUME NEW l \in 1 .. 3 PROVE l <= 3 /\ l # 0
    BY ONLY l \in 1 .. 3
  <2>3. Len(node[n].ports) <= 3 /\ Len(node[n].ports) # 0
    BY ONLY <2>1, <2>2
  <2> QED BY ONLY <2>3
<1>6. k \in Proto
  <2>1. Templates[node[n].tmpl] \in [pool : DOMAIN Pools, proto : Proto, plugin : BOOLEAN,
                                     pkts : Nat \ {0}, w : Nat \ {0}, limit : Nat]
    BY <1>4, FlowGenAssumption
  <2> QED BY <2>1
<1>7. /\ held \in Seq(HeldPort) /\ Len(held) = Len(node[n].ports)
      /\ \E q : Lists(held, q, NodePlaces(node, n), AtIn(node))
  BY <1>1, <1>5, ListedSourceLast
<1> HIDE DEF k, held
<1>8. PICK q : Lists(held, q, NodePlaces(node, n), AtIn(node))
  BY <1>7
<1>9. Len(held) <= 3 /\ Len(held) <= DeferNum
  <2>1. Len(held) \in Nat /\ Len(held) <= 3
    BY ONLY <1>5, <1>7
  <2>2. DeferNum \in Nat /\ DeferNum >= 3
    BY ONLY FlowGenAssumption
  <2> QED BY ONLY <2>1, <2>2
<1>10. \A j \in Proto : dpc[j] # n
  BY <1>1, <1>4, NodesAreNumbers DEF DpcTyped
<1>11. \/ defer_client_port_free(h, k, held) = FreePorts(h, held)
       \/ dpc[k] = NoNode /\ defer_client_port_free(h, k, held) = create_defer(h, k, held)
       \/ dpc[k] # NoNode /\ defer_client_port_free(h, k, held) = FillBatch(h, k, dpc[k], held)
  BY ONLY TRUE DEF defer_client_port_free, dpc
<1>12. CASE defer_client_port_free(h, k, held) = FreePorts(h, held)
  <2>1. Handled(h.node, free_node(FreePorts(h, held), n))
    <3>1. \A j \in Proto : h.dpc[j] # n
      BY <1>10 DEF dpc
    <3>2. Lists(held, q, NodePlaces(h.node, n), AtIn(h.node))
      BY <1>8 DEF node
    <3> QED BY ONLY <3>1, <3>2, ReleaseOutcome, HeapOK(h), h.fail = "", n \in Node,
                    h.node[n].m_type = "FLOW_PKT"
  <2> QED BY <1>3, <1>12, <2>1
<1>13. CASE dpc[k] = NoNode /\ defer_client_port_free(h, k, held) = create_defer(h, k, held)
  <2>1. fail = "" => Handled(node, free_node(create_defer(h, k, held), n))
    BY ONLY <1>1, <1>2, <1>4, <1>6, <1>7, <1>8, <1>9, <1>13, BatchOpened, n \in Node
  <2> QED BY <1>3, <1>13, <2>1 DEF fail, node
<1>14. CASE dpc[k] # NoNode /\ defer_client_port_free(h, k, held) = FillBatch(h, k, dpc[k], held)
  <2>1. fail = "" => Handled(node, free_node(FillBatch(h, k, dpc[k], held), n))
    BY ONLY <1>1, <1>2, <1>4, <1>6, <1>7, <1>8, <1>9, <1>14, BatchAdded, n \in Node
  <2> QED BY <1>3, <1>14, <2>1 DEF fail, node
<1> QED BY <1>11, <1>12, <1>13, <1>14

-----------------------------------------------------------------------------
(* A flow is opened.                                                       *)

GenOf(ips, idx, alloc, err) ==
    [m_ip_info |-> ips, m_cur_idx |-> idx, m_active_alloc |-> alloc,
     m_port_allocation_error |-> err]

\* The fields of the tuple generator.
LEMMA GenIs ==
  ASSUME NEW gen \in GenRec
  PROVE  /\ gen = GenOf(gen.m_ip_info, gen.m_cur_idx, gen.m_active_alloc, gen.m_port_allocation_error)
         /\ gen.m_ip_info \in [Client -> IpRec] /\ gen.m_cur_idx \in [DOMAIN Pools -> Nat]
         /\ gen.m_active_alloc \in [DOMAIN Pools -> Nat]
         /\ gen.m_port_allocation_error \in [DOMAIN Pools -> BOOLEAN]
BY DEF GenRec, GenOf

\* AllocPort(), field by field.
LEMMA AllocFields ==
  ASSUME NEW node, NEW dpc, NEW gen \in GenRec, NEW fail, NEW c
  PROVE  AllocPort(HeapOf(node, dpc, gen, fail), c) = HeapOf(node, dpc, Taken(gen, c), fail)
<1> DEFINE h == HeapOf(node, dpc, gen, fail)
           a == gen.m_ip_info
           b == gen.m_active_alloc
           e == gen.m_port_allocation_error
           x == get_new_free_port(a[c])
           y == b[c[1]] + 1
           z == e[c[1]] \/ NewPort(a[c]) = IllegalPort
<1>1. h.gen = gen
  BY DEF HeapOf
<1>2. AllocPort(h, c) = [h EXCEPT !.gen.m_ip_info[c] = x, !.gen.m_active_alloc[c[1]] = y,
                                  !.gen.m_port_allocation_error[c[1]] = z]
  <2> HIDE DEF h
  <2> QED BY ONLY <1>1 DEF AllocPort
<1> HIDE DEF x, y, z
<1>3. [h EXCEPT !.gen.m_ip_info[c] = x, !.gen.m_active_alloc[c[1]] = y,
                !.gen.m_port_allocation_error[c[1]] = z]
         = [[[h EXCEPT !.gen.m_ip_info[c] = x] EXCEPT !.gen.m_active_alloc[c[1]] = y]
             EXCEPT !.gen.m_port_allocation_error[c[1]] = z]
  BY ONLY TRUE DEF h, HeapOf
<1>4. gen = GenOf(a, gen.m_cur_idx, b, e)
  BY GenIs
<1> DEFINE i == gen.m_cur_idx
<1>5. gen = GenOf(a, i, b, e)
  BY <1>4 DEF i
<1> DEFINE a2 == [a EXCEPT ![c] = x]
           b2 == [b EXCEPT ![c[1]] = y]
           e2 == [e EXCEPT ![c[1]] = z]
           H(ips, alloc, err) == HeapOf(node, dpc, GenOf(ips, i, alloc, err), fail)
<1>6. H(a2, b2, e2) = HeapOf(node, dpc, Taken(gen, c), fail)
  BY ONLY TRUE, Zenon DEF GenOf, Taken, H, a2, b2, e2, a, b, e, i, x, y, z
<1> HIDE DEF a, b, e, i
<1>7. [H(a, b, e) EXCEPT !.gen.m_ip_info[c] = x] = H(a2, b, e)
  BY ONLY TRUE DEF H, HeapOf, GenOf, a2
<1> HIDE DEF a2
<1>8. [H(a2, b, e) EXCEPT !.gen.m_active_alloc[c[1]] = y] = H(a2, b2, e)
  BY ONLY TRUE DEF H, HeapOf, GenOf, b2
<1> HIDE DEF b2
<1>9. [H(a2, b2, e) EXCEPT !.gen.m_port_allocation_error[c[1]] = z] = H(a2, b2, e2)
  BY ONLY TRUE DEF H, HeapOf, GenOf, e2
<1> HIDE DEF e2
<1>10. h = H(a, b, e)
  BY <1>5 DEF h, H
<1> HIDE DEF h, H
<1>11. AllocPort(h, c) = H(a2, b2, e2)
  BY ONLY <1>2, <1>3, <1>7, <1>8, <1>9, <1>10, Zenon
<1> QED BY ONLY <1>6, <1>11, Zenon DEF h

\* The tuple generator with another index of pool p.
Indexed(gen, p, idx) ==
    GenOf(gen.m_ip_info, SetAt(gen.m_cur_idx, p, idx), gen.m_active_alloc,
          gen.m_port_allocation_error)

\* Setting the index of a pool keeps the tuple generator as it should be.
LEMMA IndexedIs ==
  ASSUME NEW gen, GenOK(gen), NEW p \in DOMAIN Pools, NEW idx \in 0 .. Pools[p].ips - 1
  PROVE  /\ GenOK(Indexed(gen, p, idx))
         /\ \A c : Answer(Indexed(gen, p, idx), c) = Answer(gen, c)
         /\ \A H, at : PortsOK(H, at, gen) => PortsOK(H, at, Indexed(gen, p, idx))
<1> DEFINE g == Indexed(gen, p, idx)
           x == SetAt(gen.m_cur_idx, p, idx)
<1>1. /\ gen \in GenRec /\ gen.m_ip_info \in [Client -> IpRec]
      /\ gen.m_cur_idx \in [DOMAIN Pools -> Nat]
      /\ gen.m_active_alloc \in [DOMAIN Pools -> Nat]
      /\ gen.m_port_allocation_error \in [DOMAIN Pools -> BOOLEAN]
  BY GenIs DEF GenOK
<1>2. idx \in Nat /\ idx < Pools[p].ips
  BY FlowGenAssumption
<1>3. /\ x \in [DOMAIN Pools -> Nat]
      /\ \A r \in DOMAIN Pools : x[r] < Pools[r].ips
  BY <1>1, <1>2 DEF SetAt, GenOK
<1> HIDE DEF x
<1>4. /\ g.m_ip_info = gen.m_ip_info /\ g.m_cur_idx = x
      /\ g.m_active_alloc = gen.m_active_alloc
      /\ g.m_port_allocation_error = gen.m_port_allocation_error
  BY DEF Indexed, GenOf, x
<1>5. g \in GenRec
  BY <1>1, <1>3 DEF Indexed, GenOf, GenRec, x
<1> HIDE DEF g
<1>6. GenOK(g)
  BY <1>3, <1>4, <1>5 DEF GenOK
<1>7. \A c : Answer(g, c) = Answer(gen, c)
  BY <1>4 DEF Answer
<1>8. ASSUME NEW H, NEW at, PortsOK(H, at, gen) PROVE PortsOK(H, at, g)
  <2>1. \A e : Noted(e, gen) => Noted(e, g)
    BY <1>4, Zenon DEF Noted
  <2>2. \A y \in H : Noted(at[y], g)
    BY <1>8, <2>1, Zenon DEF PortsOK
  <2> QED BY <1>4, <1>8, <2>2, Zenon DEF PortsOK
<1> QED BY <1>6, <1>7, <1>8 DEF g

SetIdx(h, p, idx) == [h EXCEPT !.gen.m_cur_idx[p] = idx]

\* An assignment to the index of a pool, field by field.
LEMMA IndexFields ==
  ASSUME NEW node, NEW dpc, NEW gen \in GenRec, NEW fail, NEW p, NEW idx,
         NEW h, h = HeapOf(node, dpc, gen, fail)
  PROVE  SetIdx(h, p, idx) = HeapOf(node, dpc, Indexed(gen, p, idx), fail)
<1> DEFINE a == gen.m_ip_info
           b == gen.m_active_alloc
           e == gen.m_port_allocation_error
           i == gen.m_cur_idx
<1>1. gen = GenOf(a, i, b, e)
  BY GenIs
<1>2. Indexed(gen, p, idx) = GenOf(a, SetAt(i, p, idx), b, e)
  BY DEF Indexed
<1> HIDE DEF a, b, e, i
<1>3. [HeapOf(node, dpc, GenOf(a, i, b, e), fail) EXCEPT !.gen.m_cur_idx[p] = idx]
        = HeapOf(node, dpc, GenOf(a, SetAt(i, p, idx), b, e), fail)
  BY ONLY TRUE DEF HeapOf, GenOf, SetAt
<1> QED BY ONLY <1>1, <1>2, <1>3, h = HeapOf(node, dpc, gen, fail), Zenon DEF SetIdx

\* generate_flow(), field by field: the tuple, ...
Drawn(gen, t, c, idx, node, dpc, n, fail) ==
    HeapOf(SetAt(node, n, FlowNode(t, <<Answer(gen, c)>>)), dpc,
           Taken(Indexed(gen, c[1], idx), c), fail)

\* generate_flow() without a plugin, field by field.
LEMMA GenerateFields ==
  ASSUME NEW node, NEW dpc, NEW gen, GenOK(gen), NEW fail, NEW n, NEW t, NEW idx,
         NEW c \in Client, c = TupleClient(t), idx \in 0 .. Pools[c[1]].ips - 1
  PROVE  generate_flow(HeapOf(node, dpc, gen, fail), n, t, idx) =
            IF Templates[t].plugin
            THEN on_node_first(Drawn(gen, t, c, idx, node, dpc, n, fail), n, c)
            ELSE Drawn(gen, t, c, idx, node, dpc, n, fail)
<1> DEFINE h == HeapOf(node, dpc, gen, fail)
           h0 == SetIdx(h, c[1], idx)
           g0 == Indexed(gen, c[1], idx)
           obj == FlowNode(t, <<Held(c, NewPort(h.gen.m_ip_info[c]))>>)
           g == [AllocPort(h0, c) EXCEPT !.node[n] = obj]
<1>1. h.gen = gen /\ gen \in GenRec /\ c[1] \in DOMAIN Pools
  BY ClientPool DEF HeapOf, GenOK
<1>2. generate_flow(h, n, t, idx) = IF Templates[t].plugin THEN on_node_first(g, n, c) ELSE g
  BY Zenon DEF generate_flow, SetIdx
<1>3. obj = FlowNode(t, <<Answer(gen, c)>>)
  BY <1>1 DEF Answer
<1>4. h0 = HeapOf(node, dpc, g0, fail)
  BY ONLY <1>1, IndexFields
<1>5. g0 \in GenRec
  BY <1>1, IndexedIs DEF GenOK
<1> HIDE DEF h0, g0, obj
<1>6. AllocPort(h0, c) = HeapOf(node, dpc, Taken(g0, c), fail)
  BY ONLY <1>4, <1>5, AllocFields
<1> DEFINE g1 == Taken(g0, c)
<1> HIDE DEF g1
<1>7. [HeapOf(node, dpc, g1, fail) EXCEPT !.node[n] = obj] = HeapOf(SetAt(node, n, obj), dpc, g1, fail)
  BY ONLY TRUE DEF HeapOf, SetAt
<1>8. g = HeapOf(SetAt(node, n, obj), dpc, Taken(g0, c), fail)
  BY ONLY <1>6, <1>7, Zenon DEF g1, g
<1>9. g = Drawn(gen, t, c, idx, node, dpc, n, fail)
  BY ONLY <1>3, <1>8, Zenon DEF g0, Drawn
<1> HIDE DEF g
<1> QED BY ONLY <1>2, <1>9, Zenon DEF h

\* ... and what the plugin takes.
PluginPorts(gen, c) == <<Answer(gen, c), Answer(Taken(gen, c), c)>>

\* on_node_first(), field by field.
LEMMA PluginFields ==
  ASSUME NEW node, NEW dpc, NEW gen, GenOK(gen), NEW fail, NEW n \in Node, NEW c \in Client
  PROVE  on_node_first(HeapOf(node, dpc, gen, fail), n, c) =
            HeapOf(Filled(node, n, AllOf(node, n, PluginPorts(gen, c))), dpc,
                   Taken(Taken(gen, c), c), fail)
<1> DEFINE h == HeapOf(node, dpc, gen, fail)
           g1 == Taken(gen, c)
           h1 == HeapOf(node, dpc, g1, fail)
           g2 == Taken(g1, c)
           h2 == HeapOf(node, dpc, g2, fail)
           ps == <<Held(c, NewPort(h.gen.m_ip_info[c])), Held(c, NewPort(h1.gen.m_ip_info[c]))>>
<1>1. gen \in GenRec /\ g1 \in GenRec
  BY AnswerFacts DEF GenOK
<1>2. AllocPort(h, c) = h1
  BY ONLY <1>1, AllocFields
<1> HIDE DEF g1
<1>3. AllocPort(h1, c) = h2
  BY ONLY <1>1, AllocFields
<1>4. h.gen = gen /\ h1.gen = g1 /\ h2.node = node
  BY ONLY TRUE DEF h, h1, h2, HeapOf
<1> HIDE DEF h, h1, h2, g2
<1>5. on_node_first(h, n, c) = [h2 EXCEPT !.node[n].ports = h2.node[n].ports \o ps]
  BY ONLY <1>2, <1>3, Zenon DEF on_node_first, ps
<1>6. ps = PluginPorts(gen, c)
  BY ONLY <1>4, Zenon DEF ps, PluginPorts, Answer, g1
<1> HIDE DEF ps
<1>7. h2.node[n].ports \o ps = AllOf(node, n, PluginPorts(gen, c))
  BY ONLY <1>4, <1>6, Zenon DEF AllOf
<1> DEFINE all == h2.node[n].ports \o ps
<1> HIDE DEF all
<1>8. SetPorts(h2, n, all) = HeapOf(Filled(node, n, all), dpc, g2, fail)
  BY ONLY PortsSet, n \in Node DEF h2, Filled
<1>9. on_node_first(h, n, c) = SetPorts(h2, n, all)
  BY ONLY <1>5, Zenon DEF SetPorts, all
<1> QED BY ONLY <1>7, <1>8, <1>9, Zenon DEF h, g2, g1, all

\* A node gets one more port.
LEMMA PortAdded ==
  ASSUME NEW node \in [Node -> NodeRec], NEW gen, GenOK(gen),
         PortsOK(Places(node), AtIn(node), gen), NEW c \in Client, NEW n \in Node,
         NEW m \in [Node -> NodeRec], m[n].ports = Append(node[n].ports, Answer(gen, c)),
         \A i \in Node : i # n => m[i].ports = node[i].ports
  PROVE  PortsOK(Places(m), AtIn(m), Taken(gen, c))
<1> DEFINE l == Len(node[n].ports)
           z == <<n, l + 1>>
           a == Answer(gen, c)
<1>1. node[n].ports \in Seq(HeldPort) /\ l \in Nat /\ a \in HeldPort
  BY PlaceIs, AnswerFacts
<1> HIDE DEF a
<1>2. /\ Len(m[n].ports) = l + 1 /\ m[n].ports[l + 1] = a
      /\ \A i \in 1 .. l : m[n].ports[i] = node[n].ports[i]
  BY <1>1 DEF a
<1> HIDE DEF l
<1>3. z \notin Places(node)
  BY <1>1, PlaceIs DEF l
<1>4. ASSUME NEW y
      PROVE  /\ y \in Places(m) <=> y \in Places(node) \cup {z}
             /\ y \in Places(m) /\ y = z => AtIn(m)[y] = a
             /\ y \in Places(m) /\ y # z => AtIn(m)[y] = AtIn(node)[y]
  <2>1. ASSUME y \in Places(m)
        PROVE  /\ y \in Places(node) \cup {z}
               /\ y = z => AtIn(m)[y] = a
               /\ y # z => AtIn(m)[y] = AtIn(node)[y]
    <3>1. /\ y = <<y[1], y[2]>> /\ y[1] \in Node /\ y[2] \in Nat
          /\ y[2] \in 1 .. Len(m[y[1]].ports) /\ AtIn(m)[y] = m[y[1]].ports[y[2]]
      BY <2>1, PlaceIs
    <3>2. CASE y[1] = n /\ y[2] = l + 1
      BY <1>2, <3>1, <3>2
    <3>3. CASE y[1] = n /\ y[2] # l + 1
      <4>1. y[2] \in 1 .. l
        BY <1>1, <1>2, <3>1, <3>3
      <4>2. y \in Places(node)
        BY <3>1, <3>3, <4>1, PlaceIs DEF l
      <4> QED BY <1>2, <1>3, <3>1, <3>3, <4>1, <4>2, PlaceIs
    <3>4. CASE y[1] # n
      <4>1. m[y[1]].ports = node[y[1]].ports
        BY <3>1, <3>4
      <4>2. y \in Places(node)
        BY <3>1, <4>1, PlaceIs
      <4> QED BY <1>3, <3>1, <4>1, <4>2, PlaceIs
    <3> QED BY <3>2, <3>3, <3>4
  <2>2. ASSUME y \in Places(node) PROVE y \in Places(m)
    <3>1. /\ y = <<y[1], y[2]>> /\ y[1] \in Node /\ y[2] \in Nat
          /\ y[2] \in 1 .. Len(node[y[1]].ports)
      BY <2>2, PlaceIs
    <3>2. y[2] \in 1 .. Len(m[y[1]].ports)
      <4>1. CASE y[1] = n
        BY <1>1, <1>2, <3>1, <4>1 DEF l
      <4>2. CASE y[1] # n
        BY <3>1, <4>2
      <4> QED BY <4>1, <4>2
    <3> QED BY <3>1, <3>2, PlaceIs
  <2>3. z \in Places(m)
    BY <1>1, <1>2, PlaceIs
  <2> QED BY <2>1, <2>2, <2>3
<1> HIDE DEF z
<1>5. Places(m) = Places(node) \cup {z}
  BY <1>4
<1>6. AtIn(m) = [y \in Places(node) \cup {z} |-> IF y = z THEN a ELSE AtIn(node)[y]]
  <2>1. AtIn(m) = [y \in Places(m) |-> AtIn(m)[y]]
    BY DEF AtIn
  <2>2. \A y \in Places(m) : AtIn(m)[y] = IF y = z THEN a ELSE AtIn(node)[y]
    BY <1>4
  <2> QED BY ONLY <1>5, <2>1, <2>2
<1> DEFINE H == Places(node)
           at == AtIn(node)
           bt == AtIn(m)
<1>7. z \notin H /\ PortsOK(H, at, gen) /\ bt = [y \in H \cup {z} |-> IF y = z THEN Answer(gen, c) ELSE at[y]]
  BY <1>3, <1>6 DEF a
<1> HIDE DEF H, at, bt
<1>8. PortsOK(H \cup {z}, bt, Taken(gen, c))
  BY ONLY <1>7, PortTaken, GenOK(gen), c \in Client
<1> QED BY <1>5, <1>8 DEF H, bt

\* create_node(), field by field.
LEMMA CreateFields ==
  ASSUME NEW node, NEW dpc, NEW gen, NEW fail, NEW obj, NEW h, h = HeapOf(node, dpc, gen, fail)
  PROVE  /\ FreeNodes(h) = {} => create_node(h, obj) = HeapOf(node, dpc, gen, "exit")
         /\ FreeNodes(h) # {} =>
               /\ Fresh(h) \in Node /\ node[Fresh(h)].m_type = "FREE"
               /\ create_node(h, obj) = HeapOf(SetAt(node, Fresh(h), obj), dpc, gen, fail)
<1>1. h.node = node
  BY DEF HeapOf
<1>2. ASSUME FreeNodes(h) = {} PROVE create_node(h, obj) = HeapOf(node, dpc, gen, "exit")
  <2>1. create_node(h, obj) = [h EXCEPT !.fail = "exit"]
    BY <1>2 DEF create_node
  <2>2. [h EXCEPT !.fail = "exit"] = HeapOf(node, dpc, gen, "exit")
    BY ONLY h = HeapOf(node, dpc, gen, fail) DEF HeapOf
  <2> QED BY <2>1, <2>2
<1>3. ASSUME FreeNodes(h) # {}
      PROVE  /\ Fresh(h) \in Node /\ node[Fresh(h)].m_type = "FREE"
             /\ create_node(h, obj) = HeapOf(SetAt(node, Fresh(h), obj), dpc, gen, fail)
  <2> DEFINE b == Fresh(h)
  <2>1. b \in Node /\ node[b].m_type = "FREE"
    BY <1>1, <1>3, FreshIsFree
  <2>2. create_node(h, obj) = [h EXCEPT !.node[b] = obj]
    BY <1>3 DEF create_node
  <2> HIDE DEF b
  <2>3. [h EXCEPT !.node[b] = obj] = HeapOf(SetAt(node, b, obj), dpc, gen, fail)
    BY ONLY h = HeapOf(node, dpc, gen, fail) DEF HeapOf, SetAt
  <2> QED BY <2>1, <2>2, <2>3 DEF b
<1> QED BY <1>2, <1>3

\* A flow as a node.
LEMMA FlowNodeIs ==
  ASSUME NEW t \in DOMAIN Templates, NEW ps \in Seq(HeldPort)
  PROVE  /\ FlowNode(t, ps) \in NodeRec /\ FlowNode(t, ps).ports = ps
         /\ FlowNode(t, ps).m_type = "FLOW_PKT" /\ FlowNode(t, ps).tmpl = t
<1>1. Templates[t].pkts \in Nat
  BY FlowGenAssumption
<1> QED BY <1>1 DEF FlowNode, NodeRec, NodeType

\* A free node becomes a flow.
LEMMA FlowKept ==
  ASSUME NEW node \in [Node -> NodeRec], NEW dpc \in [Proto -> Node \cup {NoNode}],
         NodeOK(node), DpcTyped(node, dpc), DpcOK(node, dpc),
         NEW b \in Node, node[b].m_type = "FREE",
         NEW m \in [Node -> NodeRec], \A i \in Node : i # b => m[i] = node[i],
         m[b].m_type = "FLOW_PKT", m[b].tmpl \in DOMAIN Templates, Len(m[b].ports) \in 1 .. 3
  PROVE  NodeOK(m) /\ DpcTyped(m, dpc) /\ DpcOK(m, dpc)
<1>1. NodeOK(m)
  <2> SUFFICES ASSUME NEW i \in Node
               PROVE  /\ m[i].m_type = "FREE" => m[i] = FreeNode
                      /\ m[i].m_type = "FLOW_PKT" =>
                            m[i].tmpl \in DOMAIN Templates /\ Len(m[i].ports) \in 1 .. 3
                      /\ m[i].m_type \notin {"FLOW_PKT", "FLOW_DEFER_PORT_RELEASE"} =>
                            m[i].ports = << >>
    BY DEF NodeOK
  <2>1. CASE i = b
    BY <2>1
  <2>2. CASE i # b
    BY <2>2 DEF NodeOK
  <2> QED BY <2>1, <2>2
<1>2. \A j \in Proto : dpc[j] # NoNode => m[dpc[j]] = node[dpc[j]]
  BY DEF DpcTyped
<1> QED BY <1>1, <1>2 DEF DpcTyped, DpcOK

\* generate_flow() on a node that was free.
LEMMA FlowOpened ==
  ASSUME NEW node \in [Node -> NodeRec], NEW dpc \in [Proto -> Node \cup {NoNode}], NEW gen, NEW fail,
         GenOK(gen), NodeOK(node), DpcTyped(node, dpc), DpcOK(node, dpc),
         PortsOK(Places(node), AtIn(node), gen),
         NEW b \in Node, node[b].m_type = "FREE", NEW obj \in NodeRec,
         NEW t \in DOMAIN Templates, NEW c \in Client, c = TupleClient(t),
         NEW idx, idx \in 0 .. Pools[c[1]].ips - 1
  PROVE  fail = "" =>
            Handled(node, generate_flow(HeapOf(SetAt(node, b, obj), dpc, gen, fail), b, t, idx))
<1> DEFINE m0 == SetAt(node, b, obj)
           g0 == Indexed(gen, c[1], idx)
           g1 == Taken(g0, c)
           a1 == Answer(gen, c)
           m1 == SetAt(m0, b, FlowNode(t, <<a1>>))
           r == generate_flow(HeapOf(m0, dpc, gen, fail), b, t, idx)
<1>1. c[1] \in DOMAIN Pools
  BY ClientPool
<1>2. GenOK(g0) /\ Answer(g0, c) = a1 /\ PortsOK(Places(node), AtIn(node), g0)
  BY ONLY <1>1, IndexedIs, GenOK(gen), idx \in 0 .. Pools[c[1]].ips - 1,
          PortsOK(Places(node), AtIn(node), gen)
<1>3. r = IF Templates[t].plugin
          THEN on_node_first(HeapOf(m1, dpc, g1, fail), b, c)
          ELSE HeapOf(m1, dpc, g1, fail)
  BY ONLY GenerateFields, GenOK(gen), c \in Client, c = TupleClient(t),
          idx \in 0 .. Pools[c[1]].ips - 1 DEF Drawn
<1> HIDE DEF g0, r
<1>4. GenOK(g1) /\ a1 \in HeldPort
  BY <1>2, AnswerFacts
<1>5. node[b].ports = << >>
  BY FreeNodeIsNode DEF NodeOK
<1>6. m0 \in [Node -> NodeRec] /\ \A i \in Node : i # b => m0[i] = node[i]
  BY NodeSetAt
<1> HIDE DEF m0
<1> DEFINE f1 == FlowNode(t, <<a1>>)
<1>7. f1 \in NodeRec /\ f1.ports = <<a1>> /\ f1.m_type = "FLOW_PKT" /\ f1.tmpl = t
  <2>1. <<a1>> \in Seq(HeldPort)
    BY <1>4
  <2> QED BY ONLY <2>1, FlowNodeIs, t \in DOMAIN Templates
<1> HIDE DEF f1
<1>8. m1 \in [Node -> NodeRec] /\ m1[b] = f1 /\ \A i \in Node : i # b => m1[i] = node[i]
  <2>1. m1 = SetAt(m0, b, f1)
    BY DEF f1
  <2> HIDE DEF m1
  <2> QED BY <1>6, <1>7, <2>1, NodeSetAt
<1> HIDE DEF m1
<1> HIDE DEF a1
<1>9. PortsOK(Places(m1), AtIn(m1), g1)
  <2>1. m1[b].ports = Append(node[b].ports, Answer(g0, c))
    BY ONLY <1>2, <1>5, <1>7, <1>8
  <2>2. \A i \in Node : i # b => m1[i].ports = node[i].ports
    BY <1>8
  <2> QED BY ONLY <1>2, <1>8, <2>1, <2>2, PortAdded, node \in [Node -> NodeRec], b \in Node,
                  c \in Client
<1> HIDE DEF g1
<1>10. CASE ~Templates[t].plugin
  <2>1. r = HeapOf(m1, dpc, g1, fail)
    BY <1>3, <1>10
  <2>2. Len(m1[b].ports) \in 1 .. 3
    BY ONLY <1>7, <1>8
  <2>3. NodeOK(m1) /\ DpcTyped(m1, dpc) /\ DpcOK(m1, dpc)
    BY <1>7, <1>8, <2>2, FlowKept
  <2>4. SameExits(node, m1)
    BY <1>7, <1>8 DEF SameExits
  <2> QED BY ONLY <1>4, <1>8, <1>9, <2>1, <2>3, <2>4, WentWell, dpc \in [Proto -> Node \cup {NoNode}]
             DEF r, m0
<1>11. CASE Templates[t].plugin
  <2> DEFINE g2 == Taken(g1, c)
             g3 == Taken(g2, c)
             a2 == Answer(g1, c)
             a3 == Answer(g2, c)
             p2 == Append(<<a1>>, a2)
             p3 == <<a1>> \o <<a2, a3>>
             f2 == WithPorts(f1, p2)
             f3 == WithPorts(f1, p3)
             m2 == SetAt(m1, b, f2)
             m3 == SetAt(m1, b, f3)
  <2>1. GenOK(g2) /\ GenOK(g3) /\ a2 \in HeldPort /\ a3 \in HeldPort
    BY <1>4, AnswerFacts
  <2>2. r = HeapOf(m3, dpc, g3, fail)
    <3>1. r = HeapOf(Filled(m1, b, AllOf(m1, b, PluginPorts(g1, c))), dpc, g3, fail)
      BY ONLY <1>3, <1>4, <1>11, PluginFields, b \in Node, c \in Client
    <3>2. AllOf(m1, b, PluginPorts(g1, c)) = p3
      BY ONLY <1>7, <1>8, Zenon DEF AllOf, PluginPorts, p3, a2, a3, g2
    <3>3. Filled(m1, b, p3) = m3
      BY ONLY <1>8, Zenon DEF Filled, m3, f3
    <3> QED BY ONLY <3>1, <3>2, <3>3, Zenon
  <2> HIDE DEF g2, g3, a2, a3
  <2>3. /\ p2 \in Seq(HeldPort) /\ p3 \in Seq(HeldPort) /\ p3 = Append(p2, a3) /\ Len(p3) = 3
    BY <1>4, <2>1
  <2> HIDE DEF p2, p3
  <2>4. /\ f2 \in NodeRec /\ f2.ports = p2 /\ f3 \in NodeRec /\ f3.ports = p3
        /\ f3.m_type = "FLOW_PKT" /\ f3.tmpl = t
    BY <1>7, <2>3, WithPortsIsNode
  <2> HIDE DEF f2, f3
  <2>5. /\ m2 \in [Node -> NodeRec] /\ m2[b] = f2 /\ \A i \in Node : i # b => m2[i] = m1[i]
        /\ m3 \in [Node -> NodeRec] /\ m3[b] = f3 /\ \A i \in Node : i # b => m3[i] = m1[i]
    <3>1. m1 \in [Node -> NodeRec] /\ f2 \in NodeRec /\ f3 \in NodeRec /\ b \in Node
      BY <1>8, <2>4
    <3>2. /\ m2 \in [Node -> NodeRec] /\ m2[b] = f2 /\ \A i \in Node : i # b => m2[i] = m1[i]
      BY ONLY <3>1 DEF SetAt, m2, m3
    <3>3. /\ m3 \in [Node -> NodeRec] /\ m3[b] = f3 /\ \A i \in Node : i # b => m3[i] = m1[i]
      BY ONLY <3>1 DEF SetAt, m2, m3
    <3> QED BY <3>2, <3>3
  <2> HIDE DEF m2, m3
  <2>6. PortsOK(Places(m2), AtIn(m2), g2)
    <3>1. m2[b].ports = Append(m1[b].ports, Answer(g1, c))
      BY ONLY <1>7, <1>8, <2>4, <2>5 DEF p2, a2
    <3>2. \A i \in Node : i # b => m2[i].ports = m1[i].ports
      BY <2>5
    <3> QED BY ONLY <1>4, <1>8, <1>9, <2>5, <3>1, <3>2, PortAdded, b \in Node, c \in Client DEF g2
  <2>7. PortsOK(Places(m3), AtIn(m3), g3)
    <3>1. m3[b].ports = Append(m2[b].ports, Answer(g2, c))
      BY ONLY <2>3, <2>4, <2>5 DEF a3
    <3>2. \A i \in Node : i # b => m3[i].ports = m2[i].ports
      BY <2>5
    <3> QED BY ONLY <2>1, <2>5, <2>6, <3>1, <3>2, PortAdded, b \in Node, c \in Client DEF g3
  <2>8. Len(m3[b].ports) \in 1 .. 3 /\ m3[b].m_type = "FLOW_PKT" /\ m3[b].tmpl \in DOMAIN Templates
    <3>1. Len(m3[b].ports) = 3
      BY ONLY <2>3, <2>4, <2>5, Zenon
    <3>2. 3 \in 1 .. 3
      BY ONLY TRUE
    <3> QED BY ONLY <2>4, <2>5, <3>1, <3>2, t \in DOMAIN Templates, Zenon
  <2>9. NodeOK(m3) /\ DpcTyped(m3, dpc) /\ DpcOK(m3, dpc)
    <3>1. \A i \in Node : i # b => m3[i] = node[i]
      BY <1>8, <2>5
    <3> QED BY <2>5, <2>8, <3>1, FlowKept
  <2>10. SameExits(node, m3)
    BY <1>8, <2>4, <2>5 DEF SameExits
  <2> QED BY ONLY <2>1, <2>2, <2>5, <2>7, <2>9, <2>10, WentWell, dpc \in [Proto -> Node \cup {NoNode}]
             DEF r, m0
<1> QED BY <1>10, <1>11

-----------------------------------------------------------------------------
(* Handlers that leave the ports alone.                                    *)

\* The nodes of h become m, with the ports they had.
LEMMA PortsStay ==
  ASSUME NEW node \in [Node -> NodeRec], NEW dpc \in [Proto -> Node \cup {NoNode}], NEW gen, NEW fail,
         GenOK(gen), DpcTyped(node, dpc), DpcOK(node, dpc),
         PortsOK(Places(node), AtIn(node), gen),
         NEW m \in [Node -> NodeRec], NodeOK(m), \A i \in Node : m[i].ports = node[i].ports,
         \A i \in Node : node[i].m_type = "FLOW_DEFER_PORT_RELEASE" => m[i].m_type = node[i].m_type
  PROVE  fail = "" => Outcome(HeapOf(m, dpc, gen, fail))
<1>1. Places(m) = Places(node)
  BY DEF Places
<1>2. AtIn(m) = AtIn(node)
  <2>1. \A x \in Places(node) : m[x[1]].ports[x[2]] = node[x[1]].ports[x[2]]
    BY DEF Places
  <2> QED BY <1>1, <2>1 DEF AtIn
<1>3. PortsOK(Places(m), AtIn(m), gen)
  BY <1>1, <1>2
<1>4. DpcTyped(m, dpc) /\ DpcOK(m, dpc)
  BY DEF DpcTyped, DpcOK
<1>5. SameExits(m, m)
  BY DEF SameExits
<1>6. fail = "" => Handled(m, HeapOf(m, dpc, gen, fail))
  BY ONLY <1>3, <1>4, <1>5, WentWell, GenOK(gen), NodeOK(m), m \in [Node -> NodeRec],
          dpc \in [Proto -> Node \cup {NoNode}]
<1> QED BY <1>6 DEF Handled

\* A node that is neither a flow nor a batch is freed.
LEMMA PlainFreed ==
  ASSUME NEW h, HeapOK(h), h.fail = "", NEW n \in Node,
         h.node[n].m_type \notin {"FLOW_PKT", "FLOW_DEFER_PORT_RELEASE"}
  PROVE  /\ Outcome(free_node(h, n)) /\ free_node(h, n).fail = ""
         /\ free_node(h, n).dpc = h.dpc /\ free_node(h, n).node[n] = FreeNode
         /\ \A i \in Node : i # n => free_node(h, n).node[i] = h.node[i]
<1> DEFINE node == h.node
           dpc == h.dpc
           gen == h.gen
           fail == h.fail
           m == [node EXCEPT ![n] = FreeNode]
<1>1. /\ h \in HeapRec /\ node \in [Node -> NodeRec] /\ dpc \in [Proto -> Node \cup {NoNode}]
      /\ GenOK(gen) /\ DpcTyped(node, dpc) /\ DpcOK(node, dpc) /\ NodeOK(node)
      /\ PortsOK(Places(node), AtIn(node), gen)
  BY HeapFields DEF HeapOK, HeapTyped
<1>2. /\ free_node(h, n) \in HeapRec /\ free_node(h, n).node = m /\ free_node(h, n).dpc = dpc
      /\ free_node(h, n).gen = gen /\ free_node(h, n).fail = fail
  BY <1>1, FreeNodeFields
<1>3. free_node(h, n) = HeapOf(m, dpc, gen, fail)
  BY ONLY <1>2, HeapIs
<1>4. NodeOK(m) /\ m \in [Node -> NodeRec]
  <2>1. node \in [Node -> NodeRec] /\ NodeOK(node) /\ m = [node EXCEPT ![n] = FreeNode]
    BY <1>1
  <2> HIDE DEF node, m
  <2> QED BY ONLY <2>1, FreedPlaces, n \in Node
<1>5. node[n].ports = << >>
  BY <1>1 DEF NodeOK
<1>6. m[n] = FreeNode /\ \A i \in Node : i # n => m[i] = node[i]
  BY <1>1
<1>7. \A i \in Node : m[i].ports = node[i].ports
  BY <1>5, <1>6, FreeNodeIsNode
<1>8. \A i \in Node : node[i].m_type = "FLOW_DEFER_PORT_RELEASE" => m[i].m_type = node[i].m_type
  BY <1>6
<1> HIDE DEF m, node, dpc, gen, fail
<1>9. fail = "" => Outcome(HeapOf(m, dpc, gen, fail))
  BY ONLY <1>1, <1>4, <1>7, <1>8, PortsStay
<1> QED BY <1>2, <1>3, <1>6, <1>9 DEF node, dpc, fail

\* A flow has sent a packet, or starts over.
LEMMA LeftSet ==
  ASSUME NEW h, HeapOK(h), h.fail = "", NEW n \in Node, h.node[n].m_type = "FLOW_PKT",
         NEW x \in Nat, NEW g, g = [h EXCEPT !.node[n].left = x]
  PROVE  Handled(h.node, g) /\ g.fail = ""
<1> DEFINE node == h.node
           dpc == h.dpc
           gen == h.gen
           fail == h.fail
           w == [node[n] EXCEPT !.left = x]
           m == SetAt(node, n, w)
<1>1. /\ h \in HeapRec /\ node \in [Node -> NodeRec] /\ dpc \in [Proto -> Node \cup {NoNode}]
      /\ GenOK(gen) /\ DpcTyped(node, dpc) /\ DpcOK(node, dpc) /\ NodeOK(node)
      /\ PortsOK(Places(node), AtIn(node), gen) /\ node[n].m_type = "FLOW_PKT"
  BY HeapFields DEF HeapOK, HeapTyped
<1>2. h = HeapOf(node, dpc, gen, fail)
  BY <1>1, HeapIs
<1> HIDE DEF node, dpc, gen, fail
<1>3. /\ w \in NodeRec /\ w.ports = node[n].ports /\ w.m_type = node[n].m_type
      /\ w.tmpl = node[n].tmpl
  <2>1. node[n] \in NodeRec
    BY ONLY <1>1, n \in Node
  <2> QED BY ONLY <2>1, x \in Nat DEF w, NodeRec
<1>4. g = HeapOf(m, dpc, gen, fail)
  <2>0. h.node = node
    BY DEF node
  <2>1. [h EXCEPT !.node[n].left = x] = [h EXCEPT !.node[n] = w]
    BY ONLY <2>0 DEF w
  <2> HIDE DEF w
  <2>2. [h EXCEPT !.node[n] = w] = HeapOf(m, dpc, gen, fail)
    BY ONLY <1>2 DEF HeapOf, m, SetAt
  <2> QED BY ONLY <2>1, <2>2, g = [h EXCEPT !.node[n].left = x], Zenon
<1> HIDE DEF w
<1>5. m \in [Node -> NodeRec] /\ m[n] = w /\ \A i \in Node : i # n => m[i] = node[i]
  BY <1>1, <1>3, NodeSetAt
<1> HIDE DEF m
<1>6. \A i \in Node : /\ m[i].ports = node[i].ports /\ m[i].m_type = node[i].m_type
                      /\ m[i].tmpl = node[i].tmpl
  BY <1>3, <1>5
<1>7. NodeOK(m)
  <2>1. \A i \in Node : m[i].m_type = "FREE" => m[i] = node[i]
    BY <1>1, <1>5, <1>6
  <2> QED BY ONLY <1>1, <1>6, <2>1, Zenon DEF NodeOK
<1>8. fail = "" => Outcome(HeapOf(m, dpc, gen, fail))
  BY ONLY <1>1, <1>5, <1>6, <1>7, PortsStay
<1>9. g.fail = fail /\ g.node = m
  BY ONLY <1>4 DEF HeapOf
<1>10. SameExits(node, m)
  BY <1>6 DEF SameExits
<1> QED BY <1>4, <1>8, <1>9, <1>10 DEF Handled, node, fail

\* An EXIT_SCHED node is created, or the pool is empty.
LEMMA ExitCreated ==
  ASSUME NEW h, HeapOK(h), h.fail = "", NEW g, g = create_node(h, Plain("EXIT_SCHED"))
  PROVE  Outcome(g) /\ (g.fail = "" => \E b \in Node : g.node[b].m_type = "EXIT_SCHED")
<1> DEFINE type == "EXIT_SCHED"
           node == h.node
           dpc == h.dpc
           gen == h.gen
           fail == h.fail
           obj == Plain(type)
           b == Fresh(h)
           m == SetAt(node, b, obj)
<1>1. /\ h \in HeapRec /\ node \in [Node -> NodeRec] /\ dpc \in [Proto -> Node \cup {NoNode}]
      /\ GenOK(gen) /\ DpcTyped(node, dpc) /\ DpcOK(node, dpc) /\ NodeOK(node)
      /\ PortsOK(Places(node), AtIn(node), gen)
  BY HeapFields DEF HeapOK, HeapTyped
<1>2. h = HeapOf(node, dpc, gen, fail)
  BY <1>1, HeapIs
<1>0. type = "EXIT_SCHED" /\ g = create_node(h, Plain(type))
  OBVIOUS
<1> HIDE DEF node, dpc, gen, fail, type
<1>3. obj \in NodeRec /\ obj.ports = << >> /\ obj.m_type = type
  <2>1. << >> \in Seq(HeldPort)
    BY ONLY TRUE
  <2>2. type \in NodeType /\ 0 \in {0} \cup DOMAIN Templates /\ 0 \in Nat
    BY ONLY <1>0 DEF NodeType
  <2> QED BY ONLY <2>1, <2>2 DEF obj, Plain, NodeRec
<1> HIDE DEF obj
<1>4. CASE FreeNodes(h) = {}
  <2>1. g = HeapOf(node, dpc, gen, "exit")
    BY ONLY <1>2, <1>4, CreateFields, <1>0
  <2>2. \A old : Handled(old, HeapOf(node, dpc, gen, "exit"))
    BY ONLY <1>1, Exited
  <2>3. g.fail = "exit"
    BY ONLY <2>1 DEF HeapOf
  <2> QED BY <2>1, <2>2, <2>3 DEF Handled
<1>5. CASE FreeNodes(h) # {}
  <2>1. b \in Node /\ node[b].m_type = "FREE" /\ g = HeapOf(m, dpc, gen, fail)
    BY ONLY <1>2, <1>5, CreateFields, <1>0 DEF b, obj
  <2> HIDE DEF b
  <2>2. m \in [Node -> NodeRec] /\ m[b] = obj /\ \A i \in Node : i # b => m[i] = node[i]
    BY ONLY <1>1, <1>3, <2>1, NodeSetAt, SMTT(60)
  <2> HIDE DEF m
  <2>3. node[b].ports = << >>
    BY <1>1, <2>1, FreeNodeIsNode DEF NodeOK
  <2>4. \A i \in Node : m[i].ports = node[i].ports
    BY <1>3, <2>2, <2>3
  <2>5. \A i \in Node : node[i].m_type = "FLOW_DEFER_PORT_RELEASE" => m[i].m_type = node[i].m_type
    BY <2>1, <2>2
  <2>6. NodeOK(m)
    <3> SUFFICES ASSUME NEW i \in Node
                 PROVE  /\ m[i].m_type = "FREE" => m[i] = FreeNode
                        /\ m[i].m_type = "FLOW_PKT" =>
                              m[i].tmpl \in DOMAIN Templates /\ Len(m[i].ports) \in 1 .. 3
                        /\ m[i].m_type \notin {"FLOW_PKT", "FLOW_DEFER_PORT_RELEASE"} =>
                              m[i].ports = << >>
      BY DEF NodeOK
    <3>1. CASE i = b
      BY <1>0, <1>3, <2>2, <3>1
    <3>2. CASE i # b
      BY <1>1, <2>2, <3>2 DEF NodeOK
    <3> QED BY <3>1, <3>2
  <2>7. fail = "" => Outcome(HeapOf(m, dpc, gen, fail))
    BY ONLY <1>1, <2>2, <2>4, <2>5, <2>6, PortsStay
  <2>8. g.node = m
    BY ONLY <2>1 DEF HeapOf
  <2>9. g.node[b].m_type = type
    BY <1>3, <2>2, <2>8
  <2> QED BY <1>0, <2>1, <2>7, <2>9 DEF fail
<1> QED BY <1>4, <1>5

-----------------------------------------------------------------------------
(* The end of a pass.                                                      *)

\* close_file(), field by field.
LEMMA ClosedFields ==
  ASSUME NEW h, HeapTyped(h)
  PROVE  /\ HeapTyped(close_file(h)) /\ close_file(h).dpc = h.dpc /\ close_file(h).gen = h.gen
         /\ close_file(h).fail = h.fail
         /\ \A n \in Node : close_file(h).node[n] \in {h.node[n], FreeNode}
         /\ \A k \in Proto : h.dpc[k] # NoNode => close_file(h).node[h.dpc[k]] = h.node[h.dpc[k]]
<1> DEFINE node == h.node
           dpc == h.dpc
           gen == h.gen
           fail == h.fail
           m == [n \in Node |-> IF \E k \in Proto : dpc[k] = n THEN node[n] ELSE FreeNode]
           g == close_file(h)
<1>1. /\ h \in HeapRec /\ node \in [Node -> NodeRec] /\ dpc \in [Proto -> Node \cup {NoNode}]
      /\ GenOK(gen) /\ DpcTyped(node, dpc) /\ fail \in {"", "abort", "exit"}
  BY HeapFields DEF HeapTyped
<1>2. h = HeapOf(node, dpc, gen, fail)
  BY <1>1, HeapIs
<1>3. g = [h EXCEPT !.node = m]
  BY DEF close_file
<1> HIDE DEF node, dpc, gen, fail, g
<1>4. m \in [Node -> NodeRec]
  BY <1>1, FreeNodeIsNode
<1>5. \A n \in Node : m[n] = IF \E k \in Proto : dpc[k] = n THEN node[n] ELSE FreeNode
  OBVIOUS
<1> HIDE DEF m
<1>6. g = HeapOf(m, dpc, gen, fail)
  BY ONLY <1>2, <1>3 DEF HeapOf
<1>7. g.node = m /\ g.dpc = dpc /\ g.gen = gen /\ g.fail = fail
  BY ONLY <1>6, HeapOfFields
<1>8. g \in HeapRec
  BY ONLY <1>1, <1>4, <1>6, HeapOfTyped DEF GenOK
<1>12. \A k \in Proto : dpc[k] # NoNode => dpc[k] \in Node /\ m[dpc[k]] = node[dpc[k]]
  BY <1>1, <1>5
<1>9. DpcTyped(m, dpc)
  BY <1>1, <1>12 DEF DpcTyped
<1>10. HeapTyped(g)
  BY <1>1, <1>7, <1>8, <1>9 DEF HeapTyped
<1>11. \A n \in Node : g.node[n] \in {node[n], FreeNode}
  BY <1>5, <1>7
<1> QED BY <1>7, <1>10, <1>11, <1>12 DEF g, node, dpc, gen, fail

\* What is left when all is returned.
Returns(h) ==
    /\ \A c \in Client : h.gen.m_ip_info[c].m_bitmap_port = {}
    /\ \A p \in DOMAIN Pools : h.gen.m_active_alloc[p] = 0
    /\ \A n \in Node : h.node[n] = FreeNode

\* When every node is free, everything is returned.
LEMMA NothingHeld ==
  ASSUME NEW h, HeapOK(h), \A n \in Node : h.node[n] = FreeNode
  PROVE  Returns(h)
<1> DEFINE H == Places(h.node)
           at == AtIn(h.node)
           gen == h.gen
<1>1. h.node \in [Node -> NodeRec] /\ PortsOK(H, at, gen) /\ GenOK(gen)
  BY HeapFields DEF HeapOK, HeapTyped
<1>2. H = {}
  <2>1. \A n \in Node : DOMAIN h.node[n].ports = {}
    BY FreeNodeIsNode
  <2> QED BY <2>1 DEF Places
<1> HIDE DEF H, at, gen
<1>3. \A c \in Client : gen.m_ip_info[c].m_bitmap_port = {}
  <2>1. \A c \in Client : \A a \in gen.m_ip_info[c].m_bitmap_port : FALSE
    BY <1>1, <1>2 DEF PortsOK
  <2>2. \A c \in Client : gen.m_ip_info[c].m_bitmap_port \in SUBSET Port
    BY <1>1, GenIs DEF GenOK, IpRec
  <2> QED BY <2>1, <2>2
<1>4. \A p \in DOMAIN Pools : gen.m_active_alloc[p] = 0
  <2>1. \A p : OfPool(H, at, p) = {}
    BY <1>2 DEF OfPool
  <2>2. Cardinality({}) = 0
    BY FS_EmptySet
  <2> QED BY <1>1, <2>1, <2>2, Zenon DEF PortsOK
<1> QED BY <1>3, <1>4 DEF Returns, gen

\* The closing pass ends: the open batches are flushed, and nothing else is left.
LEMMA Closing ==
  ASSUME NEW h, HeapOK(h), h.fail = "",
         \A i \in Node : h.node[i].m_type # "FREE" => \E k \in Proto : h.dpc[k] = i,
         NEW g, g = close_file(handler_defer_job_flush(h))
  PROVE  /\ HeapTyped(g) /\ g.fail \in {"", "abort", "exit"}
         /\ g.fail = "abort" => AnError(g.gen)
         /\ g.fail = "" => Returns(g)
<1> DEFINE f == flush_batch(h, "tcp")
           e == flush_batch(f, "udp")
<1>1. "tcp" \in Proto /\ "udp" \in Proto /\ \A k \in Proto : k = "tcp" \/ k = "udp"
  BY DEF Proto
<1>2. g = close_file(e)
  BY DEF handler_defer_job_flush
<1>3. Outcome(f) /\ (f.fail = "" => Flushed(h, "tcp", f))
  BY <1>1, FlushOutcome
<1> HIDE DEF f
<1>4. f.fail # "" => e = f
  BY DEF flush_batch
<1>5. ASSUME f.fail = "" PROVE Outcome(e) /\ (e.fail = "" => Flushed(f, "udp", e))
  <2>1. HeapOK(f)
    BY <1>3, <1>5 DEF Outcome
  <2> QED BY <1>1, <1>5, <2>1, FlushOutcome
<1> HIDE DEF e
<1>6. Outcome(e)
  BY <1>3, <1>4, <1>5
<1>7. /\ HeapTyped(e) /\ e.fail \in {"", "abort", "exit"}
      /\ e.fail = "abort" => AnError(e.gen)
  BY <1>6, HeapFields DEF Outcome, HeapTyped
<1>8. /\ HeapTyped(g) /\ g.gen = e.gen /\ g.fail = e.fail
      /\ \A n \in Node : g.node[n] \in {e.node[n], FreeNode}
  BY <1>2, <1>7, ClosedFields
<1>9. ASSUME g.fail = "" PROVE Returns(g)
  <2>1. e.fail = "" /\ f.fail = ""
    BY <1>4, <1>8, <1>9
  <2>2. h.dpc \in [Proto -> Node \cup {NoNode}] /\ NodeOK(h.node)
    BY HeapFields DEF HeapOK, HeapTyped
  <2>3. f.dpc["udp"] = h.dpc["udp"]
    BY <1>1, <1>3, <2>1 DEF Flushed
  <2>4. \A n \in Node : e.node[n] = FreeNode
    <3> SUFFICES ASSUME NEW n \in Node PROVE e.node[n] = FreeNode
      OBVIOUS
    <3>1. e.node[n] = IF n = h.dpc["udp"] THEN FreeNode
                      ELSE IF n = h.dpc["tcp"] THEN FreeNode ELSE h.node[n]
      BY <1>3, <1>5, <2>1, <2>3 DEF Flushed
    <3>2. h.node[n] = FreeNode \/ n = h.dpc["udp"] \/ n = h.dpc["tcp"]
      BY <1>1, <2>2 DEF NodeOK
    <3> QED BY <3>1, <3>2
  <2>5. Returns(e)
    <3>1. HeapOK(e)
      BY <1>6, <2>1 DEF Outcome
    <3> QED BY <2>4, <3>1, NothingHeld
  <2>6. \A n \in Node : g.node[n] = FreeNode
    BY <1>8, <2>4
  <2> QED BY <1>8, <2>5, <2>6 DEF Returns
<1> QED BY <1>7, <1>8, <1>9

-----------------------------------------------------------------------------
(* The invariant holds.                                                    *)

\* The heap that the next handler finds.
Kept(h) == HeapOf(h.node, h.dpc, h.gen, "")

\* It has the same fields, and is the same when nothing has failed.
LEMMA KeptIs ==
  ASSUME NEW h, HeapTyped(h)
  PROVE  /\ HeapTyped(Kept(h)) /\ (h.fail = "" => Kept(h) = h)
         /\ Kept(h).node = h.node /\ Kept(h).dpc = h.dpc /\ Kept(h).gen = h.gen
<1> DEFINE node == h.node
           dpc == h.dpc
           gen == h.gen
           g == Kept(h)
<1>1. /\ h \in HeapRec /\ node \in [Node -> NodeRec] /\ dpc \in [Proto -> Node \cup {NoNode}]
      /\ gen \in GenRec /\ GenOK(gen) /\ DpcTyped(node, dpc)
  BY HeapFields DEF HeapTyped
<1>2. h.fail = "" => g = h
  BY ONLY <1>1, HeapIs DEF g, Kept
<1>3. g = HeapOf(node, dpc, gen, "")
  BY DEF Kept
<1> HIDE DEF node, dpc, gen, g
<1>4. g.node = node /\ g.dpc = dpc /\ g.gen = gen
  <2>1. \A fail : /\ HeapOf(node, dpc, gen, fail).node = node
                  /\ HeapOf(node, dpc, gen, fail).dpc = dpc
                  /\ HeapOf(node, dpc, gen, fail).gen = gen
    BY ONLY HeapOfFields
  <2> QED BY ONLY <1>3, <2>1, Zenon
<1>5. g \in HeapRec
  <2>1. "" \in {"", "abort", "exit"}
    BY ONLY TRUE
  <2> QED BY ONLY <1>1, <1>3, <2>1, HeapOfTyped
<1>6. HeapTyped(g)
  BY ONLY <1>1, <1>4, <1>5 DEF HeapTyped
<1> QED BY <1>2, <1>4, <1>6 DEF node, dpc, gen, g

\* Running, the heap is as it should be.
LEMMA HeapNow ==
  ASSUME HeapInv, Running
  PROVE  /\ HeapOK(Heap) /\ Heap.fail = "" /\ Heap.node = m_node /\ Heap.dpc = m_dpc
         /\ Heap.gen = m_gen /\ GenOK(m_gen) /\ m_node \in [Node -> NodeRec]
         /\ m_dpc \in [Proto -> Node \cup {NoNode}]
         /\ DpcTyped(m_node, m_dpc) /\ NodeOK(m_node) /\ PassOK
<1>1. Heap.fail = "" /\ Heap.node = m_node /\ Heap.dpc = m_dpc /\ Heap.gen = m_gen
  BY ONLY TRUE DEF Heap
<1>2. HeapOK(Heap) /\ PassOK
  BY DEF HeapInv
<1> HIDE DEF Heap
<1>3. /\ Heap \in HeapRec /\ GenOK(Heap.gen) /\ DpcTyped(Heap.node, Heap.dpc) /\ NodeOK(Heap.node)
  BY ONLY <1>2 DEF HeapOK, HeapTyped
<1>4. Heap.node \in [Node -> NodeRec] /\ Heap.dpc \in [Proto -> Node \cup {NoNode}]
  BY ONLY <1>3, HeapFields
<1> QED BY ONLY <1>1, <1>2, <1>3, <1>4, Zenon

\* A handler went well, or the process ended in it, and the pass goes on.
LEMMA CommitIs ==
  ASSUME NEW h, NEW next, Commit(h, next)
  PROVE  /\ m_node' = h.node /\ m_dpc' = h.dpc /\ m_gen' = h.gen /\ Heap' = Kept(h)
         /\ h.fail # "" => phase' = h.fail
         /\ h.fail = "" => phase' = next
BY DEF Commit, Heap, Kept, HeapOf

\* The process ended in the handler.
LEMMA Ends ==
  ASSUME NEW h, HeapTyped(h), NEW next, Commit(h, next), h.fail # "",
         h.fail = "abort" => AnError(h.gen)
  PROVE  HeapInv'
<1>1. m_gen' = h.gen /\ Heap' = Kept(h) /\ phase' = h.fail
  BY CommitIs
<1>2. h.fail \in {"abort", "exit"}
  BY HeapFields DEF HeapTyped
<1>3. HeapTyped(Heap)'
  BY <1>1, KeptIs
<1>4. ~(Running') /\ (phase \in Phase)'
  BY <1>1, <1>2 DEF Running, Phase
<1>5. AssertsFailOnlyOnIllegalPort'
  BY <1>1 DEF AssertsFailOnlyOnIllegalPort, AnError
<1>6. CloseReturnsEverything'
  BY <1>1, <1>2 DEF CloseReturnsEverything
<1>7. (phase \in {"abort", "exit"})'
  BY <1>1, <1>2
<1> QED BY <1>3, <1>4, <1>5, <1>6, <1>7 DEF HeapInv

\* The handler went well.
LEMMA GoesOn ==
  ASSUME NEW h, HeapOK(h), h.fail = "", NEW next \in {"gen", "close"}, Commit(h, next), PassOK'
  PROVE  HeapInv'
<1>1. m_gen' = h.gen /\ Heap' = Kept(h) /\ phase' = next
  BY CommitIs
<1>2. HeapTyped(Heap)' /\ HeapOK(Heap)'
  BY <1>1, KeptIs DEF HeapOK
<1>3. (phase \in Phase)'
  BY <1>1 DEF Phase
<1>4. AssertsFailOnlyOnIllegalPort' /\ CloseReturnsEverything'
  BY <1>1 DEF AssertsFailOnlyOnIllegalPort, CloseReturnsEverything
<1>5. HasRoom(m_node, m_dpc)'
  BY CommitIs DEF HasRoom, HeapOK, DpcOK
<1> QED BY <1>2, <1>3, <1>4, <1>5 DEF HeapInv

\* A handler that leaves the EXIT_SCHED nodes alone keeps the invariant.
LEMMA HandlerKeeps ==
  ASSUME HeapInv, Running, NEW h, Handled(m_node, h), Commit(h, phase),
         m_terminated_by_master' = m_terminated_by_master
  PROVE  HeapInv'
<1>1. Outcome(h) /\ (h.fail = "" => SameExits(m_node, h.node))
  BY DEF Handled
<1>2. CASE h.fail # ""
  BY <1>1, <1>2, Ends DEF Outcome
<1>3. CASE h.fail = ""
  <2>1. m_node' = h.node /\ phase' = phase /\ phase \in {"gen", "close"}
    BY <1>3, CommitIs DEF Running
  <2>2. ExitNodes' = ExitNodes
    BY <1>1, <1>3, <2>1 DEF ExitNodes, SameExits
  <2>3. PassOK'
    BY <2>1, <2>2, HeapNow DEF PassOK
  <2>4. HeapOK(h)
    BY <1>1, <1>3 DEF Outcome
  <2> QED BY <1>3, <2>1, <2>3, <2>4, GoesOn
<1> QED BY <1>2, <1>3

\* The thread starts as it should.
LEMMA FlowInit == Init => FlowInv
<1> SUFFICES ASSUME Init PROVE FlowInv
  OBVIOUS
<1>1. /\ m_terminated_by_master = FALSE /\ phase = "gen"
      /\ m_tmpl = [t \in DOMAIN Templates |->
                      [m_cnt |-> 0, m_cache_client_idx |-> 0, m_flowcnt |-> 0]]
  BY DEF Init
<1>2. TmplOK
  <2>1. \A t \in DOMAIN Templates : m_tmpl[t].m_cnt = 0 /\ m_tmpl[t].m_cache_client_idx = 0
    BY <1>1
  <2>2. \A t \in DOMAIN Templates : /\ Templates[t].w \in Nat \ {0}
                                    /\ Pools[Templates[t].pool].ips \in Nat \ {0}
    BY FlowGenAssumption
  <2> QED BY <2>1, <2>2 DEF TmplOK
<1>3. m_tmpl = [t \in DOMAIN Templates |-> m_tmpl[t]]
  BY <1>1
<1>4. m_dpc = [k \in Proto |-> NoNode]
  BY DEF Init
<1>5. /\ m_node \in [Node -> NodeRec] /\ \A n \in Node : m_node[n].ports = << >>
      /\ \A n \in Node : /\ m_node[n].m_type = "EXIT_SCHED" <=> n = 3
                         /\ m_node[n].m_type = "FREE" => m_node[n] = FreeNode
                         /\ m_node[n].m_type # "FLOW_PKT"
  <2>1. m_node = [n \in Node |-> CASE n = 1 -> Plain("FLOW_FIF")
                                  [] n = 2 -> Plain("FLOW_SYNC")
                                  [] n = 3 -> Plain("EXIT_SCHED")
                                  [] OTHER -> FreeNode]
    BY DEF Init
  <2>2. \A type \in NodeType : /\ Plain(type) \in NodeRec /\ Plain(type).ports = << >>
                               /\ Plain(type).m_type = type
    BY DEF Plain, NodeRec
  <2>3. /\ "FLOW_FIF" \in NodeType /\ "FLOW_SYNC" \in NodeType /\ "EXIT_SCHED" \in NodeType
        /\ "FREE" \in NodeType
    BY DEF NodeType
  <2>4. \A n \in Node : /\ n = 1 => m_node[n] = Plain("FLOW_FIF")
                        /\ n = 2 => m_node[n] = Plain("FLOW_SYNC")
                        /\ n = 3 => m_node[n] = Plain("EXIT_SCHED")
                        /\ n \notin {1, 2, 3} => m_node[n] = FreeNode
    BY <2>1
  <2>5. \A n \in Node : \E type \in {"FLOW_FIF", "FLOW_SYNC", "EXIT_SCHED", "FREE"} :
           m_node[n] = Plain(type) /\ (type = "EXIT_SCHED" <=> n = 3)
    BY <2>4 DEF FreeNode
  <2>6. DOMAIN m_node = Node /\ m_node = [n \in Node |-> m_node[n]]
    BY <2>1
  <2>7. \A n \in Node : m_node[n] \in NodeRec
    BY <2>2, <2>3, <2>5
  <2>8. m_node \in [Node -> NodeRec]
    BY <2>6, <2>7
  <2> QED BY <2>2, <2>3, <2>5, <2>8 DEF FreeNode
<1>6. /\ GenOK(m_gen) /\ \A p \in DOMAIN Pools : m_gen.m_active_alloc[p] = 0
      /\ \A c \in Client : m_gen.m_ip_info[c].m_bitmap_port = {}
  <2>1. m_gen = [m_ip_info |-> [c \in Client |-> NewIp(Pools[c[1]].large)],
                m_cur_idx |-> [p \in DOMAIN Pools |-> 0],
                m_active_alloc |-> [p \in DOMAIN Pools |-> 0],
                m_port_allocation_error |-> [p \in DOMAIN Pools |-> FALSE]]
    BY DEF Init
  <2>2. \A c \in Client : /\ NewIp(Pools[c[1]].large) \in IpRec
                          /\ NewIp(Pools[c[1]].large).m_bitmap_port = {}
                          /\ NewIp(Pools[c[1]].large).large = Large(c)
    <3>1. \A c \in Client : Large(c) \in BOOLEAN
      BY ClientPool
    <3>2. MinPort \in MinPort .. MaxPort + 1
      BY PortAssumption
    <3>3. \A b \in BOOLEAN : /\ NewIp(b) \in IpRec /\ NewIp(b).m_bitmap_port = {}
                             /\ NewIp(b).large = b
      BY <3>2 DEF NewIp, IpRec
    <3> QED BY <3>1, <3>3 DEF Large
  <2>3. [c \in Client |-> NewIp(Pools[c[1]].large)] \in [Client -> IpRec]
    BY <2>2
  <2>4. m_gen \in GenRec
    BY <2>1, <2>3 DEF GenRec
  <2>5. \A p \in DOMAIN Pools : 0 < Pools[p].ips
    BY FlowGenAssumption
  <2>6. /\ \A p \in DOMAIN Pools : m_gen.m_cur_idx[p] = 0 /\ m_gen.m_active_alloc[p] = 0
        /\ \A c \in Client : m_gen.m_ip_info[c] = NewIp(Pools[c[1]].large)
    BY <2>1
  <2> QED BY <2>2, <2>4, <2>5, <2>6 DEF GenOK
<1>7. Places(m_node) = {}
  BY <1>5 DEF Places
<1>8. PortsOK(Places(m_node), AtIn(m_node), m_gen)
  <2>1. AtIn(m_node) = [x \in {} |-> m_node[x[1]].ports[x[2]]]
    BY <1>7 DEF AtIn
  <2>2. IsFiniteSet({}) /\ Cardinality({}) = 0
    BY FS_EmptySet
  <2>3. \A p : OfPool({}, AtIn(m_node), p) = {}
    BY DEF OfPool
  <2>4. AtIn(m_node) \in [{} -> HeldPort]
    BY <2>1
  <2> DEFINE at == AtIn(m_node)
  <2> HIDE DEF at
  <2>5. at \in [{} -> HeldPort] /\ \A p : OfPool({}, at, p) = {}
    BY <2>3, <2>4 DEF at
  <2>6. \A p \in DOMAIN Pools : m_gen.m_active_alloc[p] = Cardinality(OfPool({}, at, p))
    BY <1>6, <2>2, <2>5, Zenon
  <2>7. PortsOK({}, at, m_gen)
    <3>1. \A c \in Client : \A a \in m_gen.m_ip_info[c].m_bitmap_port : FALSE
      BY ONLY <1>6, Zenon
    <3> QED BY ONLY <2>2, <2>5, <2>6, <3>1, Zenon DEF PortsOK
  <2> QED BY <1>7, <2>7 DEF at
<1>9. NodeOK(m_node) /\ DpcTyped(m_node, m_dpc) /\ DpcOK(m_node, m_dpc) /\ HasRoom(m_node, m_dpc)
  BY <1>4, <1>5 DEF NodeOK, DpcTyped, DpcOK, HasRoom, Proto
<1>10. m_dpc \in [Proto -> Node \cup {NoNode}]
  BY <1>4
<1>11. HeapOK(Heap)
  <2>1. Heap.node = m_node /\ Heap.dpc = m_dpc /\ Heap.gen = m_gen
    BY ONLY TRUE DEF Heap
  <2>2. m_gen \in GenRec
    BY <1>6 DEF GenOK
  <2>3. Heap \in HeapRec
    BY ONLY <1>5, <1>10, <2>2 DEF Heap, HeapRec
  <2> HIDE DEF Heap
  <2> QED BY ONLY <1>6, <1>8, <1>9, <2>1, <2>3 DEF HeapOK, HeapTyped
<1>12. PassOK
  <2>1. 3 \in Node
    BY FlowGenAssumption DEF Node
  <2>2. ExitNodes = {3}
    BY <1>5, <2>1 DEF ExitNodes
  <2> QED BY <1>1, <2>2 DEF PassOK
<1>13. HeapInv
  BY <1>1, <1>9, <1>11, <1>12
     DEF HeapInv, HeapOK, Phase, AssertsFailOnlyOnIllegalPort, CloseReturnsEverything
<1> QED BY <1>1, <1>2, <1>3, <1>13 DEF FlowInv

-----------------------------------------------------------------------------
(* The handlers.                                                           *)

\* FLOW_PKT keeps the invariant.
LEMMA PktKeeps ==
  ASSUME HeapInv, NEW n \in Node, flow_pkt(n)
  PROVE  HeapInv'
<1>1. /\ Running /\ m_node[n].m_type = "FLOW_PKT"
      /\ m_terminated_by_master' = m_terminated_by_master
  BY DEF flow_pkt, Pop
<1>2. HeapOK(Heap) /\ Heap.fail = "" /\ Heap.node = m_node
      /\ m_node \in [Node -> NodeRec] /\ NodeOK(m_node)
  BY <1>1, HeapNow
<1>3. /\ m_node[n].left \in Nat /\ m_node[n].tmpl \in DOMAIN Templates
  BY <1>1, <1>2 DEF NodeRec, NodeOK
<1>4. Templates[m_node[n].tmpl].pkts \in Nat
  BY <1>3, FlowGenAssumption
<1> HIDE DEF Heap
<1>5. \A x \in Nat : \A g : g = [Heap EXCEPT !.node[n].left = x] => Handled(m_node, g)
  BY <1>1, <1>2, LeftSet
<1>6. CASE m_node[n].left > 1
  <2> DEFINE x == m_node[n].left - 1
             g == [Heap EXCEPT !.node[n].left = x]
  <2>1. x \in Nat
    BY <1>3, <1>6
  <2>2. Commit([Heap EXCEPT !.node[n].left = @ - 1], phase)
    BY <1>6 DEF flow_pkt
  <2>3. [Heap EXCEPT !.node[n].left = @ - 1] = g
    BY ONLY <1>2
  <2>4. Commit(g, phase)
    BY ONLY <2>2, <2>3, Zenon
  <2> HIDE DEF x
  <2>5. Handled(m_node, g)
    BY <1>5, <2>1
  <2> HIDE DEF g
  <2> QED BY <1>1, <2>4, <2>5, HandlerKeeps
<1>7. CASE ~(m_node[n].left > 1) /\ Repeats(n)
  <2> DEFINE x == Templates[m_node[n].tmpl].pkts
             g == [Heap EXCEPT !.node[n].left = x]
  <2>1. Commit(g, phase)
    BY <1>7 DEF flow_pkt
  <2>2. x \in Nat
    BY <1>4
  <2> HIDE DEF x
  <2>3. Handled(m_node, g)
    BY <1>5, <2>2
  <2> HIDE DEF g
  <2> QED BY <1>1, <2>1, <2>3, HandlerKeeps
<1>8. CASE ~(m_node[n].left > 1) /\ ~Repeats(n)
  <2> DEFINE g == free_last_flow_node(Heap, n)
  <2>1. Commit(g, phase)
    BY <1>8 DEF flow_pkt
  <2>2. Handled(m_node, g)
    BY <1>1, <1>2, FlowFreed
  <2> HIDE DEF g
  <2> QED BY <1>1, <2>1, <2>2, HandlerKeeps
<1> QED BY <1>6, <1>7, <1>8

\* A FLOW_FIF node ends.
LEMMA FifFreed ==
  ASSUME HeapInv, Running, NEW n \in Node, m_node[n].m_type = "FLOW_FIF"
  PROVE  Handled(m_node, free_node(Heap, n))
<1> DEFINE g == free_node(Heap, n)
<1>1. HeapOK(Heap) /\ Heap.fail = "" /\ Heap.node = m_node
  BY HeapNow
<1> HIDE DEF Heap
<1>2. /\ Outcome(g) /\ g.node[n] = FreeNode /\ \A i \in Node : i # n => g.node[i] = m_node[i]
  BY <1>1, PlainFreed
<1> HIDE DEF g
<1>3. SameExits(m_node, g.node)
  BY <1>2, FreeNodeIsNode DEF SameExits
<1> QED BY <1>2, <1>3 DEF Handled, g

\* FLOW_FIF in the closing pass keeps the invariant.
LEMMA FifCloseKeeps ==
  ASSUME HeapInv, NEW n \in Node, flow_fif_close(n)
  PROVE  HeapInv'
<1> DEFINE g == free_node(Heap, n)
<1>1. /\ Running /\ m_node[n].m_type = "FLOW_FIF"
      /\ m_terminated_by_master' = m_terminated_by_master /\ Commit(g, phase)
  BY DEF flow_fif_close, Pop
<1>2. Handled(m_node, g)
  BY <1>1, FifFreed
<1> HIDE DEF g
<1> QED BY <1>1, <1>2, HandlerKeeps

\* FLOW_DEFER_PORT_RELEASE keeps the invariant.
LEMMA DeferKeeps ==
  ASSUME HeapInv, NEW n \in Node, flow_defer(n)
  PROVE  HeapInv'
<1> DEFINE held == m_node[n].ports
           g == free_node(FreePorts(Heap, held), n)
<1>1. /\ Running /\ m_node[n].m_type = "FLOW_DEFER_PORT_RELEASE" /\ n \in Queue(m_node, m_dpc)
      /\ m_terminated_by_master' = m_terminated_by_master
      /\ Commit(free_node(handler_defer_job(Heap, n), n), phase)
  BY DEF flow_defer, Pop
<1>2. HeapOK(Heap) /\ Heap.fail = "" /\ Heap.node = m_node /\ Heap.dpc = m_dpc
      /\ m_node \in [Node -> NodeRec]
  BY <1>1, HeapNow
<1> HIDE DEF Heap
<1>3. Commit(g, phase)
  BY <1>1, <1>2 DEF handler_defer_job
<1>4. \A k \in Proto : Heap.dpc[k] # n
  BY <1>1, <1>2 DEF Queue
<1>5. PICK q : Lists(held, q, NodePlaces(m_node, n), AtIn(m_node))
  BY <1>2, ListedInOrder
<1>6. Heap.node[n].m_type # "EXIT_SCHED"
  BY <1>1, <1>2
<1> HIDE DEF held
<1>7. Handled(m_node, g)
  BY <1>2, <1>4, <1>5, <1>6, ReleaseOutcome
<1> HIDE DEF g
<1> QED BY <1>1, <1>3, <1>7, HandlerKeeps

\* The client of the next flow, and the index of the pool after it.
LEMMA TupleIs ==
  ASSUME GenOK(m_gen), TmplOK, NEW t \in DOMAIN Templates
  PROVE  /\ Templates[t].pool \in DOMAIN Pools /\ TupleClient(t) \in Client
         /\ TupleClient(t)[1] = Templates[t].pool
         /\ TupleClient(t)[2] \in 0 .. Pools[Templates[t].pool].ips - 1
<1> DEFINE p == Templates[t].pool
           i == IF m_tmpl[t].m_cnt = 0 THEN m_gen.m_cur_idx[p] ELSE m_tmpl[t].m_cache_client_idx
<1>1. p \in DOMAIN Pools
  BY FlowGenAssumption
<1>2. Pools[p].ips \in Nat \ {0}
  BY <1>1, FlowGenAssumption
<1>3. TupleClient(t) = <<p, i>>
  BY DEF TupleClient
<1>4. m_gen.m_cur_idx \in [DOMAIN Pools -> Nat] /\ m_gen.m_cur_idx[p] < Pools[p].ips
  BY <1>1 DEF GenOK, GenRec
<1>5. m_tmpl[t].m_cache_client_idx \in 0 .. Pools[p].ips - 1
  BY DEF TmplOK
<1>6. m_gen.m_cur_idx[p] \in 0 .. Pools[p].ips - 1
  BY <1>1, <1>2, <1>4
<1>7. i \in 0 .. Pools[p].ips - 1
  BY <1>5, <1>6
<1> HIDE DEF p, i
<1>8. <<p, i>> \in Client
  <2>1. <<p, i>> \in {p} \X (0 .. Pools[p].ips - 1)
    BY <1>7
  <2> QED BY <1>1, <2>1 DEF Client
<1> QED BY <1>1, <1>3, <1>7, <1>8 DEF p

\* The index of a pool stays within the pool.
LEMMA IndexIs ==
  ASSUME GenOK(m_gen), NEW p \in DOMAIN Pools,
         NEW idx, idx \in inc_cur_idx(p) \/ idx = m_gen.m_cur_idx[p]
  PROVE  idx \in 0 .. Pools[p].ips - 1
<1> DEFINE x == m_gen.m_cur_idx[p]
<1>1. Pools[p].ips \in Nat \ {0}
  BY FlowGenAssumption
<1>2. x \in Nat /\ x < Pools[p].ips
  BY DEF GenOK, GenRec
<1>3. inc_cur_idx(p) = IF Pools[p].random THEN 0 .. Pools[p].ips - 1
                       ELSE {IF x + 1 >= Pools[p].ips THEN 0 ELSE x + 1}
  BY DEF inc_cur_idx
<1>4. idx \in inc_cur_idx(p) \/ idx = x
  OBVIOUS
<1> HIDE DEF x
<1> QED BY <1>1, <1>2, <1>3, <1>4

\* The template's own counters after a flow of it.
LEMMA TmplKeeps ==
  ASSUME GenOK(m_gen), TmplOK, m_tmpl = [s \in DOMAIN Templates |-> m_tmpl[s]],
         NEW t \in DOMAIN Templates, NEW cnt, NEW e,
         e = [m_cnt |-> IF m_tmpl[t].m_cnt + 1 >= Templates[t].w THEN 0 ELSE m_tmpl[t].m_cnt + 1,
              m_cache_client_idx |-> TupleClient(t)[2], m_flowcnt |-> cnt],
         m_tmpl' = [m_tmpl EXCEPT ![t] = e]
  PROVE  TmplOK' /\ m_tmpl' = [s \in DOMAIN Templates |-> m_tmpl'[s]]
<1>1. /\ DOMAIN m_tmpl = DOMAIN Templates
      /\ m_tmpl'[t] = e /\ \A s \in DOMAIN Templates : s # t => m_tmpl'[s] = m_tmpl[s]
  OBVIOUS
<1>2. m_tmpl' = [s \in DOMAIN Templates |-> m_tmpl'[s]]
  BY <1>1
<1>3. e.m_cache_client_idx \in 0 .. Pools[Templates[t].pool].ips - 1
  BY TupleIs
<1>4. Templates[t].w \in Nat \ {0} /\ m_tmpl[t].m_cnt \in 0 .. Templates[t].w - 1
  BY FlowGenAssumption DEF TmplOK
<1>5. e.m_cnt \in 0 .. Templates[t].w - 1
  BY <1>4
<1>6. \A s \in DOMAIN Templates :
         /\ m_tmpl'[s].m_cnt \in 0 .. Templates[s].w - 1
         /\ m_tmpl'[s].m_cache_client_idx \in 0 .. Pools[Templates[s].pool].ips - 1
  BY <1>1, <1>3, <1>5 DEF TmplOK
<1> QED BY <1>2, <1>6 DEF TmplOK

\* A node is taken from the pool and a flow opened on it, or the pool is empty.
LEMMA FlowTaken ==
  ASSUME HeapInv, Running, TmplOK, NEW t \in DOMAIN Templates,
         NEW idx, idx \in 0 .. Pools[Templates[t].pool].ips - 1,
         NEW g, g = create_node(Heap, Plain("FLOW_PKT"))
  PROVE  /\ g.fail # "" => Handled(m_node, g)
         /\ g.fail = "" => Handled(m_node, generate_flow(g, Fresh(Heap), t, idx))
<1> DEFINE fail == Heap.fail
           c == TupleClient(t)
           obj == Plain("FLOW_PKT")
           b == Fresh(Heap)
<1>1. /\ HeapOK(Heap) /\ fail = "" /\ Heap.node = m_node /\ Heap.dpc = m_dpc
      /\ Heap.gen = m_gen /\ GenOK(m_gen) /\ m_node \in [Node -> NodeRec]
      /\ m_dpc \in [Proto -> Node \cup {NoNode}]
      /\ DpcTyped(m_node, m_dpc) /\ NodeOK(m_node)
  BY HeapNow
<1> HIDE DEF Heap
<1>2. DpcOK(m_node, m_dpc) /\ PortsOK(Places(m_node), AtIn(m_node), m_gen) /\ Heap \in HeapRec
  BY ONLY <1>1 DEF HeapOK, HeapTyped
<1>3. Heap = HeapOf(m_node, m_dpc, m_gen, fail)
  BY ONLY <1>1, <1>2, HeapIs
<1>4. c \in Client /\ idx \in 0 .. Pools[c[1]].ips - 1 /\ c = TupleClient(t)
  BY <1>1, TupleIs
<1>5. obj \in NodeRec
  BY DEF Plain, NodeRec, NodeType
<1> HIDE DEF fail, c, obj
<1>6. /\ FreeNodes(Heap) = {} => create_node(Heap, obj) = HeapOf(m_node, m_dpc, m_gen, "exit")
      /\ FreeNodes(Heap) # {} =>
            /\ b \in Node /\ m_node[b].m_type = "FREE"
            /\ create_node(Heap, obj) = HeapOf(SetAt(m_node, b, obj), m_dpc, m_gen, fail)
  BY ONLY <1>3, CreateFields
<1>7. g = create_node(Heap, obj)
  BY DEF obj
<1> HIDE DEF b
<1>8. CASE FreeNodes(Heap) = {}
  <2>1. g = HeapOf(m_node, m_dpc, m_gen, "exit")
    BY ONLY <1>6, <1>7, <1>8
  <2>2. Handled(m_node, g)
    BY ONLY <1>1, <2>1, Exited
  <2>3. g.fail = "exit"
    BY ONLY <2>1, HeapOfFields
  <2> QED BY <2>2, <2>3
<1>9. CASE FreeNodes(Heap) # {}
  <2>1. b \in Node /\ m_node[b].m_type = "FREE"
    BY ONLY <1>6, <1>9
  <2>2. g = HeapOf(SetAt(m_node, b, obj), m_dpc, m_gen, fail)
    BY ONLY <1>6, <1>7, <1>9
  <2>3. g.fail = fail
    BY ONLY <2>2, HeapOfFields
  <2>4. fail = "" => Handled(m_node,
           generate_flow(HeapOf(SetAt(m_node, b, obj), m_dpc, m_gen, fail), b, t, idx))
    BY ONLY t \in DOMAIN Templates, <1>1, <1>2, <1>4, <1>5, <2>1, FlowOpened
  <2>5. Handled(m_node, generate_flow(g, b, t, idx))
    BY ONLY <1>1, <2>2, <2>4, Zenon
  <2> QED BY <1>1, <2>3, <2>5 DEF b
<1> QED BY <1>8, <1>9

\* FLOW_FIF keeps the invariant.
LEMMA FifKeeps ==
  ASSUME FlowInv, NEW n \in Node, flow_fif(n)
  PROVE  FlowInv'
<1>1. /\ HeapInv /\ TmplOK /\ m_tmpl = [t \in DOMAIN Templates |-> m_tmpl[t]]
      /\ Running /\ m_node[n].m_type = "FLOW_FIF"
      /\ m_terminated_by_master \in BOOLEAN
      /\ m_terminated_by_master' = m_terminated_by_master
  BY DEF flow_fif, Pop, FlowInv
<1>2. HeapOK(Heap) /\ Heap.node = m_node /\ GenOK(m_gen) /\ Heap.fail = ""
  BY <1>1, HeapNow
<1> HIDE DEF Heap
<1>3. ASSUME Commit(IF Open = {} THEN free_node(Heap, n) ELSE Heap, phase), UNCHANGED m_tmpl
      PROVE  FlowInv'
  <2> DEFINE g == IF Open = {} THEN free_node(Heap, n) ELSE Heap
  <2>1. Handled(m_node, g)
    <3>1. CASE Open = {}
      BY <1>1, <3>1, FifFreed
    <3>2. CASE Open # {}
      BY <1>2, <3>2 DEF Handled, Outcome, SameExits, HeapOK
    <3> QED BY <3>1, <3>2
  <2>2. Commit(g, phase)
    BY <1>3
  <2> HIDE DEF g
  <2>3. HeapInv'
    BY <1>1, <2>1, <2>2, HandlerKeeps
  <2> QED BY <1>1, <1>3, <2>3 DEF FlowInv, TmplOK
<1>4. ASSUME NEW t \in Open,
             NEW idx \in IF m_tmpl[t].m_cnt = 0 THEN inc_cur_idx(Templates[t].pool)
                         ELSE {m_gen.m_cur_idx[Templates[t].pool]},
             NEW g, g = create_node(Heap, Plain("FLOW_PKT")),
             Commit(IF g.fail # "" THEN g ELSE generate_flow(g, Fresh(Heap), t, idx), phase),
             m_tmpl' = [m_tmpl EXCEPT ![t] =
                         [m_cnt |-> IF @.m_cnt + 1 >= Templates[t].w THEN 0 ELSE @.m_cnt + 1,
                          m_cache_client_idx |-> TupleClient(t)[2],
                          m_flowcnt |-> IF Templates[t].limit = 0
                                        THEN 0 ELSE @.m_flowcnt + 1]]
      PROVE  FlowInv'
  <2>1. t \in DOMAIN Templates
    BY <1>4 DEF Open
  <2>2. Templates[t].pool \in DOMAIN Pools
    BY <1>1, <1>2, <2>1, TupleIs
  <2>3. idx \in 0 .. Pools[Templates[t].pool].ips - 1
    <3>1. idx \in inc_cur_idx(Templates[t].pool) \/ idx = m_gen.m_cur_idx[Templates[t].pool]
      BY <1>4
    <3> QED BY <1>2, <2>2, <3>1, IndexIs
  <2> DEFINE h == IF g.fail # "" THEN g ELSE generate_flow(g, Fresh(Heap), t, idx)
  <2>4. Handled(m_node, h)
    BY <1>1, <1>4, <2>1, <2>3, FlowTaken
  <2>5. Commit(h, phase)
    BY <1>4
  <2> HIDE DEF h
  <2>6. HeapInv'
    BY <1>1, <2>4, <2>5, HandlerKeeps
  <2> DEFINE cnt == IF Templates[t].limit = 0 THEN 0 ELSE m_tmpl[t].m_flowcnt + 1
             e == [m_cnt |-> IF m_tmpl[t].m_cnt + 1 >= Templates[t].w THEN 0
                             ELSE m_tmpl[t].m_cnt + 1,
                   m_cache_client_idx |-> TupleClient(t)[2], m_flowcnt |-> cnt]
  <2>7. m_tmpl' = [m_tmpl EXCEPT ![t] = e]
    BY <1>4
  <2> HIDE DEF cnt
  <2>8. TmplOK' /\ m_tmpl' = [s \in DOMAIN Templates |-> m_tmpl'[s]]
    BY <1>1, <1>2, <2>1, <2>7, TmplKeeps
  <2> QED BY <1>1, <2>6, <2>8 DEF FlowInv
<1> QED BY <1>3, <1>4 DEF flow_fif

\* The thread ends without a complete closing pass.
LEMMA CutKeeps ==
  ASSUME NEW h, HeapOK(h), h.fail = "", NEW g, g = close_file(h), Commit(g, "cut")
  PROVE  HeapInv'
<1>1. HeapTyped(h) /\ DpcOK(h.node, h.dpc)
  BY DEF HeapOK
<1>2. /\ HeapTyped(g) /\ g.dpc = h.dpc /\ g.fail = ""
      /\ \A k \in Proto : h.dpc[k] # NoNode => g.node[h.dpc[k]] = h.node[h.dpc[k]]
  BY <1>1, ClosedFields
<1>3. phase' = "cut" /\ Heap' = Kept(g) /\ m_node' = g.node /\ m_dpc' = g.dpc
  BY <1>2, CommitIs
<1>4. HeapTyped(Heap)'
  BY <1>2, <1>3, KeptIs
<1>5. HasRoom(m_node, m_dpc)'
  BY <1>1, <1>2, <1>3 DEF DpcOK, HasRoom
<1> QED BY <1>3, <1>4, <1>5
        DEF HeapInv, Phase, Running, AssertsFailOnlyOnIllegalPort, CloseReturnsEverything

\* The thread ends after the closing pass.
LEMMA DoneKeeps ==
  ASSUME NEW h, HeapOK(h), h.fail = "",
         \A i \in Node : h.node[i].m_type # "FREE" => \E k \in Proto : h.dpc[k] = i,
         NEW g, g = close_file(handler_defer_job_flush(h)), Commit(g, "done")
  PROVE  HeapInv'
<1>1. /\ HeapTyped(g) /\ g.fail \in {"", "abort", "exit"}
      /\ g.fail = "abort" => AnError(g.gen)
      /\ g.fail = "" => Returns(g)
  BY Closing
<1>2. CASE g.fail # ""
  BY <1>1, <1>2, Ends
<1>3. CASE g.fail = ""
  <2>1. /\ phase' = "done" /\ Heap' = Kept(g) /\ m_node' = g.node /\ m_dpc' = g.dpc
        /\ m_gen' = g.gen
    BY <1>3, CommitIs
  <2>2. HeapTyped(Heap)'
    BY <1>1, <2>1, KeptIs
  <2>3. CloseReturnsEverything'
    BY <1>1, <1>3, <2>1 DEF Returns, CloseReturnsEverything
  <2>4. HasRoom(m_node, m_dpc)'
    <3>1. DpcTyped(g.node, g.dpc) /\ g.dpc \in [Proto -> Node \cup {NoNode}]
      BY <1>1, HeapFields DEF HeapTyped
    <3>2. \A i \in Node : g.node[i].m_type = "FREE"
      BY <1>1, <1>3, FreeNodeIsNode DEF Returns
    <3>3. \A k \in Proto : g.dpc[k] = NoNode
      BY <3>1, <3>2 DEF DpcTyped
    <3> QED BY <2>1, <3>3 DEF HasRoom
  <2> QED BY <2>1, <2>2, <2>3, <2>4 DEF HeapInv, Phase, Running, AssertsFailOnlyOnIllegalPort
<1> QED BY <1>2, <1>3

\* flush_file() leaves its loop.
LEMMA LeaveKeeps ==
  ASSUME HeapInv, Running, NEW n \in Node, m_node[n].m_type \in {"FLOW_SYNC", "EXIT_SCHED"},
         m_node[n].m_type = "FLOW_SYNC" => Queue(m_node, m_dpc) \ {n} = {},
         LeaveLoop(free_node(Heap, n)), m_terminated_by_master' = m_terminated_by_master
  PROVE  HeapInv'
<1> DEFINE h == free_node(Heap, n)
<1>1. /\ HeapOK(Heap) /\ Heap.fail = "" /\ Heap.node = m_node /\ Heap.dpc = m_dpc
      /\ m_dpc \in [Proto -> Node \cup {NoNode}] /\ DpcTyped(m_node, m_dpc) /\ PassOK
  BY HeapNow
<1> HIDE DEF Heap
<1>2. LeaveLoop(h)
  OBVIOUS
<1>3. /\ Outcome(h) /\ h.fail = "" /\ h.dpc = m_dpc /\ h.node[n] = FreeNode
      /\ \A i \in Node : i # n => h.node[i] = m_node[i]
  <2>1. Heap.node[n].m_type \notin {"FLOW_PKT", "FLOW_DEFER_PORT_RELEASE"}
    BY <1>1
  <2> QED BY ONLY n \in Node, <1>1, <2>1, PlainFreed DEF h
<1> HIDE DEF h
<1>4. HeapOK(h)
  BY <1>3 DEF Outcome
<1>5. \A i \in ExitNodes : i \in Queue(m_node, m_dpc)
  <2> SUFFICES ASSUME NEW i \in ExitNodes PROVE i \in Queue(m_node, m_dpc)
    OBVIOUS
  <2>1. i \in Node /\ m_node[i].m_type = "EXIT_SCHED"
    BY DEF ExitNodes
  <2>2. \A k \in Proto : m_dpc[k] # i
    BY ONLY <1>1, <2>1, NodesAreNumbers DEF DpcTyped
  <2> QED BY <2>1, <2>2 DEF Queue
<1>6. ASSUME phase = "gen", ~m_terminated_by_master, Commit(h, "close")
      PROVE  HeapInv'
  <2>1. n \in ExitNodes
    BY <1>1, <1>5, <1>6 DEF PassOK, ExitNodes
  <2>2. \A i \in Node : m_node[i].m_type = "EXIT_SCHED" => i = n
    BY <1>1, <1>6, <2>1 DEF PassOK, ExitNodes
  <2>3. \A i \in Node : h.node[i].m_type # "EXIT_SCHED"
    BY <1>3, <2>2, FreeNodeIsNode
  <2>4. m_node' = h.node /\ phase' = "close"
    BY <1>3, <1>6, CommitIs
  <2>5. ExitNodes' = {}
    BY <2>3, <2>4 DEF ExitNodes
  <2>6. PassOK'
    BY <2>4, <2>5 DEF PassOK
  <2> QED BY <1>3, <1>4, <1>6, <2>6, GoesOn
<1>7. ASSUME Commit(close_file(h), "cut")
      PROVE  HeapInv'
  BY <1>3, <1>4, <1>7, CutKeeps
<1>8. ASSUME phase = "close", ~m_terminated_by_master,
             Commit(close_file(handler_defer_job_flush(h)), "done")
      PROVE  HeapInv'
  <2>1. m_node[n].m_type = "FLOW_SYNC"
    BY <1>1, <1>8 DEF PassOK, ExitNodes
  <2>2. \A i \in Node : i # n /\ m_node[i].m_type # "FREE" => \E k \in Proto : m_dpc[k] = i
    BY <2>1 DEF Queue
  <2>3. \A i \in Node : h.node[i].m_type # "FREE" => \E k \in Proto : h.dpc[k] = i
    BY <1>3, <2>2, FreeNodeIsNode
  <2> QED BY <1>3, <1>4, <1>8, <2>3, DoneKeeps
<1> QED BY <1>2, <1>6, <1>7, <1>8 DEF LeaveLoop

\* FLOW_SYNC keeps the invariant.
LEMMA SyncKeeps ==
  ASSUME HeapInv, NEW n \in Node, flow_sync(n)
  PROVE  HeapInv'
<1>1. /\ Running /\ m_node[n].m_type = "FLOW_SYNC"
      /\ m_terminated_by_master' = m_terminated_by_master
  BY DEF flow_sync, Pop
<1>2. HeapOK(Heap) /\ Heap.node = m_node /\ Heap.dpc = m_dpc /\ Heap.fail = ""
  BY <1>1, HeapNow
<1> HIDE DEF Heap
<1>3. CASE IsLastNode(Heap, n)
  <2>1. LeaveLoop(free_node(Heap, n)) /\ Queue(m_node, m_dpc) \ {n} = {}
    BY <1>2, <1>3 DEF flow_sync, IsLastNode
  <2> QED BY <1>1, <2>1, LeaveKeeps
<1>4. CASE ~IsLastNode(Heap, n)
  <2>1. Commit(Heap, phase)
    BY <1>4 DEF flow_sync
  <2>2. Handled(m_node, Heap)
    BY <1>2 DEF Handled, Outcome, SameExits, HeapOK
  <2> QED BY <1>1, <2>1, <2>2, HandlerKeeps
<1> QED BY <1>3, <1>4

\* FLOW_SYNC with the message of the master keeps the invariant.
LEMMA QuitKeeps ==
  ASSUME HeapInv, NEW n \in Node, flow_sync_quit(n)
  PROVE  HeapInv'
<1> DEFINE g == create_node(Heap, Plain("EXIT_SCHED"))
<1>1. Running /\ m_terminated_by_master' = TRUE /\ Commit(g, phase)
  BY DEF flow_sync_quit, Pop
<1>2. HeapOK(Heap) /\ Heap.node = m_node /\ Heap.fail = ""
  BY <1>1, HeapNow
<1> HIDE DEF Heap
<1>3. /\ Outcome(g)
      /\ g.fail = "" => \E b \in Node : g.node[b].m_type = "EXIT_SCHED"
  BY <1>2, ExitCreated
<1> HIDE DEF g
<1>4. CASE g.fail # ""
  BY <1>1, <1>3, <1>4, Ends DEF Outcome
<1>5. CASE g.fail = ""
  <2>1. m_node' = g.node /\ phase' = phase /\ phase \in {"gen", "close"}
    BY <1>1, <1>5, CommitIs DEF Running
  <2>2. ExitNodes' # {}
    BY <1>3, <1>5, <2>1 DEF ExitNodes
  <2>3. PassOK'
    BY <1>1, <2>2 DEF PassOK
  <2>4. HeapOK(g)
    BY <1>3, <1>5 DEF Outcome
  <2> QED BY <1>1, <1>5, <2>1, <2>3, <2>4, GoesOn
<1> QED BY <1>4, <1>5

\* EXIT_SCHED keeps the invariant.
LEMMA ExitKeeps ==
  ASSUME HeapInv, NEW n \in Node, exit_sched(n)
  PROVE  HeapInv'
<1>1. /\ Running /\ m_node[n].m_type = "EXIT_SCHED"
      /\ m_terminated_by_master' = m_terminated_by_master /\ LeaveLoop(free_node(Heap, n))
  BY DEF exit_sched, Pop
<1> QED BY <1>1, LeaveKeeps

\* FlowInv is inductive.
THEOREM FlowsAreConsistent == Spec => []FlowInv
<1>1. Init => FlowInv
  BY FlowInit
<1>2. FlowInv /\ [Next]_vars => FlowInv'
  <2> SUFFICES ASSUME FlowInv, [Next]_vars PROVE FlowInv'
    OBVIOUS
  <2>1. /\ HeapInv /\ TmplOK /\ m_tmpl = [t \in DOMAIN Templates |-> m_tmpl[t]]
        /\ m_terminated_by_master \in BOOLEAN
    BY DEF FlowInv
  <2>2. ASSUME HeapInv', m_tmpl' = m_tmpl, m_terminated_by_master' \in BOOLEAN
        PROVE  FlowInv'
    BY <2>1, <2>2 DEF FlowInv, TmplOK
  <2>3. ASSUME NEW n \in Node, flow_pkt(n) PROVE FlowInv'
    BY <2>1, <2>2, <2>3, PktKeeps DEF flow_pkt
  <2>4. ASSUME NEW n \in Node, flow_fif_close(n) PROVE FlowInv'
    BY <2>1, <2>2, <2>4, FifCloseKeeps DEF flow_fif_close
  <2>5. ASSUME NEW n \in Node, flow_defer(n) PROVE FlowInv'
    BY <2>1, <2>2, <2>5, DeferKeeps DEF flow_defer
  <2>6. ASSUME NEW n \in Node, flow_sync(n) PROVE FlowInv'
    BY <2>1, <2>2, <2>6, SyncKeeps DEF flow_sync
  <2>7. ASSUME NEW n \in Node, exit_sched(n) PROVE FlowInv'
    BY <2>1, <2>2, <2>7, ExitKeeps DEF exit_sched
  <2>8. ASSUME NEW n \in Node, flow_fif(n) PROVE FlowInv'
    BY <2>8, FifKeeps
  <2>9. ASSUME NEW n \in Node, flow_sync_quit(n) PROVE FlowInv'
    BY <2>1, <2>2, <2>9, QuitKeeps DEF flow_sync_quit
  <2>10. CASE UNCHANGED vars
    BY <2>10 DEF FlowInv, TmplOK, HeapInv, Heap, Running, PassOK, ExitNodes,
                 AssertsFailOnlyOnIllegalPort, CloseReturnsEverything, vars
  <2> QED BY <2>3, <2>4, <2>5, <2>6, <2>7, <2>8, <2>9, <2>10 DEF Next, Finish
<1> QED BY <1>1, <1>2, PTL DEF Spec

-----------------------------------------------------------------------------
(* What follows.                                                           *)

\* The places of the properties are those of the proofs.
LEMMA HoldsIs ==
  ASSUME m_node \in [Node -> NodeRec]
  PROVE  Holds = Places(m_node) /\ \A x \in Holds : HeldAt(x) = AtIn(m_node)[x]
<1>1. \A n \in Node : DOMAIN m_node[n].ports \subseteq Nat
  BY DEF NodeRec
<1>2. Holds = Places(m_node)
  <2>1. ASSUME NEW x \in Holds PROVE x \in Places(m_node)
    <3>1. PICK n \in Node : x \in {n} \X DOMAIN m_node[n].ports
      BY <2>1 DEF Holds
    <3>2. x = <<x[1], x[2]>> /\ x[1] = n /\ x[2] \in DOMAIN m_node[n].ports
      BY <3>1
    <3>3. x \in Node \X Nat
      BY <1>1, <3>2
    <3> QED BY <3>2, <3>3 DEF Places
  <2>2. ASSUME NEW x \in Places(m_node) PROVE x \in Holds
    <3>1. x \in Node \X Nat /\ x[2] \in DOMAIN m_node[x[1]].ports
      BY <2>2 DEF Places
    <3>2. x[1] \in Node /\ x = <<x[1], x[2]>>
      BY <3>1
    <3>3. x \in {x[1]} \X DOMAIN m_node[x[1]].ports
      BY <3>1, <3>2
    <3> QED BY <3>2, <3>3 DEF Holds
  <2> QED BY <2>1, <2>2
<1>3. \A x \in Places(m_node) : HeldAt(x) = AtIn(m_node)[x]
  BY DEF AtIn, HeldAt
<1> QED BY <1>2, <1>3

\* The two properties about what is held follow from PortsOK.
LEMMA HeldOnce ==
  ASSUME HeapInv
  PROVE  PortsHeldOnce /\ ActiveAllocIsExact
<1> SUFFICES ASSUME Running PROVE PortsHeldOnce /\ ActiveAllocIsExact
  BY DEF PortsHeldOnce, ActiveAllocIsExact
<1> DEFINE H == Places(m_node)
           at == AtIn(m_node)
<1>1. /\ HeapOK(Heap) /\ Heap.node = m_node /\ Heap.gen = m_gen
      /\ GenOK(m_gen) /\ m_node \in [Node -> NodeRec]
  BY HeapNow
<1> HIDE DEF Heap
<1>2. PortsOK(H, at, m_gen)
  BY <1>1 DEF HeapOK
<1>3. Holds = H /\ \A x \in H : HeldAt(x) = at[x]
  BY <1>1, HoldsIs
<1> HIDE DEF H, at
<1>4. PortsHeldOnce
  <2> SUFFICES ASSUME NEW c \in Client, ~Pools[c[1]].large, NEW a \in Port
               PROVE  Cardinality({x \in Holds : HeldAt(x) = Held(c, a)})
                         = IF a \in m_gen.m_ip_info[c].m_bitmap_port THEN 1 ELSE 0
    BY DEF PortsHeldOnce
  <2> DEFINE X == {x \in Holds : HeldAt(x) = Held(c, a)}
             B == m_gen.m_ip_info[c].m_bitmap_port
  <2>1. X = {x \in H : at[x] = Held(c, a)}
    BY <1>3
  <2>2. a # IllegalPort /\ ~Large(c) /\ Held(c, a).client = c /\ Held(c, a).port = a
    BY PortAssumption DEF Port, Large, Held
  <2> HIDE DEF X
  <2>3. CASE a \in B
    <3>1. PICK y \in H : at[y] = Held(c, a)
      BY <1>2, <2>3 DEF PortsOK
    <3>2. \A x \in H : at[x] = Held(c, a) => x = y
      BY <1>2, <2>2, <3>1 DEF PortsOK
    <3>3. X = {y}
      BY <2>1, <3>1, <3>2
    <3>4. Cardinality({y}) = 1
      BY FS_Singleton
    <3> QED BY <2>3, <3>3, <3>4 DEF X
  <2>4. CASE a \notin B
    <3>1. \A x \in H : at[x] # Held(c, a)
      BY <1>2, <2>2, <2>4 DEF PortsOK, Noted
    <3>2. X = {}
      BY <2>1, <3>1
    <3>3. Cardinality({}) = 0
      BY FS_EmptySet
    <3> QED BY <2>4, <3>2, <3>3 DEF X
  <2> QED BY <2>3, <2>4
<1>5. ActiveAllocIsExact
  <2> SUFFICES ASSUME NEW p \in DOMAIN Pools
               PROVE  m_gen.m_active_alloc[p]
                         = Cardinality({x \in Holds : HeldAt(x).client[1] = p})
    BY DEF ActiveAllocIsExact
  <2> DEFINE X == {x \in Holds : HeldAt(x).client[1] = p}
  <2>1. X = OfPool(H, at, p)
    BY <1>3 DEF OfPool
  <2> HIDE DEF X
  <2>2. m_gen.m_active_alloc[p] = Cardinality(OfPool(H, at, p))
    BY <1>2 DEF PortsOK
  <2> QED BY <2>1, <2>2 DEF X
<1> QED BY <1>4, <1>5

\* The types follow.
LEMMA FlowTypes ==
  ASSUME FlowInv
  PROVE  TypeOK
<1>1. Heap.node = m_node /\ Heap.dpc = m_dpc /\ Heap.gen = m_gen
  BY ONLY TRUE DEF Heap
<1>2. /\ HeapTyped(Heap) /\ phase \in Phase /\ m_terminated_by_master \in BOOLEAN /\ TmplOK
      /\ phase \notin {"abort", "exit"} => HasRoom(m_node, m_dpc)
  BY DEF FlowInv, HeapInv
<1> HIDE DEF Heap
<1>3. /\ m_node \in [Node -> NodeRec] /\ m_dpc \in [Proto -> Node \cup {NoNode}]
      /\ GenOK(m_gen) /\ DpcTyped(m_node, m_dpc) /\ m_gen \in GenRec
      /\ m_gen.m_ip_info \in [Client -> IpRec] /\ m_gen.m_cur_idx \in [DOMAIN Pools -> Nat]
      /\ m_gen.m_active_alloc \in [DOMAIN Pools -> Nat]
      /\ m_gen.m_port_allocation_error \in [DOMAIN Pools -> BOOLEAN]
  BY <1>1, <1>2, HeapFields DEF HeapTyped
<1>4. \A k \in Proto : m_dpc[k] # NoNode =>
          /\ m_node[m_dpc[k]].m_type = "FLOW_DEFER_PORT_RELEASE"
          /\ Len(m_node[m_dpc[k]].ports) < DeferNum \/ phase \in {"abort", "exit"}
  BY <1>2, <1>3 DEF DpcTyped, HasRoom
<1>5. \A p \in DOMAIN Pools : m_gen.m_cur_idx[p] \in 0 .. Pools[p].ips - 1
  <2> SUFFICES ASSUME NEW p \in DOMAIN Pools PROVE m_gen.m_cur_idx[p] \in 0 .. Pools[p].ips - 1
    OBVIOUS
  <2>1. m_gen.m_cur_idx[p] \in Nat /\ m_gen.m_cur_idx[p] < Pools[p].ips
    BY <1>3 DEF GenOK
  <2>2. Pools[p].ips \in Nat
    BY FlowGenAssumption
  <2> QED BY ONLY <2>1, <2>2
<1>6. \A t \in DOMAIN Templates : m_tmpl[t].m_cnt \in 0 .. Templates[t].w - 1
  BY <1>2 DEF TmplOK
<1> QED BY ONLY <1>2, <1>3, <1>4, <1>5, <1>6 DEF TypeOK, NodeRec, IpRec

\* bp_sim.cpp:3328, tuple_gen.h:276, 389, 449: a port is held in one place
\* and noted there, and the counters of a pool are exact, whatever the pools,
\* the templates and the size of the node pool.
THEOREM PortsInvHolds == Spec => []PortsInv
<1>1. FlowInv => PortsInv
  BY HeldOnce, FlowTypes DEF PortsInv, FlowInv
<1> QED BY <1>1, FlowsAreConsistent, PTL

\* tuple_gen.h:295-296: an assertion of return_port() fails only after a flow
\* was opened with the illegal port.
THEOREM AssertsHold == Spec => []AssertsFailOnlyOnIllegalPort
<1>1. FlowInv => AssertsFailOnlyOnIllegalPort
  BY DEF FlowInv, HeapInv
<1> QED BY <1>1, FlowsAreConsistent, PTL

\* bp_sim.cpp:3623-3633, 3696: after the closing pass every port and every
\* node is back.
THEOREM CloseReturns == Spec => []CloseReturnsEverything
<1>1. FlowInv => CloseReturnsEverything
  BY DEF FlowInv, HeapInv
<1> QED BY <1>1, FlowsAreConsistent, PTL
=============================================================================
