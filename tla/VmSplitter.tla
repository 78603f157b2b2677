----------------------------- MODULE VmSplitter -----------------------------
(***************************************************************************)
(* The variable of a stream's VM that makes its packets differ: a flow     *)
(* variable that counts up, down or at random, or a client variable that   *)
(* walks over addresses and ports.  TrexVmSplitter gives every core a part *)
(* of its range (or, if it cannot, all of it), the VM is compiled for each *)
(* core, and from then on each core steps its copy before every packet.    *)
(* Packet layout, offsets and the other instructions are left out.         *)
(***************************************************************************)
EXTENDS Integers

CONSTANTS
  DpCores,       \* m_dp_core_count
  FlowVars,      \* flow variables of streams
  ClientVars,    \* client variables of streams
  Longs,         \* values of a uint64_t: 2^64
  Ints,          \* values of a uint32_t: 2^32
  Ports,         \* values of a uint16_t: 2^16
  UnlimitedMin,  \* CLIENT_UNLIMITED_MIN_PORT
  MaxPackets     \* bound: packets a core sends

\* words is the number of values of the type of the variable: 2^8, 2^16, 2^32 or 2^64.
FlowVar   == [kind : {"flow"}, split : BOOLEAN, op : {"inc", "dec", "random"},
              words : Nat, min : Nat, max : Nat, init : Nat]
ClientVar == [kind : {"client"}, split : BOOLEAN, unlimited : BOOLEAN, limit : Nat,
              words : Nat, min : Nat, max : Nat, port_min : Nat, port_max : Nat]

\* sanity_check_valid_range is still to be written: the client has to see to it.
ASSUME FlowVarsAssumption ==
  \A v \in FlowVars :
    /\ v \in FlowVar
    /\ v.min <= v.init /\ v.init <= v.max
    /\ v.max < v.words /\ v.max < Longs
    /\ v.words <= Ints \/ v.words = Longs
ASSUME ClientVarsAssumption ==
  \A v \in ClientVars :
    /\ v \in ClientVar
    /\ v.min <= v.max /\ v.max < v.words /\ v.max < Longs
    /\ v.port_min <= v.port_max /\ v.port_max < Ports
    /\ v.limit < v.words
ASSUME SizesAssumption ==
  /\ DpCores \in Nat \ {0} /\ MaxPackets \in Nat
  /\ Longs \in Nat /\ Ints \in Nat \ {0} /\ Ints <= Longs /\ Ports \in Nat
  /\ UnlimitedMin \in Nat /\ UnlimitedMin < Ports

Vars == FlowVars \cup ClientVars
Cores == 1..DpCores

VARIABLES
  pc,     \* "split", "loop" over the cores, "run"; "trap": the process died
  var,    \* the split instruction of the stream
  k,      \* the core whose turn it is in the loop
  start, end,
  inst,   \* the instruction of each core: min, max, init
  mem,    \* the flow variables (BSS) of each core
  sent,   \* packets sent by each core
  parted  \* was the range split?

vars == <<pc, var, k, start, end, inst, mem, sent, parted>>

-----------------------------------------------------------------------------
(* Compiling the VM of a core.                                             *)

\* Mutant: no step back, the first value of the range is skipped.
get_bss_init_value_AsIs(op, lo, hi, init) == init

\* get_bss_init_value: one step back, since the VM steps before it writes.
get_bss_init_value(op, lo, hi, init) ==
  CASE op = "inc" -> IF init = lo THEN hi ELSE init - 1
    [] op = "dec" -> IF init = hi THEN lo ELSE init + 1
    [] OTHER -> init

build_bss(v, i) ==
  IF v.kind = "flow"
  THEN [val |-> get_bss_init_value(v.op, i.min, i.max, i.init) % v.words,
        port |-> 0, flow |-> 0]
  ELSE [val |-> IF i.min > 0 THEN i.min - 1 ELSE i.min,
        port |-> IF v.unlimited THEN UnlimitedMin ELSE v.port_min,
        flow |-> 0]

-----------------------------------------------------------------------------
(* TrexVmSplitter.                                                         *)

\* get_splitable_range: a range of all the values of its type has size 0.
get_splitable_range(v) ==
  (v.max - v.min + 1) % (IF v.kind = "flow" THEN Longs ELSE v.words)

\* split_internal and the checks of split_by_flow_var, split_by_flow_client_var.
Splits(v) ==
  /\ v.split
  /\ v.kind = "flow" => v.op # "random"
  /\ get_splitable_range(v) >= DpCores

range_part(v) == get_splitable_range(v) \div DpCores
leftover(v)   == get_splitable_range(v) % DpCores

Whole(v) == [min |-> v.min, max |-> v.max, init |-> IF v.kind = "flow" THEN v.init ELSE v.min]

Init ==
  /\ pc = "split" /\ var \in Vars
  /\ k = 1 /\ start = 0 /\ end = 0
  /\ inst = [c \in Cores |-> Whole(var)]
  /\ mem = [c \in Cores |-> build_bss(var, Whole(var))]
  /\ sent = [c \in Cores |-> 0]
  /\ parted = FALSE

\* The VM as it is for every core: no split variable, random, or too small a range.
split_clone ==
  /\ pc = "split" /\ ~Splits(var)
  /\ pc' = "run"
  /\ UNCHANGED <<var, k, start, end, inst, mem, sent, parted>>

\* Mutant: the remainder of the division is forgotten.
split_begin_NoLeftover ==
  /\ pc = "split" /\ Splits(var)
  /\ pc' = "loop" /\ parted' = TRUE
  /\ start' = var.min
  /\ end' = var.min + range_part(var) - 1
  /\ UNCHANGED <<var, k, inst, mem, sent>>

\* The first core handles a bit more.
split_begin ==
  /\ pc = "split" /\ Splits(var)
  /\ pc' = "loop" /\ parted' = TRUE
  /\ start' = var.min
  /\ end' = var.min + range_part(var) + leftover(var) - 1
  /\ UNCHANGED <<var, k, inst, mem, sent>>

\* The init value has no meaning after the split.
PartOf(v, lo, hi) ==
  [min |-> lo, max |-> hi, init |-> IF v.kind = "flow" /\ v.op = "dec" THEN hi ELSE lo]

\* One core; what the last round leaves in start and end is not used.
split_core ==
  /\ pc = "loop"
  /\ inst' = [inst EXCEPT ![k] = PartOf(var, start, end)]
  /\ mem' = [mem EXCEPT ![k] = build_bss(var, PartOf(var, start, end))]
  /\ start' = end + 1 /\ end' = end + range_part(var)
  /\ k' = k + 1
  /\ pc' = IF k = DpCores THEN "run" ELSE "loop"
  /\ UNCHANGED <<var, sent, parted>>

-----------------------------------------------------------------------------
(* Stepping the variable of a core.                                        *)

\* The generator makes 15 bits at a time, put together for the wider variables.
vm_rand16 == 0..(Ports \div 2) - 1
vm_rand32 == {a * Ports + b : a, b \in vm_rand16}
vm_rand64 == {a * Ints + b : a, b \in vm_rand32}

vm_rand(v) == IF v.words <= Ports THEN vm_rand16
              ELSE IF v.words <= Ints THEN vm_rand32 ELSE vm_rand64

\* What a random number is divided by: the size of the range as an int, of either sign,
\* and for a variable of 64 bits as a uint64_t again.
Divisor(v, i) ==
  LET low == (i.max - i.min + 1) % Ints IN
  IF v.words <= Ints \/ low < Ints \div 2 THEN low ELSE Longs - Ints + low

\* StreamDPOpFlowVar8 .. 64: run_inc, run_dec, run_rand.
FlowStep(v, i, m) ==
  CASE v.op = "inc" -> {IF m.val = i.max % v.words THEN i.min % v.words
                        ELSE (m.val + 1) % v.words}
    [] v.op = "dec" -> {IF m.val = i.min % v.words THEN i.max % v.words
                        ELSE (m.val - 1) % v.words}
    [] OTHER -> {(i.min + (r % Divisor(v, i))) % v.words : r \in vm_rand(v)}

\* StreamDPOpClientsLimit and StreamDPOpClientsUnLimit: the next address, and with
\* the last one the next port.
NextIp(v, i, m) == LET ip == (m.val + 1) % v.words IN IF ip > i.max THEN i.min ELSE ip

NextPort(v, i, m) ==
  LET port == (m.port + 1) % Ports IN
  IF (m.val + 1) % v.words <= i.max THEN m.port
  ELSE CASE v.unlimited /\ port = 0 -> UnlimitedMin
         [] ~v.unlimited /\ port > v.port_max -> v.port_min
         [] OTHER -> port

ClientStep(v, i, m) ==
  LET flow == (m.flow + 1) % v.words IN
  IF v.unlimited \/ v.limit = 0
  THEN [val |-> NextIp(v, i, m), port |-> NextPort(v, i, m), flow |-> m.flow]
  ELSE IF flow > v.limit
  THEN [val |-> i.min, port |-> v.port_min, flow |-> 1]
  ELSE [val |-> NextIp(v, i, m), port |-> NextPort(v, i, m), flow |-> flow]

Traps(v, i) == v.kind = "flow" /\ v.op = "random" /\ Divisor(v, i) = 0

\* A division by 0 ends the process.
run_traps(c) ==
  /\ pc = "run" /\ sent[c] < MaxPackets /\ Traps(var, inst[c])
  /\ pc' = "trap"
  /\ UNCHANGED <<var, k, start, end, inst, mem, sent, parted>>

\* alloc_node_with_vm: the program runs on the core's own variables.
run(c) ==
  /\ pc = "run" /\ sent[c] < MaxPackets /\ ~Traps(var, inst[c])
  /\ sent' = [sent EXCEPT ![c] = @ + 1]
  /\ \/ /\ var.kind = "flow"
        /\ \E val \in FlowStep(var, inst[c], mem[c]) : mem' = [mem EXCEPT ![c].val = val]
     \/ /\ var.kind = "client"
        /\ mem' = [mem EXCEPT ![c] = ClientStep(var, inst[c], mem[c])]
  /\ UNCHANGED <<pc, var, k, start, end, inst, parted>>

Next == split_clone \/ split_begin \/ split_core \/ \E c \in Cores : run(c) \/ run_traps(c)

Spec == Init /\ [][Next]_vars

-----------------------------------------------------------------------------
TypeOK ==
  /\ pc \in {"split", "loop", "run", "trap"} /\ var \in Vars
  /\ k \in 1..DpCores + 1 /\ start \in Nat /\ end \in Nat
  /\ inst \in [Cores -> [min : Nat, max : Nat, init : Nat]]
  /\ mem \in [Cores -> [val : Nat, port : Nat, flow : Nat]]
  /\ sent \in [Cores -> Nat] /\ parted \in BOOLEAN

\* The cores share out the range of the variable: every value is some core's, no value
\* is two cores', and no core is left without (split_by_flow_var,
\* split_by_flow_client_var).
SplitIsPartition ==
  pc = "run" /\ parted =>
    /\ \A v \in var.min..var.max : \E c \in Cores : v \in inst[c].min..inst[c].max
    /\ \A c, d \in Cores : c # d => inst[c].max < inst[d].min \/ inst[d].max < inst[c].min
    /\ \A c \in Cores : /\ var.min <= inst[c].min /\ inst[c].min <= inst[c].max
                        /\ inst[c].max <= var.max

Size(i) == i.max - i.min + 1

\* The n-th packet of a core with a variable that counts, from its first value on: the
\* range is walked through without a gap or a repeat, and over again
\* (get_bss_init_value, run_inc, run_dec).
FlowValueIsRight ==
  \A c \in Cores :
    LET i == inst[c]
        n == sent[c] - 1
    IN pc = "run" /\ var.kind = "flow" /\ sent[c] > 0 =>
         CASE var.op = "inc" -> mem[c].val = i.min + ((i.init - i.min + n) % Size(i))
           [] var.op = "dec" -> mem[c].val = i.max - ((i.max - i.init + n) % Size(i))
           [] OTHER -> TRUE

\* The size of the range has a sign, read as an int, that a variable of 64 bits keeps.
SignCounts(v) == v.words > Ints /\ Size(v) % Ints >= Ints \div 2

\* A random value is one of the range, but for a variable of 64 bits whose size has bit
\* 31 set; and the process dies of a division by 0 only if the size is a multiple of
\* 2^32 (run_rand).
RandomIsRight ==
  var.kind = "flow" /\ var.op = "random" =>
    /\ \A c \in Cores : sent[c] > 0 /\ ~SignCounts(var) => mem[c].val \in var.min..var.max
    /\ pc = "trap" => Size(var) % Ints = 0

\* The client's flow that packet n is of, from 0 on: a range from address 0 begins with
\* its second flow, and a limit of all the flow numbers there are is never passed.
FlowOf(v, i, n) ==
  LET first == IF i.min = 0 THEN 1 ELSE 0 IN
  IF v.unlimited \/ v.limit = 0 \/ v.limit + 1 = v.words \/ n < v.limit
  THEN n + first ELSE n % v.limit

\* Address and port of flow f: all the addresses, then the next port, and the first port
\* after the last one.  A range up to the last address of all goes on with address 0 and
\* does not come to the next port, and a range up to the last port goes on with port 0.
AddressOf(v, i, f) ==
  IF i.max + 1 = v.words THEN (i.min + f) % v.words ELSE i.min + (f % Size(i))

RoundOf(v, i, f) == IF i.max + 1 = v.words THEN 0 ELSE f \div Size(i)

FirstPort(v) == IF v.unlimited THEN UnlimitedMin ELSE v.port_min
LastPort(v)  == IF v.unlimited THEN Ports - 1 ELSE v.port_max

PortOf(v, r) ==
  IF ~v.unlimited /\ v.port_max + 1 = Ports THEN (v.port_min + r) % Ports
  ELSE FirstPort(v) + (r % (LastPort(v) - FirstPort(v) + 1))

\* Every packet of a core with a client variable is of the flow whose turn it is, from
\* the first one again at the flow limit (StreamDPOpClientsLimit::run,
\* StreamDPOpClientsUnLimit::run).
ClientFlowIsRight ==
  \A c \in Cores :
    LET f == FlowOf(var, inst[c], sent[c] - 1) IN
    pc = "run" /\ var.kind = "client" /\ sent[c] > 0 =>
      /\ mem[c].val = AddressOf(var, inst[c], f)
      /\ mem[c].port = PortOf(var, RoundOf(var, inst[c], f))

\* Every packet of every core carries the value that is its turn or, at random, one of
\* the range, whether it was split or copied, and no value leaves the natural numbers.
ValuesInv == TypeOK /\ FlowValueIsRight /\ RandomIsRight /\ ClientFlowIsRight
=============================================================================
