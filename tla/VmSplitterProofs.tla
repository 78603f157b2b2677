-------------------------- MODULE VmSplitterProofs --------------------------
(***************************************************************************)
(* The split of a variable's range is a partition of it, and every packet  *)
(* of every core carries the value the variable asks for, for any number   *)
(* of cores, any range and any word size (SplitIsPartition, ValuesInv).    *)
(*                                                                         *)
(* The loop of the splitter only adds up; what it adds up to is told by    *)
(* Lo and Hi, the part of the j-th core in closed form.  PartInv says that *)
(* the loop computes them, and the lemmas on arithmetic that they are the  *)
(* parts of the range.                                                     *)
(*                                                                         *)
(* The VM only steps; StepsInv tells what a core's memory holds after n    *)
(* steps: a flow variable starts one step back, which is a round less one  *)
(* step ahead, and a client variable counts flows, whose address and port  *)
(* are remainder and quotient by the number of addresses (MemAt); where    *)
(* the range ends with the last number of its type, the type wraps first.  *)
(* A random variable is never split, so that its divisor is the one of the *)
(* whole range (RandomSteps).                                              *)
(***************************************************************************)
EXTENDS VmSplitter, TLAPS

\* The part of core j of a range from min, in parts of size part, the first one
\* longer by rest.
Lo(min, part, rest, j) == min + (j - 1) * part + (IF j = 1 THEN 0 ELSE rest)
Hi(min, part, rest, j) == min + j * part + rest - 1

-----------------------------------------------------------------------------
\* Multiplying by a positive number keeps the order.
LEMMA MulMono == \A a, b, c \in Nat : a <= b => a * c <= b * c
BY Z3

\* One more part.
LEMMA MulNext == \A a, c \in Nat : (a + 1) * c = a * c + c
BY Z3

\* Division with remainder, as the splitter uses it.
LEMMA DivMod ==
  ASSUME NEW r \in Nat, NEW n \in Nat \ {0}
  PROVE  /\ r \div n \in Nat /\ r % n \in 0..n - 1
         /\ r = n * (r \div n) + (r % n)
BY Z3

\* A number below the modulus is its own remainder.
LEMMA ModSmall ==
  ASSUME NEW r \in Nat, NEW m \in Nat, r < m
  PROVE  r % m = r
BY Z3

\* A number divides itself.
LEMMA ModSelf ==
  ASSUME NEW m \in Nat \ {0}
  PROVE  m % m = 0
BY Z3

\* What the assumptions on the variables say of all of them.
LEMMA VarFacts ==
  ASSUME NEW v \in Vars
  PROVE  /\ v.min \in Nat /\ v.max \in Nat /\ v.words \in Nat
         /\ v.min <= v.max /\ v.max < v.words /\ v.max < Longs
<1>1. CASE v \in FlowVars
  BY <1>1, FlowVarsAssumption DEF FlowVar
<1>2. CASE v \in ClientVars
  BY <1>2, ClientVarsAssumption DEF ClientVar
<1> QED BY <1>1, <1>2 DEF Vars

\* A range that is split did not overflow its type.
LEMMA RangeIsExact ==
  ASSUME NEW v \in Vars, Splits(v)
  PROVE  get_splitable_range(v) = v.max - v.min + 1
<1> DEFINE r == v.max - v.min + 1
           m == IF v.kind = "flow" THEN Longs ELSE v.words
<1>1. r \in Nat /\ m \in Nat /\ r >= 1 /\ r <= m
  BY VarFacts, SizesAssumption
<1>2. r % m >= DpCores
  BY DEF Splits, get_splitable_range
<1> HIDE DEF r, m
<1>3. r # m
  BY <1>1, <1>2, ModSelf, SizesAssumption
<1>4. r % m = r
  BY <1>1, <1>3, ModSmall
<1> QED BY <1>4 DEF get_splitable_range, r, m

\* The parts are not empty and, with the rest, make up the range.
LEMMA PartsMakeUpRange ==
  ASSUME NEW v \in Vars, Splits(v)
  PROVE  /\ range_part(v) \in Nat \ {0}
         /\ leftover(v) \in Nat
         /\ v.max + 1 = v.min + DpCores * range_part(v) + leftover(v)
<1> DEFINE r == get_splitable_range(v)
<1>1. r = v.max - v.min + 1 /\ r \in Nat /\ r >= DpCores
  BY RangeIsExact, VarFacts DEF Splits
<1>2. /\ r \div DpCores \in Nat /\ r % DpCores \in 0..DpCores - 1
      /\ r = DpCores * (r \div DpCores) + (r % DpCores)
  BY <1>1, DivMod, SizesAssumption
<1>3. r \div DpCores # 0
  <2> SUFFICES ASSUME r \div DpCores = 0 PROVE FALSE
    OBVIOUS
  <2>1. r = r % DpCores
    BY <1>1, <1>2, SizesAssumption
  <2> QED BY <2>1, <1>1, <1>2, SizesAssumption
<1> HIDE DEF r
<1>4. range_part(v) = r \div DpCores /\ leftover(v) = r % DpCores
  BY DEF range_part, leftover, r
<1>5. /\ range_part(v) \in Nat \ {0} /\ leftover(v) \in Nat
      /\ r = DpCores * range_part(v) + leftover(v)
  BY <1>2, <1>3, <1>4, SizesAssumption
<1>6. DpCores * range_part(v) \in Nat
  BY <1>5, SizesAssumption
<1>7. v.min \in Nat /\ v.max \in Nat
  BY VarFacts
<1> QED BY <1>1, <1>5, <1>6, <1>7

-----------------------------------------------------------------------------
(* The closed form is a partition.                                         *)

\* A part is not empty and lies within the range.
LEMMA PartWithin ==
  ASSUME NEW min \in Nat, NEW part \in Nat \ {0}, NEW rest \in Nat, NEW n \in Nat \ {0},
         NEW j \in 1..n
  PROVE  /\ min <= Lo(min, part, rest, j)
         /\ Lo(min, part, rest, j) <= Hi(min, part, rest, j)
         /\ Hi(min, part, rest, j) < min + n * part + rest
<1>1. j - 1 \in Nat /\ j \in Nat /\ (j - 1) + 1 = j /\ j <= n
  OBVIOUS
<1>2. j * part = (j - 1) * part + part
  BY <1>1, MulNext
<1>3. j * part <= n * part
  BY <1>1, MulMono
<1>4. (j - 1) * part \in Nat /\ j * part \in Nat /\ n * part \in Nat
  BY <1>1
<1> QED BY <1>2, <1>3, <1>4 DEF Lo, Hi

\* The parts of two cores are apart, the one of the later core higher.
LEMMA PartsApart ==
  ASSUME NEW min \in Nat, NEW part \in Nat \ {0}, NEW rest \in Nat,
         NEW i \in Nat \ {0}, NEW j \in Nat, i < j
  PROVE  Hi(min, part, rest, i) < Lo(min, part, rest, j)
<1>1. j - 1 \in Nat /\ i <= j - 1 /\ j # 1
  OBVIOUS
<1>2. i * part <= (j - 1) * part
  BY <1>1, MulMono
<1>3. i * part \in Nat /\ (j - 1) * part \in Nat
  BY <1>1
<1> QED BY <1>1, <1>2, <1>3 DEF Lo, Hi

\* Every value of the range is in some part.
LEMMA PartsCover ==
  ASSUME NEW min \in Nat, NEW part \in Nat \ {0}, NEW rest \in Nat, NEW n \in Nat \ {0},
         NEW x \in Nat, min <= x, x < min + n * part + rest
  PROVE  \E j \in 1..n : x \in Lo(min, part, rest, j)..Hi(min, part, rest, j)
<1>1. CASE x < min + part + rest
  <2>1. Lo(min, part, rest, 1) = min /\ Hi(min, part, rest, 1) = min + part + rest - 1
    BY DEF Lo, Hi
  <2> QED BY <1>1, <2>1
<1>2. CASE x >= min + part + rest
  <2> DEFINE y == x - min - rest
             q == y \div part
  <2>1. y \in Nat /\ y >= part /\ y < n * part
    BY <1>2
  <2>2. q \in Nat /\ y % part \in 0..part - 1 /\ y = part * q + (y % part)
    BY <2>1, DivMod
  <2>3. x = min + rest + y
    BY <1>2
  <2> HIDE DEF y, q
  <2>4. (q + 1) * part = q * part + part /\ q * part \in Nat /\ part * q = q * part
    BY <2>2, MulNext
  <2>5. q < n
    <3> SUFFICES ASSUME n <= q PROVE FALSE
      BY <2>2
    <3>1. n * part <= q * part
      BY <2>2, MulMono
    <3> QED BY <3>1, <2>1, <2>2, <2>4
  <2>6. q # 0
    <3> SUFFICES ASSUME q = 0 PROVE FALSE
      OBVIOUS
    <3>1. y = y % part
      BY <2>1, <2>2
    <3> QED BY <3>1, <2>1, <2>2
  <2>7. q + 1 \in 1..n /\ q + 1 # 1 /\ (q + 1) - 1 = q
    BY <2>2, <2>5, <2>6
  <2>8. Lo(min, part, rest, q + 1) = min + q * part + rest
    BY <2>7 DEF Lo
  <2>9. Hi(min, part, rest, q + 1) = min + q * part + part + rest - 1
    BY <2>4 DEF Hi
  <2>10. x >= min + q * part + rest /\ x <= min + q * part + part + rest - 1
    BY <2>1, <2>2, <2>3, <2>4
  <2>11. x \in Lo(min, part, rest, q + 1)..Hi(min, part, rest, q + 1)
    BY <2>2, <2>4, <2>8, <2>9, <2>10
  <2> QED BY <2>7, <2>11
<1> QED BY <1>1, <1>2

-----------------------------------------------------------------------------
(* The loop computes the closed form.                                      *)

PartOfCore(c) ==
  /\ inst[c].min = Lo(var.min, range_part(var), leftover(var), c)
  /\ inst[c].max = Hi(var.min, range_part(var), leftover(var), c)

PartInv ==
  /\ pc \in {"split", "loop", "run", "trap"}
  /\ var \in Vars
  /\ k \in 1..DpCores + 1
  /\ inst = [c \in Cores |-> inst[c]]
  /\ pc = "split" => k = 1
  /\ pc = "split" => parted = FALSE
  /\ parted = TRUE => Splits(var)
  /\ pc = "loop" => /\ parted = TRUE /\ k \in Cores
                    /\ start = Lo(var.min, range_part(var), leftover(var), k)
                    /\ end = Hi(var.min, range_part(var), leftover(var), k)
  /\ parted = TRUE => \A c \in 1..k - 1 : PartOfCore(c)
  /\ pc = "run" /\ parted = TRUE => k = DpCores + 1

\* The initial states satisfy the invariant.
LEMMA PartInit == Init => PartInv
BY SizesAssumption DEF Init, PartInv, Cores

\* The splitter starts with the part of the first core.
LEMMA PartBegin == PartInv /\ split_begin => PartInv'
<1> SUFFICES ASSUME PartInv, split_begin PROVE PartInv'
  OBVIOUS
<1>1. /\ var \in Vars /\ Splits(var) /\ k = 1 /\ pc' = "loop" /\ parted' = TRUE
      /\ UNCHANGED <<var, k, inst>>
      /\ start' = var.min
      /\ end' = var.min + range_part(var) + leftover(var) - 1
  BY DEF PartInv, split_begin
<1>2. /\ range_part(var) \in Nat /\ leftover(var) \in Nat /\ var.min \in Nat
  BY <1>1, PartsMakeUpRange, VarFacts
<1>3. /\ start' = Lo(var.min, range_part(var), leftover(var), 1)
      /\ end' = Hi(var.min, range_part(var), leftover(var), 1)
  BY <1>1, <1>2 DEF Lo, Hi
<1>4. /\ range_part(var)' = range_part(var) /\ leftover(var)' = leftover(var)
      /\ Splits(var)' = Splits(var)
  BY <1>1 DEF range_part, leftover, Splits, get_splitable_range
<1>5. 1 \in Cores /\ 1..k - 1 = {}
  BY <1>1, SizesAssumption DEF Cores
<1>6. inst' = [c \in Cores |-> inst'[c]]
  BY <1>1 DEF PartInv
<1> QED BY <1>1, <1>3, <1>4, <1>5, <1>6, SizesAssumption DEF PartInv

\* Every round of the loop gives the next core its part.
LEMMA PartStep == PartInv /\ split_core => PartInv'
<1> SUFFICES ASSUME PartInv, split_core PROVE PartInv'
  OBVIOUS
<1> DEFINE p == range_part(var)
           l == leftover(var)
<1>1. /\ pc = "loop" /\ var \in Vars /\ k \in Cores /\ parted = TRUE /\ Splits(var)
      /\ start = Lo(var.min, p, l, k) /\ end = Hi(var.min, p, l, k)
  BY DEF PartInv, split_core
<1>2. /\ UNCHANGED <<var, parted>> /\ k' = k + 1
      /\ start' = end + 1 /\ end' = end + p
      /\ pc' = IF k = DpCores THEN "run" ELSE "loop"
      /\ inst' = [inst EXCEPT ![k] = PartOf(var, start, end)]
  BY DEF split_core
<1>3. p \in Nat /\ l \in Nat /\ var.min \in Nat /\ k \in Nat \ {0}
  BY <1>1, PartsMakeUpRange, VarFacts, SizesAssumption DEF Cores
<1>4. p' = p /\ l' = l /\ Splits(var)' /\ var' = var
  BY <1>1, <1>2 DEF range_part, leftover, Splits, get_splitable_range
<1>5. inst' = [c \in Cores |-> inst'[c]]
  BY <1>1, <1>2 DEF PartInv
<1>6. \A c \in Cores : inst'[c] = IF c = k THEN PartOf(var, start, end) ELSE inst[c]
  BY <1>1, <1>2 DEF PartInv
<1>7. \A c \in 1..k' - 1 : PartOfCore(c)'
  <2> SUFFICES ASSUME NEW c \in 1..k PROVE PartOfCore(c)'
    BY <1>2, <1>3
  <2>1. c \in Cores
    BY <1>1, SizesAssumption DEF Cores
  <2>2. CASE c = k
    BY <1>1, <1>4, <1>6, <2>1, <2>2 DEF PartOfCore, PartOf
  <2>3. CASE c # k
    <3>1. c \in 1..k - 1
      BY <1>3, <2>3
    <3>2. PartOfCore(c)
      BY <3>1, <1>1 DEF PartInv
    <3> QED BY <3>2, <1>4, <1>6, <2>1, <2>3 DEF PartOfCore
  <2> QED BY <2>2, <2>3
<1> HIDE DEF p, l
<1>8. (k + 1) * p = k * p + p /\ k * p \in Nat
  BY <1>3, MulNext
<1>9. start' = Lo(var.min, p, l, k + 1)
  <2>1. (k + 1) - 1 = k /\ k + 1 # 1
    BY <1>3
  <2> QED BY <1>1, <1>2, <1>3, <1>8, <2>1 DEF Lo, Hi
<1>10. end' = Hi(var.min, p, l, k + 1)
  BY <1>1, <1>2, <1>3, <1>8 DEF Hi
<1>11. k' \in 1..DpCores + 1 /\ (k # DpCores => k' \in Cores)
  BY <1>1, <1>2, SizesAssumption DEF Cores
<1> USE DEF p, l
<1>12. pc' = "loop" => /\ parted' = TRUE /\ k' \in Cores
                       /\ start' = Lo(var'.min, range_part(var)', leftover(var)', k')
                       /\ end' = Hi(var'.min, range_part(var)', leftover(var)', k')
  BY <1>1, <1>2, <1>4, <1>9, <1>10, <1>11
<1>13. pc' = "run" => k' = DpCores + 1
  BY <1>2
<1>14. pc' \in {"loop", "run"}
  BY <1>2
<1> QED BY <1>1, <1>4, <1>5, <1>7, <1>11, <1>12, <1>13, <1>14 DEF PartInv

\* No step breaks the invariant; the packets sent do not touch the parts.
LEMMA PartNext == PartInv /\ [Next]_vars => PartInv'
<1> SUFFICES ASSUME PartInv, [Next]_vars PROVE PartInv'
  OBVIOUS
<1>1. CASE /\ UNCHANGED <<var, k, start, end, inst, parted>>
           /\ UNCHANGED pc \/ split_clone \/ (pc = "run" /\ pc' = "trap")
  <2>1. /\ range_part(var)' = range_part(var) /\ leftover(var)' = leftover(var)
        /\ Splits(var)' = Splits(var)
    BY <1>1 DEF range_part, leftover, Splits, get_splitable_range
  <2>2. \A c : PartOfCore(c)' = PartOfCore(c)
    BY <1>1, <2>1 DEF PartOfCore
  <2>3. CASE UNCHANGED pc
    BY <1>1, <2>1, <2>2, <2>3 DEF PartInv
  <2>4. CASE split_clone
    <3>1. pc = "split" /\ pc' = "run"
      BY <2>4 DEF split_clone
    <3> QED BY <1>1, <2>1, <2>2, <3>1 DEF PartInv
  <2>5. CASE pc = "run" /\ pc' = "trap"
    BY <1>1, <2>1, <2>2, <2>5 DEF PartInv
  <2> QED BY <1>1, <2>3, <2>4, <2>5
<1>2. CASE split_clone
  BY <1>1, <1>2 DEF split_clone
<1>3. CASE split_begin
  BY <1>3, PartBegin
<1>4. CASE split_core
  BY <1>4, PartStep
<1>5. CASE \E c \in Cores : run(c)
  BY <1>1, <1>5 DEF run
<1>6. CASE \E c \in Cores : run_traps(c)
  BY <1>1, <1>6 DEF run_traps
<1>7. CASE UNCHANGED vars
  BY <1>1, <1>7 DEF vars
<1> QED BY <1>2, <1>3, <1>4, <1>5, <1>6, <1>7 DEF Next

\* The parts computed by the loop share out the range.
LEMMA PartImplies == PartInv => SplitIsPartition
<1> SUFFICES ASSUME PartInv, pc = "run", parted = TRUE
             PROVE  /\ \A v \in var.min..var.max :
                         \E c \in Cores : v \in inst[c].min..inst[c].max
                    /\ \A c, d \in Cores : c # d =>
                         inst[c].max < inst[d].min \/ inst[d].max < inst[c].min
                    /\ \A c \in Cores : /\ var.min <= inst[c].min
                                         /\ inst[c].min <= inst[c].max
                                         /\ inst[c].max <= var.max
  BY DEF SplitIsPartition
<1> DEFINE p == range_part(var)
           l == leftover(var)
<1>1. var \in Vars /\ Splits(var) /\ k = DpCores + 1
  BY DEF PartInv
<1>2. \A c \in Cores : PartOfCore(c)
  BY <1>1, SizesAssumption DEF PartInv, Cores
<1>3. /\ p \in Nat \ {0} /\ l \in Nat /\ var.min \in Nat /\ var.max \in Nat
      /\ var.max + 1 = var.min + DpCores * p + l
  BY <1>1, PartsMakeUpRange, VarFacts
<1>4. \A c \in Cores : /\ inst[c].min = Lo(var.min, p, l, c)
                       /\ inst[c].max = Hi(var.min, p, l, c)
  BY <1>2 DEF PartOfCore
<1> HIDE DEF p, l
<1>5. ASSUME NEW v \in var.min..var.max
      PROVE  \E c \in Cores : v \in inst[c].min..inst[c].max
  <2>1. v \in Nat /\ var.min <= v /\ v < var.min + DpCores * p + l
    BY <1>3, SizesAssumption
  <2>2. PICK c \in 1..DpCores : v \in Lo(var.min, p, l, c)..Hi(var.min, p, l, c)
    BY <1>3, <2>1, PartsCover, SizesAssumption
  <2> QED BY <1>4, <2>2 DEF Cores
<1>6. ASSUME NEW c \in Cores, NEW d \in Cores, c # d
      PROVE  inst[c].max < inst[d].min \/ inst[d].max < inst[c].min
  <2>1. c \in Nat \ {0} /\ d \in Nat \ {0} /\ (c < d \/ d < c)
    BY <1>6, SizesAssumption DEF Cores
  <2>2. CASE c < d
    BY <1>3, <1>4, <2>1, <2>2, PartsApart
  <2>3. CASE d < c
    BY <1>3, <1>4, <2>1, <2>3, PartsApart
  <2> QED BY <2>1, <2>2, <2>3
<1>7. ASSUME NEW c \in Cores
      PROVE  /\ var.min <= inst[c].min /\ inst[c].min <= inst[c].max
             /\ inst[c].max <= var.max
  <2>1. c \in 1..DpCores
    BY DEF Cores
  <2>2. /\ var.min <= Lo(var.min, p, l, c)
        /\ Lo(var.min, p, l, c) <= Hi(var.min, p, l, c)
        /\ Hi(var.min, p, l, c) < var.min + DpCores * p + l
    BY <1>3, <2>1, PartWithin, SizesAssumption
  <2>3. Hi(var.min, p, l, c) \in Int
    <3>1. c * p \in Int
      BY <1>3, <2>1, SizesAssumption
    <3> QED BY <1>3, <3>1 DEF Hi
  <2>4. Hi(var.min, p, l, c) < var.max + 1
    BY <1>3, <2>2
  <2> QED BY <1>3, <1>4, <2>2, <2>3, <2>4
<1> QED BY <1>5, <1>6, <1>7

\* For every number of cores, every range and every word size, the cores share out the
\* range of the split variable: each value is one core's and no core goes without
\* (TrexVmSplitter::split_by_flow_var, split_by_flow_client_var).
THEOREM SplitIsPartitionHolds == Spec => []SplitIsPartition
<1>1. Init => PartInv
  BY PartInit
<1>2. PartInv /\ [Next]_vars => PartInv'
  BY PartNext
<1>3. PartInv => SplitIsPartition
  BY PartImplies
<1> QED BY <1>1, <1>2, <1>3, PTL DEF Spec

-----------------------------------------------------------------------------
(* Counting round.                                                         *)

\* Multiples of s lie s apart.
LEMMA NoMultipleBetween ==
  ASSUME NEW s \in Nat \ {0}, NEW a \in Int, NEW b \in Int, a < b
  PROVE  s * a + s <= s * b
<1>1. b - a >= 1 /\ b - a \in Nat
  OBVIOUS
<1>2. s * (b - a) >= s
  BY <1>1, Z3
<1>3. s * (b - a) = s * b - s * a
  BY Z3
<1>4. s * a \in Int /\ s * b \in Int
  OBVIOUS
<1> QED BY <1>2, <1>3, <1>4

\* Quotient and remainder are the only ones.
LEMMA DivUnique ==
  ASSUME NEW x \in Nat, NEW s \in Nat \ {0}, NEW q \in Nat, NEW r \in 0..s - 1, x = s * q + r
  PROVE  x % s = r /\ x \div s = q
<1> DEFINE u == x \div s
           t == x % s
<1>1. u \in Nat /\ t \in 0..s - 1 /\ x = s * u + t
  BY DivMod
<1> HIDE DEF u, t
<1>2. s * u \in Int /\ s * q \in Int
  BY <1>1
<1>3. ~(u < q)
  <2> SUFFICES ASSUME u < q PROVE FALSE
    OBVIOUS
  <2>1. s * u + s <= s * q
    BY <1>1, NoMultipleBetween
  <2> QED BY <1>1, <1>2, <2>1
<1>4. ~(q < u)
  <2> SUFFICES ASSUME q < u PROVE FALSE
    OBVIOUS
  <2>1. s * q + s <= s * u
    BY <1>1, NoMultipleBetween
  <2> QED BY <1>1, <1>2, <2>1
<1>5. u = q
  BY <1>1, <1>3, <1>4
<1>6. t = r
  BY <1>1, <1>2, <1>5
<1> QED BY <1>5, <1>6 DEF u, t

\* One more: the remainder goes up, or back to 0 and the quotient goes up.
LEMMA ModNext ==
  ASSUME NEW x \in Nat, NEW s \in Nat \ {0}
  PROVE  /\ x % s = s - 1 => (x + 1) % s = 0 /\ (x + 1) \div s = (x \div s) + 1
         /\ x % s # s - 1 => (x + 1) % s = (x % s) + 1 /\ (x + 1) \div s = x \div s
<1> DEFINE q == x \div s
           r == x % s
<1>1. q \in Nat /\ r \in 0..s - 1 /\ x = s * q + r
  BY DivMod
<1> HIDE DEF q, r
<1>2. s * q \in Nat /\ s * (q + 1) = s * q + s
  BY <1>1, Z3
<1>3. CASE r = s - 1
  <2>1. x + 1 = s * (q + 1) + 0 /\ 0 \in 0..s - 1 /\ q + 1 \in Nat /\ x + 1 \in Nat
    BY <1>1, <1>2, <1>3
  <2>2. (x + 1) % s = 0 /\ (x + 1) \div s = q + 1
    BY <2>1, DivUnique
  <2> QED BY <1>3, <2>2 DEF q, r
<1>4. CASE r # s - 1
  <2>1. x + 1 = s * q + (r + 1) /\ r + 1 \in 0..s - 1 /\ x + 1 \in Nat
    BY <1>1, <1>2, <1>4
  <2>2. (x + 1) % s = r + 1 /\ (x + 1) \div s = q
    BY <1>1, <2>1, DivUnique
  <2> QED BY <1>4, <2>2 DEF q, r
<1> QED BY <1>3, <1>4

\* Once round more makes no difference.
LEMMA ModRound ==
  ASSUME NEW x \in Nat, NEW s \in Nat \ {0}
  PROVE  (x + s) % s = x % s
<1> DEFINE q == x \div s
           r == x % s
<1>1. q \in Nat /\ r \in 0..s - 1 /\ x = s * q + r
  BY DivMod
<1> HIDE DEF q, r
<1>2. s * q \in Nat /\ s * (q + 1) = s * q + s
  BY <1>1, Z3
<1>3. x + s = s * (q + 1) + r /\ x + s \in Nat /\ q + 1 \in Nat
  BY <1>1, <1>2
<1>4. (x + s) % s = r
  BY <1>1, <1>3, DivUnique
<1> QED BY <1>4 DEF r

\* 0 divided by anything.
LEMMA ZeroMod ==
  ASSUME NEW s \in Nat \ {0}
  PROVE  0 % s = 0 /\ 0 \div s = 0
<1>1. 0 = s * 0 + 0 /\ 0 \in 0..s - 1
  OBVIOUS
<1> QED BY <1>1, DivUnique

\* Counting on from a remainder.
LEMMA ModStep ==
  ASSUME NEW x \in Nat, NEW s \in Nat \ {0}
  PROVE  ((x % s) + 1) % s = (x + 1) % s
<1> DEFINE r == x % s
<1>1. r \in 0..s - 1
  BY DivMod
<1>2. /\ r = s - 1 => (x + 1) % s = 0
      /\ r # s - 1 => (x + 1) % s = r + 1
  BY ModNext
<1> HIDE DEF r
<1>3. CASE r = s - 1
  <2>1. r + 1 = s
    BY <1>3
  <2> QED BY <1>2, <1>3, <2>1, ModSelf DEF r
<1>4. CASE r # s - 1
  <2>1. r + 1 \in Nat /\ r + 1 < s
    BY <1>1, <1>4
  <2>2. (r + 1) % s = r + 1
    BY <2>1, ModSmall
  <2> QED BY <1>2, <1>4, <2>2 DEF r
<1> QED BY <1>3, <1>4

\* A remainder is no larger than the number.
LEMMA ModLess ==
  ASSUME NEW x \in Nat, NEW s \in Nat \ {0}
  PROVE  x % s <= x
<1>1. x \div s \in Nat /\ x % s \in 0..s - 1 /\ x = s * (x \div s) + (x % s)
  BY DivMod
<1>2. s * (x \div s) \in Nat
  BY <1>1
<1> QED BY <1>1, <1>2

-----------------------------------------------------------------------------
(* The memory of a core after n packets.                                   *)

Memory == [val : Nat, port : Nat, flow : Nat]

\* The instruction of a core, whole or part, is a range of the variable.
PartFits(v, i) ==
  /\ i \in [min : Nat, max : Nat, init : Nat]
  /\ v.min <= i.min /\ i.min <= i.init /\ i.init <= i.max /\ i.max <= v.max
  /\ v.kind = "flow" /\ v.op = "random" => i.min = v.min /\ i.max = v.max

\* The memory starts one step back, that is, a round less one step ahead.
FlowAt(v, i, val, n) ==
  CASE v.op = "inc" -> val = i.min + ((i.init - i.min + Size(i) - 1 + n) % Size(i))
    [] v.op = "dec" -> val = i.max - ((i.max - i.init + Size(i) - 1 + n) % Size(i))
    [] OTHER -> n > 0 /\ ~SignCounts(v) => val \in v.min..v.max

Endless(v) == v.unlimited \/ v.limit = 0

\* Flow f of a client variable.
AddressAt(v, i, m, f) ==
  /\ m.val = AddressOf(v, i, f)
  /\ m.port = PortOf(v, RoundOf(v, i, f))

\* The flows counted up to packet n, where there is a limit that can be passed.
FlowCount(v, n) ==
  IF Endless(v) THEN 0
  ELSE IF v.limit + 1 = v.words THEN n % v.words ELSE ((n - 1) % v.limit) + 1

ClientMem(v, i, m, n) ==
  IF n = 0
  THEN m.val = (IF i.min = 0 THEN 0 ELSE i.min - 1) /\ m.port = FirstPort(v) /\ m.flow = 0
  ELSE AddressAt(v, i, m, FlowOf(v, i, n - 1)) /\ m.flow = FlowCount(v, n)

MemAt(v, i, m, n) ==
  /\ m \in Memory
  /\ v.kind = "flow" => FlowAt(v, i, m.val, n)
  /\ v.kind = "client" => ClientMem(v, i, m, n)

StepsInv ==
  /\ PartInv
  /\ start \in Nat /\ end \in Nat /\ parted \in BOOLEAN
  /\ sent \in [Cores -> Nat]
  /\ inst \in [Cores -> [min : Nat, max : Nat, init : Nat]]
  /\ mem \in [Cores -> Memory]
  /\ pc \in {"split", "loop"} => sent = [c \in Cores |-> 0]
  /\ pc = "trap" => Size(var) % Ints = 0
  /\ \A c \in Cores : PartFits(var, inst[c]) /\ MemAt(var, inst[c], mem[c], sent[c])

\* A flow variable starts one step back, whatever it counts.
LEMMA FlowBuilt ==
  ASSUME NEW v \in FlowVars, NEW i, PartFits(v, i)
  PROVE  MemAt(v, i, build_bss(v, i), 0)
<1> DEFINE s == Size(i)
           b == get_bss_init_value(v.op, i.min, i.max, i.init)
<1>1. /\ v.kind = "flow" /\ v.op \in {"inc", "dec", "random"}
      /\ v.words \in Nat /\ v.max \in Nat /\ v.max < v.words
  BY FlowVarsAssumption DEF FlowVar
<1>2. /\ i.min \in Nat /\ i.max \in Nat /\ i.init \in Nat
      /\ i.min <= i.init /\ i.init <= i.max /\ i.max < v.words
  BY <1>1 DEF PartFits
<1>3. s \in Nat \ {0} /\ s = i.max - i.min + 1
  BY <1>2 DEF Size
<1>4. b \in i.min..i.max
  BY <1>1, <1>2 DEF get_bss_init_value
<1>5. build_bss(v, i) = [val |-> b, port |-> 0, flow |-> 0]
  <2>1. b % v.words = b
    BY <1>1, <1>2, <1>4, ModSmall
  <2> HIDE DEF b
  <2> QED BY <1>1, <2>1 DEF build_bss, b
<1>6. FlowAt(v, i, b, 0)
  <2>1. CASE v.op = "inc"
    <3> DEFINE x == i.init - i.min
    <3>1. x \in Nat /\ x <= s - 1
      BY <1>2, <1>3
    <3>2. (i.init - i.min + s - 1 + 0) = x + s - 1
      BY <1>2, <1>3
    <3>3. CASE x = 0
      <4>1. b = i.max /\ x + s - 1 = s - 1
        BY <1>2, <1>3, <2>1, <3>3 DEF get_bss_init_value
      <4> HIDE DEF b, s, x
      <4>2. (s - 1) % s = s - 1
        BY <1>3, ModSmall
      <4>3. b = i.min + ((x + s - 1) % s)
        BY <1>2, <1>3, <4>1, <4>2
      <4> QED BY <2>1, <3>2, <4>3 DEF FlowAt, s, x
    <3>4. CASE x # 0
      <4>1. b = i.init - 1 /\ x - 1 \in Nat /\ x + s - 1 = (x - 1) + s /\ x - 1 < s
        BY <1>2, <1>3, <2>1, <3>1, <3>4 DEF get_bss_init_value
      <4>2. i.init = i.min + x
        BY <1>2
      <4> HIDE DEF b, s, x
      <4>3. (x + s - 1) % s = x - 1
        BY ONLY <1>3, <4>1, ModRound, ModSmall, ZenonT(60)
      <4>4. b = i.min + ((x + s - 1) % s)
        BY <1>2, <3>1, <4>1, <4>2, <4>3
      <4> QED BY <2>1, <3>2, <4>4 DEF FlowAt, s, x
    <3> QED BY <3>3, <3>4
  <2>2. CASE v.op = "dec"
    <3> DEFINE x == i.max - i.init
    <3>1. x \in Nat /\ x <= s - 1
      BY <1>2, <1>3
    <3>2. (i.max - i.init + s - 1 + 0) = x + s - 1
      BY <1>2, <1>3
    <3>3. CASE x = 0
      <4>0. i.init = i.max
        BY <1>2, <3>3
      <4>1. b = i.min
        BY <2>2, <4>0 DEF get_bss_init_value
      <4> HIDE DEF b, s
      <4>2. x + s - 1 = s - 1
        BY <1>3, <3>3
      <4> HIDE DEF x
      <4>3. (s - 1) % s = s - 1
        BY <1>3, ModSmall
      <4>4. b = i.max - ((x + s - 1) % s)
        BY <1>2, <1>3, <4>1, <4>2, <4>3
      <4> QED BY <2>2, <3>2, <4>4 DEF FlowAt, s, x
    <3>4. CASE x # 0
      <4>1. b = i.init + 1 /\ x - 1 \in Nat /\ x + s - 1 = (x - 1) + s /\ x - 1 < s
        BY <1>2, <1>3, <2>2, <3>1, <3>4 DEF get_bss_init_value
      <4>2. i.init = i.max - x
        BY <1>2
      <4> HIDE DEF b, s, x
      <4>3. (x + s - 1) % s = x - 1
        BY <1>3, <4>1, ModRound, ModSmall, ZenonT(60)
      <4>4. b = i.max - ((x + s - 1) % s)
        BY <1>2, <3>1, <4>1, <4>2, <4>3
      <4> QED BY <2>2, <3>2, <4>4 DEF FlowAt, s, x
    <3> QED BY <3>3, <3>4
  <2>3. CASE v.op = "random"
    BY <2>3 DEF FlowAt
  <2> QED BY <1>1, <2>1, <2>2, <2>3
<1> HIDE DEF b
<1>7. build_bss(v, i) \in Memory /\ build_bss(v, i).val = b
  BY <1>2, <1>4, <1>5 DEF Memory
<1> QED BY <1>1, <1>6, <1>7 DEF MemAt

\* A client variable starts with the address before its first one, if there is one.
LEMMA ClientBuilt ==
  ASSUME NEW v \in ClientVars, NEW i, PartFits(v, i)
  PROVE  MemAt(v, i, build_bss(v, i), 0)
<1> DEFINE b == IF i.min = 0 THEN 0 ELSE i.min - 1
<1>1. v.kind = "client" /\ v.port_min \in Nat /\ UnlimitedMin \in Nat
  BY ClientVarsAssumption, SizesAssumption DEF ClientVar
<1>2. i.min \in Nat
  BY <1>1 DEF PartFits
<1>3. b = IF i.min > 0 THEN i.min - 1 ELSE i.min
  BY <1>2
<1>4. build_bss(v, i) = [val |-> b, port |-> FirstPort(v), flow |-> 0]
  BY <1>1, <1>3 DEF build_bss, FirstPort
<1>5. b \in Nat /\ FirstPort(v) \in Nat
  BY <1>1, <1>2 DEF FirstPort
<1> QED BY <1>1, <1>4, <1>5 DEF MemAt, Memory, ClientMem

\* The initial memory is the memory after no packets.
LEMMA Built ==
  ASSUME NEW v \in Vars, NEW i, PartFits(v, i)
  PROVE  MemAt(v, i, build_bss(v, i), 0)
BY FlowBuilt, ClientBuilt DEF Vars

\* The generator makes natural numbers.
LEMMA RandIsNat ==
  ASSUME NEW v
  PROVE  vm_rand(v) \subseteq Nat
<1>1. Ports \in Nat /\ Ints \in Nat
  BY SizesAssumption
<1>2. vm_rand16 \subseteq Nat
  BY DEF vm_rand16
<1>3. vm_rand32 \subseteq Nat
  BY <1>1, <1>2 DEF vm_rand32
<1>4. vm_rand64 \subseteq Nat
  BY <1>1, <1>3 DEF vm_rand64
<1> QED BY <1>2, <1>3, <1>4 DEF vm_rand

\* The divisor: the size of the range, or less, but for the sign; 0 for a size that is a
\* multiple of 2^32.
LEMMA DivisorFacts ==
  ASSUME NEW v \in FlowVars, NEW i, PartFits(v, i), v.op = "random"
  PROVE  /\ Divisor(v, i) \in Nat
         /\ ~SignCounts(v) => Divisor(v, i) <= i.max - i.min + 1
         /\ Divisor(v, i) = 0 => Size(v) % Ints = 0
<1> DEFINE size == i.max - i.min + 1
           low == size % Ints
<1>1. /\ v.kind = "flow" /\ Ints \in Nat \ {0} /\ Longs \in Nat /\ Ints <= Longs
      /\ v.words \in Nat
  BY FlowVarsAssumption, SizesAssumption DEF FlowVar
<1>2. /\ i.min \in Nat /\ i.max \in Nat /\ i.min <= i.max
      /\ i.min = v.min /\ i.max = v.max
  BY <1>1 DEF PartFits
<1>3. size \in Nat /\ size = Size(v)
  BY <1>2 DEF Size
<1> HIDE DEF size
<1>4. low \in Nat /\ low <= size
  BY <1>1, <1>3, DivMod, ModLess
<1>5. Ints \div 2 \in Int
  BY <1>1
<1> DEFINE half == Ints \div 2
<1>6. Divisor(v, i) = IF v.words <= Ints \/ low < half THEN low ELSE Longs - Ints + low
  BY DEF Divisor, size
<1>7. SignCounts(v) <=> v.words > Ints /\ low >= half
  BY <1>3 DEF SignCounts
<1> HIDE DEF low, half
<1>8. half \in Int
  BY <1>5 DEF half
<1>9. /\ Divisor(v, i) \in Nat /\ (~SignCounts(v) => Divisor(v, i) <= size)
      /\ Divisor(v, i) = 0 => low = 0
  BY <1>1, <1>3, <1>4, <1>6, <1>7, <1>8
<1> QED BY <1>3, <1>9 DEF low, size

\* A random step lands in the range, but for the sign.
LEMMA RandomSteps ==
  ASSUME NEW v \in FlowVars, NEW i, NEW m, PartFits(v, i), v.op = "random", ~Traps(v, i),
         NEW val \in FlowStep(v, i, m)
  PROVE  val \in Nat /\ (~SignCounts(v) => val \in v.min..v.max)
<1> DEFINE d == Divisor(v, i)
<1>1. /\ v.kind = "flow" /\ v.words \in Nat \ {0} /\ v.max \in Nat /\ v.max < v.words
      /\ v.min \in Nat
  BY FlowVarsAssumption DEF FlowVar
<1>2. /\ i.min \in Nat /\ i.max \in Nat /\ i.min <= i.max
      /\ i.min = v.min /\ i.max = v.max
  BY <1>1 DEF PartFits
<1>3. d \in Nat \ {0} /\ (~SignCounts(v) => d <= i.max - i.min + 1)
  BY <1>1, DivisorFacts DEF Traps
<1>4. PICK r \in Nat : val = (i.min + (r % d)) % v.words
  BY RandIsNat DEF FlowStep
<1> HIDE DEF d
<1>5. r % d \in 0..d - 1
  BY <1>3, DivMod
<1> DEFINE x == i.min + (r % d)
<1>6. x \in Nat
  BY <1>2, <1>3, <1>5
<1>7. val \in Nat
  <2> HIDE DEF x
  <2>1. x % v.words \in 0..v.words - 1
    BY <1>1, <1>6, DivMod
  <2> QED BY <1>1, <1>4, <2>1 DEF x
<1>8. ASSUME ~SignCounts(v) PROVE val \in v.min..v.max
  <2>1. x >= v.min /\ x <= v.max /\ x < v.words
    BY <1>1, <1>2, <1>3, <1>5, <1>8
  <2> HIDE DEF x
  <2>2. x % v.words = x
    BY <1>1, <1>6, <2>1, ModSmall
  <2> QED BY <1>1, <1>4, <1>6, <2>1, <2>2 DEF x
<1> QED BY <1>7, <1>8

\* A step of a flow variable is the next value of the walk.
LEMMA FlowSteps ==
  ASSUME NEW v \in FlowVars, NEW i, NEW m, NEW n \in Nat, PartFits(v, i), MemAt(v, i, m, n),
         ~Traps(v, i), NEW val \in FlowStep(v, i, m)
  PROVE  MemAt(v, i, [m EXCEPT !.val = val], n + 1)
<1> DEFINE s == Size(i)
<1>1. /\ v.kind = "flow" /\ v.op \in {"inc", "dec", "random"}
      /\ v.words \in Nat /\ v.max \in Nat /\ v.max < v.words
  BY FlowVarsAssumption DEF FlowVar
<1>2. /\ i.min \in Nat /\ i.max \in Nat /\ i.init \in Nat
      /\ i.min <= i.init /\ i.init <= i.max /\ i.max < v.words
  BY <1>1 DEF PartFits
<1>3. s \in Nat \ {0} /\ s = i.max - i.min + 1
  BY <1>2 DEF Size
<1>4. i.max % v.words = i.max /\ i.min % v.words = i.min
  BY <1>1, <1>2, ModSmall
<1>5. m \in Memory /\ FlowAt(v, i, m.val, n)
  BY <1>1 DEF MemAt
<1>6. val \in Nat /\ FlowAt(v, i, val, n + 1)
  <2>1. CASE v.op = "inc"
    <3> DEFINE x == i.init - i.min + s - 1 + n
               r == x % s
    <3>1. x \in Nat /\ x + 1 = i.init - i.min + s - 1 + (n + 1)
      BY <1>2, <1>3
    <3>2. r \in 0..s - 1
      BY <1>3, <3>1, DivMod
    <3>3. /\ r = s - 1 => (x + 1) % s = 0
          /\ r # s - 1 => (x + 1) % s = r + 1
      BY <1>3, <3>1, ModNext
    <3>4. m.val = i.min + r
      BY <1>5, <2>1 DEF FlowAt
    <3>5. val = IF m.val = i.max THEN i.min ELSE (m.val + 1) % v.words
      BY <1>4, <2>1 DEF FlowStep
    <3>6. FlowAt(v, i, val, n + 1) <=> val = i.min + ((x + 1) % s)
      BY <2>1, <3>1 DEF FlowAt
    <3> HIDE DEF x, r, s
    <3>7. CASE r = s - 1
      <4>1. val = i.min
        BY <1>2, <1>3, <3>4, <3>5, <3>7
      <4> QED BY <1>2, <3>3, <3>6, <3>7, <4>1
    <3>8. CASE r # s - 1
      <4>1. m.val # i.max /\ m.val + 1 \in Nat /\ m.val + 1 < v.words
        BY <1>1, <1>2, <1>3, <3>2, <3>4, <3>8
      <4>2. val = m.val + 1
        BY <1>1, <3>5, <4>1, ModSmall
      <4> QED BY <1>2, <3>2, <3>3, <3>4, <3>6, <3>8, <4>1, <4>2
    <3> QED BY <3>7, <3>8
  <2>2. CASE v.op = "dec"
    <3> DEFINE x == i.max - i.init + s - 1 + n
               r == x % s
    <3>1. x \in Nat /\ x + 1 = i.max - i.init + s - 1 + (n + 1)
      BY <1>2, <1>3
    <3>2. r \in 0..s - 1
      BY <1>3, <3>1, DivMod
    <3>3. /\ r = s - 1 => (x + 1) % s = 0
          /\ r # s - 1 => (x + 1) % s = r + 1
      BY <1>3, <3>1, ModNext
    <3>4. m.val = i.max - r
      BY <1>5, <2>2 DEF FlowAt
    <3>5. val = IF m.val = i.min THEN i.max ELSE (m.val - 1) % v.words
      BY <1>4, <2>2 DEF FlowStep
    <3>6. FlowAt(v, i, val, n + 1) <=> val = i.max - ((x + 1) % s)
      BY <2>2, <3>1 DEF FlowAt
    <3> HIDE DEF x, r, s
    <3>7. CASE r = s - 1
      <4>1. val = i.max
        BY <1>2, <1>3, <3>4, <3>5, <3>7
      <4> QED BY <1>2, <3>3, <3>6, <3>7, <4>1
    <3>8. CASE r # s - 1
      <4>1. m.val # i.min /\ m.val - 1 \in Nat /\ m.val - 1 < v.words
        BY <1>1, <1>2, <1>3, <3>2, <3>4, <3>8
      <4>2. val = m.val - 1
        BY <1>1, <3>5, <4>1, ModSmall
      <4> QED BY <1>2, <3>2, <3>3, <3>4, <3>6, <3>8, <4>1, <4>2
    <3> QED BY <3>7, <3>8
  <2>3. CASE v.op = "random"
    BY <2>3, RandomSteps DEF FlowAt
  <2> QED BY <1>1, <2>1, <2>2, <2>3
<1>7. [m EXCEPT !.val = val] \in Memory /\ [m EXCEPT !.val = val].val = val
  BY <1>5, <1>6 DEF Memory
<1> QED BY <1>1, <1>6, <1>7 DEF MemAt

\* What is known of a client variable and the part of it a core has.
LEMMA ClientFacts ==
  ASSUME NEW v \in ClientVars, NEW i, PartFits(v, i)
  PROVE  /\ v.kind = "client" /\ v.words \in Nat \ {0} /\ v.unlimited \in BOOLEAN
         /\ v.limit \in Nat /\ v.limit < v.words
         /\ v.port_min \in Nat /\ v.port_max \in Nat /\ Ports \in Nat \ {0}
         /\ v.port_min <= v.port_max /\ v.port_max < Ports
         /\ i.min \in Nat /\ i.max \in Nat /\ i.min <= i.max /\ i.max < v.words
         /\ Size(i) \in Nat \ {0} /\ Size(i) = i.max - i.min + 1
         /\ FirstPort(v) \in Nat /\ LastPort(v) \in Nat /\ LastPort(v) < Ports
         /\ FirstPort(v) <= LastPort(v)
<1>1. /\ v.kind = "client" /\ v.words \in Nat /\ v.limit \in Nat /\ v.unlimited \in BOOLEAN
      /\ v.port_min \in Nat /\ v.port_max \in Nat /\ Ports \in Nat /\ UnlimitedMin \in Nat
      /\ v.min \in Nat /\ v.max \in Nat /\ v.port_min <= v.port_max
      /\ v.limit < v.words /\ v.max < v.words /\ v.port_max < Ports /\ UnlimitedMin < Ports
  BY ClientVarsAssumption, SizesAssumption DEF ClientVar
<1>2. i.min \in Nat /\ i.max \in Nat /\ i.min <= i.max /\ i.max < v.words
  BY <1>1 DEF PartFits
<1>3. Size(i) \in Nat \ {0} /\ Size(i) = i.max - i.min + 1
  BY <1>2 DEF Size
<1>4. /\ FirstPort(v) \in Nat /\ LastPort(v) \in Nat /\ LastPort(v) < Ports
      /\ FirstPort(v) <= LastPort(v)
  BY <1>1 DEF FirstPort, LastPort
<1> QED BY <1>1, <1>2, <1>3, <1>4

\* The port stays as long as there is an address left.
LEMMA PortKept ==
  ASSUME NEW v, NEW i, NEW m, (m.val + 1) % v.words <= i.max
  PROVE  NextPort(v, i, m) = m.port
BY Zenon DEF NextPort

\* After the last address the port of round r gives way to that of round r + 1.
LEMMA PortSteps ==
  ASSUME NEW v \in ClientVars, NEW i, PartFits(v, i), NEW m \in Memory, NEW r \in Nat,
         m.port = PortOf(v, r), ~((m.val + 1) % v.words <= i.max)
  PROVE  NextPort(v, i, m) = PortOf(v, r + 1) /\ NextPort(v, i, m) \in Nat
<1> DEFINE lo == FirstPort(v)
           z == LastPort(v) - FirstPort(v) + 1
           next == (m.port + 1) % Ports
<1>1. /\ v.unlimited \in BOOLEAN /\ v.port_min \in Nat /\ v.port_max \in Nat
      /\ Ports \in Nat \ {0} /\ v.port_min <= v.port_max /\ v.port_max < Ports
      /\ lo \in Nat /\ LastPort(v) \in Nat /\ LastPort(v) < Ports /\ lo <= LastPort(v)
  BY ClientFacts
<1>2. NextPort(v, i, m) = CASE v.unlimited /\ next = 0 -> UnlimitedMin
                            [] ~v.unlimited /\ next > v.port_max -> v.port_min
                            [] OTHER -> next
  BY DEF NextPort
<1>3. CASE ~v.unlimited /\ v.port_max + 1 = Ports
  <2> DEFINE x == v.port_min + r
  <2>1. x \in Nat /\ x + 1 = v.port_min + (r + 1)
    BY <1>1
  <2>2. m.port = x % Ports /\ PortOf(v, r + 1) = (x + 1) % Ports
    BY <1>3, <2>1 DEF PortOf
  <2> HIDE DEF x
  <2>3. next = (x + 1) % Ports
    BY <1>1, <2>1, <2>2, ModStep
  <2>4. next \in 0..Ports - 1
    <3>1. x + 1 \in Nat
      BY <2>1
    <3> QED BY ONLY <1>1, <2>3, <3>1, DivMod
  <2> HIDE DEF next
  <2>5. ~(next > v.port_max)
    BY <1>1, <1>3, <2>4
  <2>6. NextPort(v, i, m) = next
    BY <1>2, <1>3, <2>5
  <2> QED BY <2>2, <2>3, <2>4, <2>6
<1>4. CASE ~(~v.unlimited /\ v.port_max + 1 = Ports)
  <2> DEFINE t == r % z
             u == (r + 1) % z
  <2>1. z \in Nat \ {0} /\ LastPort(v) = lo + z - 1
    BY <1>1
  <2>2. m.port = lo + t /\ PortOf(v, r + 1) = lo + u
    BY <1>4 DEF PortOf
  <2> HIDE DEF z, lo
  <2>3. t \in 0..z - 1 /\ u \in 0..z - 1
    BY <2>1, DivMod
  <2>4. /\ t = z - 1 => u = 0
        /\ t # z - 1 => u = t + 1
    BY <2>1, ModNext
  <2> HIDE DEF t, u
  <2>5. CASE t # z - 1
    <3>1. m.port + 1 <= LastPort(v) /\ m.port + 1 = lo + u /\ m.port + 1 \in Nat
          /\ m.port + 1 # 0
      BY <1>1, <2>1, <2>2, <2>3, <2>4, <2>5
    <3>2. next = m.port + 1
      BY <1>1, <3>1, ModSmall
    <3> HIDE DEF next
    <3>3. v.unlimited \/ ~(next > v.port_max)
      BY <1>1, <3>1, <3>2 DEF LastPort
    <3>4. next # 0 /\ next \in Nat
      BY <3>1, <3>2
    <3>5. NextPort(v, i, m) = next
      BY <1>2, <3>3, <3>4
    <3> QED BY <2>2, <3>1, <3>2, <3>4, <3>5
  <2>6. CASE t = z - 1
    <3>1. m.port = LastPort(v) /\ lo + u = lo
      BY <1>1, <2>1, <2>2, <2>4, <2>6
    <3>2. CASE v.unlimited
      <4>1. m.port + 1 = Ports
        BY <1>1, <3>1, <3>2 DEF LastPort
      <4>2. next = 0
        BY <1>1, <4>1, ModSelf
      <4>3. lo = UnlimitedMin
        BY <3>2 DEF lo, FirstPort
      <4> HIDE DEF next
      <4>4. NextPort(v, i, m) = UnlimitedMin
        BY <1>2, <3>2, <4>2
      <4> QED BY <1>1, <2>2, <3>1, <4>3, <4>4
    <3>3. CASE ~v.unlimited
      <4>1. m.port + 1 = v.port_max + 1 /\ v.port_max + 1 < Ports
        BY <1>1, <1>4, <3>1, <3>3 DEF LastPort
      <4>2. next = v.port_max + 1 /\ v.port_max + 1 > v.port_max
        BY <1>1, <4>1, ModSmall
      <4>3. lo = v.port_min
        BY <3>3 DEF lo, FirstPort
      <4> HIDE DEF next
      <4>4. NextPort(v, i, m) = v.port_min
        BY <1>1, <1>2, <3>3, <4>2
      <4> QED BY <1>1, <2>2, <3>1, <4>3, <4>4
    <3> QED BY <1>1, <3>2, <3>3
  <2> QED BY <2>5, <2>6
<1> QED BY <1>3, <1>4

\* The next address and port of flow f are the ones of flow f + 1.
LEMMA NextAddress ==
  ASSUME NEW v \in ClientVars, NEW i, PartFits(v, i),
         NEW m \in Memory, NEW f \in Nat, AddressAt(v, i, m, f)
  PROVE  /\ NextIp(v, i, m) = AddressOf(v, i, f + 1)
         /\ NextPort(v, i, m) = PortOf(v, RoundOf(v, i, f + 1))
         /\ NextIp(v, i, m) \in Nat /\ NextPort(v, i, m) \in Nat
<1> DEFINE s == Size(i)
           ip == (m.val + 1) % v.words
<1>1. /\ v.words \in Nat \ {0}
      /\ i.min \in Nat /\ i.max \in Nat /\ i.min <= i.max /\ i.max < v.words
      /\ s \in Nat \ {0} /\ s = i.max - i.min + 1
  BY ClientFacts
<1>2. m.val = AddressOf(v, i, f) /\ m.port = PortOf(v, RoundOf(v, i, f)) /\ m.port \in Nat
  BY DEF AddressAt, Memory
<1>3. NextIp(v, i, m) = IF ip > i.max THEN i.min ELSE ip
  BY DEF NextIp
<1> HIDE DEF s
<1>4. CASE i.max + 1 = v.words
  <2> DEFINE x == i.min + f
  <2>1. x \in Nat /\ x + 1 = i.min + (f + 1)
    BY <1>1
  <2>2. m.val = x % v.words /\ AddressOf(v, i, f + 1) = (x + 1) % v.words
    BY <1>2, <1>4, <2>1 DEF AddressOf
  <2> HIDE DEF x
  <2>3. ip = (x + 1) % v.words /\ ip \in 0..v.words - 1
    <3>1. x + 1 \in Nat
      BY <2>1
    <3>2. ip = (x + 1) % v.words
      BY <1>1, <2>1, <2>2, ModStep
    <3> QED BY ONLY <1>1, <3>1, <3>2, DivMod
  <2> HIDE DEF ip
  <2>4. ip <= i.max /\ ~(ip > i.max) /\ ip \in Nat
    BY <1>1, <1>4, <2>3
  <2>5. NextPort(v, i, m) = m.port
    BY <2>4, PortKept DEF ip
  <2>6. RoundOf(v, i, f) = RoundOf(v, i, f + 1)
    BY <1>4 DEF RoundOf
  <2> QED BY <1>2, <1>3, <2>2, <2>3, <2>4, <2>5, <2>6
<1>5. CASE i.max + 1 # v.words
  <2> DEFINE r == f % s
             q == f \div s
  <2>1. r \in 0..s - 1 /\ q \in Nat
    BY <1>1, DivMod
  <2>2. /\ r = s - 1 => (f + 1) % s = 0 /\ (f + 1) \div s = q + 1
        /\ r # s - 1 => (f + 1) % s = r + 1 /\ (f + 1) \div s = q
    BY <1>1, ModNext
  <2>3. /\ m.val = i.min + r /\ AddressOf(v, i, f + 1) = i.min + ((f + 1) % s)
        /\ m.port = PortOf(v, q) /\ RoundOf(v, i, f + 1) = (f + 1) \div s
    BY <1>2, <1>5 DEF AddressOf, RoundOf, s
  <2> HIDE DEF r, q
  <2>4. ip = m.val + 1 /\ m.val + 1 \in Nat
    <3>0. i.max + 1 < v.words /\ r <= s - 1 /\ r \in Nat
      BY <1>1, <1>5, <2>1
    <3>1. m.val + 1 \in Nat /\ m.val + 1 < v.words
      BY <1>1, <2>3, <3>0
    <3> QED BY <1>1, <3>1, ModSmall
  <2>5. ip > i.max <=> r = s - 1
    BY <1>1, <2>1, <2>3, <2>4
  <2>6. ip <= i.max <=> r # s - 1
    BY <1>1, <2>1, <2>3, <2>4
  <2>7. CASE r # s - 1
    <3>1. NextPort(v, i, m) = m.port
      BY <2>6, <2>7, PortKept
    <3>2. NextIp(v, i, m) = i.min + (r + 1) /\ NextIp(v, i, m) \in Nat
      BY <1>1, <1>3, <2>1, <2>3, <2>4, <2>5, <2>7
    <3> QED BY <1>2, <2>2, <2>3, <2>7, <3>1, <3>2
  <2>8. CASE r = s - 1
    <3>1. NextPort(v, i, m) = PortOf(v, q + 1) /\ NextPort(v, i, m) \in Nat
      BY <2>1, <2>3, <2>6, <2>8, PortSteps
    <3>2. NextIp(v, i, m) = i.min + 0 /\ NextIp(v, i, m) \in Nat
      BY <1>1, <1>3, <2>5, <2>8
    <3> QED BY <2>2, <2>3, <2>8, <3>1, <3>2
  <2> QED BY <2>7, <2>8
<1> QED BY <1>4, <1>5

\* Flow 0 is the first address with the first port.
LEMMA FlowZero ==
  ASSUME NEW v \in ClientVars, NEW i, PartFits(v, i)
  PROVE  AddressOf(v, i, 0) = i.min /\ PortOf(v, RoundOf(v, i, 0)) = FirstPort(v)
<1> DEFINE s == Size(i)
           z == LastPort(v) - FirstPort(v) + 1
<1>1. /\ v.words \in Nat \ {0} /\ i.min \in Nat /\ i.max \in Nat /\ i.min <= i.max
      /\ i.max < v.words /\ s \in Nat \ {0}
      /\ v.port_min \in Nat /\ v.port_max \in Nat /\ Ports \in Nat \ {0}
      /\ v.port_min <= v.port_max /\ v.port_max < Ports
      /\ FirstPort(v) \in Nat /\ LastPort(v) \in Nat /\ FirstPort(v) <= LastPort(v)
  BY ClientFacts
<1>2. z \in Nat \ {0}
  BY <1>1
<1> HIDE DEF s, z
<1>3. 0 % s = 0 /\ 0 \div s = 0 /\ 0 % z = 0
  BY <1>1, <1>2, ZeroMod
<1>4. i.min % v.words = i.min /\ v.port_min % Ports = v.port_min
  <2>1. i.min < v.words /\ v.port_min < Ports
    BY <1>1
  <2> QED BY <1>1, <2>1, ModSmall
<1>5. RoundOf(v, i, 0) = 0
  BY <1>3 DEF RoundOf, s
<1>6. AddressOf(v, i, 0) = i.min
  <2>1. i.min + 0 = i.min
    BY <1>1
  <2> QED BY <1>3, <1>4, <2>1 DEF AddressOf, s
<1>7. PortOf(v, 0) = FirstPort(v)
  <2>1. v.port_min + 0 = v.port_min /\ FirstPort(v) + 0 = FirstPort(v)
    BY <1>1
  <2>2. ~v.unlimited => FirstPort(v) = v.port_min
    BY DEF FirstPort
  <2> QED BY <1>3, <1>4, <2>1, <2>2 DEF PortOf, z
<1> QED BY <1>5, <1>6, <1>7

\* From the memory a client variable starts with, the next flow is the first one.
LEMMA FirstAddress ==
  ASSUME NEW v \in ClientVars, NEW i, PartFits(v, i), NEW m \in Memory,
         m.val = (IF i.min = 0 THEN 0 ELSE i.min - 1), m.port = FirstPort(v)
  PROVE  /\ NextIp(v, i, m) = AddressOf(v, i, FlowOf(v, i, 0))
         /\ NextPort(v, i, m) = PortOf(v, RoundOf(v, i, FlowOf(v, i, 0)))
         /\ NextIp(v, i, m) \in Nat /\ NextPort(v, i, m) \in Nat
<1>1. /\ v.words \in Nat \ {0} /\ i.min \in Nat /\ i.max \in Nat /\ i.min <= i.max
      /\ i.max < v.words /\ v.limit \in Nat
  BY ClientFacts
<1>2. FlowOf(v, i, 0) = IF i.min = 0 THEN 1 ELSE 0
  BY <1>1 DEF FlowOf
<1>3. CASE i.min = 0
  <2>1. AddressAt(v, i, m, 0)
    BY <1>3, FlowZero DEF AddressAt
  <2>2. 0 \in Nat /\ 0 + 1 = 1
    OBVIOUS
  <2> QED BY <1>2, <1>3, <2>1, <2>2, NextAddress
<1>4. CASE i.min # 0
  <2>1. m.val + 1 = i.min /\ i.min < v.words
    BY <1>1, <1>4
  <2>2. (m.val + 1) % v.words = i.min
    BY <1>1, <2>1, ModSmall
  <2>3. ~(i.min > i.max) /\ (m.val + 1) % v.words <= i.max
    BY <1>1, <2>2
  <2>4. NextIp(v, i, m) = i.min /\ NextPort(v, i, m) = m.port
    BY <2>2, <2>3, PortKept DEF NextIp
  <2>5. m.port \in Nat
    BY DEF Memory
  <2> QED BY <1>1, <1>2, <1>4, <2>4, <2>5, FlowZero
<1> QED BY <1>3, <1>4

\* As long as the flow limit is not passed, the next address and port are those of the
\* flow of the next packet.
LEMMA AddressSteps ==
  ASSUME NEW v \in ClientVars, NEW i, PartFits(v, i), NEW m \in Memory, NEW n \in Nat,
         ClientMem(v, i, m, n),
         n # 0 => FlowOf(v, i, n - 1) \in Nat /\ FlowOf(v, i, n) = FlowOf(v, i, n - 1) + 1
  PROVE  /\ NextIp(v, i, m) = AddressOf(v, i, FlowOf(v, i, n))
         /\ NextPort(v, i, m) = PortOf(v, RoundOf(v, i, FlowOf(v, i, n)))
         /\ NextIp(v, i, m) \in Nat /\ NextPort(v, i, m) \in Nat
<1>1. CASE n = 0
  <2>1. m.val = (IF i.min = 0 THEN 0 ELSE i.min - 1) /\ m.port = FirstPort(v)
    BY <1>1 DEF ClientMem
  <2> QED BY <1>1, <2>1, FirstAddress
<1>2. CASE n # 0
  <2>1. AddressAt(v, i, m, FlowOf(v, i, n - 1))
    BY <1>2 DEF ClientMem
  <2> QED BY <1>2, <2>1, NextAddress
<1> QED BY <1>1, <1>2

\* A step of a client variable is the next flow, flow 0 again at the limit.
LEMMA ClientSteps ==
  ASSUME NEW v \in ClientVars, NEW i, NEW m, NEW n \in Nat, PartFits(v, i),
         MemAt(v, i, m, n)
  PROVE  MemAt(v, i, ClientStep(v, i, m), n + 1)
<1> DEFINE g == ClientStep(v, i, m)
           ip == NextIp(v, i, m)
           port == NextPort(v, i, m)
           flow == (m.flow + 1) % v.words
           first == IF i.min = 0 THEN 1 ELSE 0
           a == AddressOf(v, i, FlowOf(v, i, n))
           b == PortOf(v, RoundOf(v, i, FlowOf(v, i, n)))
<1>1. /\ v.kind = "client" /\ v.limit \in Nat /\ v.limit < v.words /\ v.unlimited \in BOOLEAN
      /\ v.words \in Nat \ {0} /\ v.port_min \in Nat /\ i.min \in Nat
  BY ClientFacts
<1>2. m \in Memory /\ ClientMem(v, i, m, n) /\ m.flow \in Nat
  BY <1>1 DEF MemAt, Memory
<1>3. Endless(v) \in BOOLEAN /\ (Endless(v) <=> v.unlimited \/ v.limit = 0)
  BY DEF Endless
<1>4. /\ n + 1 # 0 /\ n + 1 - 1 = n /\ first \in Nat
      /\ n # 0 => n - 1 \in Nat /\ (n - 1) + 1 = n /\ n - 1 < n
  OBVIOUS
<1>5. SUFFICES /\ g \in Memory /\ g.val = a /\ g.port = b
               /\ g.flow = FlowCount(v, n + 1)
  BY <1>1, <1>4 DEF MemAt, ClientMem, AddressAt
<1>6. ASSUME n # 0 => FlowOf(v, i, n - 1) \in Nat /\ FlowOf(v, i, n) = FlowOf(v, i, n - 1) + 1
      PROVE  ip = a /\ port = b /\ ip \in Nat /\ port \in Nat
  BY <1>2, <1>6, AddressSteps
<1> HIDE DEF ip, port, a, b
<1>7. CASE Endless(v)
  <2>1. g = [val |-> ip, port |-> port, flow |-> m.flow]
    BY <1>3, <1>7 DEF ClientStep, ip, port
  <2>2. FlowOf(v, i, n) = n + first /\ FlowOf(v, i, n - 1) = n - 1 + first
    BY <1>3, <1>7 DEF FlowOf
  <2>3. m.flow = 0 /\ FlowCount(v, n + 1) = 0
    BY <1>2, <1>7 DEF ClientMem, FlowCount
  <2>4. ip = a /\ port = b /\ ip \in Nat /\ port \in Nat
    <3> HIDE DEF first
    <3> QED BY <1>4, <1>6, <2>2
  <2> HIDE DEF g
  <2> QED BY <2>1, <2>3, <2>4 DEF Memory
<1>8. CASE ~Endless(v) /\ v.limit + 1 = v.words
  <2>1. FlowOf(v, i, n) = n + first /\ FlowOf(v, i, n - 1) = n - 1 + first
    BY <1>8 DEF FlowOf
  <2>2. ip = a /\ port = b /\ ip \in Nat /\ port \in Nat
    <3> HIDE DEF first
    <3> QED BY <1>4, <1>6, <2>1
  <2>3. m.flow = n % v.words
    <3>1. CASE n = 0
      BY <1>1, <1>2, <3>1, ZeroMod DEF ClientMem
    <3>2. CASE n # 0
      BY <1>2, <1>8, <3>2 DEF ClientMem, FlowCount
    <3> QED BY <3>1, <3>2
  <2>4. flow = (n + 1) % v.words /\ flow \in 0..v.words - 1
    <3>1. n + 1 \in Nat
      OBVIOUS
    <3>2. flow = (n + 1) % v.words
      BY <1>1, <2>3, ModStep
    <3> QED BY ONLY <1>1, <3>1, <3>2, DivMod
  <2>5. FlowCount(v, n + 1) = (n + 1) % v.words
    BY <1>8 DEF FlowCount
  <2>6. ~(flow > v.limit) /\ flow \in Nat
    <3> HIDE DEF flow
    <3> QED BY <1>1, <1>8, <2>4
  <2>7. g = [val |-> ip, port |-> port, flow |-> flow]
    BY <1>3, <1>8, <2>6 DEF ClientStep, ip, port
  <2> HIDE DEF g, flow
  <2> QED BY <2>2, <2>4, <2>5, <2>6, <2>7 DEF Memory
<1>9. CASE ~Endless(v) /\ v.limit + 1 # v.words
  <2> DEFINE l == v.limit
             f == (n - 1) % l
  <2>1. l \in Nat \ {0} /\ ~v.unlimited /\ l + 1 < v.words
    BY <1>1, <1>3, <1>9
  <2>2. /\ FlowOf(v, i, n) = IF n < l THEN n + first ELSE n % l
        /\ FlowOf(v, i, n - 1) = IF n - 1 < l THEN n - 1 + first ELSE f
    BY <1>3, <1>9 DEF FlowOf
  <2>3. FlowCount(v, n + 1) = (n % l) + 1
    BY <1>4, <1>9 DEF FlowCount
  <2>4. g = IF flow > l THEN [val |-> i.min, port |-> v.port_min, flow |-> 1]
            ELSE [val |-> ip, port |-> port, flow |-> flow]
    BY <1>3, <1>9 DEF ClientStep, ip, port
  <2>5. CASE n = 0
    <3>1. ip = a /\ port = b /\ ip \in Nat /\ port \in Nat
      BY <1>6, <2>5
    <3>2. m.flow + 1 = 1 /\ 1 < v.words
      <4>1. m.flow = 0
        BY <1>2, <2>5 DEF ClientMem
      <4> HIDE DEF first
      <4> QED BY <1>1, <2>1, <4>1
    <3>3. flow = 1 /\ ~(flow > l)
      BY <1>1, <2>1, <3>2, ModSmall
    <3>4. n % l = 0
      BY <2>1, <2>5, ZeroMod
    <3> HIDE DEF g, flow
    <3> QED BY <2>3, <2>4, <3>1, <3>3, <3>4 DEF Memory
  <2>6. CASE n # 0
    <3>1. f \in 0..l - 1
      BY <1>4, <2>1, <2>6, DivMod
    <3>2. /\ f = l - 1 => n % l = 0
          /\ f # l - 1 => n % l = f + 1
      BY <1>4, <2>1, <2>6, ModNext
    <3>3. m.flow = f + 1
      BY <1>2, <1>9, <2>6 DEF ClientMem, FlowCount
    <3>4. flow = f + 2 /\ f + 2 \in Nat
      <4> HIDE DEF f
      <4>1. m.flow + 1 = f + 2 /\ f + 2 \in Nat /\ f + 2 < v.words
        BY <1>1, <2>1, <3>1, <3>3
      <4> QED BY <1>1, <4>1, ModSmall
    <3>5. n < l => n % l = n
      BY <2>1, ModSmall
    <3>6. n - 1 < l => f = n - 1
      BY <1>4, <2>1, <2>6, ModSmall
    <3> HIDE DEF f, flow, g, l
    <3>7. CASE f = l - 1
      <4>1. g = [val |-> i.min, port |-> v.port_min, flow |-> 1]
        BY <2>1, <2>4, <3>1, <3>4, <3>7
      <4>2. ~(n < l)
        BY <2>1, <2>6, <3>2, <3>5, <3>7
      <4>3. FlowOf(v, i, n) = 0
        BY <2>2, <3>2, <3>7, <4>2
      <4>4. a = i.min /\ b = v.port_min
        BY <2>1, <4>3, FlowZero DEF a, b, FirstPort
      <4> QED BY <1>1, <2>3, <3>2, <3>7, <4>1, <4>4 DEF Memory
    <3>8. CASE f # l - 1
      <4>1. g = [val |-> ip, port |-> port, flow |-> f + 2]
        BY <2>1, <2>4, <3>1, <3>4, <3>8
      <4>2. FlowOf(v, i, n - 1) \in Nat /\ FlowOf(v, i, n) = FlowOf(v, i, n - 1) + 1
        <5>1. CASE n < l
          <6>1. n - 1 < l
            BY <2>1, <5>1
          <6>2. FlowOf(v, i, n) = n + first /\ FlowOf(v, i, n - 1) = n - 1 + first
            BY <2>2, <5>1, <6>1
          <6> HIDE DEF first
          <6> QED BY <1>4, <2>6, <6>2
        <5>2. CASE ~(n < l)
          <6>1. ~(n - 1 < l)
            BY <2>1, <2>6, <3>6, <3>8, <5>2
          <6> QED BY <2>2, <3>1, <3>2, <3>8, <5>2, <6>1
        <5> QED BY <5>1, <5>2
      <4>3. ip = a /\ port = b /\ ip \in Nat /\ port \in Nat
        BY <1>6, <4>2
      <4>4. (n % l) + 1 = f + 2
        BY <3>1, <3>2, <3>8
      <4> QED BY <2>3, <3>4, <4>1, <4>3, <4>4 DEF Memory
    <3> QED BY <3>7, <3>8
  <2> QED BY <2>5, <2>6
<1> QED BY <1>3, <1>7, <1>8, <1>9

-----------------------------------------------------------------------------
(* Every step keeps the memories in step with the packets sent.            *)

\* The whole range and the parts fit.
LEMMA WholeFits ==
  ASSUME NEW v \in Vars
  PROVE  PartFits(v, Whole(v))
<1>1. CASE v \in FlowVars
  BY <1>1, FlowVarsAssumption DEF FlowVar, PartFits, Whole
<1>2. CASE v \in ClientVars
  BY <1>2, ClientVarsAssumption DEF ClientVar, PartFits, Whole
<1> QED BY <1>1, <1>2 DEF Vars

\* The part that the loop makes lies in the range.
LEMMA LoopFits ==
  ASSUME PartInv, pc = "loop"
  PROVE  PartFits(var, PartOf(var, start, end)) /\ end \in Nat /\ range_part(var) \in Nat
<1> DEFINE p == range_part(var)
           l == leftover(var)
<1>1. /\ var \in Vars /\ k \in 1..DpCores /\ Splits(var)
      /\ start = Lo(var.min, p, l, k) /\ end = Hi(var.min, p, l, k)
  BY DEF PartInv, Cores
<1>2. /\ p \in Nat \ {0} /\ l \in Nat /\ var.min \in Nat /\ var.max \in Nat
      /\ var.max + 1 = var.min + DpCores * p + l
  BY <1>1, PartsMakeUpRange, VarFacts
<1> HIDE DEF p, l
<1>3. /\ var.min <= start /\ start <= end /\ end < var.max + 1
  BY <1>1, <1>2, PartWithin, SizesAssumption
<1>4. start \in Int /\ end \in Int
  <2>1. k * p \in Int /\ (k - 1) * p \in Int
    BY <1>1, <1>2, SizesAssumption
  <2> QED BY <1>1, <1>2, <2>1 DEF Lo, Hi
<1>5. start \in Nat /\ end \in Nat /\ end <= var.max
  BY <1>2, <1>3, <1>4
<1>6. PartFits(var, PartOf(var, start, end))
  BY <1>1, <1>2, <1>3, <1>5 DEF PartFits, PartOf, Splits
<1> QED BY <1>2, <1>5, <1>6 DEF p

\* StepsInv holds at the start.
LEMMA StepsInit ==
  ASSUME Init
  PROVE  StepsInv
<1>1. var \in Vars /\ PartInv
  BY PartInit DEF Init
<1>2. PartFits(var, Whole(var)) /\ MemAt(var, Whole(var), build_bss(var, Whole(var)), 0)
  BY <1>1, WholeFits, Built
<1>3. /\ build_bss(var, Whole(var)) \in Memory
      /\ Whole(var) \in [min : Nat, max : Nat, init : Nat]
  BY <1>2 DEF MemAt, PartFits
<1>4. /\ inst = [c \in Cores |-> Whole(var)]
      /\ mem = [c \in Cores |-> build_bss(var, Whole(var))]
      /\ sent = [c \in Cores |-> 0] /\ start = 0 /\ end = 0 /\ parted = FALSE
  BY DEF Init
<1>5. \A c \in Cores : PartFits(var, inst[c]) /\ MemAt(var, inst[c], mem[c], sent[c])
  BY <1>2, <1>4
<1>6. pc # "trap"
  BY DEF Init
<1>7. /\ inst \in [Cores -> [min : Nat, max : Nat, init : Nat]] /\ mem \in [Cores -> Memory]
      /\ start \in Nat /\ end \in Nat /\ parted \in BOOLEAN /\ sent \in [Cores -> Nat]
  BY <1>3, <1>4
<1> QED BY <1>1, <1>4, <1>5, <1>6, <1>7 DEF StepsInv

\* The start of a split keeps the invariant.
LEMMA StepsBegin == StepsInv /\ split_begin => StepsInv'
<1> SUFFICES ASSUME StepsInv, split_begin PROVE StepsInv'
  OBVIOUS
<1>1. PartInv' /\ PartInv
  BY PartBegin DEF StepsInv
<1>2. /\ UNCHANGED <<var, inst, mem, sent>> /\ parted' = TRUE /\ pc = "split" /\ pc' = "loop"
      /\ start' = var.min
  BY DEF split_begin
<1>3. var \in Vars /\ var.min \in Nat
  BY <1>1, VarFacts DEF PartInv
<1>4. end' \in Nat
  <2>1. Splits(var) /\ end' = var.min + range_part(var) + leftover(var) - 1
    BY DEF split_begin
  <2>2. range_part(var) \in Nat \ {0} /\ leftover(var) \in Nat
    BY <1>3, <2>1, PartsMakeUpRange
  <2> QED BY <1>3, <2>1, <2>2
<1> QED BY <1>1, <1>2, <1>3, <1>4 DEF StepsInv

\* A round of the loop keeps the invariant.
LEMMA StepsLoop ==
  ASSUME StepsInv, split_core
  PROVE  StepsInv'
<1> DEFINE part == PartOf(var, start, end)
           bss == build_bss(var, part)
<1>1. PartInv' /\ PartInv /\ pc = "loop" /\ k \in Cores /\ var \in Vars
  BY PartStep DEF StepsInv, PartInv, split_core
<1>2. PartFits(var, part) /\ end \in Nat /\ range_part(var) \in Nat
  BY <1>1, LoopFits
<1>3. MemAt(var, part, bss, 0)
  BY <1>1, <1>2, Built
<1>4. part \in [min : Nat, max : Nat, init : Nat] /\ bss \in Memory
  BY <1>2, <1>3 DEF PartFits, MemAt
<1>5. /\ inst' = [inst EXCEPT ![k] = part] /\ mem' = [mem EXCEPT ![k] = bss]
      /\ start' = end + 1 /\ end' = end + range_part(var)
      /\ UNCHANGED <<var, sent, parted>>
  BY DEF split_core
<1>6. /\ inst \in [Cores -> [min : Nat, max : Nat, init : Nat]] /\ mem \in [Cores -> Memory]
      /\ sent = [c \in Cores |-> 0] /\ parted \in BOOLEAN /\ sent \in [Cores -> Nat]
      /\ \A c \in Cores : PartFits(var, inst[c]) /\ MemAt(var, inst[c], mem[c], sent[c])
  BY <1>1 DEF StepsInv
<1> HIDE DEF part, bss
<1>7. /\ inst' \in [Cores -> [min : Nat, max : Nat, init : Nat]] /\ mem' \in [Cores -> Memory]
  BY <1>1, <1>4, <1>5, <1>6
<1>8. start' \in Nat /\ end' \in Nat
  BY <1>2, <1>5
<1>9. ASSUME NEW c \in Cores
      PROVE  PartFits(var', inst'[c]) /\ MemAt(var', inst'[c], mem'[c], sent'[c])
  <2>1. var' = var /\ sent'[c] = 0 /\ sent[c] = 0
    BY <1>5, <1>6
  <2>2. CASE c = k
    <3>1. inst'[c] = part /\ mem'[c] = bss
      BY <1>1, <1>5, <1>6, <2>2
    <3> QED BY <1>2, <1>3, <2>1, <3>1
  <2>3. CASE c # k
    <3>1. inst'[c] = inst[c] /\ mem'[c] = mem[c]
      BY <1>1, <1>5, <1>6, <2>3
    <3> QED BY <1>6, <2>1, <3>1
  <2> QED BY <2>2, <2>3
<1>10. sent' = [c \in Cores |-> 0] /\ parted' \in BOOLEAN /\ sent' \in [Cores -> Nat]
  BY <1>5, <1>6
<1>11. pc' # "trap"
  BY DEF split_core
<1> QED BY <1>1, <1>7, <1>8, <1>9, <1>10, <1>11 DEF StepsInv

\* A packet keeps the invariant.
LEMMA StepsRun ==
  ASSUME StepsInv, NEW c \in Cores, run(c)
  PROVE  StepsInv'
<1>1. PartInv' /\ PartInv /\ var \in Vars
  <2>1. PartInv /\ [Next]_vars
    BY DEF StepsInv, Next
  <2> QED BY <2>1, PartNext DEF PartInv
<1>2. /\ pc = "run" /\ UNCHANGED <<pc, var, k, start, end, inst, parted>>
      /\ sent' = [sent EXCEPT ![c] = @ + 1]
  BY DEF run
<1>3. /\ inst \in [Cores -> [min : Nat, max : Nat, init : Nat]] /\ mem \in [Cores -> Memory]
      /\ start \in Nat /\ end \in Nat /\ parted \in BOOLEAN /\ sent \in [Cores -> Nat]
      /\ \A d \in Cores : PartFits(var, inst[d]) /\ MemAt(var, inst[d], mem[d], sent[d])
  BY DEF StepsInv
<1>4. PICK g : mem' = [mem EXCEPT ![c] = g] /\ MemAt(var, inst[c], g, sent[c] + 1)
  <2>1. CASE var.kind = "flow" /\ \E val \in FlowStep(var, inst[c], mem[c]) :
                                     mem' = [mem EXCEPT ![c].val = val]
    <3>1. PICK val \in FlowStep(var, inst[c], mem[c]) : mem' = [mem EXCEPT ![c].val = val]
      BY <2>1
    <3>2. var \in FlowVars
      BY <1>1, <2>1, ClientVarsAssumption DEF Vars, ClientVar
    <3>3. sent[c] \in Nat
      BY <1>3
    <3>4. MemAt(var, inst[c], [mem[c] EXCEPT !.val = val], sent[c] + 1)
      BY <1>3, <3>1, <3>2, <3>3, FlowSteps DEF run
    <3>5. mem' = [mem EXCEPT ![c] = [mem[c] EXCEPT !.val = val]]
      BY <3>1
    <3> QED BY <3>4, <3>5
  <2>2. CASE var.kind = "client" /\ mem' = [mem EXCEPT ![c] = ClientStep(var, inst[c], mem[c])]
    <3>1. var \in ClientVars
      BY <1>1, <2>2, FlowVarsAssumption DEF Vars, FlowVar
    <3>2. sent[c] \in Nat
      BY <1>3
    <3>3. MemAt(var, inst[c], ClientStep(var, inst[c], mem[c]), sent[c] + 1)
      BY <1>3, <3>1, <3>2, ClientSteps
    <3> QED BY <2>2, <3>3
  <2> QED BY <2>1, <2>2 DEF run
<1>5. g \in Memory
  BY <1>4 DEF MemAt
<1>6. mem' \in [Cores -> Memory] /\ sent' \in [Cores -> Nat]
  BY <1>2, <1>3, <1>4, <1>5
<1>7. ASSUME NEW d \in Cores
      PROVE  PartFits(var', inst'[d]) /\ MemAt(var', inst'[d], mem'[d], sent'[d])
  <2>1. var' = var /\ inst'[d] = inst[d]
    BY <1>2
  <2>2. CASE d = c
    <3>1. mem'[d] = g /\ sent'[d] = sent[c] + 1
      BY <1>2, <1>3, <1>4, <2>2
    <3> QED BY <1>3, <1>4, <2>1, <2>2, <3>1
  <2>3. CASE d # c
    <3>1. mem'[d] = mem[d] /\ sent'[d] = sent[d]
      BY <1>2, <1>3, <1>4, <2>3
    <3> QED BY <1>3, <2>1, <3>1
  <2> QED BY <2>2, <2>3
<1> QED BY <1>1, <1>2, <1>3, <1>6, <1>7 DEF StepsInv

\* Every step keeps the invariant.
LEMMA StepsNext ==
  ASSUME StepsInv, [Next]_vars
  PROVE  StepsInv'
<1>1. CASE split_clone
  <2>1. PartInv'
    <3>1. PartInv /\ [Next]_vars
      BY <1>1 DEF StepsInv, Next
    <3> QED BY <3>1, PartNext
  <2>2. /\ UNCHANGED <<var, k, start, end, inst, mem, sent, parted>> /\ pc' = "run"
    BY <1>1 DEF split_clone
  <2> QED BY <2>1, <2>2 DEF StepsInv
<1>2. CASE split_begin
  BY <1>2, StepsBegin
<1>3. CASE split_core
  BY <1>3, StepsLoop
<1>4. CASE \E c \in Cores : run(c)
  BY <1>4, StepsRun
<1>5. CASE \E c \in Cores : run_traps(c)
  <2>1. PICK c \in Cores : run_traps(c)
    BY <1>5
  <2>2. PartInv /\ PartInv'
    BY PartNext DEF StepsInv
  <2>3. /\ UNCHANGED <<var, k, start, end, inst, mem, sent, parted>> /\ pc' = "trap"
        /\ Traps(var, inst[c])
    BY <2>1 DEF run_traps
  <2>4. var \in FlowVars /\ var.op = "random" /\ Divisor(var, inst[c]) = 0
    BY <2>2, <2>3, ClientVarsAssumption DEF PartInv, Vars, ClientVar, Traps
  <2>5. Size(var) % Ints = 0
    BY <2>4, DivisorFacts DEF StepsInv
  <2> QED BY <2>2, <2>3, <2>5 DEF StepsInv
<1>6. CASE UNCHANGED vars
  <2>1. PartInv'
    <3>1. PartInv /\ [Next]_vars
      BY <1>6 DEF StepsInv
    <3> QED BY <3>1, PartNext
  <2> QED BY <1>6, <2>1 DEF StepsInv, vars
<1> QED BY <1>1, <1>2, <1>3, <1>4, <1>5, <1>6 DEF Next

\* After n > 0 packets the memory is what the properties ask for.
LEMMA StepsFlow ==
  ASSUME StepsInv
  PROVE  FlowValueIsRight
<1> SUFFICES ASSUME NEW c \in Cores, pc = "run", var.kind = "flow", sent[c] > 0
             PROVE  LET i == inst[c]
                        n == sent[c] - 1
                    IN CASE var.op = "inc" ->
                              mem[c].val = i.min + ((i.init - i.min + n) % Size(i))
                         [] var.op = "dec" ->
                              mem[c].val = i.max - ((i.max - i.init + n) % Size(i))
                         [] OTHER -> TRUE
  BY DEF FlowValueIsRight
<1> DEFINE i == inst[c]
           n == sent[c] - 1
           s == Size(i)
<1>1. /\ PartFits(var, i) /\ FlowAt(var, i, mem[c].val, sent[c]) /\ sent[c] \in Nat
      /\ var \in Vars
  BY DEF StepsInv, MemAt, PartInv
<1>2. /\ i.min \in Nat /\ i.max \in Nat /\ i.init \in Nat /\ n \in Nat
      /\ i.min <= i.init /\ i.init <= i.max
  BY <1>1 DEF PartFits
<1>3. s \in Nat \ {0} /\ s = i.max - i.min + 1
  BY <1>2 DEF Size
<1>4. var.op \in {"inc", "dec", "random"}
  BY <1>1, FlowVarsAssumption, ClientVarsAssumption DEF Vars, FlowVar, ClientVar
<1>5. CASE var.op = "inc"
  <2> DEFINE x == i.init - i.min + n
  <2>1. x \in Nat /\ i.init - i.min + s - 1 + sent[c] = x + s
    BY <1>1, <1>2, <1>3
  <2>2. mem[c].val = i.min + ((i.init - i.min + s - 1 + sent[c]) % s)
    BY <1>1, <1>5 DEF FlowAt
  <2> HIDE DEF s, x
  <2>3. mem[c].val = i.min + (x % s)
    BY <1>3, <2>1, <2>2, ModRound
  <2> QED BY <1>5, <2>3 DEF s, x
<1>6. CASE var.op = "dec"
  <2> DEFINE x == i.max - i.init + n
  <2>1. x \in Nat /\ i.max - i.init + s - 1 + sent[c] = x + s
    BY <1>1, <1>2, <1>3
  <2>2. mem[c].val = i.max - ((i.max - i.init + s - 1 + sent[c]) % s)
    BY <1>1, <1>6 DEF FlowAt
  <2> HIDE DEF s, x
  <2>3. mem[c].val = i.max - (x % s)
    BY <1>3, <2>1, <2>2, ModRound
  <2> QED BY <1>6, <2>3 DEF s, x
<1>7. CASE var.op = "random"
  BY <1>7
<1> QED BY <1>4, <1>5, <1>6, <1>7

\* The memory in closed form gives the address and the port of the packet.
LEMMA StepsClient ==
  ASSUME StepsInv
  PROVE  ClientFlowIsRight
<1> SUFFICES ASSUME NEW c \in Cores, pc = "run", var.kind = "client", sent[c] > 0
             PROVE  AddressAt(var, inst[c], mem[c], FlowOf(var, inst[c], sent[c] - 1))
  BY DEF ClientFlowIsRight, AddressAt
<1>1. ClientMem(var, inst[c], mem[c], sent[c]) /\ sent[c] # 0
  BY DEF StepsInv, MemAt
<1> QED BY <1>1 DEF ClientMem

\* The memory in closed form is in the range of a random variable.
LEMMA StepsRandom ==
  ASSUME StepsInv
  PROVE  RandomIsRight
<1> SUFFICES ASSUME var.kind = "flow", var.op = "random"
             PROVE  /\ \A c \in Cores : sent[c] > 0 /\ ~SignCounts(var) =>
                                          mem[c].val \in var.min..var.max
                    /\ pc = "trap" => Size(var) % Ints = 0
  BY DEF RandomIsRight
<1>1. ASSUME NEW c \in Cores, sent[c] > 0, ~SignCounts(var)
      PROVE  mem[c].val \in var.min..var.max
  <2>1. FlowAt(var, inst[c], mem[c].val, sent[c])
    BY DEF StepsInv, MemAt
  <2> QED BY <1>1, <2>1 DEF FlowAt
<1>2. pc = "trap" => Size(var) % Ints = 0
  BY DEF StepsInv
<1> QED BY <1>1, <1>2

\* The properties follow.
LEMMA StepsImply == StepsInv => ValuesInv
<1> SUFFICES ASSUME StepsInv PROVE ValuesInv
  OBVIOUS
<1>1. TypeOK
  BY DEF StepsInv, PartInv, TypeOK, Memory
<1> QED BY <1>1, StepsFlow, StepsClient, StepsRandom DEF ValuesInv

\* For every number of cores and packets, all word sizes and all variables, up to the
\* first and the last number of their types, each packet of each core carries the value
\* whose turn it is (get_bss_init_value, StreamDPOpFlowVar8 .. 64,
\* StreamDPOpClientsLimit and StreamDPOpClientsUnLimit).  What run_rand's modulo makes is
\* a value of the range unless the size of the range, cast to int, has a sign that 64
\* bits keep, and the modulo is by 0 only for a size that is a multiple of 2^32.
THEOREM ValuesAreRight == Spec => []ValuesInv
<1>1. Init => StepsInv
  BY StepsInit
<1>2. StepsInv /\ [Next]_vars => StepsInv'
  BY StepsNext
<1>3. StepsInv => ValuesInv
  BY StepsImply
<1> QED BY <1>1, <1>2, <1>3, PTL DEF Spec
=============================================================================
