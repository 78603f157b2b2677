---------------------------- MODULE RxCheckProofs ----------------------------
(***************************************************************************)
(* Proofs about the receive check, for every set of flows and packets and  *)
(* every bound.  Three layers of invariant: RxInv (the table, the lazily   *)
(* repaired wheel and the counters agree), HistInv (an entry agrees with   *)
(* what its flow received) and AlarmInv (what was received in sequence was *)
(* counted without an error).  From the first follow TableInv and the      *)
(* refinement of AgingTimers, from the second CleanFlowWasDelivered, from  *)
(* the third NoFalseAlarm.                                                 *)
(***************************************************************************)
EXTENDS RxCheck, FiniteSetTheorems, TLAPS

-----------------------------------------------------------------------------
(* The wheel, operation by operation.                                      *)

\* w is a wheel's record and nothing more.
IsRecord(w) ==
    w = [m_pq |-> w.m_pq, m_timer |-> w.m_timer,
         m_st_alloc |-> w.m_st_alloc, m_st_free |-> w.m_st_free]

\* The types of a wheel; timers are numbered as they are allocated.
HasTypes(w) ==
    /\ IsRecord(w)
    /\ w.m_timer \in [Flow -> Nat]
    /\ w.m_st_alloc \in Nat /\ w.m_st_free \in Nat
    /\ w.m_pq \in [DOMAIN w.m_pq -> Timer]
    /\ DOMAIN w.m_pq \subseteq 1 .. w.m_st_alloc
    /\ Cardinality(DOMAIN w.m_pq) = w.m_st_alloc - w.m_st_free

\* The record that Push makes.
LEMMA PushFields ==
  ASSUME NEW w, HasTypes(w), NEW f \in Flow, NEW t \in Nat
  PROVE  LET id == w.m_st_alloc + 1
             n  == Push(w, f, t)
         IN  /\ IsRecord(n)
             /\ n.m_pq = [i \in (DOMAIN w.m_pq) \cup {id} |->
                          IF i = id
                          THEN [m_time |-> t, m_updated_time |-> NotUpdated, m_flow |-> f]
                          ELSE w.m_pq[i]]
             /\ n.m_timer = [w.m_timer EXCEPT ![f] = id]
             /\ n.m_st_alloc = id /\ n.m_st_free = w.m_st_free
<1> DEFINE id == w.m_st_alloc + 1
           n  == Push(w, f, t)
           q  == [i \in (DOMAIN w.m_pq) \cup {id} |->
                    IF i = id
                    THEN [m_time |-> t, m_updated_time |-> NotUpdated, m_flow |-> f]
                    ELSE w.m_pq[i]]
<1>1. n = [w EXCEPT !.m_pq = q, !.m_timer[f] = id, !.m_st_alloc = id]
  BY DEF Push
<1>2. f \in DOMAIN w.m_timer /\ IsRecord(w)
  BY DEF HasTypes
<1> HIDE DEF n, q, id
<1>3. n = [m_pq |-> q, m_timer |-> [w.m_timer EXCEPT ![f] = id],
           m_st_alloc |-> id, m_st_free |-> w.m_st_free]
  BY <1>1, <1>2 DEF IsRecord
<1> QED BY <1>3 DEF IsRecord, n, q, id

\* The record that Kill makes.
LEMMA KillFields ==
  ASSUME NEW w, HasTypes(w), NEW f \in Flow, w.m_timer[f] \in DOMAIN w.m_pq
  PROVE  LET n == Kill(w, f)
             j == w.m_timer[f]
         IN  /\ IsRecord(n)
             /\ n.m_pq = [i \in DOMAIN w.m_pq |->
                           IF i = j THEN [w.m_pq[i] EXCEPT !.m_flow = NoFlow]
                           ELSE w.m_pq[i]]
             /\ n.m_timer = w.m_timer
             /\ n.m_st_alloc = w.m_st_alloc /\ n.m_st_free = w.m_st_free
BY DEF Kill, HasTypes, IsRecord

\* The handle of g points to its timer.
Attached(w, g) ==
    w.m_timer[g] # NoTimer =>
       w.m_timer[g] \in DOMAIN w.m_pq /\ w.m_pq[w.m_timer[g]].m_flow = g

\* Handles and live timers point to each other; a killed timer has no flow.
IsWheel(w) ==
    /\ HasTypes(w)
    /\ \A g \in Flow : Attached(w, g)
    /\ \A i \in DOMAIN w.m_pq :
          w.m_pq[i].m_flow # NoFlow => w.m_timer[w.m_pq[i].m_flow] = i

\* A wheel in which no timer is that of f, whatever its handle says.
IsWheelBut(w, f) ==
    /\ HasTypes(w)
    /\ \A g \in Flow : g # f => Attached(w, g)
    /\ \A i \in DOMAIN w.m_pq :
          w.m_pq[i].m_flow # NoFlow =>
             w.m_pq[i].m_flow # f /\ w.m_timer[w.m_pq[i].m_flow] = i

\* When f is overdue, as AgingTimers sees it.
Deadline(w, f) == IF w.m_timer[f] = NoTimer THEN NoDeadline ELSE DeadlineOf(w, f)

\* Nothing changes for the flows other than f.
OthersKept(w, n, f) ==
    \A g \in Flow : g # f => n.m_timer[g] = w.m_timer[g] /\ Deadline(n, g) = Deadline(w, g)

\* A timer that is in the queue for a flow in both wheels, with the same times,
\* gives it the same deadline.
LEMMA SameDeadline ==
  ASSUME NEW w, NEW n, NEW g, n.m_timer[g] = w.m_timer[g],
         w.m_timer[g] # NoTimer => /\ n.m_pq[w.m_timer[g]].m_time = w.m_pq[w.m_timer[g]].m_time
                                   /\ n.m_pq[w.m_timer[g]].m_updated_time
                                        = w.m_pq[w.m_timer[g]].m_updated_time
  PROVE  Deadline(n, g) = Deadline(w, g)
BY DEF Deadline, DeadlineOf, IsPutOff

\* The queue is finite.
LEMMA IntervalFinite ==
  ASSUME NEW w, HasTypes(w)
  PROVE  IsFiniteSet(DOMAIN w.m_pq) /\ Cardinality(DOMAIN w.m_pq) \in Nat
<1>1. IsFiniteSet(1 .. w.m_st_alloc)
  BY FS_Interval, SMTT(60) DEF HasTypes
<1>2. DOMAIN w.m_pq \in SUBSET (1 .. w.m_st_alloc)
  BY DEF HasTypes
<1> QED BY <1>1, <1>2, FS_Subset, FS_CardinalityType

\* A new timer becomes the one timer of its flow, and of no other.
LEMMA PushWheel ==
  ASSUME NEW w, NEW f \in Flow, IsWheelBut(w, f), NEW t \in Nat
  PROVE  /\ IsWheel(Push(w, f, t))
         /\ Push(w, f, t).m_timer[f] # NoTimer /\ Deadline(Push(w, f, t), f) = t
         /\ OthersKept(w, Push(w, f, t), f)
<1> DEFINE n  == Push(w, f, t)
           id == w.m_st_alloc + 1
           r  == [m_time |-> t, m_updated_time |-> NotUpdated, m_flow |-> f]
<1>1. HasTypes(w)
  BY DEF IsWheelBut
<1>2. /\ IsRecord(n)
      /\ n.m_pq = [i \in (DOMAIN w.m_pq) \cup {id} |-> IF i = id THEN r ELSE w.m_pq[i]]
      /\ n.m_timer = [w.m_timer EXCEPT ![f] = id]
      /\ n.m_st_alloc = id /\ n.m_st_free = w.m_st_free
  BY <1>1, PushFields
<1>3. id \notin DOMAIN w.m_pq /\ id \in Nat \ {0}
  BY <1>1 DEF HasTypes
<1> HIDE DEF n
<1>4. /\ DOMAIN n.m_pq = (DOMAIN w.m_pq) \cup {id} /\ n.m_pq[id] = r
      /\ \A i \in DOMAIN w.m_pq : n.m_pq[i] = w.m_pq[i]
  BY <1>2, <1>3
<1>5. n.m_timer[f] = id /\ \A g \in Flow : g # f => n.m_timer[g] = w.m_timer[g]
  BY <1>1, <1>2 DEF HasTypes
<1>6. r \in Timer
  BY DEF Timer
<1>7. HasTypes(n)
  <2>1. n.m_timer \in [Flow -> Nat]
    BY <1>1, <1>2, <1>3 DEF HasTypes
  <2>2. n.m_pq \in [DOMAIN n.m_pq -> Timer]
    BY <1>1, <1>2, <1>4, <1>6 DEF HasTypes
  <2>3. DOMAIN n.m_pq \subseteq 1 .. id
    BY <1>1, <1>4 DEF HasTypes
  <2>4. Cardinality(DOMAIN n.m_pq) = Cardinality(DOMAIN w.m_pq) + 1
    BY <1>1, <1>3, <1>4, IntervalFinite, FS_AddElement
  <2>5. Cardinality(DOMAIN n.m_pq) = id - n.m_st_free
    BY <1>1, <1>2, <2>4, IntervalFinite DEF HasTypes
  <2> QED BY <1>1, <1>2, <1>3, <2>1, <2>2, <2>3, <2>5 DEF HasTypes
<1>8. \A g \in Flow : Attached(n, g)
  <2>1. Attached(n, f)
    BY <1>4, <1>5 DEF Attached
  <2>2. \A g \in Flow : g # f => Attached(n, g)
    BY <1>4, <1>5 DEF Attached, IsWheelBut
  <2> QED BY <2>1, <2>2
<1>9. \A i \in DOMAIN n.m_pq : n.m_pq[i].m_flow # NoFlow => n.m_timer[n.m_pq[i].m_flow] = i
  <2>1. n.m_timer[n.m_pq[id].m_flow] = id
    BY <1>4, <1>5
  <2>2. ASSUME NEW i \in DOMAIN w.m_pq, n.m_pq[i].m_flow # NoFlow
        PROVE  n.m_timer[n.m_pq[i].m_flow] = i
    <3>1. w.m_pq[i] \in Timer
      BY <1>1 DEF HasTypes
    <3>2. w.m_pq[i].m_flow # NoFlow /\ w.m_pq[i].m_flow \in Flow
      BY <1>4, <2>2, <3>1 DEF Timer
    <3> QED BY <1>4, <1>5, <3>2 DEF IsWheelBut
  <2> QED BY <1>4, <2>1, <2>2
<1>10. Deadline(n, f) = t
  BY <1>3, <1>4, <1>5 DEF Deadline, DeadlineOf, IsPutOff, NoTimer, NotUpdated
<1>11. OthersKept(w, n, f)
  <2> SUFFICES ASSUME NEW g \in Flow, g # f
               PROVE  n.m_timer[g] = w.m_timer[g] /\ Deadline(n, g) = Deadline(w, g)
    BY DEF OthersKept
  <2>1. n.m_timer[g] = w.m_timer[g] /\ Attached(w, g)
    BY <1>5 DEF IsWheelBut
  <2> QED BY <1>4, <2>1, SameDeadline DEF Attached
<1> QED BY <1>3, <1>5, <1>7, <1>8, <1>9, <1>10, <1>11 DEF IsWheel, NoTimer, n

\* A step that changes one timer of the queue, in place.
LEMMA InPlace ==
  ASSUME NEW w, HasTypes(w), NEW n, IsRecord(n), NEW j \in DOMAIN w.m_pq, NEW r \in Timer,
         n.m_pq = [i \in DOMAIN w.m_pq |-> IF i = j THEN r ELSE w.m_pq[i]],
         n.m_timer \in [Flow -> Nat],
         n.m_st_alloc = w.m_st_alloc, n.m_st_free = w.m_st_free
  PROVE  /\ HasTypes(n) /\ DOMAIN n.m_pq = DOMAIN w.m_pq
         /\ n.m_pq[j] = r /\ \A i \in DOMAIN w.m_pq : i # j => n.m_pq[i] = w.m_pq[i]
<1>1. /\ DOMAIN n.m_pq = DOMAIN w.m_pq
      /\ n.m_pq[j] = r /\ \A i \in DOMAIN w.m_pq : i # j => n.m_pq[i] = w.m_pq[i]
  OBVIOUS
<1>2. n.m_pq \in [DOMAIN n.m_pq -> Timer]
  BY <1>1 DEF HasTypes
<1> QED BY <1>1, <1>2 DEF HasTypes

\* Killing the timer of f leaves no timer that may fire for f.
LEMMA KillWheel ==
  ASSUME NEW w, IsWheel(w), NEW f \in Flow, w.m_timer[f] # NoTimer
  PROVE  /\ IsWheelBut(Kill(w, f), f) /\ Kill(w, f).m_timer = w.m_timer
         /\ OthersKept(w, Kill(w, f), f)
<1> DEFINE n == Kill(w, f)
           j == w.m_timer[f]
           r == [w.m_pq[j] EXCEPT !.m_flow = NoFlow]
<1>1. HasTypes(w) /\ j \in DOMAIN w.m_pq /\ w.m_pq[j].m_flow = f /\ w.m_pq[j] \in Timer
  BY DEF IsWheel, Attached, HasTypes
<1>2. r \in Timer /\ r.m_flow = NoFlow
  BY <1>1 DEF Timer
<1>3. /\ IsRecord(n) /\ n.m_timer = w.m_timer
      /\ n.m_pq = [i \in DOMAIN w.m_pq |-> IF i = j THEN r ELSE w.m_pq[i]]
      /\ n.m_st_alloc = w.m_st_alloc /\ n.m_st_free = w.m_st_free
  BY <1>1, KillFields
<1> HIDE DEF n, r
<1>4. /\ HasTypes(n) /\ DOMAIN n.m_pq = DOMAIN w.m_pq
      /\ n.m_pq[j] = r /\ \A i \in DOMAIN w.m_pq : i # j => n.m_pq[i] = w.m_pq[i]
  <2>1. n.m_timer \in [Flow -> Nat]
    BY <1>1, <1>3 DEF HasTypes
  <2> QED BY <1>1, <1>2, <1>3, <2>1, InPlace
<1>5. \A g \in Flow : g # f => /\ Attached(w, g)
                               /\ w.m_timer[g] # NoTimer => w.m_timer[g] # j
  BY <1>1 DEF IsWheel, Attached
<1>6. IsWheelBut(n, f)
  <2>1. \A g \in Flow : g # f => Attached(n, g)
    BY <1>3, <1>4, <1>5 DEF Attached
  <2>2. ASSUME NEW i \in DOMAIN w.m_pq, n.m_pq[i].m_flow # NoFlow
        PROVE  n.m_pq[i].m_flow # f /\ w.m_timer[n.m_pq[i].m_flow] = i
    <3>1. i # j
      BY <1>2, <1>4, <2>2
    <3>2. n.m_pq[i] = w.m_pq[i]
      BY <1>4, <3>1
    <3>3. w.m_timer[w.m_pq[i].m_flow] = i
      BY <2>2, <3>2 DEF IsWheel
    <3> QED BY <3>1, <3>2, <3>3
  <2> QED BY <1>3, <1>4, <2>1, <2>2 DEF IsWheelBut
<1>7. OthersKept(w, n, f)
  <2> SUFFICES ASSUME NEW g \in Flow, g # f
               PROVE  n.m_timer[g] = w.m_timer[g] /\ Deadline(n, g) = Deadline(w, g)
    BY DEF OthersKept
  <2>1. w.m_timer[g] # NoTimer => n.m_pq[w.m_timer[g]] = w.m_pq[w.m_timer[g]]
    BY <1>4, <1>5 DEF Attached
  <2> QED BY <1>3, <2>1, SameDeadline
<1> QED BY <1>3, <1>6, <1>7 DEF n

\* restart_timer(): the flow has the new deadline, however its timer stood.
LEMMA RestartWheel ==
  ASSUME NEW w, IsWheel(w), NEW f \in Flow, NEW t \in Nat
  PROVE  /\ IsWheel(restart_timer(w, f, t))
         /\ restart_timer(w, f, t).m_timer[f] # NoTimer
         /\ Deadline(restart_timer(w, f, t), f) = t
         /\ OthersKept(w, restart_timer(w, f, t), f)
<1> DEFINE n == restart_timer(w, f, t)
           j == w.m_timer[f]
<1>1. CASE w.m_timer[f] = NoTimer
  <2>1. IsWheelBut(w, f)
    <3>1. \A i \in DOMAIN w.m_pq : i # NoTimer
      BY DEF IsWheel, HasTypes, NoTimer
    <3>2. \A i \in DOMAIN w.m_pq :
            w.m_pq[i].m_flow # NoFlow => w.m_pq[i].m_flow # f /\ w.m_timer[w.m_pq[i].m_flow] = i
      BY <1>1, <3>1 DEF IsWheel
    <3> QED BY <3>2 DEF IsWheelBut, IsWheel
  <2>2. n = Push(w, f, t)
    BY <1>1 DEF restart_timer
  <2> QED BY <2>1, <2>2, PushWheel
<1>2. CASE w.m_timer[f] # NoTimer /\ t > w.m_pq[j].m_time
  <2> DEFINE r == [w.m_pq[j] EXCEPT !.m_updated_time = t]
  <2>1. /\ HasTypes(w) /\ j \in DOMAIN w.m_pq /\ w.m_pq[j].m_flow = f /\ w.m_pq[j] \in Timer
        /\ w.m_timer \in [Flow -> Nat]
    BY <1>2 DEF IsWheel, Attached, HasTypes
  <2>2. /\ r \in Timer /\ r.m_flow = f /\ r.m_updated_time = t /\ r.m_time = w.m_pq[j].m_time
        /\ r.m_time \in Nat
    BY <2>1 DEF Timer
  <2>3. n = [w EXCEPT !.m_pq[w.m_timer[f]].m_updated_time = t]
    BY <1>2 DEF restart_timer
  <2>4. /\ IsRecord(n) /\ n.m_timer = w.m_timer
        /\ n.m_pq = [i \in DOMAIN w.m_pq |-> IF i = j THEN r ELSE w.m_pq[i]]
        /\ n.m_st_alloc = w.m_st_alloc /\ n.m_st_free = w.m_st_free
    BY <2>1, <2>3 DEF HasTypes, IsRecord
  <2> HIDE DEF n, r
  <2>5. /\ HasTypes(n) /\ DOMAIN n.m_pq = DOMAIN w.m_pq
        /\ n.m_pq[j] = r /\ \A i \in DOMAIN w.m_pq : i # j => n.m_pq[i] = w.m_pq[i]
    BY <2>1, <2>2, <2>4, InPlace
  <2>6. \A i \in DOMAIN w.m_pq : n.m_pq[i].m_flow = w.m_pq[i].m_flow
    BY <2>1, <2>2, <2>5
  <2>7. IsWheel(n)
    BY <2>4, <2>5, <2>6 DEF IsWheel, Attached
  <2>8. Deadline(n, f) = t
    BY <1>2, <2>2, <2>4, <2>5 DEF Deadline, DeadlineOf, IsPutOff
  <2>9. OthersKept(w, n, f)
    <3> SUFFICES ASSUME NEW g \in Flow, g # f
                 PROVE  n.m_timer[g] = w.m_timer[g] /\ Deadline(n, g) = Deadline(w, g)
      BY DEF OthersKept
    <3>1. w.m_timer[g] # NoTimer => n.m_pq[w.m_timer[g]] = w.m_pq[w.m_timer[g]]
      BY <2>1, <2>5 DEF IsWheel, Attached
    <3> QED BY <2>4, <3>1, SameDeadline
  <2> QED BY <1>2, <2>4, <2>7, <2>8, <2>9 DEF n
<1>3. CASE w.m_timer[f] # NoTimer /\ ~(t > w.m_pq[j].m_time)
  <2>1. n = Push(Kill(w, f), f, t)
    BY <1>3 DEF restart_timer
  <2>2. IsWheelBut(Kill(w, f), f) /\ OthersKept(w, Kill(w, f), f)
    BY <1>3, KillWheel
  <2>3. /\ IsWheel(n) /\ n.m_timer[f] # NoTimer /\ Deadline(n, f) = t
        /\ OthersKept(Kill(w, f), n, f)
    BY <2>1, <2>2, PushWheel
  <2> QED BY <2>2, <2>3 DEF OthersKept
<1> QED BY <1>1, <1>2, <1>3

\* stop_timer(): the flow has no deadline and no timer in the queue is its own.
LEMMA StopWheel ==
  ASSUME NEW w, IsWheel(w), NEW f \in Flow
  PROVE  /\ IsWheel(stop_timer(w, f))
         /\ stop_timer(w, f).m_timer[f] = NoTimer
         /\ OthersKept(w, stop_timer(w, f), f)
<1> DEFINE n == stop_timer(w, f)
           k == Kill(w, f)
<1>1. CASE w.m_timer[f] = NoTimer
  BY <1>1 DEF stop_timer, OthersKept
<1>2. CASE w.m_timer[f] # NoTimer
  <2>1. IsWheelBut(k, f) /\ OthersKept(w, k, f) /\ k.m_timer = w.m_timer
    BY <1>2, KillWheel
  <2>2. n = [k EXCEPT !.m_timer[f] = NoTimer]
    BY <1>2 DEF stop_timer
  <2> HIDE DEF n, k
  <2>3. HasTypes(k) /\ IsRecord(k) /\ f \in DOMAIN k.m_timer
    BY <2>1 DEF IsWheelBut, HasTypes
  <2>4. n = [m_pq |-> k.m_pq, m_timer |-> [k.m_timer EXCEPT ![f] = NoTimer],
             m_st_alloc |-> k.m_st_alloc, m_st_free |-> k.m_st_free]
    BY <2>2, <2>3 DEF IsRecord
  <2>5. /\ IsRecord(n) /\ n.m_pq = k.m_pq
        /\ n.m_st_alloc = k.m_st_alloc /\ n.m_st_free = k.m_st_free
        /\ n.m_timer \in [Flow -> Nat]
        /\ n.m_timer[f] = NoTimer /\ \A g \in Flow : g # f => n.m_timer[g] = k.m_timer[g]
    BY <2>3, <2>4 DEF IsRecord, HasTypes, NoTimer
  <2>6. HasTypes(n)
    BY <2>3, <2>5 DEF HasTypes
  <2>7. \A i \in DOMAIN k.m_pq : k.m_pq[i].m_flow # NoFlow =>
          k.m_pq[i].m_flow # f /\ k.m_pq[i].m_flow \in Flow /\ k.m_timer[k.m_pq[i].m_flow] = i
    BY <2>1, <2>3 DEF IsWheelBut, HasTypes, Timer
  <2>8. IsWheel(n)
    <3>1. \A g \in Flow : Attached(n, g)
      BY <2>1, <2>5 DEF IsWheelBut, Attached
    <3> QED BY <2>5, <2>6, <2>7, <3>1 DEF IsWheel
  <2>9. OthersKept(k, n, f)
    BY <2>5, SameDeadline DEF OthersKept
  <2> QED BY <2>1, <2>5, <2>8, <2>9 DEF OthersKept, n
<1> QED BY <1>1, <1>2

\* Deleting a timer that is nobody's.
LEMMA DropWheel ==
  ASSUME NEW w, IsWheel(w), NEW i \in DOMAIN w.m_pq, ~is_valid(w, i)
  PROVE  /\ IsWheel(DropTop(w, i)) /\ DropTop(w, i).m_timer = w.m_timer
         /\ \A g \in Flow : Deadline(DropTop(w, i), g) = Deadline(w, g)
<1> DEFINE n == DropTop(w, i)
           D == (DOMAIN w.m_pq) \ {i}
<1>1. HasTypes(w) /\ w.m_pq[i].m_flow = NoFlow
  BY DEF IsWheel, is_valid
<1>2. /\ IsRecord(n) /\ n.m_timer = w.m_timer
      /\ n.m_pq = [k \in D |-> w.m_pq[k]]
      /\ n.m_st_alloc = w.m_st_alloc /\ n.m_st_free = w.m_st_free + 1
  <2>1. IsRecord(w)
    BY <1>1 DEF HasTypes
  <2>2. n = [w EXCEPT !.m_pq = Restrict(w.m_pq, D), !.m_st_free = w.m_st_free + 1]
    BY DEF DropTop
  <2>3. n = [m_pq |-> Restrict(w.m_pq, D), m_timer |-> w.m_timer,
             m_st_alloc |-> w.m_st_alloc, m_st_free |-> w.m_st_free + 1]
    BY <2>1, <2>2 DEF IsRecord
  <2> QED BY <2>3 DEF IsRecord, Restrict
<1> HIDE DEF n
<1>3. DOMAIN n.m_pq = D /\ \A k \in D : n.m_pq[k] = w.m_pq[k]
  BY <1>2
<1>4. HasTypes(n)
  <2>1. Cardinality(D) = Cardinality(DOMAIN w.m_pq) - 1
    BY <1>1, IntervalFinite, FS_RemoveElement
  <2>2. n.m_pq \in [DOMAIN n.m_pq -> Timer] /\ DOMAIN n.m_pq \subseteq 1 .. n.m_st_alloc
    BY <1>1, <1>2, <1>3 DEF HasTypes
  <2>3. Cardinality(DOMAIN n.m_pq) = n.m_st_alloc - n.m_st_free
    BY <1>1, <1>2, <1>3, <2>1, IntervalFinite DEF HasTypes
  <2> QED BY <1>1, <1>2, <2>2, <2>3 DEF HasTypes
<1>5. \A g \in Flow : w.m_timer[g] # NoTimer =>
         w.m_timer[g] \in D /\ w.m_pq[w.m_timer[g]].m_flow = g
  BY <1>1, FlowAssumption DEF IsWheel, Attached
<1>6. IsWheel(n)
  BY <1>2, <1>3, <1>4, <1>5 DEF IsWheel, Attached
<1>7. \A g \in Flow : Deadline(n, g) = Deadline(w, g)
  <2> SUFFICES ASSUME NEW g \in Flow PROVE Deadline(n, g) = Deadline(w, g)
    OBVIOUS
  <2>1. w.m_timer[g] # NoTimer => n.m_pq[w.m_timer[g]] = w.m_pq[w.m_timer[g]]
    BY <1>3, <1>5
  <2> QED BY <1>2, <2>1, SameDeadline
<1> QED BY <1>2, <1>6, <1>7 DEF n

\* Pushing a timer that was put off again.
LEMMA RepushWheel ==
  ASSUME NEW w, IsWheel(w), NEW j \in DOMAIN w.m_pq, IsPutOff(w, j)
  PROVE  /\ IsWheel(RepushTop(w, j)) /\ RepushTop(w, j).m_timer = w.m_timer
         /\ \A g \in Flow : Deadline(RepushTop(w, j), g) = Deadline(w, g)
<1> DEFINE n == RepushTop(w, j)
           r == [w.m_pq[j] EXCEPT !.m_time = w.m_pq[j].m_updated_time]
<1>1. HasTypes(w) /\ w.m_pq[j] \in Timer /\ w.m_timer \in [Flow -> Nat]
  BY DEF IsWheel, HasTypes
<1>2. w.m_pq[j].m_updated_time \in Nat
  BY <1>1 DEF IsPutOff, Timer, NotUpdated
<1>3. /\ r \in Timer /\ r.m_flow = w.m_pq[j].m_flow
      /\ r.m_time = w.m_pq[j].m_updated_time /\ r.m_updated_time = w.m_pq[j].m_updated_time
  BY <1>1, <1>2 DEF Timer
<1>4. /\ IsRecord(n) /\ n.m_timer = w.m_timer
      /\ n.m_pq = [i \in DOMAIN w.m_pq |-> IF i = j THEN r ELSE w.m_pq[i]]
      /\ n.m_st_alloc = w.m_st_alloc /\ n.m_st_free = w.m_st_free
  BY <1>1 DEF HasTypes, IsRecord, RepushTop
<1> HIDE DEF n, r
<1>5. /\ HasTypes(n) /\ DOMAIN n.m_pq = DOMAIN w.m_pq
      /\ n.m_pq[j] = r /\ \A i \in DOMAIN w.m_pq : i # j => n.m_pq[i] = w.m_pq[i]
  BY <1>1, <1>3, <1>4, InPlace
<1>6. \A i \in DOMAIN w.m_pq : n.m_pq[i].m_flow = w.m_pq[i].m_flow
  BY <1>3, <1>5
<1>7. IsWheel(n)
  BY <1>4, <1>5, <1>6 DEF IsWheel, Attached
<1>8. ASSUME NEW g \in Flow PROVE Deadline(n, g) = Deadline(w, g)
  <2>1. CASE w.m_timer[g] = j
    BY <1>2, <1>3, <1>4, <1>5, <2>1 DEF Deadline, DeadlineOf, IsPutOff
  <2>2. CASE w.m_timer[g] # j
    <3>1. w.m_timer[g] # NoTimer => n.m_pq[w.m_timer[g]] = w.m_pq[w.m_timer[g]]
      BY <1>5, <2>2 DEF IsWheel, Attached
    <3> QED BY <1>4, <3>1, SameDeadline
  <2> QED BY <2>1, <2>2
<1> QED BY <1>4, <1>7, <1>8 DEF n

\* A timer that expires leaves its flow without a deadline.
LEMMA ExpireWheel ==
  ASSUME NEW w, IsWheel(w), NEW i \in DOMAIN w.m_pq, is_valid(w, i)
  PROVE  LET f == w.m_pq[i].m_flow
             n == ExpireTop(w, i)
         IN  /\ f \in Flow /\ w.m_timer[f] = i
             /\ IsWheel(n) /\ n.m_timer[f] = NoTimer
             /\ OthersKept(w, n, f)
<1> DEFINE f == w.m_pq[i].m_flow
           n == ExpireTop(w, i)
           v == [w EXCEPT !.m_timer[f] = NoTimer]
           D == (DOMAIN w.m_pq) \ {i}
<1>1. HasTypes(w) /\ w.m_pq[i] \in Timer /\ w.m_timer \in [Flow -> Nat] /\ IsRecord(w)
  BY DEF IsWheel, HasTypes
<1>2. f \in Flow /\ w.m_timer[f] = i
  BY <1>1 DEF IsWheel, is_valid, Timer
<1>3. /\ v.m_pq = w.m_pq /\ v.m_st_free = w.m_st_free /\ v.m_st_alloc = w.m_st_alloc
      /\ v.m_timer = [w.m_timer EXCEPT ![f] = NoTimer] /\ IsRecord(v)
  <2> HIDE DEF f
  <2>1. f \in DOMAIN w.m_timer
    BY <1>1, <1>2
  <2>2. v = [m_pq |-> w.m_pq, m_timer |-> [w.m_timer EXCEPT ![f] = NoTimer],
             m_st_alloc |-> w.m_st_alloc, m_st_free |-> w.m_st_free]
    BY <1>1, <2>1 DEF IsRecord
  <2> QED BY <2>2 DEF IsRecord
<1>4. n = DropTop(v, i)
  BY DEF ExpireTop
<1> HIDE DEF n, v, f
<1>5. /\ IsRecord(n) /\ n.m_timer = [w.m_timer EXCEPT ![f] = NoTimer]
      /\ n.m_pq = [k \in D |-> w.m_pq[k]]
      /\ n.m_st_alloc = w.m_st_alloc /\ n.m_st_free = w.m_st_free + 1
  BY <1>3, <1>4 DEF IsRecord, DropTop, Restrict
<1>6. /\ DOMAIN n.m_pq = D /\ \A k \in D : n.m_pq[k] = w.m_pq[k]
      /\ n.m_timer \in [Flow -> Nat]
      /\ n.m_timer[f] = NoTimer /\ \A g \in Flow : g # f => n.m_timer[g] = w.m_timer[g]
  BY <1>1, <1>2, <1>5 DEF NoTimer
<1>7. HasTypes(n)
  <2>1. Cardinality(D) = Cardinality(DOMAIN w.m_pq) - 1
    BY <1>1, IntervalFinite, FS_RemoveElement
  <2>2. n.m_pq \in [DOMAIN n.m_pq -> Timer] /\ DOMAIN n.m_pq \subseteq 1 .. n.m_st_alloc
    BY <1>1, <1>5, <1>6 DEF HasTypes
  <2>3. Cardinality(DOMAIN n.m_pq) = n.m_st_alloc - n.m_st_free
    BY <1>1, <1>5, <1>6, <2>1, IntervalFinite DEF HasTypes
  <2> QED BY <1>1, <1>5, <1>6, <2>2, <2>3 DEF HasTypes
<1>8. \A g \in Flow : g # f /\ w.m_timer[g] # NoTimer =>
         w.m_timer[g] \in D /\ w.m_pq[w.m_timer[g]].m_flow = g
  BY <1>2 DEF IsWheel, Attached, f
<1>9. IsWheel(n)
  <2>1. \A g \in Flow : Attached(n, g)
    BY <1>6, <1>8 DEF Attached
  <2>2. ASSUME NEW k \in D, w.m_pq[k].m_flow # NoFlow
        PROVE  n.m_timer[w.m_pq[k].m_flow] = k
    <3>1. w.m_pq[k].m_flow \in Flow /\ w.m_timer[w.m_pq[k].m_flow] = k
      BY <1>1, <2>2 DEF HasTypes, Timer, IsWheel
    <3>2. w.m_pq[k].m_flow # f
      BY <1>2, <3>1
    <3> QED BY <1>6, <3>1, <3>2
  <2> QED BY <1>6, <1>7, <2>1, <2>2 DEF IsWheel
<1>10. OthersKept(w, n, f)
  <2> SUFFICES ASSUME NEW g \in Flow, g # f
               PROVE  n.m_timer[g] = w.m_timer[g] /\ Deadline(n, g) = Deadline(w, g)
    BY DEF OthersKept
  <2>1. w.m_timer[g] # NoTimer => n.m_pq[w.m_timer[g]] = w.m_pq[w.m_timer[g]]
    BY <1>6, <1>8
  <2> QED BY <1>6, <2>1, SameDeadline
<1> QED BY <1>2, <1>6, <1>9, <1>10 DEF n, f

-----------------------------------------------------------------------------
(* The counters.                                                           *)

\* The counters.
StatNames == {"m_total_rx", "m_add", "m_remove", "m_active", "m_err_drop", "m_err_aged",
              "m_err_junk", "m_err_fif_seen_twice", "m_err_open_with_no_fif_pkt",
              "m_err_oo_dup", "m_err_oo_early", "m_err_oo_late", "m_err_flow_length_changed"}

\* The errors that a packet of a flow may be counted with.
FlowErrors == {"m_err_fif_seen_twice", "m_err_open_with_no_fif_pkt", "m_err_oo_dup",
               "m_err_oo_early", "m_err_oo_late", "m_err_flow_length_changed"}

Stats == [StatNames -> Nat]

\* The counters at 0 are all counters.
LEMMA StatsDomain == DOMAIN NoStats = StatNames
BY DEF NoStats, StatNames

\* The errors of a packet are errors of a flow.
LEMMA ErrorsAreFlowErrors ==
  ASSUME NEW lf, NEW p
  PROVE  ErrorsOf(lf, p) \subseteq FlowErrors
BY DEF ErrorsOf, FlowErrors

\* The errors of a packet can be counted.
LEMMA ErrorsFinite ==
  ASSUME NEW lf, NEW p
  PROVE  /\ IsFiniteSet(ErrorsOf(lf, p)) /\ Cardinality(ErrorsOf(lf, p)) \in Nat
         /\ Cardinality(ErrorsOf(lf, p)) = 0 <=> ErrorsOf(lf, p) = {}
<1>1. IsFiniteSet({"m_err_fif_seen_twice", "m_err_open_with_no_fif_pkt", "m_err_oo_dup"})
  <2> DEFINE A == {"m_err_fif_seen_twice"}
             B == A \cup {"m_err_open_with_no_fif_pkt"}
             C == B \cup {"m_err_oo_dup"}
  <2>1. IsFiniteSet(A)
    BY FS_Singleton
  <2>2. IsFiniteSet(B)
    BY <2>1, FS_AddElement
  <2>3. IsFiniteSet(C)
    BY <2>2, FS_AddElement
  <2>4. C = {"m_err_fif_seen_twice", "m_err_open_with_no_fif_pkt", "m_err_oo_dup"}
    OBVIOUS
  <2> QED BY <2>3, <2>4
<1>2. IsFiniteSet({"m_err_oo_early", "m_err_oo_late", "m_err_flow_length_changed"})
  <2> DEFINE A == {"m_err_oo_early"}
             B == A \cup {"m_err_oo_late"}
             C == B \cup {"m_err_flow_length_changed"}
  <2>1. IsFiniteSet(A)
    BY FS_Singleton
  <2>2. IsFiniteSet(B)
    BY <2>1, FS_AddElement
  <2>3. IsFiniteSet(C)
    BY <2>2, FS_AddElement
  <2>4. C = {"m_err_oo_early", "m_err_oo_late", "m_err_flow_length_changed"}
    OBVIOUS
  <2> QED BY <2>3, <2>4
<1>3. IsFiniteSet(FlowErrors)
  <2>1. FlowErrors = {"m_err_fif_seen_twice", "m_err_open_with_no_fif_pkt", "m_err_oo_dup"}
                     \cup {"m_err_oo_early", "m_err_oo_late", "m_err_flow_length_changed"}
    BY DEF FlowErrors
  <2> QED BY <1>1, <1>2, <2>1, FS_Union
<1>4. IsFiniteSet(ErrorsOf(lf, p))
  BY <1>3, ErrorsAreFlowErrors, FS_Subset
<1> QED BY <1>4, FS_CardinalityType, FS_EmptySet

\* The counters after a packet.
LEMMA RxStatsFacts ==
  ASSUME NEW s \in Stats, NEW lf, NEW p, lf.open \in BOOLEAN
  PROVE  LET r == RxStats(s, lf, p)
         IN  /\ r \in Stats
             /\ r.m_remove = s.m_remove
             /\ r.m_add = s.m_add + (IF lf.open THEN 0 ELSE 1)
             /\ r.m_active = s.m_active + (IF lf.open THEN 0 ELSE 1)
             /\ r.m_err_aged = s.m_err_aged /\ r.m_err_drop = s.m_err_drop
             /\ r.m_err_junk = s.m_err_junk
             /\ \A e \in FlowErrors : r[e] = s[e] + (IF e \in ErrorsOf(lf, p) THEN 1 ELSE 0)
<1> DEFINE E == ErrorsOf(lf, p)
           r == RxStats(s, lf, p)
<1>1. E \subseteq FlowErrors
  BY ErrorsAreFlowErrors
<1>2. r = [e \in StatNames |->
             s[e] + IF \/ e \in E
                       \/ e = "m_total_rx"
                       \/ e \in {"m_add", "m_active"} /\ ~lf.open
                    THEN 1 ELSE 0]
  BY StatsDomain DEF RxStats
<1> HIDE DEF E, r
<1>3. r \in Stats
  BY <1>2 DEF Stats
<1>4. FlowErrors \subseteq StatNames
  BY DEF FlowErrors, StatNames
<1>5. /\ r.m_remove = s.m_remove /\ r.m_err_aged = s.m_err_aged
      /\ r.m_err_drop = s.m_err_drop /\ r.m_err_junk = s.m_err_junk
  BY <1>1, <1>2 DEF FlowErrors, StatNames, Stats
<1>6. /\ r.m_add = s.m_add + (IF lf.open THEN 0 ELSE 1)
      /\ r.m_active = s.m_active + (IF lf.open THEN 0 ELSE 1)
  BY <1>1, <1>2 DEF FlowErrors, StatNames, Stats
<1>7. \A e \in FlowErrors : r[e] = s[e] + (IF e \in E THEN 1 ELSE 0)
  BY <1>2, <1>4 DEF FlowErrors
<1> QED BY <1>3, <1>5, <1>6, <1>7 DEF r, E

\* The counters after the end of a flow.
LEMMA EndStatsFacts ==
  ASSUME NEW s \in Stats, s.m_active > 0, NEW lf \in FlowState,
         NEW aged_correctly \in BOOLEAN, NEW on_drain \in BOOLEAN
  PROVE  LET r    == EndStats(s, lf, aged_correctly, on_drain)
             exp  == lf.m_dir[0].m_flow_size + lf.m_dir[1].m_flow_size
             seen == lf.m_dir[0].m_pkts + lf.m_dir[1].m_pkts
         IN  /\ r \in Stats
             /\ r.m_remove = s.m_remove + 1 /\ r.m_add = s.m_add
             /\ r.m_active = s.m_active - 1
             /\ r.m_err_junk = s.m_err_junk
             /\ r.m_err_aged = IF ~on_drain /\ ~aged_correctly
                               THEN s.m_err_aged + 1 ELSE s.m_err_aged
             /\ on_drain \/ exp <= seen => r.m_err_drop = s.m_err_drop
             /\ \A e \in FlowErrors : r[e] = s[e]
<1> DEFINE r    == EndStats(s, lf, aged_correctly, on_drain)
           exp  == lf.m_dir[0].m_flow_size + lf.m_dir[1].m_flow_size
           seen == lf.m_dir[0].m_pkts + lf.m_dir[1].m_pkts
           drop == IF ~on_drain /\ exp > seen THEN s.m_err_drop + (exp - seen) ELSE s.m_err_drop
           aged == IF ~on_drain /\ ~aged_correctly THEN s.m_err_aged + 1 ELSE s.m_err_aged
           rem  == s.m_remove + 1
           act  == s.m_active - 1
<1>1. exp \in Nat /\ seen \in Nat
  BY DEF FlowState, DirState, Dirs
<1>2. r = [s EXCEPT !.m_remove = rem, !.m_active = act, !.m_err_drop = drop, !.m_err_aged = aged]
  BY DEF EndStats
<1>3. s \in [StatNames -> Nat] /\ s.m_err_drop \in Nat /\ s.m_err_aged \in Nat
      /\ s.m_remove \in Nat /\ s.m_active \in Nat
  BY DEF Stats, StatNames
<1>4. drop \in Nat /\ aged \in Nat /\ rem \in Nat /\ act \in Nat
  BY <1>1, <1>3
<1>5. on_drain \/ exp <= seen => drop = s.m_err_drop
  BY <1>1
<1> HIDE DEF drop, aged, exp, seen, r, rem, act
<1>6. /\ r \in Stats
      /\ r.m_remove = rem /\ r.m_active = act /\ r.m_err_drop = drop /\ r.m_err_aged = aged
      /\ \A e \in StatNames \ {"m_remove", "m_active", "m_err_drop", "m_err_aged"} : r[e] = s[e]
  BY <1>2, <1>3, <1>4 DEF Stats, StatNames
<1>7. r.m_add = s.m_add /\ r.m_err_junk = s.m_err_junk /\ \A e \in FlowErrors : r[e] = s[e]
  BY <1>6 DEF StatNames, FlowErrors
<1> QED BY <1>5, <1>6, <1>7 DEF drop, aged, exp, seen, r, rem, act

-----------------------------------------------------------------------------
(* The table and the wheel.                                                *)

\* The types of what the table and the wheel do not hold.
RestTypes ==
    /\ lookups \in 0 .. AgeEvery - 1
    /\ m_cur_time \in Nat /\ now \in Nat
    /\ loop \in {"rx", "aging", "drain", "stopped"}
    /\ copies \in [Packets -> 0 .. MaxCopies]
    /\ got \in [Flow -> [Dirs -> Seq(Nat)]]

\* A flow has a timer as long as it has an entry, and an entry is new when it
\* is made.
TimersOfTable ==
    \A f \in Flow : /\ m_tw.m_timer[f] # NoTimer <=> m_ft[f].open
                    /\ ~m_ft[f].open => m_ft[f] = Closed

\* m_active counts the entries.
CountsOfTable ==
    /\ IsFiniteSet(Opened)
    /\ m_stats.m_active = Cardinality(Opened)
    /\ m_stats.m_active = m_stats.m_add - m_stats.m_remove

\* The inductive invariant of the table, the wheel and the counters.
RxInv ==
    /\ m_ft \in [Flow -> FlowState]
    /\ m_stats \in Stats
    /\ RestTypes
    /\ IsWheel(m_tw)
    /\ TimersOfTable
    /\ CountsOfTable
    /\ DrainEmptiesEverything

\* The fields of a packet header.
LEMMA PacketFacts ==
  ASSUME NEW p \in Packets
  PROVE  /\ p.m_flow_id \in Flow /\ p.dir \in Dirs /\ p.m_pkt_id \in Nat
         /\ p.m_flow_size \in Nat \ {0} /\ p.both_dir \in BOOLEAN /\ p.m_aging_sec \in Nat
         /\ p.m_pkt_id < p.m_flow_size /\ Aging(p) \in Nat
BY PacketsAssumption DEF Header, Aging

\* The fields of a flow without entry.
LEMMA ClosedFacts ==
  /\ Closed \in FlowState /\ Closed.open = FALSE /\ Closed.m_oo_err = 0
  /\ \A d \in Dirs : Closed.m_dir[d] = NewDir
BY DEF Closed, NewDir, FlowState, DirState

\* One direction of a flow after a packet.
LEMMA DirAfterType ==
  ASSUME NEW lpd \in DirState, NEW p \in Packets
  PROVE  /\ DirAfter(lpd, p) \in DirState
         /\ DirAfter(lpd, p).fif_seen = TRUE
         /\ DirAfter(lpd, p).m_pkts = IF lpd.fif_seen THEN lpd.m_pkts + 1 ELSE 1
         /\ DirAfter(lpd, p).m_flow_size = IF lpd.fif_seen THEN lpd.m_flow_size ELSE p.m_flow_size
         /\ DirAfter(lpd, p).m_seq = IF ~lpd.fif_seen THEN 1
                                     ELSE IF is_fif_dir(p) THEN lpd.m_seq ELSE p.m_pkt_id + 1
<1>1. CASE ~lpd.fif_seen
  BY <1>1, PacketFacts DEF DirAfter, set_fif_seen, DirState
<1>2. CASE lpd.fif_seen
  <2> DEFINE q == IF is_fif_dir(p) THEN lpd.m_seq ELSE p.m_pkt_id + 1
             k == lpd.m_pkts + 1
  <2>1. DirAfter(lpd, p) = [lpd EXCEPT !.m_pkts = k, !.m_seq = q]
    BY <1>2 DEF DirAfter
  <2>2. q \in Nat /\ k \in Nat
    BY PacketFacts DEF DirState
  <2> HIDE DEF q, k
  <2>3. DirAfter(lpd, p) = [fif_seen |-> lpd.fif_seen, m_flow_size |-> lpd.m_flow_size,
                            m_pkts |-> k, m_seq |-> q]
    BY <2>1 DEF DirState
  <2> QED BY <1>2, <2>2, <2>3 DEF DirState, q, k
<1> QED BY <1>1, <1>2 DEF DirState

\* A flow after a packet.
LEMMA FlowAfterFacts ==
  ASSUME NEW lf \in FlowState, NEW p \in Packets
  PROVE  /\ FlowAfter(lf, p) \in FlowState /\ FlowAfter(lf, p).open = TRUE
         /\ FlowAfter(lf, p).m_dir[p.dir] = DirAfter(lf.m_dir[p.dir], p)
         /\ \A d \in Dirs : d # p.dir => FlowAfter(lf, p).m_dir[d] = lf.m_dir[d]
         /\ FlowAfter(lf, p).m_oo_err = lf.m_oo_err + Cardinality(ErrorsOf(lf, p))
         /\ FlowAfter(lf, p).both_dir = IF lf.open THEN lf.both_dir ELSE p.both_dir
<1> DEFINE n == FlowAfter(lf, p)
           D == [lf.m_dir EXCEPT ![p.dir] = DirAfter(lf.m_dir[p.dir], p)]
           c == Cardinality(ErrorsOf(lf, p))
           b == IF lf.open THEN lf.both_dir ELSE p.both_dir
<1>1. n = [open |-> TRUE, m_dir |-> D, m_oo_err |-> lf.m_oo_err + c, both_dir |-> b]
  BY DEF FlowAfter
<1>2. c \in Nat /\ b \in BOOLEAN /\ lf.m_oo_err \in Nat /\ lf.m_dir \in [Dirs -> DirState]
  BY ErrorsFinite, PacketFacts DEF FlowState
<1>3. /\ D \in [Dirs -> DirState] /\ D[p.dir] = DirAfter(lf.m_dir[p.dir], p)
      /\ \A d \in Dirs : d # p.dir => D[d] = lf.m_dir[d]
  BY <1>2, DirAfterType, PacketFacts
<1> HIDE DEF n, D, c, b
<1>4. n \in FlowState
  BY <1>1, <1>2, <1>3 DEF FlowState
<1>5. n.open = TRUE /\ n.m_dir = D /\ n.m_oo_err = lf.m_oo_err + c /\ n.both_dir = b
  BY <1>1
<1> QED BY <1>3, <1>4, <1>5 DEF n, c, b

\* Its directions.
LEMMA DirsAfter ==
  ASSUME NEW lf \in FlowState, NEW p \in Packets
  PROVE  /\ FlowAfter(lf, p).m_dir[p.dir] = DirAfter(lf.m_dir[p.dir], p)
         /\ \A d \in Dirs : d # p.dir => FlowAfter(lf, p).m_dir[d] = lf.m_dir[d]
<1> DEFINE D == [lf.m_dir EXCEPT ![p.dir] = DirAfter(lf.m_dir[p.dir], p)]
<1>1. FlowAfter(lf, p).m_dir = D
  BY DEF FlowAfter
<1>2. lf.m_dir \in [Dirs -> DirState] /\ p.dir \in Dirs
  BY PacketFacts DEF FlowState
<1>3. /\ D[p.dir] = DirAfter(lf.m_dir[p.dir], p)
      /\ \A d \in Dirs : d # p.dir => D[d] = lf.m_dir[d]
  BY <1>2
<1> HIDE DEF D
<1> QED BY ONLY <1>1, <1>3

\* Its errors.
LEMMA ErrorsAfter ==
  ASSUME NEW lf \in FlowState, NEW p \in Packets
  PROVE  FlowAfter(lf, p).m_oo_err = lf.m_oo_err + Cardinality(ErrorsOf(lf, p))
BY Zenon DEF FlowAfter

\* RX check starts in the invariant.
LEMMA InitRx == Init => RxInv
<1> SUFFICES ASSUME Init PROVE RxInv
  OBVIOUS
<1>1. m_ft \in [Flow -> FlowState] /\ TimersOfTable
  BY ClosedFacts DEF Init, TimersOfTable, EmptyWheel
<1>2. m_stats \in Stats /\ m_stats.m_active = 0 /\ m_stats.m_add = 0 /\ m_stats.m_remove = 0
  BY DEF Init, NoStats, Stats, StatNames
<1>3. RestTypes
  BY PacketsAssumption DEF Init, RestTypes
<1>4. IsWheel(m_tw)
  <2>1. HasTypes(EmptyWheel)
    <3>1. DOMAIN EmptyWheel.m_pq = {}
      BY DEF EmptyWheel
    <3>2. Cardinality(DOMAIN EmptyWheel.m_pq) = 0
      BY <3>1, FS_EmptySet
    <3>3. EmptyWheel.m_pq \in [DOMAIN EmptyWheel.m_pq -> Timer]
      BY DEF EmptyWheel
    <3> QED BY <3>1, <3>2, <3>3 DEF EmptyWheel, HasTypes, IsRecord, NoTimer
  <2> QED BY <2>1 DEF Init, EmptyWheel, IsWheel, Attached
<1>5. CountsOfTable
  <2>1. Opened = {}
    BY ClosedFacts DEF Init, Opened
  <2> QED BY <1>2, <2>1, FS_EmptySet DEF CountsOfTable
<1>6. DrainEmptiesEverything
  BY DEF Init, DrainEmptiesEverything
<1> QED BY <1>1, <1>2, <1>3, <1>4, <1>5, <1>6 DEF RxInv

\* What a packet does to the table, the wheel and the counters.
LEMMA HandlePacketFacts ==
  ASSUME RxInv, NEW p \in Packets, handle_packet(p)
  PROVE  LET f  == p.m_flow_id
             lf == FlowAfter(m_ft[f], p)
         IN  /\ m_ft' \in [Flow -> FlowState] /\ \A g \in Flow : g # f => m_ft'[g] = m_ft[g]
             /\ m_ft'[f] = IF is_all_pkts_seen(lf) THEN Closed ELSE lf
             /\ IsWheel(m_tw') /\ OthersKept(m_tw, m_tw', f)
             /\ m_tw'.m_timer[f] # NoTimer <=> m_ft'[f].open
             /\ m_ft'[f].open => Deadline(m_tw', f) = now + Aging(p)
             /\ m_stats' \in Stats
             /\ m_stats'.m_active = m_stats'.m_add - m_stats'.m_remove
             /\ m_stats'.m_active = m_stats.m_active + (IF m_ft[f].open THEN 0 ELSE 1)
                                    - (IF m_ft'[f].open THEN 0 ELSE 1)
             /\ m_stats'.m_err_aged = m_stats.m_err_aged
             /\ m_stats'.m_err_drop = m_stats.m_err_drop
             /\ m_stats'.m_err_junk = m_stats.m_err_junk
             /\ \A e \in FlowErrors :
                   m_stats'[e] = m_stats[e] + (IF e \in ErrorsOf(m_ft[f], p) THEN 1 ELSE 0)
<1> DEFINE f  == p.m_flow_id
           lf == FlowAfter(m_ft[f], p)
           t  == now + Aging(p)
           tw == restart_timer(m_tw, f, t)
           st == RxStats(m_stats, m_ft[f], p)
<1>1. f \in Flow /\ t \in Nat /\ m_ft[f] \in FlowState /\ m_ft[f].open \in BOOLEAN
  BY PacketFacts DEF RxInv, RestTypes, FlowState
<1>2. lf \in FlowState /\ lf.open = TRUE
  BY <1>1, FlowAfterFacts
<1>3. /\ IsWheel(tw) /\ tw.m_timer[f] # NoTimer /\ Deadline(tw, f) = t
      /\ OthersKept(m_tw, tw, f)
  BY <1>1, RestartWheel DEF RxInv
<1>4. /\ st \in Stats
      /\ st.m_remove = m_stats.m_remove
      /\ st.m_add = m_stats.m_add + (IF m_ft[f].open THEN 0 ELSE 1)
      /\ st.m_active = m_stats.m_active + (IF m_ft[f].open THEN 0 ELSE 1)
      /\ st.m_err_aged = m_stats.m_err_aged /\ st.m_err_drop = m_stats.m_err_drop
      /\ st.m_err_junk = m_stats.m_err_junk
      /\ \A e \in FlowErrors : st[e] = m_stats[e] + (IF e \in ErrorsOf(m_ft[f], p) THEN 1 ELSE 0)
  BY <1>1, RxStatsFacts DEF RxInv
<1>5. /\ m_stats.m_active = m_stats.m_add - m_stats.m_remove
      /\ m_stats.m_active \in Nat /\ m_stats.m_add \in Nat /\ m_stats.m_remove \in Nat
      /\ m_ft[f].open => m_stats.m_active > 0
  <2>1. m_ft[f].open => f \in Opened
    BY <1>1 DEF Opened
  <2>2. m_stats.m_active = 0 => Opened = {}
    BY FS_EmptySet DEF RxInv, CountsOfTable
  <2>3. m_stats.m_active \in Nat /\ m_stats.m_add \in Nat /\ m_stats.m_remove \in Nat
    BY DEF RxInv, Stats, StatNames
  <2> QED BY <2>1, <2>2, <2>3 DEF RxInv, CountsOfTable
<1>6. m_ft \in [Flow -> FlowState]
  BY DEF RxInv
<1>7. CASE is_all_pkts_seen(lf)
  <2> DEFINE r == EndStats(st, lf, TRUE, FALSE)
  <2>1. /\ m_ft' = [m_ft EXCEPT ![f] = Closed] /\ m_tw' = stop_timer(tw, f) /\ m_stats' = r
    BY <1>7 DEF handle_packet
  <2>2. st.m_active > 0
    BY <1>1, <1>4, <1>5
  <2>3. lf.m_dir[0].m_pkts = lf.m_dir[0].m_flow_size /\ lf.m_dir[1].m_pkts = lf.m_dir[1].m_flow_size
    BY <1>7 DEF is_all_pkts_seen, Dirs
  <2>4. /\ r \in Stats
        /\ r.m_remove = st.m_remove + 1 /\ r.m_add = st.m_add
        /\ r.m_active = st.m_active - 1
        /\ r.m_err_junk = st.m_err_junk /\ r.m_err_aged = st.m_err_aged
        /\ r.m_err_drop = st.m_err_drop
        /\ \A e \in FlowErrors : r[e] = st[e]
    <3>1. lf.m_dir[0].m_flow_size + lf.m_dir[1].m_flow_size
            <= lf.m_dir[0].m_pkts + lf.m_dir[1].m_pkts
      BY <1>2, <2>3 DEF FlowState, DirState, Dirs
    <3> QED BY <1>2, <1>4, <2>2, <3>1, EndStatsFacts
  <2>5. IsWheel(m_tw') /\ m_tw'.m_timer[f] = NoTimer /\ OthersKept(tw, m_tw', f)
    BY <1>1, <1>3, <2>1, StopWheel
  <2>6. OthersKept(m_tw, m_tw', f)
    BY <1>3, <2>5 DEF OthersKept
  <2>7. /\ m_ft' \in [Flow -> FlowState] /\ m_ft'[f] = Closed /\ m_ft'[f].open = FALSE
        /\ \A g \in Flow : g # f => m_ft'[g] = m_ft[g]
    BY <1>1, <1>6, <2>1, ClosedFacts
  <2> HIDE DEF f, lf, tw, st, r, t
  <2>8. /\ m_stats'.m_active = m_stats'.m_add - m_stats'.m_remove
        /\ m_stats'.m_active = m_stats.m_active + (IF m_ft[f].open THEN 0 ELSE 1)
                               - (IF m_ft'[f].open THEN 0 ELSE 1)
    BY <1>4, <1>5, <2>1, <2>4, <2>7
  <2> QED BY <1>4, <1>7, <2>1, <2>4, <2>5, <2>6, <2>7, <2>8 DEF f, lf, tw, st, r, t
<1>8. CASE ~is_all_pkts_seen(lf)
  <2>1. m_ft' = [m_ft EXCEPT ![f] = lf] /\ m_tw' = tw /\ m_stats' = st
    BY <1>8 DEF handle_packet
  <2>2. /\ m_ft' \in [Flow -> FlowState] /\ m_ft'[f] = lf /\ m_ft'[f].open = TRUE
        /\ \A g \in Flow : g # f => m_ft'[g] = m_ft[g]
    BY <1>1, <1>2, <1>6, <2>1
  <2> HIDE DEF f, lf, tw, st, t
  <2>3. /\ m_stats'.m_active = m_stats'.m_add - m_stats'.m_remove
        /\ m_stats'.m_active = m_stats.m_active + (IF m_ft[f].open THEN 0 ELSE 1)
                               - (IF m_ft'[f].open THEN 0 ELSE 1)
    BY <1>4, <1>5, <2>1, <2>2
  <2> QED BY <1>3, <1>4, <1>8, <2>1, <2>2, <2>3 DEF f, lf, tw, st, t
<1> QED BY <1>7, <1>8

\* A packet preserves the invariant of the table and the wheel.
LEMMA HandlePacketRx ==
  ASSUME RxInv, NEW p \in Packets, handle_packet(p)
  PROVE  RxInv'
<1> DEFINE f == p.m_flow_id
<1>1. /\ m_ft' \in [Flow -> FlowState] /\ \A g \in Flow : g # f => m_ft'[g] = m_ft[g]
      /\ m_ft'[f] = IF is_all_pkts_seen(FlowAfter(m_ft[f], p)) THEN Closed
                    ELSE FlowAfter(m_ft[f], p)
      /\ IsWheel(m_tw') /\ OthersKept(m_tw, m_tw', f)
      /\ m_tw'.m_timer[f] # NoTimer <=> m_ft'[f].open
      /\ m_stats' \in Stats
      /\ m_stats'.m_active = m_stats'.m_add - m_stats'.m_remove
      /\ m_stats'.m_active = m_stats.m_active + (IF m_ft[f].open THEN 0 ELSE 1)
                             - (IF m_ft'[f].open THEN 0 ELSE 1)
  BY HandlePacketFacts
<1>2. f \in Flow /\ m_ft \in [Flow -> FlowState] /\ p.dir \in Dirs /\ p.m_pkt_id \in Nat
  BY PacketFacts DEF RxInv
<1>3. RestTypes'
  <2>1. /\ m_cur_time' = now /\ now' = now /\ lookups' = (lookups + 1) % AgeEvery
        /\ loop' \in {"rx", "aging"} /\ copies[p] < MaxCopies
        /\ copies' = [copies EXCEPT ![p] = @ + 1]
        /\ got' = [got EXCEPT ![f] =
             [(IF m_ft[f].open THEN got[f] ELSE [d \in Dirs |-> << >>])
                 EXCEPT ![p.dir] = Append(@, p.m_pkt_id)]]
    BY DEF handle_packet
  <2>2. RestTypes
    BY DEF RxInv
  <2>3. lookups' \in 0 .. AgeEvery - 1
    <3>1. \A a \in Nat, b \in Nat \ {0} : a % b \in 0 .. b - 1
      BY Z3
    <3> QED BY <2>1, <2>2, <3>1, PacketsAssumption DEF RestTypes
  <2>4. copies' \in [Packets -> 0 .. MaxCopies]
    BY <2>1, <2>2, PacketsAssumption DEF RestTypes
  <2>5. got' \in [Flow -> [Dirs -> Seq(Nat)]]
    <3> DEFINE h == IF m_ft[f].open THEN got[f] ELSE [d \in Dirs |-> << >>]
    <3>1. h \in [Dirs -> Seq(Nat)]
      BY <1>2, <2>2 DEF RestTypes
    <3>2. got' = [got EXCEPT ![f] = [h EXCEPT ![p.dir] = Append(h[p.dir], p.m_pkt_id)]]
      BY <2>1
    <3> HIDE DEF h
    <3>3. [h EXCEPT ![p.dir] = Append(h[p.dir], p.m_pkt_id)] \in [Dirs -> Seq(Nat)]
      BY <1>2, <3>1
    <3> QED BY <1>2, <2>2, <3>2, <3>3 DEF RestTypes
  <2> QED BY <2>1, <2>2, <2>3, <2>4, <2>5 DEF RestTypes
<1>4. TimersOfTable'
  <2>1. ~m_ft'[f].open => m_ft'[f] = Closed
    <3>1. FlowAfter(m_ft[f], p).open = TRUE
      BY <1>2, FlowAfterFacts
    <3> QED BY <1>1, <3>1, Zenon
  <2> QED BY <1>1, <2>1 DEF TimersOfTable, RxInv, OthersKept
<1>5. CountsOfTable'
  <2>1. IsFiniteSet(Opened) /\ m_stats.m_active = Cardinality(Opened) /\ Cardinality(Opened) \in Nat
    BY FS_CardinalityType DEF RxInv, CountsOfTable
  <2>2. f \in Opened <=> m_ft[f].open
    BY <1>2 DEF Opened
  <2>3. Opened' = IF m_ft'[f].open THEN Opened \cup {f} ELSE Opened \ {f}
    BY <1>1, <1>2 DEF Opened
  <2>4. CASE m_ft'[f].open
    <3>1. IsFiniteSet(Opened \cup {f})
          /\ Cardinality(Opened \cup {f}) = Cardinality(Opened) + (IF f \in Opened THEN 0 ELSE 1)
      BY <2>1, FS_AddElement, SMTT(60)
    <3> QED BY <1>1, <2>1, <2>2, <2>3, <2>4, <3>1 DEF CountsOfTable
  <2>5. CASE ~m_ft'[f].open
    <3>1. IsFiniteSet(Opened \ {f})
          /\ Cardinality(Opened \ {f}) = Cardinality(Opened) - (IF f \in Opened THEN 1 ELSE 0)
      BY ONLY <2>1, FS_RemoveElement, SMTT(60)
    <3> QED BY <1>1, <2>1, <2>2, <2>3, <2>5, <3>1 DEF CountsOfTable
  <2> QED BY <2>4, <2>5
<1>6. DrainEmptiesEverything'
  BY DEF handle_packet, DrainEmptiesEverything
<1> QED BY <1>1, <1>3, <1>4, <1>5, <1>6 DEF RxInv

\* The steps of the thread that touch neither the table nor the wheel.
LEMMA OtherStepsRx ==
  ASSUME RxInv, handle_junk \/ Tick \/ Stop
  PROVE  RxInv'
<1>1. /\ UNCHANGED <<m_ft, m_tw, lookups, m_cur_time, copies, got>>
      /\ now' \in {now, now + 1} /\ loop' \in {"rx", "drain"}
  BY DEF handle_junk, Tick, Stop
<1>2. /\ m_stats' \in Stats /\ m_stats'.m_active = m_stats.m_active
      /\ m_stats'.m_add = m_stats.m_add /\ m_stats'.m_remove = m_stats.m_remove
  <2>1. CASE m_stats' = m_stats
    BY <2>1 DEF RxInv
  <2>2. CASE m_stats' = [m_stats EXCEPT !.m_total_rx = @ + 1, !.m_err_junk = @ + 1]
    <3> DEFINE a == m_stats.m_total_rx + 1
               b == m_stats.m_err_junk + 1
    <3>1. m_stats \in Stats /\ m_stats' = [m_stats EXCEPT !.m_total_rx = a, !.m_err_junk = b]
      BY <2>2 DEF RxInv
    <3>2. a \in Nat /\ b \in Nat
      BY <3>1 DEF Stats, StatNames
    <3> HIDE DEF a, b
    <3> QED BY <3>1, <3>2 DEF Stats, StatNames
  <2> QED BY <2>1, <2>2 DEF handle_junk, Tick, Stop
<1>3. RestTypes'
  BY <1>1 DEF RxInv, RestTypes
<1>4. TimersOfTable'
  BY <1>1 DEF RxInv, TimersOfTable
<1>5. Opened' = Opened
  BY <1>1 DEF Opened
<1>6. CountsOfTable'
  BY <1>2, <1>5 DEF RxInv, CountsOfTable
<1>7. DrainEmptiesEverything'
  BY <1>1 DEF DrainEmptiesEverything
<1> QED BY <1>1, <1>2, <1>3, <1>4, <1>6, <1>7 DEF RxInv

\* A step that only repairs the queue.
LEMMA RepairRx ==
  ASSUME RxInv, IsWheel(m_tw'), m_tw'.m_timer = m_tw.m_timer, loop # "stopped",
         UNCHANGED <<m_ft, m_stats, lookups, m_cur_time, loop, now, copies, got>>
  PROVE  RxInv'
<1>1. RestTypes' /\ TimersOfTable'
  BY DEF RxInv, RestTypes, TimersOfTable
<1>2. Opened' = Opened
  BY DEF Opened
<1>3. CountsOfTable' /\ DrainEmptiesEverything'
  BY <1>2 DEF RxInv, CountsOfTable, DrainEmptiesEverything
<1> QED BY <1>1, <1>3 DEF RxInv

\* The expiry of the top closes an open flow whose timer it is.
LEMMA ExpireTopRx ==
  ASSUME RxInv, expire_top
  PROVE  /\ RxInv'
         /\ \E i \in Tops(m_tw) :
              LET f == m_tw.m_pq[i].m_flow
              IN  /\ f \in Flow /\ m_tw.m_timer[f] = i /\ ~IsPutOff(m_tw, i) /\ IsOver(i)
                  /\ m_tw'.m_timer[f] = NoTimer /\ OthersKept(m_tw, m_tw', f)
                  /\ m_ft[f].open /\ m_ft' = [m_ft EXCEPT ![f] = Closed]
                  /\ m_stats' = EndStats(m_stats, m_ft[f], FALSE, loop = "drain")
                  /\ m_stats.m_active > 0
<1>1. PICK i \in Tops(m_tw) :
        /\ is_valid(m_tw, i) /\ ~IsPutOff(m_tw, i) /\ IsOver(i)
        /\ m_tw' = ExpireTop(m_tw, i)
        /\ m_stats' = EndStats(m_stats, m_ft[m_tw.m_pq[i].m_flow], FALSE, loop = "drain")
        /\ m_ft' = [m_ft EXCEPT ![m_tw.m_pq[i].m_flow] = Closed]
  BY DEF expire_top
<1> DEFINE f == m_tw.m_pq[i].m_flow
<1>2. /\ UNCHANGED <<lookups, m_cur_time, loop, now, copies, got>> /\ loop \in {"aging", "drain"}
  BY DEF expire_top, InPass
<1>3. i \in DOMAIN m_tw.m_pq /\ IsWheel(m_tw)
  BY DEF Tops, RxInv
<1>4. /\ f \in Flow /\ m_tw.m_timer[f] = i
      /\ IsWheel(m_tw') /\ m_tw'.m_timer[f] = NoTimer
      /\ OthersKept(m_tw, m_tw', f)
  BY <1>1, <1>3, ExpireWheel
<1>5. i # NoTimer
  BY <1>3 DEF IsWheel, HasTypes, NoTimer
<1> HIDE DEF f
<1>6. m_ft[f].open /\ f \in Opened /\ m_ft[f] \in FlowState /\ m_ft \in [Flow -> FlowState]
  BY <1>4, <1>5 DEF RxInv, TimersOfTable, Opened
<1>7. IsFiniteSet(Opened) /\ m_stats.m_active = Cardinality(Opened) /\ Cardinality(Opened) \in Nat
  BY FS_CardinalityType DEF RxInv, CountsOfTable
<1>8. m_stats.m_active > 0
  BY <1>6, <1>7, FS_EmptySet
<1>9. /\ m_stats' \in Stats
      /\ m_stats'.m_remove = m_stats.m_remove + 1 /\ m_stats'.m_add = m_stats.m_add
      /\ m_stats'.m_active = m_stats.m_active - 1
  <2>1. m_stats' = EndStats(m_stats, m_ft[f], FALSE, loop = "drain")
    BY <1>1 DEF f
  <2>2. (loop = "drain") \in BOOLEAN /\ m_stats \in Stats
    BY DEF RxInv
  <2> QED BY <1>6, <1>8, <2>1, <2>2, EndStatsFacts
<1>10. /\ m_ft' \in [Flow -> FlowState] /\ m_ft'[f] = Closed /\ m_ft' = [m_ft EXCEPT ![f] = Closed]
       /\ \A g \in Flow : g # f => m_ft'[g] = m_ft[g]
  BY <1>1, <1>4, <1>6, ClosedFacts DEF f
<1>11. RestTypes'
  BY <1>2 DEF RxInv, RestTypes
<1>12. TimersOfTable'
  BY <1>4, <1>10, ClosedFacts DEF RxInv, TimersOfTable, OthersKept
<1>13. CountsOfTable'
  <2>1. Opened' = Opened \ {f}
    BY <1>4, <1>10, ClosedFacts DEF Opened
  <2>2. IsFiniteSet(Opened \ {f}) /\ Cardinality(Opened \ {f}) = Cardinality(Opened) - 1
    BY <1>6, <1>7, FS_RemoveElement
  <2>3. m_stats.m_active = m_stats.m_add - m_stats.m_remove
        /\ m_stats.m_add \in Nat /\ m_stats.m_remove \in Nat
    BY DEF RxInv, CountsOfTable, Stats, StatNames
  <2> QED BY <1>7, <1>9, <2>1, <2>2, <2>3 DEF CountsOfTable
<1>14. DrainEmptiesEverything'
  BY <1>2 DEF DrainEmptiesEverything
<1>15. RxInv'
  BY <1>4, <1>9, <1>10, <1>11, <1>12, <1>13, <1>14 DEF RxInv
<1>16. m_stats' = EndStats(m_stats, m_ft[f], FALSE, loop = "drain")
  BY <1>1 DEF f
<1> QED BY <1>1, <1>4, <1>6, <1>8, <1>10, <1>15, <1>16 DEF f

\* The end of an ageing pass keeps the invariant.
LEMMA PassDoneRx ==
  ASSUME RxInv, pass_done
  PROVE  RxInv'
<1>1. /\ UNCHANGED <<m_ft, m_tw, m_stats, lookups, m_cur_time, now, copies, got>>
      /\ loop' = IF loop = "drain" THEN "stopped" ELSE "rx"
  BY DEF pass_done
<1>2. RestTypes' /\ TimersOfTable'
  BY <1>1 DEF RxInv, RestTypes, TimersOfTable
<1>3. Opened' = Opened
  BY <1>1 DEF Opened
<1>4. CountsOfTable'
  BY <1>1, <1>3 DEF RxInv, CountsOfTable
<1>5. loop = "drain" => DOMAIN m_tw.m_pq = {}
  BY DEF pass_done, IsOver
<1>6. DOMAIN m_tw.m_pq = {} => \A f \in Flow : ~m_ft[f].open
  BY DEF RxInv, TimersOfTable, IsWheel, Attached
<1>7. DrainEmptiesEverything'
  BY <1>1, <1>5, <1>6 DEF DrainEmptiesEverything
<1> QED BY <1>1, <1>2, <1>4, <1>7 DEF RxInv

\* Every step keeps the invariant.
LEMMA NextRx == RxInv /\ [Next]_vars => RxInv'
<1> SUFFICES ASSUME RxInv, [Next]_vars PROVE RxInv'
  OBVIOUS
<1>1. CASE UNCHANGED vars
  <2>1. UNCHANGED <<m_ft, m_tw, m_stats, lookups, m_cur_time, loop, now, copies, got>>
    BY <1>1 DEF vars
  <2>2. Opened' = Opened
    BY <2>1 DEF Opened
  <2> QED BY <2>1, <2>2 DEF RxInv, RestTypes, TimersOfTable, CountsOfTable, DrainEmptiesEverything
<1>2. ASSUME NEW p \in Packets, handle_packet(p) PROVE RxInv'
  BY <1>2, HandlePacketRx
<1>3. CASE handle_junk \/ Tick \/ Stop
  BY <1>3, OtherStepsRx
<1>4. CASE drop_top
  <2>1. PICK i \in Tops(m_tw) : ~is_valid(m_tw, i) /\ m_tw' = DropTop(m_tw, i)
    BY <1>4 DEF drop_top
  <2>2. IsWheel(m_tw') /\ m_tw'.m_timer = m_tw.m_timer
    BY <2>1, DropWheel DEF Tops, RxInv
  <2> QED BY <1>4, <2>2, RepairRx DEF drop_top, InPass
<1>5. CASE repush_top
  <2>1. PICK i \in Tops(m_tw) : IsPutOff(m_tw, i) /\ m_tw' = RepushTop(m_tw, i)
    BY <1>5 DEF repush_top
  <2>2. IsWheel(m_tw') /\ m_tw'.m_timer = m_tw.m_timer
    BY <2>1, RepushWheel DEF Tops, RxInv
  <2> QED BY <1>5, <2>2, RepairRx DEF repush_top, InPass
<1>6. CASE expire_top
  BY <1>6, ExpireTopRx
<1>7. CASE pass_done
  BY <1>7, PassDoneRx
<1> QED BY <1>1, <1>2, <1>3, <1>4, <1>5, <1>6, <1>7 DEF Next, Pass

\* RxInv holds of every reachable state.
LEMMA SpecRx == Spec => []RxInv
BY InitRx, NextRx, PTL DEF Spec

\* RxCheckManager and CTimerWheel: a flow has an entry exactly as long as it has
\* one live timer, the counters count the table and the timers, and the drain
\* leaves nothing.
THEOREM TableIsConsistent == Spec => []TableInv
<1>1. RxInv => TableInv
  <2> SUFFICES ASSUME RxInv PROVE TableInv
    OBVIOUS
  <2>1. IsWheel(m_tw) /\ HasTypes(m_tw)
    BY DEF RxInv, IsWheel
  <2>2. TypeOK
    <3>1. \A i \in DOMAIN m_tw.m_pq : i \in Nat \ {0} /\ m_tw.m_pq[i] \in Timer
      BY <2>1 DEF HasTypes
    <3>2. m_tw.m_timer \in [Flow -> Nat] /\ m_tw.m_st_alloc \in Nat /\ m_tw.m_st_free \in Nat
      BY <2>1 DEF HasTypes
    <3>3. m_stats \in [DOMAIN NoStats -> Nat]
      BY StatsDomain DEF RxInv, Stats
    <3> QED BY <3>1, <3>2, <3>3 DEF RxInv, RestTypes, TypeOK
  <2>3. OneLiveTimerPerFlow
    <3> SUFFICES ASSUME NEW f \in Flow
                 PROVE  {i \in DOMAIN m_tw.m_pq : m_tw.m_pq[i].m_flow = f}
                           = IF m_ft[f].open THEN {m_tw.m_timer[f]} ELSE {}
      BY DEF OneLiveTimerPerFlow
    <3>1. \A i \in DOMAIN m_tw.m_pq : m_tw.m_pq[i].m_flow = f => m_tw.m_timer[f] = i /\ i # NoTimer
      BY <2>1, FlowAssumption DEF IsWheel, HasTypes, NoTimer
    <3>2. m_tw.m_timer[f] # NoTimer <=> m_ft[f].open
      BY DEF RxInv, TimersOfTable
    <3>3. m_ft[f].open => m_tw.m_timer[f] \in DOMAIN m_tw.m_pq
                          /\ m_tw.m_pq[m_tw.m_timer[f]].m_flow = f
      BY <2>1, <3>2 DEF IsWheel, Attached
    <3> QED BY <3>1, <3>2, <3>3
  <2>4. NothingLeaks
    BY <2>1 DEF RxInv, CountsOfTable, NothingLeaks, HasTypes
  <2> QED BY <2>2, <2>3, <2>4 DEF TableInv, RxInv
<1> QED BY <1>1, SpecRx, PTL

-----------------------------------------------------------------------------
(* The wheel implements the deadlines.                                     *)

\* The state of AgingTimers.
Deadlines == [f \in Flow |-> Deadline(m_tw, f)]
Limit == IF loop = "aging" THEN m_cur_time ELSE IF loop = "drain" THEN -1 ELSE Never

\* A step of AgingTimers, in these terms.
AgingNext ==
    \/ now' = now + 1 /\ Deadlines' = Deadlines /\ Limit' = Limit
    \/ Limit = Never /\ Limit' = -1 /\ now' = now /\ Deadlines' = Deadlines
    \/ /\ Limit # Never
       /\ \A f \in Flow : \/ Deadlines[f] = NoDeadline
                          \/ Limit # -1 /\ Deadlines[f] >= Limit
       /\ Limit' = Never /\ now' = now /\ Deadlines' = Deadlines
    \/ \E f \in Flow :
         \/ /\ Limit = Never
            /\ \/ Deadlines' = [Deadlines EXCEPT ![f] = NoDeadline]
               \/ \E a \in {Aging(p) : p \in Packets} :
                     Deadlines' = [Deadlines EXCEPT ![f] = now + a]
            /\ Limit' \in {Never, now} /\ now' = now
         \/ /\ Limit # Never
            /\ Deadlines[f] # NoDeadline
            /\ Limit = -1 \/ Deadlines[f] < Limit
            /\ Deadlines' = [Deadlines EXCEPT ![f] = NoDeadline]
            /\ now' = now /\ Limit' = Limit
    \/ now' = now /\ Deadlines' = Deadlines /\ Limit' = Limit

\* A step of the wheel as a step of the deadlines.
LEMMA AbstractStep == AgingNext => [Abstract!Next]_(Abstract!timers)
BY DEF AgingNext, Deadlines, Deadline, Limit, Abstract!Next, Abstract!timers, Abstract!Tick,
       Abstract!Stop, Abstract!PassDone, Abstract!Packet, Abstract!Expire, Abstract!Drain

\* The empty wheel has no deadlines.
LEMMA AbstractInit == Init => Abstract!Init
BY DEF Init, Abstract!Init, EmptyWheel, NoTimer

\* Only the deadline of f changes.
LEMMA OneDeadline ==
  ASSUME NEW f \in Flow, OthersKept(m_tw, m_tw', f)
  PROVE  Deadlines' = [Deadlines EXCEPT ![f] = Deadline(m_tw', f)]
<1>1. Deadlines' = [g \in Flow |-> Deadline(m_tw', g)]
  BY DEF Deadlines, Deadline, DeadlineOf, IsPutOff
<1>2. \A g \in Flow : Deadline(m_tw', g) = IF g = f THEN Deadline(m_tw', f) ELSE Deadline(m_tw, g)
  BY DEF OthersKept
<1> HIDE DEF Deadline
<1> QED BY <1>1, <1>2 DEF Deadlines

\* No deadline changes.
LEMMA SameDeadlines ==
  ASSUME \A g \in Flow : Deadline(m_tw', g) = Deadline(m_tw, g)
  PROVE  Deadlines' = Deadlines
<1>1. Deadlines' = [g \in Flow |-> Deadline(m_tw', g)]
  BY DEF Deadlines, Deadline, DeadlineOf, IsPutOff
<1> QED BY <1>1 DEF Deadlines

\* Every step is one of AgingTimers, or none.
LEMMA AgingStep == RxInv /\ [Next]_vars => AgingNext
<1> SUFFICES ASSUME RxInv, [Next]_vars PROVE AgingNext
  OBVIOUS
<1>1. IsWheel(m_tw) /\ m_cur_time \in Nat /\ now \in Nat
  BY DEF RxInv, RestTypes
<1>2. ASSUME UNCHANGED <<m_tw, loop, m_cur_time, now>> PROVE AgingNext
  BY <1>2, SameDeadlines DEF AgingNext, Limit
<1>3. ASSUME NEW p \in Packets, handle_packet(p) PROVE AgingNext
  <2> DEFINE f == p.m_flow_id
  <2>1. /\ loop = "rx" /\ loop' \in {"rx", "aging"} /\ m_cur_time' = now /\ now' = now
    BY <1>3 DEF handle_packet
  <2>2. /\ f \in Flow /\ OthersKept(m_tw, m_tw', f)
        /\ m_tw'.m_timer[f] # NoTimer <=> m_ft'[f].open
        /\ m_ft'[f].open => Deadline(m_tw', f) = now + Aging(p)
    BY <1>3, HandlePacketFacts, PacketFacts
  <2>3. Deadlines' = [Deadlines EXCEPT ![f] = Deadline(m_tw', f)]
    BY <2>2, OneDeadline
  <2>4. Deadline(m_tw', f) = NoDeadline \/ Deadline(m_tw', f) = now + Aging(p)
    BY <2>2 DEF Deadline
  <2>5. Limit = Never /\ Limit' \in {Never, now}
    BY <2>1 DEF Limit
  <2> QED BY <2>1, <2>2, <2>3, <2>4, <2>5 DEF AgingNext
<1>4. CASE handle_junk
  BY <1>2, <1>4 DEF handle_junk
<1>5. CASE Tick
  BY <1>5, SameDeadlines DEF Tick, AgingNext, Limit
<1>6. CASE Stop
  BY <1>6, SameDeadlines DEF Stop, AgingNext, Limit
<1>7. CASE drop_top
  <2>1. PICK i \in Tops(m_tw) : ~is_valid(m_tw, i) /\ m_tw' = DropTop(m_tw, i)
    BY <1>7 DEF drop_top
  <2>2. \A g \in Flow : Deadline(m_tw', g) = Deadline(m_tw, g)
    BY <1>1, <2>1, DropWheel DEF Tops
  <2> QED BY <1>7, <2>2, SameDeadlines DEF drop_top, AgingNext, Limit
<1>8. CASE repush_top
  <2>1. PICK i \in Tops(m_tw) : IsPutOff(m_tw, i) /\ m_tw' = RepushTop(m_tw, i)
    BY <1>8 DEF repush_top
  <2>2. \A g \in Flow : Deadline(m_tw', g) = Deadline(m_tw, g)
    BY <1>1, <2>1, RepushWheel DEF Tops
  <2> QED BY <1>8, <2>2, SameDeadlines DEF repush_top, AgingNext, Limit
<1>9. CASE expire_top
  <2>1. PICK i \in Tops(m_tw) :
          LET f == m_tw.m_pq[i].m_flow
          IN  /\ f \in Flow /\ m_tw.m_timer[f] = i /\ ~IsPutOff(m_tw, i) /\ IsOver(i)
              /\ m_tw'.m_timer[f] = NoTimer /\ OthersKept(m_tw, m_tw', f)
    BY <1>9, ExpireTopRx
  <2> DEFINE f == m_tw.m_pq[i].m_flow
  <2>2. /\ UNCHANGED <<m_cur_time, loop, now>> /\ loop \in {"aging", "drain"}
    BY <1>9 DEF expire_top, InPass
  <2>3. i \in DOMAIN m_tw.m_pq /\ i # NoTimer /\ m_tw.m_pq[i].m_time \in Nat
    BY <1>1 DEF Tops, IsWheel, HasTypes, NoTimer, Timer
  <2>4. Deadline(m_tw, f) = m_tw.m_pq[i].m_time /\ Deadline(m_tw', f) = NoDeadline
    BY <2>1, <2>3 DEF Deadline, DeadlineOf
  <2>5. Deadlines' = [Deadlines EXCEPT ![f] = NoDeadline]
    BY <2>1, <2>4, OneDeadline
  <2>6. Deadlines[f] = m_tw.m_pq[i].m_time /\ Deadlines[f] # NoDeadline
    BY <2>1, <2>3, <2>4 DEF Deadlines, NoDeadline
  <2>7. Limit # Never /\ Limit' = Limit /\ (Limit = -1 \/ Deadlines[f] < Limit)
    BY <1>1, <2>1, <2>2, <2>6 DEF Limit, Never, IsOver
  <2>8. now' = now /\ f \in Flow
    BY <2>1, <2>2
  <2> QED BY <2>5, <2>6, <2>7, <2>8 DEF AgingNext
<1>10. CASE pass_done
  <2>1. /\ UNCHANGED <<m_tw, m_cur_time, now>> /\ loop \in {"aging", "drain"}
        /\ loop' \in {"rx", "stopped"}
    BY <1>10 DEF pass_done, InPass
  <2>2. Limit # Never /\ Limit' = Never /\ Deadlines' = Deadlines
    BY <1>1, <2>1, SameDeadlines DEF Limit, Never
  <2>3. ASSUME NEW f \in Flow, Deadlines[f] # NoDeadline
        PROVE  Limit # -1 /\ Deadlines[f] >= Limit
    <3> DEFINE j == m_tw.m_timer[f]
    <3>1. j # NoTimer /\ j \in DOMAIN m_tw.m_pq /\ Deadlines[f] = DeadlineOf(m_tw, f)
      BY <1>1, <2>3 DEF Deadlines, Deadline, IsWheel, Attached
    <3>2. PICK i \in Tops(m_tw) : ~IsOver(i)
      BY <1>10, <3>1 DEF pass_done
    <3>3. /\ m_tw.m_pq[i].m_time <= m_tw.m_pq[j].m_time
          /\ m_tw.m_pq[i].m_time \in Nat /\ m_tw.m_pq[j] \in Timer
      BY <1>1, <3>1 DEF Tops, IsWheel, HasTypes, Timer
    <3>4. loop = "aging" /\ ~(m_tw.m_pq[i].m_time < m_cur_time)
      BY <2>1, <3>2 DEF IsOver
    <3>5. m_tw.m_pq[j].m_time \in Nat /\ m_tw.m_pq[j].m_updated_time \in Nat \cup {-1}
      BY <3>3 DEF Timer, NotUpdated
    <3>6. DeadlineOf(m_tw, f) >= m_tw.m_pq[j].m_time /\ DeadlineOf(m_tw, f) \in Nat
      BY <3>5 DEF DeadlineOf, IsPutOff
    <3> QED BY <1>1, <3>1, <3>3, <3>4, <3>5, <3>6 DEF Limit
  <2> QED BY <2>1, <2>2, <2>3 DEF AgingNext
<1> QED BY <1>2, <1>3, <1>4, <1>5, <1>6, <1>7, <1>8, <1>9, <1>10 DEF Next, Pass, vars

\* CTimerWheel: whatever order the packets come in, and although the queue is only
\* repaired when a timer gets to its top, an aging pass ends the flows that were
\* silent for too long, all of them and no other.
THEOREM WheelImplementsDeadlines == Spec => AgesExactlyTheSilent
<1>1. RxInv /\ [Next]_vars => [Abstract!Next]_(Abstract!timers)
  BY AgingStep, AbstractStep
<1> QED BY <1>1, AbstractInit, SpecRx, PTL DEF Spec, AgesExactlyTheSilent, Abstract!Spec

-----------------------------------------------------------------------------
(* What a flow has received.                                               *)

\* The state of a direction after it received the packets g, when no error was
\* counted.
DirClean(lpd, g) ==
    /\ lpd.m_pkts = Len(g)
    /\ g # << >> => lpd.m_seq = Len(g)
    /\ \A i \in DOMAIN g : i > 1 => g[i] = i - 1
    /\ \A i \in DOMAIN g : g[i] < lpd.m_flow_size

\* An entry without an error: some direction began with its first packet.
FlowClean(lf, g) ==
    /\ \A d \in Dirs : DirClean(lf.m_dir[d], g[d])
    /\ \E d \in Dirs : g[d] # << >> /\ g[d][1] = 0

\* fif_seen tells whether the direction received anything.
SeenOK(lf, g) ==
    \A d \in Dirs : /\ lf.m_dir[d].fif_seen <=> g[d] # << >>
                    /\ ~lf.m_dir[d].fif_seen => lf.m_dir[d] = NewDir

\* What a flow has received when it is opened.
Nothing == [d \in Dirs |-> << >>]

\* p is counted with no error exactly if it opens the flow as its first packet, is
\* the first one of its direction, or is the next one of it.
Expected(lf, p) ==
    LET lpd == lf.m_dir[p.dir]
    IN  IF ~lf.open THEN p.m_pkt_id = 0
        ELSE lpd.fif_seen => /\ p.m_pkt_id # 0 /\ lpd.m_seq = p.m_pkt_id
                             /\ lpd.m_flow_size = p.m_flow_size

\* Expected is exactly the absence of the six errors.
LEMMA NoErrors ==
  ASSUME NEW lf \in FlowState, NEW p \in Packets
  PROVE  ErrorsOf(lf, p) = {} <=> Expected(lf, p)
<1> DEFINE lpd == lf.m_dir[p.dir]
<1>1. /\ lpd \in DirState /\ lpd.m_seq \in Nat /\ lpd.m_flow_size \in Nat /\ p.m_pkt_id \in Nat
      /\ lf.open \in BOOLEAN /\ lpd.fif_seen \in BOOLEAN
  BY PacketFacts DEF FlowState, DirState
<1>2. FlowErrors \subseteq DOMAIN NoStats
  BY StatsDomain DEF FlowErrors, StatNames
<1> HIDE DEF lpd
<1>3. ErrorsOf(lf, p) = {e \in DOMAIN NoStats :
           \/ e = "m_err_open_with_no_fif_pkt" /\ ~lf.open /\ ~(p.m_pkt_id = 0)
           \/ e = "m_err_fif_seen_twice" /\ lf.open /\ lpd.fif_seen /\ p.m_pkt_id = 0
           \/ /\ e = "m_err_flow_length_changed" /\ lf.open /\ lpd.fif_seen
              /\ lpd.m_flow_size # p.m_flow_size
           \/ /\ e = "m_err_oo_dup" /\ lf.open /\ lpd.fif_seen /\ ~(p.m_pkt_id = 0)
              /\ lpd.m_seq # p.m_pkt_id /\ lpd.m_seq - 1 = p.m_pkt_id
           \/ /\ e = "m_err_oo_late" /\ lf.open /\ lpd.fif_seen /\ ~(p.m_pkt_id = 0)
              /\ lpd.m_seq # p.m_pkt_id /\ ~(lpd.m_seq - 1 = p.m_pkt_id)
              /\ lpd.m_seq < p.m_pkt_id
           \/ /\ e = "m_err_oo_early" /\ lf.open /\ lpd.fif_seen /\ ~(p.m_pkt_id = 0)
              /\ lpd.m_seq # p.m_pkt_id /\ ~(lpd.m_seq - 1 = p.m_pkt_id)
              /\ lpd.m_seq > p.m_pkt_id}
  BY Zenon DEF ErrorsOf, is_fif_dir, lpd
<1>4. ASSUME Expected(lf, p) PROVE ErrorsOf(lf, p) = {}
  BY <1>1, <1>3, <1>4 DEF Expected, lpd
<1>5. ASSUME ~Expected(lf, p) PROVE ErrorsOf(lf, p) # {}
  <2>1. CASE ~lf.open
    <3>1. "m_err_open_with_no_fif_pkt" \in ErrorsOf(lf, p)
      BY <1>2, <1>3, <1>5, <2>1 DEF Expected, FlowErrors
    <3> QED BY <3>1
  <2>2. CASE lf.open /\ p.m_pkt_id = 0
    <3>1. "m_err_fif_seen_twice" \in ErrorsOf(lf, p)
      BY <1>2, <1>3, <1>5, <2>2 DEF Expected, FlowErrors, lpd
    <3> QED BY <3>1
  <2>3. CASE lf.open /\ p.m_pkt_id # 0 /\ lpd.m_flow_size # p.m_flow_size
    <3>1. "m_err_flow_length_changed" \in ErrorsOf(lf, p)
      BY <1>2, <1>3, <1>5, <2>3 DEF Expected, FlowErrors, lpd
    <3> QED BY <3>1
  <2>4. CASE lf.open /\ p.m_pkt_id # 0 /\ lpd.m_flow_size = p.m_flow_size
    <3>1. lpd.fif_seen /\ lpd.m_seq # p.m_pkt_id
      BY <1>5, <2>4 DEF Expected, lpd
    <3>2. CASE lpd.m_seq - 1 = p.m_pkt_id
      <4>1. "m_err_oo_dup" \in ErrorsOf(lf, p)
        BY <1>2, <1>3, <2>4, <3>1, <3>2 DEF FlowErrors
      <4> QED BY <4>1
    <3>3. CASE lpd.m_seq - 1 # p.m_pkt_id /\ lpd.m_seq < p.m_pkt_id
      <4>1. "m_err_oo_late" \in ErrorsOf(lf, p)
        BY <1>2, <1>3, <2>4, <3>1, <3>3 DEF FlowErrors
      <4> QED BY <4>1
    <3>4. CASE lpd.m_seq - 1 # p.m_pkt_id /\ lpd.m_seq > p.m_pkt_id
      <4>1. "m_err_oo_early" \in ErrorsOf(lf, p)
        BY <1>2, <1>3, <2>4, <3>1, <3>4 DEF FlowErrors
      <4> QED BY <4>1
    <3> QED BY <1>1, <3>1, <3>2, <3>3, <3>4
  <2> QED BY <2>1, <2>2, <2>3, <2>4
<1> QED BY <1>4, <1>5

\* Adding a packet to what a direction received.
LEMMA AppendFacts ==
  ASSUME NEW g \in Seq(Nat), NEW k \in Nat
  PROVE  /\ Append(g, k) \in Seq(Nat) /\ Append(g, k) # << >>
         /\ Len(g) \in Nat /\ Len(Append(g, k)) = Len(g) + 1
         /\ DOMAIN g = 1 .. Len(g) /\ DOMAIN Append(g, k) = 1 .. Len(g) + 1
         /\ \A i \in 1 .. Len(g) : Append(g, k)[i] = g[i]
         /\ Append(g, k)[Len(g) + 1] = k
         /\ g = << >> <=> Len(g) = 0
OBVIOUS

\* A packet keeps what is known of the state of its flow.
LEMMA FlowStep ==
  ASSUME NEW lf \in FlowState, NEW p \in Packets, NEW h \in [Dirs -> Seq(Nat)],
         SeenOK(lf, h),
         lf.open /\ lf.m_oo_err = 0 => FlowClean(lf, h),
         ~lf.open => lf = Closed /\ h = Nothing
  PROVE  LET n == FlowAfter(lf, p)
             k == [h EXCEPT ![p.dir] = Append(@, p.m_pkt_id)]
         IN  /\ SeenOK(n, k)
             /\ n.m_oo_err = 0 => FlowClean(n, k) /\ lf.m_oo_err = 0 /\ Expected(lf, p)
<1> DEFINE n == FlowAfter(lf, p)
           d == p.dir
           s == lf.m_dir[d]
           g == h[d]
           a == Append(g, p.m_pkt_id)
           k == [h EXCEPT ![d] = a]
<1>1. d \in Dirs /\ p.m_pkt_id \in Nat /\ p.m_flow_size \in Nat /\ p.m_pkt_id < p.m_flow_size
  BY PacketFacts
<1>2. s \in DirState /\ g \in Seq(Nat) /\ lf.m_oo_err \in Nat /\ lf.m_dir \in [Dirs -> DirState]
  BY <1>1 DEF FlowState
<1>3. k[d] = a /\ \A e \in Dirs : e # d => k[e] = h[e]
  BY <1>1
<1>4. /\ n.m_dir[d] = DirAfter(s, p) /\ \A e \in Dirs : e # d => n.m_dir[e] = lf.m_dir[e]
      /\ n.m_oo_err = lf.m_oo_err + Cardinality(ErrorsOf(lf, p))
  <2>1. FlowAfter(lf, p).m_dir[p.dir] = DirAfter(lf.m_dir[p.dir], p)
    BY DirsAfter, Zenon
  <2>2. \A e \in Dirs : e # p.dir => FlowAfter(lf, p).m_dir[e] = lf.m_dir[e]
    BY DirsAfter, Zenon
  <2>3. FlowAfter(lf, p).m_oo_err = lf.m_oo_err + Cardinality(ErrorsOf(lf, p))
    BY ErrorsAfter, Zenon
  <2> QED BY <2>1, <2>2, <2>3, Zenon
<1>5. /\ DirAfter(s, p).fif_seen = TRUE
      /\ DirAfter(s, p).m_pkts = IF s.fif_seen THEN s.m_pkts + 1 ELSE 1
      /\ DirAfter(s, p).m_flow_size = IF s.fif_seen THEN s.m_flow_size ELSE p.m_flow_size
      /\ DirAfter(s, p).m_seq = IF ~s.fif_seen THEN 1
                                ELSE IF is_fif_dir(p) THEN s.m_seq ELSE p.m_pkt_id + 1
  <2> HIDE DEF s, n, k, a
  <2>1. s \in DirState
    BY <1>2
  <2> QED BY ONLY <2>1, p \in Packets, DirAfterType, Zenon
<1>6. /\ a \in Seq(Nat) /\ a # << >>
      /\ Len(g) \in Nat /\ Len(a) = Len(g) + 1
      /\ DOMAIN g = 1 .. Len(g) /\ DOMAIN a = 1 .. Len(g) + 1
      /\ \A i \in 1 .. Len(g) : a[i] = g[i]
      /\ a[Len(g) + 1] = p.m_pkt_id
      /\ g = << >> <=> Len(g) = 0
  BY <1>1, <1>2, AppendFacts, Zenon
<1>7. s.fif_seen <=> Len(g) # 0
  BY <1>1, <1>6 DEF SeenOK
<1> HIDE DEF n, k, a, s, g
<1>8. SeenOK(n, k)
  <2>1. ASSUME NEW e \in Dirs, e # d
        PROVE  (n.m_dir[e].fif_seen <=> k[e] # << >>) /\ (~n.m_dir[e].fif_seen => n.m_dir[e] = NewDir)
    BY <1>3, <1>4, <2>1 DEF SeenOK
  <2>2. n.m_dir[d].fif_seen /\ k[d] # << >>
    BY <1>3, <1>4, <1>5, <1>6
  <2> QED BY <2>1, <2>2 DEF SeenOK
<1>9. ASSUME n.m_oo_err = 0
      PROVE  FlowClean(n, k) /\ lf.m_oo_err = 0 /\ Expected(lf, p)
  <2>1. lf.m_oo_err = 0 /\ Cardinality(ErrorsOf(lf, p)) = 0
    BY <1>2, <1>4, <1>9, ErrorsFinite
  <2>2. Expected(lf, p)
    BY <2>1, ErrorsFinite, NoErrors
  <2>3. CASE ~lf.open
    <3>1. Len(g) = 0 /\ p.m_pkt_id = 0 /\ ~s.fif_seen
      BY <1>1, <1>7, <2>2, <2>3 DEF Expected, Nothing, g
    <3>2. DirClean(n.m_dir[d], k[d])
      BY <1>1, <1>3, <1>4, <1>5, <1>6, <3>1 DEF DirClean
    <3>3. ASSUME NEW e \in Dirs, e # d PROVE DirClean(n.m_dir[e], k[e])
      <4>1. n.m_dir[e] = NewDir /\ k[e] = << >>
        BY <1>3, <1>4, <2>3, <3>3, ClosedFacts DEF Nothing
      <4> QED BY <4>1 DEF DirClean, NewDir
    <3>4. k[d] # << >> /\ k[d][1] = 0
      BY <1>3, <1>6, <3>1
    <3> QED BY <1>1, <2>1, <2>2, <3>2, <3>3, <3>4 DEF FlowClean
  <2>4. CASE lf.open
    <3>1. FlowClean(lf, h)
      BY <2>1, <2>4
    <3>2. PICK e \in Dirs : h[e] # << >> /\ h[e][1] = 0
      BY <3>1 DEF FlowClean
    <3>3. k[e] # << >> /\ k[e][1] = 0
      <4>1. CASE e # d
        BY <1>3, <3>2, <4>1
      <4>2. CASE e = d
        BY <1>3, <1>6, <3>2, <4>2 DEF g
      <4> QED BY <4>1, <4>2
    <3>4. DirClean(s, g)
      BY <1>1, <3>1 DEF FlowClean, s, g
    <3>5. DirClean(n.m_dir[d], k[d])
      <4>1. CASE ~s.fif_seen
        <5>1. Len(g) = 0
          BY <1>7, <4>1
        <5> QED BY <1>1, <1>3, <1>4, <1>5, <1>6, <4>1, <5>1 DEF DirClean
      <4>2. CASE s.fif_seen
        <5>1. /\ p.m_pkt_id # 0 /\ s.m_seq = p.m_pkt_id /\ s.m_flow_size = p.m_flow_size
          BY <2>2, <2>4, <4>2 DEF Expected, s
        <5>2. s.m_seq = Len(g) /\ s.m_pkts = Len(g)
          BY <1>6, <1>7, <3>4, <4>2 DEF DirClean
        <5>3. /\ n.m_dir[d].m_pkts = Len(a) /\ n.m_dir[d].m_seq = Len(a)
              /\ n.m_dir[d].m_flow_size = p.m_flow_size
          BY <1>1, <1>4, <1>5, <1>6, <4>2, <5>1, <5>2 DEF is_fif_dir
        <5>4. ASSUME NEW i \in 1 .. Len(g) + 1
              PROVE  (i > 1 => a[i] = i - 1) /\ a[i] < p.m_flow_size
          <6>1. CASE i = Len(g) + 1
            BY <1>1, <1>6, <5>1, <5>2, <6>1
          <6>2. CASE i # Len(g) + 1
            <7>1. i \in DOMAIN g /\ a[i] = g[i]
              BY <1>6, <6>2
            <7> QED BY <3>4, <5>1, <7>1 DEF DirClean
          <6> QED BY <6>1, <6>2
        <5> QED BY <1>3, <1>6, <5>3, <5>4 DEF DirClean
      <4> QED BY <4>1, <4>2
    <3>6. ASSUME NEW c \in Dirs, c # d PROVE DirClean(n.m_dir[c], k[c])
      BY <1>3, <1>4, <3>1, <3>6 DEF FlowClean
    <3> QED BY <2>1, <2>2, <3>3, <3>5, <3>6 DEF FlowClean
  <2> QED BY <2>3, <2>4
<1> QED BY <1>8, <1>9 DEF n, k, a, s, g

\* The entry lf of the flow f agrees with what the flow received, g, and with what
\* the network delivered, c.
EntryOK(f, lf, g, c) ==
    /\ SeenOK(lf, g)
    /\ lf.m_oo_err = 0 => FlowClean(lf, g)
    /\ \A d \in Dirs : lf.m_dir[d].fif_seen =>
          \E q \in Packets : /\ q.m_flow_id = f /\ q.dir = d /\ c[q] >= 1
                             /\ q.m_flow_size = lf.m_dir[d].m_flow_size
    /\ \E q \in Packets : /\ q.m_flow_id = f /\ q.both_dir = lf.both_dir
                          /\ lf.m_dir[q.dir].fif_seen

\* What the flow f received was delivered to it.
CameIn(f, g, c) ==
    \A d \in Dirs : \A i \in DOMAIN g[d] :
       \E q \in Packets : /\ q.m_flow_id = f /\ q.dir = d /\ c[q] >= 1
                          /\ q.m_pkt_id = g[d][i]

\* Every entry agrees with the history, and the history with the network.
HistInv ==
    \A f \in Flow : /\ m_ft[f].open => EntryOK(f, m_ft[f], got[f], copies)
                    /\ CameIn(f, got[f], copies)

\* What the flow of p has received when p is handled, and after it.
Heard(f) == IF m_ft[f].open THEN got[f] ELSE Nothing
With(h, p) == [h EXCEPT ![p.dir] = Append(h[p.dir], p.m_pkt_id)]

\* A flow without entry has received nothing.
LEMMA SeenNothing ==
  /\ SeenOK(Closed, Nothing)
  /\ Nothing \in [Dirs -> Seq(Nat)] /\ \A d \in Dirs : Nothing[d] = << >>
BY ClosedFacts DEF SeenOK, Nothing, NewDir

\* What a flow has received, with one packet more.
LEMMA WithFacts ==
  ASSUME NEW h \in [Dirs -> Seq(Nat)], NEW p \in Packets
  PROVE  /\ With(h, p) \in [Dirs -> Seq(Nat)]
         /\ With(h, p)[p.dir] = Append(h[p.dir], p.m_pkt_id)
         /\ \A d \in Dirs : d # p.dir => With(h, p)[d] = h[d]
<1>1. p.dir \in Dirs /\ p.m_pkt_id \in Nat
  BY PacketFacts
<1>2. Append(h[p.dir], p.m_pkt_id) \in Seq(Nat)
  BY <1>1
<1> DEFINE a == Append(h[p.dir], p.m_pkt_id)
<1> HIDE DEF a
<1>3. a \in Seq(Nat) /\ With(h, p) = [h EXCEPT ![p.dir] = a]
  BY <1>2 DEF With, a
<1>4. With(h, p) \in [Dirs -> Seq(Nat)] /\ With(h, p)[p.dir] = a
      /\ \A d \in Dirs : d # p.dir => With(h, p)[d] = h[d]
  BY <1>1, <1>3
<1> QED BY <1>4 DEF a

\* A packet keeps what the history says of its flow.
LEMMA EntryStep ==
  ASSUME NEW lf \in FlowState, NEW p \in Packets, NEW h \in [Dirs -> Seq(Nat)],
         NEW c \in [Packets -> Nat], NEW e \in [Packets -> Nat],
         \A q \in Packets : e[q] >= c[q], e[p] >= 1,
         lf.open => EntryOK(p.m_flow_id, lf, h, c),
         ~lf.open => lf = Closed /\ h = Nothing,
         CameIn(p.m_flow_id, h, c)
  PROVE  /\ EntryOK(p.m_flow_id, FlowAfter(lf, p), With(h, p), e)
         /\ CameIn(p.m_flow_id, With(h, p), e)
         /\ FlowAfter(lf, p).m_oo_err = 0 => lf.m_oo_err = 0 /\ Expected(lf, p)
<1> DEFINE n == FlowAfter(lf, p)
           k == With(h, p)
           f == p.m_flow_id
           d == p.dir
<1>1. /\ SeenOK(lf, h)
      /\ lf.open /\ lf.m_oo_err = 0 => FlowClean(lf, h)
  BY SeenNothing DEF EntryOK
<1>2. /\ SeenOK(n, k)
      /\ n.m_oo_err = 0 => FlowClean(n, k) /\ lf.m_oo_err = 0 /\ Expected(lf, p)
  BY <1>1, FlowStep DEF With
<1>3. d \in Dirs /\ f \in Flow
  BY PacketFacts
<1>4. n.m_dir[d] = DirAfter(lf.m_dir[d], p) /\ \A b \in Dirs : b # d => n.m_dir[b] = lf.m_dir[b]
  BY DirsAfter, Zenon
<1>5. lf.m_dir[d] \in DirState
  BY <1>3 DEF FlowState
<1>6. /\ n.m_dir[d].fif_seen
      /\ n.m_dir[d].m_flow_size = IF lf.m_dir[d].fif_seen THEN lf.m_dir[d].m_flow_size
                                  ELSE p.m_flow_size
  <2>1. /\ DirAfter(lf.m_dir[d], p).fif_seen = TRUE
        /\ DirAfter(lf.m_dir[d], p).m_flow_size
             = IF lf.m_dir[d].fif_seen THEN lf.m_dir[d].m_flow_size ELSE p.m_flow_size
    BY <1>5, DirAfterType, Zenon
  <2> QED BY <1>4, <2>1, Zenon
<1>7. n.both_dir = IF lf.open THEN lf.both_dir ELSE p.both_dir
  BY Zenon DEF FlowAfter
<1>8. k[d] = Append(h[d], p.m_pkt_id) /\ \A b \in Dirs : b # d => k[b] = h[b]
  BY WithFacts, Zenon
<1>9. \A b \in Dirs : lf.m_dir[b].fif_seen => lf.open
  BY ClosedFacts DEF NewDir
<1> HIDE DEF n, k
<1>10. ASSUME NEW b \in Dirs, n.m_dir[b].fif_seen
       PROVE  \E q \in Packets : /\ q.m_flow_id = f /\ q.dir = b /\ e[q] >= 1
                                 /\ q.m_flow_size = n.m_dir[b].m_flow_size
  <2>1. CASE b = d /\ ~lf.m_dir[d].fif_seen
    BY <1>6, <2>1
  <2>2. CASE ~(b = d /\ ~lf.m_dir[d].fif_seen)
    <3>1. lf.m_dir[b].fif_seen /\ n.m_dir[b].m_flow_size = lf.m_dir[b].m_flow_size
      BY <1>4, <1>6, <1>10, <2>2
    <3>2. EntryOK(f, lf, h, c)
      BY <1>9, <3>1
    <3>3. PICK q \in Packets : /\ q.m_flow_id = f /\ q.dir = b /\ c[q] >= 1
                               /\ q.m_flow_size = lf.m_dir[b].m_flow_size
      BY <3>1, <3>2 DEF EntryOK
    <3>4. e[q] >= 1
      BY <3>3
    <3> QED BY <3>1, <3>3, <3>4
  <2> QED BY <2>1, <2>2
<1>11. \E q \in Packets : /\ q.m_flow_id = f /\ q.both_dir = n.both_dir
                          /\ n.m_dir[q.dir].fif_seen
  <2>1. CASE ~lf.open
    BY <1>6, <1>7, <2>1
  <2>2. CASE lf.open
    <3>1. PICK q \in Packets : /\ q.m_flow_id = f /\ q.both_dir = lf.both_dir
                               /\ lf.m_dir[q.dir].fif_seen
      BY <2>2 DEF EntryOK
    <3>2. q.dir \in Dirs
      BY PacketFacts
    <3>3. n.m_dir[q.dir].fif_seen
      BY <1>4, <1>6, <3>1, <3>2
    <3> QED BY <1>7, <2>2, <3>1, <3>3
  <2> QED BY <2>1, <2>2
<1>12. CameIn(f, k, e)
  <2> SUFFICES ASSUME NEW b \in Dirs, NEW i \in DOMAIN k[b]
               PROVE  \E q \in Packets : /\ q.m_flow_id = f /\ q.dir = b /\ e[q] >= 1
                                         /\ q.m_pkt_id = k[b][i]
    BY DEF CameIn
  <2>1. ASSUME i \in DOMAIN h[b], k[b][i] = h[b][i]
        PROVE  \E q \in Packets : /\ q.m_flow_id = f /\ q.dir = b /\ e[q] >= 1
                                  /\ q.m_pkt_id = k[b][i]
    <3>1. PICK q \in Packets : q.m_flow_id = f /\ q.dir = b /\ c[q] >= 1 /\ q.m_pkt_id = h[b][i]
      BY <2>1 DEF CameIn
    <3>2. e[q] >= 1
      BY <3>1
    <3> QED BY <2>1, <3>1, <3>2
  <2>2. CASE b # d
    BY <1>8, <2>1, <2>2
  <2>3. CASE b = d
    <3>1. h[d] \in Seq(Nat) /\ p.m_pkt_id \in Nat
      BY <1>3, PacketFacts
    <3>2. /\ i \in 1 .. Len(h[d]) + 1 /\ Len(h[d]) \in Nat /\ DOMAIN h[d] = 1 .. Len(h[d])
          /\ \A j \in 1 .. Len(h[d]) : k[d][j] = h[d][j]
          /\ k[d][Len(h[d]) + 1] = p.m_pkt_id
      BY <1>8, <2>3, <3>1, AppendFacts
    <3>3. CASE i = Len(h[d]) + 1
      BY <2>3, <3>2, <3>3
    <3>4. CASE i # Len(h[d]) + 1
      BY ONLY <2>1, <2>3, <3>2, <3>4, SMTT(60)
    <3> QED BY <3>3, <3>4
  <2> QED BY <2>2, <2>3
<1>13. EntryOK(f, n, k, e)
  BY <1>2, <1>10, <1>11 DEF EntryOK
<1> QED BY <1>2, <1>12, <1>13 DEF n, k


\* Nothing is received at the start.
LEMMA InitHist == Init => HistInv
BY ClosedFacts DEF Init, HistInv, CameIn

\* What a packet does to the history.
LEMMA HandlePacketGot ==
  ASSUME RxInv, HistInv, NEW p \in Packets, handle_packet(p)
  PROVE  LET f == p.m_flow_id
             n == FlowAfter(m_ft[f], p)
             k == With(Heard(f), p)
         IN  /\ f \in Flow /\ m_ft[f] \in FlowState /\ n \in FlowState /\ n.open = TRUE
             /\ Heard(f) \in [Dirs -> Seq(Nat)]
             /\ ~m_ft[f].open => m_ft[f] = Closed /\ Heard(f) = Nothing
             /\ got'[f] = k /\ \A g \in Flow : g # f => got'[g] = got[g]
             /\ copies' \in [Packets -> Nat] /\ copies \in [Packets -> Nat]
             /\ copies'[p] = copies[p] + 1 /\ \A q \in Packets : q # p => copies'[q] = copies[q]
             /\ EntryOK(f, n, k, copies') /\ CameIn(f, k, copies')
             /\ n.m_oo_err = 0 => m_ft[f].m_oo_err = 0 /\ Expected(m_ft[f], p)
<1> DEFINE f == p.m_flow_id
           h == Heard(f)
<1>1. f \in Flow /\ m_ft[f] \in FlowState /\ p.dir \in Dirs
  BY PacketFacts DEF RxInv
<1>2. FlowAfter(m_ft[f], p) \in FlowState /\ FlowAfter(m_ft[f], p).open = TRUE
  BY <1>1, FlowAfterFacts
<1>3. got \in [Flow -> [Dirs -> Seq(Nat)]] /\ copies \in [Packets -> 0 .. MaxCopies]
  BY DEF RxInv, RestTypes
<1>4. h \in [Dirs -> Seq(Nat)] /\ (~m_ft[f].open => m_ft[f] = Closed /\ h = Nothing)
  BY <1>1, <1>3, SeenNothing DEF Heard, RxInv, TimersOfTable
<1>5. got' = [got EXCEPT ![f] = With(h, p)]
  BY Zenon DEF handle_packet, With, Heard, Nothing
<1>6. got'[f] = With(h, p) /\ \A g \in Flow : g # f => got'[g] = got[g]
  <2> DEFINE k == With(h, p)
  <2> HIDE DEF k, h
  <2>1. got' = [got EXCEPT ![f] = k]
    BY <1>5 DEF k
  <2>2. got'[f] = k /\ \A g \in Flow : g # f => got'[g] = got[g]
    BY <1>1, <1>3, <2>1
  <2> QED BY <2>2 DEF k
<1>7. copies \in [Packets -> Nat]
  BY <1>3, PacketsAssumption
<1>8. copies' = [copies EXCEPT ![p] = @ + 1]
  BY DEF handle_packet
<1>9. /\ copies' \in [Packets -> Nat]
      /\ copies'[p] = copies[p] + 1 /\ \A q \in Packets : q # p => copies'[q] = copies[q]
  BY <1>7, <1>8
<1>10. (\A q \in Packets : copies'[q] >= copies[q]) /\ copies'[p] >= 1
  BY <1>7, <1>9
<1>11. m_ft[f].open => EntryOK(f, m_ft[f], h, copies)
  BY <1>1 DEF HistInv, Heard
<1>12. CameIn(f, h, copies)
  <2>1. CASE m_ft[f].open
    BY <1>1, <2>1 DEF HistInv, Heard
  <2>2. CASE ~m_ft[f].open
    BY <1>4, <2>2, SeenNothing DEF CameIn
  <2> QED BY <2>1, <2>2
<1> HIDE DEF h, f
<1>13. /\ EntryOK(f, FlowAfter(m_ft[f], p), With(h, p), copies')
       /\ CameIn(f, With(h, p), copies')
       /\ FlowAfter(m_ft[f], p).m_oo_err = 0 => m_ft[f].m_oo_err = 0 /\ Expected(m_ft[f], p)
  BY <1>1, <1>4, <1>7, <1>9, <1>10, <1>11, <1>12, EntryStep DEF f
<1> QED BY <1>1, <1>2, <1>4, <1>6, <1>7, <1>9, <1>13 DEF f, h

\* A flow that the packets of another flow leave alone.
LEMMA MoreCopies ==
  ASSUME NEW f \in Flow, NEW lf, NEW g, NEW c \in [Packets -> Nat], NEW e \in [Packets -> Nat],
         \A q \in Packets : e[q] >= c[q]
  PROVE  /\ EntryOK(f, lf, g, c) => EntryOK(f, lf, g, e)
         /\ CameIn(f, g, c) => CameIn(f, g, e)
<1>1. \A q \in Packets : c[q] >= 1 => e[q] >= 1
  OBVIOUS
<1>2. ASSUME EntryOK(f, lf, g, c) PROVE EntryOK(f, lf, g, e)
  BY <1>1, <1>2, Zenon DEF EntryOK
<1>3. ASSUME CameIn(f, g, c) PROVE CameIn(f, g, e)
  BY <1>1, <1>3, Zenon DEF CameIn
<1> QED BY <1>2, <1>3

\* A packet preserves the invariant of the history.
LEMMA HandlePacketHist ==
  ASSUME RxInv, HistInv, NEW p \in Packets, handle_packet(p)
  PROVE  HistInv'
<1> DEFINE f == p.m_flow_id
           n == FlowAfter(m_ft[f], p)
           k == With(Heard(f), p)
<1>1. /\ f \in Flow
      /\ got'[f] = k /\ \A g \in Flow : g # f => got'[g] = got[g]
      /\ copies' \in [Packets -> Nat] /\ copies \in [Packets -> Nat]
      /\ copies'[p] = copies[p] + 1 /\ \A q \in Packets : q # p => copies'[q] = copies[q]
      /\ EntryOK(f, n, k, copies') /\ CameIn(f, k, copies')
  BY HandlePacketGot, Zenon
<1>2. m_ft'[f] = (IF is_all_pkts_seen(n) THEN Closed ELSE n)
      /\ \A g \in Flow : g # f => m_ft'[g] = m_ft[g]
  BY HandlePacketFacts, Zenon
<1> HIDE DEF f, n, k
<1>3. \A q \in Packets : copies'[q] >= copies[q]
  BY <1>1
<1>4. ASSUME NEW g \in Flow, g # f
      PROVE  /\ m_ft'[g].open => EntryOK(g, m_ft'[g], got'[g], copies')
             /\ CameIn(g, got'[g], copies')
  <2>1. /\ m_ft[g].open => EntryOK(g, m_ft[g], got[g], copies)
        /\ CameIn(g, got[g], copies)
    BY DEF HistInv
  <2>2. /\ m_ft[g].open => EntryOK(g, m_ft[g], got[g], copies')
        /\ CameIn(g, got[g], copies')
    BY <1>1, <1>3, <2>1, MoreCopies
  <2> QED BY <1>1, <1>2, <1>4, <2>2
<1>5. m_ft'[f].open => EntryOK(f, m_ft'[f], got'[f], copies')
  <2>1. CASE is_all_pkts_seen(n)
    BY <1>2, <2>1, ClosedFacts
  <2>2. CASE ~is_all_pkts_seen(n)
    BY <1>1, <1>2, <2>2, Zenon
  <2> QED BY <2>1, <2>2
<1>6. CameIn(f, got'[f], copies')
  BY <1>1
<1> QED BY <1>4, <1>5, <1>6 DEF HistInv

\* The steps that receive nothing leave the history alone; they may close flows.
QuietStep ==
    /\ UNCHANGED <<copies, got>>
    /\ \A f \in Flow : m_ft'[f] = m_ft[f] \/ m_ft'[f] = Closed

\* No step but a packet of a flow receives anything for it.
LEMMA OthersAreQuiet ==
  ASSUME RxInv, handle_junk \/ Tick \/ Stop \/ Pass \/ UNCHANGED vars
  PROVE  QuietStep
<1>1. ASSUME UNCHANGED <<copies, got>>, UNCHANGED m_ft PROVE QuietStep
  BY <1>1 DEF QuietStep
<1>2. CASE expire_top
  <2>1. PICK f \in Flow : m_ft' = [m_ft EXCEPT ![f] = Closed]
    BY <1>2, ExpireTopRx
  <2>2. UNCHANGED <<copies, got>> /\ m_ft \in [Flow -> FlowState]
    BY <1>2 DEF expire_top, RxInv
  <2> QED BY <2>1, <2>2 DEF QuietStep
<1>3. CASE handle_junk \/ Tick \/ Stop \/ drop_top \/ repush_top \/ pass_done \/ UNCHANGED vars
  BY <1>1, <1>3 DEF handle_junk, Tick, Stop, drop_top, repush_top, pass_done, vars
<1> QED BY <1>2, <1>3 DEF Pass

\* Every step keeps the entry of a flow in accord with what it received.
LEMMA NextHist == RxInv /\ HistInv /\ [Next]_vars => HistInv'
<1> SUFFICES ASSUME RxInv, HistInv, [Next]_vars PROVE HistInv'
  OBVIOUS
<1>1. ASSUME NEW p \in Packets, handle_packet(p) PROVE HistInv'
  BY <1>1, HandlePacketHist
<1>2. CASE handle_junk \/ Tick \/ Stop \/ Pass \/ UNCHANGED vars
  <2>1. QuietStep
    BY <1>2, OthersAreQuiet
  <2> QED BY <2>1, ClosedFacts DEF QuietStep, HistInv
<1> QED BY <1>1, <1>2 DEF Next

\* HistInv holds of every reachable state.
LEMMA SpecHist == Spec => []HistInv
<1>1. Spec => []RxInv
  BY SpecRx
<1> QED BY <1>1, InitHist, NextHist, PTL DEF Spec

-----------------------------------------------------------------------------
(* A flow that ends without an error was delivered.                        *)

\* The number of packets that the direction d of the flow f may have.
SizesOf(f, d) == {p.m_flow_size : p \in {q \in Packets : q.m_flow_id = f /\ q.dir = d}}

\* The size that a header claims is one of its direction.
LEMMA InSizesOf ==
  ASSUME NEW q \in Packets
  PROVE  q.m_flow_size \in SizesOf(q.m_flow_id, q.dir)
BY DEF SizesOf

\* A flow with packets in both directions does not complete with one of them.
LEMMA EveryDirectionSeen ==
  ASSUME NEW f \in Flow, NEW n \in FlowState, NEW k, NEW c, EntryOK(f, n, k, c),
         is_all_pkts_seen(n), NEW d \in Dirs, SizesOf(f, d) # {}
  PROVE  n.m_dir[d].fif_seen
<1> SUFFICES ASSUME ~n.m_dir[d].fif_seen PROVE FALSE
  OBVIOUS
<1>1. n.m_dir[d] = NewDir
  BY DEF EntryOK, SeenOK
<1>2. n.m_dir[d].m_flow_size = 0
  BY <1>1 DEF NewDir
<1>3. PICK q \in Packets : q.m_flow_id = f /\ q.both_dir = n.both_dir /\ n.m_dir[q.dir].fif_seen
  BY DEF EntryOK
<1>4. q.dir # d /\ q.dir \in Dirs /\ q.both_dir \in BOOLEAN
  BY <1>3, PacketFacts
<1>5. PICK r \in Packets : r.m_flow_id = f /\ r.dir = d
  BY DEF SizesOf
<1>6. \E r1 \in Packets : r1.m_flow_id = q.m_flow_id /\ r1.dir # q.dir
  BY <1>3, <1>4, <1>5
<1>7. n.both_dir = TRUE
  BY <1>3, <1>4, <1>6, SendersAssumption
<1> DEFINE S == {e \in Dirs : n.m_dir[e].m_flow_size > 0}
<1>8. S \subseteq {q.dir}
  BY <1>2, <1>4 DEF Dirs
<1>9. IsFiniteSet({q.dir}) /\ Cardinality({q.dir}) = 1
  BY FS_Singleton
<1>10. Cardinality(S) <= 1 /\ Cardinality(S) \in Nat
  BY <1>8, <1>9, FS_Subset, FS_CardinalityType
<1>11. Cardinality(S) = 2
  BY <1>7 DEF is_all_pkts_seen
<1> QED BY <1>10, <1>11

\* What a flow that is complete has received, whatever its first packets were.
LEMMA CompleteFlow ==
  ASSUME NEW f \in Flow, NEW n \in FlowState, NEW k \in [Dirs -> Seq(Nat)], NEW c,
         EntryOK(f, n, k, c), is_all_pkts_seen(n), NEW d \in Dirs
  PROVE  /\ SizesOf(f, d) = {} => k[d] = << >>
         /\ SizesOf(f, d) # {} => Len(k[d]) \in SizesOf(f, d)
         /\ \A i \in 2 .. Len(k[d]) : k[d][i] = i - 1
         /\ k[d] # << >> /\ k[d][1] # 0 =>
               /\ \E i \in 2 .. Len(k[d]) : k[d][i] = k[d][1]
               /\ k[1 - d] # << >> /\ k[1 - d][1] = 0
<1> DEFINE g == k[d]
           s == n.m_dir[d]
<1>1. n.m_oo_err = 0 /\ s.m_pkts = s.m_flow_size
  BY DEF is_all_pkts_seen
<1>2. FlowClean(n, k) /\ SeenOK(n, k)
  BY <1>1 DEF EntryOK
<1>3. DirClean(s, g)
  BY <1>2 DEF FlowClean
<1>4. s.fif_seen <=> g # << >>
  BY <1>2 DEF SeenOK
<1>5. s.fif_seen => s.m_flow_size \in SizesOf(f, d)
  <2> SUFFICES ASSUME s.fif_seen PROVE s.m_flow_size \in SizesOf(f, d)
    OBVIOUS
  <2>1. PICK q \in Packets : q.m_flow_id = f /\ q.dir = d /\ q.m_flow_size = s.m_flow_size
    BY DEF EntryOK
  <2> QED BY <2>1, InSizesOf
<1>6. g \in Seq(Nat) /\ Len(g) \in Nat /\ DOMAIN g = 1 .. Len(g) /\ (g = << >> <=> Len(g) = 0)
  OBVIOUS
<1>7. Len(g) = s.m_flow_size
  BY <1>1, <1>3 DEF DirClean
<1>8. SizesOf(f, d) # {} => s.fif_seen
  BY EveryDirectionSeen
<1>9. \A i \in 2 .. Len(g) : g[i] = i - 1
  BY <1>3, <1>6, SMTT(60) DEF DirClean
<1>10. ASSUME g # << >>, g[1] # 0
       PROVE  (\E i \in 2 .. Len(g) : g[i] = g[1]) /\ k[1 - d] # << >> /\ k[1 - d][1] = 0
  <2>1. 1 \in DOMAIN g /\ g[1] \in Nat
    BY <1>6, <1>10
  <2>2. g[1] < Len(g)
    BY <1>3, <1>7, <2>1 DEF DirClean
  <2>3. g[1] + 1 \in 2 .. Len(g)
    BY <1>6, <1>10, <2>1, <2>2
  <2>4. g[g[1] + 1] = g[1]
    BY <1>9, <2>1, <2>3
  <2>5. PICK e \in Dirs : k[e] # << >> /\ k[e][1] = 0
    BY <1>2 DEF FlowClean
  <2>6. e = 1 - d
    BY <1>10, <2>5 DEF Dirs
  <2> QED BY <2>3, <2>4, <2>5, <2>6
<1> QED BY <1>4, <1>5, <1>7, <1>8, <1>9, <1>10

\* The packet that ends its flow leaves it delivered.
LEMMA CompletionStep ==
  ASSUME RxInv, HistInv, NEW p \in Packets, handle_packet(p), NEW f \in Flow,
         got'[f] # got[f], ~m_ft'[f].open
  PROVE  WasDelivered(f)'
<1> DEFINE n == FlowAfter(m_ft[f], p)
           k == With(Heard(f), p)
<1>1. f = p.m_flow_id
  BY HandlePacketGot
<1>2. /\ n \in FlowState /\ n.open = TRUE /\ Heard(f) \in [Dirs -> Seq(Nat)]
      /\ got'[f] = k /\ EntryOK(f, n, k, copies')
  BY <1>1, HandlePacketGot
<1>3. m_ft'[f] = IF is_all_pkts_seen(n) THEN Closed ELSE n
  BY <1>1, HandlePacketFacts, Zenon
<1>4. is_all_pkts_seen(n)
  BY <1>2, <1>3
<1>5. k \in [Dirs -> Seq(Nat)]
  BY <1>2, WithFacts
<1> HIDE DEF n, k
<1>6. ASSUME NEW d \in Dirs
      PROVE  IF SizesOf(f, d) = {} THEN got'[f][d] = << >>
             ELSE /\ Len(got'[f][d]) \in SizesOf(f, d)
                  /\ \A i \in 2 .. Len(got'[f][d]) : got'[f][d][i] = i - 1
                  /\ \/ got'[f][d][1] = 0
                     \/ /\ \E i \in 2 .. Len(got'[f][d]) : got'[f][d][i] = got'[f][d][1]
                        /\ got'[f][1 - d] # << >> /\ got'[f][1 - d][1] = 0
  <2>0. /\ f \in Flow /\ n \in FlowState /\ k \in [Dirs -> Seq(Nat)] /\ d \in Dirs
        /\ EntryOK(f, n, k, copies') /\ is_all_pkts_seen(n)
    BY <1>2, <1>4, <1>5
  <2>1. /\ SizesOf(f, d) = {} => k[d] = << >>
        /\ SizesOf(f, d) # {} => Len(k[d]) \in SizesOf(f, d)
        /\ \A i \in 2 .. Len(k[d]) : k[d][i] = i - 1
        /\ k[d] # << >> /\ k[d][1] # 0 =>
              /\ \E i \in 2 .. Len(k[d]) : k[d][i] = k[d][1]
              /\ k[1 - d] # << >> /\ k[1 - d][1] = 0
    BY ONLY <2>0, CompleteFlow, ZenonT(60)
  <2>2. SizesOf(f, d) # {} => k[d] # << >>
    BY <1>2, <1>4, EveryDirectionSeen DEF EntryOK, SeenOK
  <2> QED BY <1>2, <2>1, <2>2, Zenon
<1> QED BY <1>6, Zenon DEF WasDelivered, SizesOf

\* RxCheckManager::handle_packet: a flow that is ended by its last packet, and so
\* counted without an error, has received in each of its directions as many packets
\* as it has, in order but for the first, which may only be missing in the direction
\* that did not open the flow, another packet of it having come twice.
THEOREM EndedFlowWasDelivered == Spec => CleanFlowWasDelivered
<1>1. RxInv /\ HistInv /\ [Next]_vars =>
        [\A f \in Flow : got'[f] # got[f] /\ ~m_ft'[f].open => WasDelivered(f)']_vars
  <2> SUFFICES ASSUME RxInv, HistInv, [Next]_vars, NEW f \in Flow,
                      got'[f] # got[f], ~m_ft'[f].open
               PROVE  WasDelivered(f)'
    OBVIOUS
  <2>1. ASSUME NEW p \in Packets, handle_packet(p) PROVE WasDelivered(f)'
    BY <2>1, CompletionStep
  <2>2. CASE handle_junk \/ Tick \/ Stop \/ Pass \/ UNCHANGED vars
    BY <2>2, OthersAreQuiet DEF QuietStep
  <2> QED BY <2>1, <2>2 DEF Next
<1> QED BY <1>1, SpecRx, SpecHist, PTL DEF Spec, CleanFlowWasDelivered

-----------------------------------------------------------------------------
(* No false alarm.                                                         *)

\* No packet came twice, and the packets of a direction agree on its size.
Undisturbed(c) ==
    /\ \A p \in Packets : c[p] <= 1
    /\ \A p, q \in Packets :
          /\ p.m_flow_id = q.m_flow_id /\ p.dir = q.dir
          /\ c[p] = 1 /\ c[q] = 1
          => p.m_flow_size = q.m_flow_size

\* Each direction received 0, 1, 2, ...
InSequence(g) == \A d \in Dirs : \A i \in DOMAIN g[d] : g[d][i] = i - 1

\* No direction received a number twice.
NothingTwice(g) == \A d \in Dirs : \A i, j \in DOMAIN g[d] : g[d][i] = g[d][j] => i = j

\* A flow that is not aged out was received in sequence, and counted without error.
AlarmInv ==
    /\ m_stats.m_err_aged = 0 => m_stats.m_err_drop = 0
    /\ \A f \in Flow : Undisturbed(copies) => NothingTwice(got[f])
    /\ Undisturbed(copies) /\ m_stats.m_err_aged = 0 /\ loop \in {"rx", "aging"} =>
          \A f \in Flow : ~m_ft[f].open => InSequence(got[f])
    /\ /\ Undisturbed(copies) /\ m_stats.m_err_aged = 0
       /\ \A f \in Flow : InSequence(got[f])
       => /\ \A e \in FlowErrors : m_stats[e] = 0
          /\ \A f \in Flow : m_ft[f].open => m_ft[f].m_oo_err = 0

\* InOrder in two parts: what the network did, and what each flow received.
LEMMA InOrderParts ==
  InOrder <=> Undisturbed(copies) /\ \A f \in Flow : InSequence(got[f])
BY Zenon DEF InOrder, Undisturbed, InSequence

\* A network that has not repeated a packet had not done so before.
LEMMA UndisturbedBefore ==
  ASSUME NEW c \in [Packets -> Nat], NEW e \in [Packets -> Nat],
         \A q \in Packets : e[q] >= c[q], Undisturbed(e)
  PROVE  Undisturbed(c)
<1>1. \A q \in Packets : c[q] \in Nat /\ e[q] \in Nat /\ e[q] <= 1
  BY DEF Undisturbed
<1>2. \A q \in Packets : c[q] <= 1 /\ (c[q] = 1 => e[q] = 1)
  BY <1>1
<1> QED BY <1>2, Zenon DEF Undisturbed

\* No error is counted at the start.
LEMMA InitAlarm == Init => AlarmInv
<1> SUFFICES ASSUME Init PROVE AlarmInv
  OBVIOUS
<1>1. \A f \in Flow : NothingTwice(got[f]) /\ InSequence(got[f])
  BY DEF Init, NothingTwice, InSequence
<1>2. m_stats.m_err_drop = 0 /\ \A e \in FlowErrors : m_stats[e] = 0
  BY DEF Init, NoStats, FlowErrors
<1>3. \A f \in Flow : ~m_ft[f].open
  BY ClosedFacts DEF Init
<1> QED BY <1>1, <1>2, <1>3 DEF AlarmInv

\* A packet that comes once does not repeat a number.
LEMMA StillOnce ==
  ASSUME NEW p \in Packets, NEW h \in [Dirs -> Seq(Nat)],
         NEW c \in [Packets -> Nat], NEW e \in [Packets -> Nat],
         e[p] = c[p] + 1, \A q \in Packets : q # p => e[q] = c[q],
         Undisturbed(e), CameIn(p.m_flow_id, h, c), NothingTwice(h)
  PROVE  NothingTwice(With(h, p))
<1> DEFINE d == p.dir
           g == h[d]
           a == Append(g, p.m_pkt_id)
           k == With(h, p)
<1>1. d \in Dirs /\ g \in Seq(Nat) /\ p.m_pkt_id \in Nat
  BY PacketFacts
<1>2. /\ Len(g) \in Nat /\ DOMAIN g = 1 .. Len(g) /\ DOMAIN a = 1 .. Len(g) + 1
      /\ \A i \in 1 .. Len(g) : a[i] = g[i]
      /\ a[Len(g) + 1] = p.m_pkt_id
  BY <1>1, AppendFacts, Zenon
<1>3. k[d] = a /\ \A b \in Dirs : b # d => k[b] = h[b]
  BY WithFacts, Zenon
<1>4. ASSUME NEW i \in 1 .. Len(g), g[i] = p.m_pkt_id PROVE FALSE
  <2>1. PICK q \in Packets : q.m_flow_id = p.m_flow_id /\ q.dir = d /\ c[q] >= 1 /\ q.m_pkt_id = g[i]
    <3>1. i \in DOMAIN h[d]
      BY <1>2
    <3> QED BY <1>1, <3>1, Zenon DEF CameIn
  <2>2. e[p] \in Nat /\ c[p] \in Nat /\ e[q] \in Nat /\ c[q] \in Nat /\ e[p] <= 1 /\ e[q] <= 1
    BY DEF Undisturbed
  <2>3. e[p] = 1 /\ c[p] = 0
    BY <2>2
  <2>4. q # p /\ e[q] = 1
    BY <2>1, <2>2, <2>3
  <2>5. q.m_flow_size = p.m_flow_size
    BY <2>1, <2>3, <2>4 DEF Undisturbed
  <2> QED BY <1>4, <2>1, <2>4, <2>5, SendersAssumption
<1> HIDE DEF a, k, g
<1>5. \A i, j \in DOMAIN a : a[i] = a[j] => i = j
  <2> SUFFICES ASSUME NEW i \in 1 .. Len(g) + 1, NEW j \in 1 .. Len(g) + 1, a[i] = a[j] PROVE i = j
    BY <1>2
  <2>1. CASE i \in 1 .. Len(g) /\ j \in 1 .. Len(g)
    <3>1. \A b \in Dirs : \A i1, j1 \in DOMAIN h[b] : h[b][i1] = h[b][j1] => i1 = j1
      BY DEF NothingTwice
    <3>2. \A i1, j1 \in DOMAIN g : g[i1] = g[j1] => i1 = j1
      BY <1>1, <3>1 DEF g
    <3>3. g[i] = g[j] /\ i \in DOMAIN g /\ j \in DOMAIN g
      BY <1>2, <2>1
    <3> QED BY <3>2, <3>3
  <2>2. CASE i = Len(g) + 1 /\ j \in 1 .. Len(g)
    BY <1>2, <1>4, <2>2
  <2>3. CASE j = Len(g) + 1 /\ i \in 1 .. Len(g)
    BY <1>2, <1>4, <2>3
  <2> QED BY <1>2, <2>1, <2>2, <2>3
<1>6. ASSUME NEW b \in Dirs PROVE \A i, j \in DOMAIN k[b] : k[b][i] = k[b][j] => i = j
  <2>1. CASE b = d
    BY <1>3, <1>5, <2>1
  <2>2. CASE b # d
    BY <1>3, <2>2 DEF NothingTwice
  <2> QED BY <2>1, <2>2
<1> QED BY <1>6 DEF NothingTwice, k

\* A flow that is complete, and received nothing twice, was received in sequence.
LEMMA CompleteInSequence ==
  ASSUME NEW f \in Flow, NEW n \in FlowState, NEW k \in [Dirs -> Seq(Nat)], NEW c,
         EntryOK(f, n, k, c), is_all_pkts_seen(n), NothingTwice(k)
  PROVE  InSequence(k)
<1> SUFFICES ASSUME NEW d \in Dirs, NEW i \in DOMAIN k[d] PROVE k[d][i] = i - 1
  BY DEF InSequence
<1>1. /\ k[d] \in Seq(Nat) /\ i \in 1 .. Len(k[d]) /\ Len(k[d]) \in Nat
      /\ k[d] # << >> /\ DOMAIN k[d] = 1 .. Len(k[d])
  OBVIOUS
<1>2. /\ \A j \in 2 .. Len(k[d]) : k[d][j] = j - 1
      /\ k[d][1] # 0 => \E j \in 2 .. Len(k[d]) : k[d][j] = k[d][1]
  BY ONLY f \in Flow, n \in FlowState, k \in [Dirs -> Seq(Nat)], d \in Dirs,
          EntryOK(f, n, k, c), is_all_pkts_seen(n), <1>1, CompleteFlow, SMTT(60)
<1>3. k[d][1] = 0
  <2> SUFFICES ASSUME k[d][1] # 0 PROVE FALSE
    OBVIOUS
  <2>1. PICK j \in 2 .. Len(k[d]) : k[d][j] = k[d][1]
    BY <1>2
  <2>2. j \in DOMAIN k[d] /\ 1 \in DOMAIN k[d] /\ j # 1
    BY <1>1
  <2> QED BY <2>1, <2>2 DEF NothingTwice
<1> QED BY <1>1, <1>2, <1>3


\* p is the packet that comes next, if what its flow received with it is in sequence.
LEMMA InSequenceIsExpected ==
  ASSUME NEW p \in Packets, NEW lf \in FlowState, NEW h \in [Dirs -> Seq(Nat)],
         NEW c \in [Packets -> Nat], NEW e \in [Packets -> Nat],
         e[p] = c[p] + 1, \A q \in Packets : q # p => e[q] = c[q],
         Undisturbed(e), InSequence(With(h, p)),
         lf.open => EntryOK(p.m_flow_id, lf, h, c) /\ lf.m_oo_err = 0,
         ~lf.open => h = Nothing
  PROVE  Expected(lf, p)
<1> DEFINE d == p.dir
           g == h[d]
           a == Append(g, p.m_pkt_id)
           s == lf.m_dir[d]
<1>1. d \in Dirs /\ g \in Seq(Nat) /\ p.m_pkt_id \in Nat
  BY PacketFacts
<1>2. /\ Len(g) \in Nat /\ DOMAIN a = 1 .. Len(g) + 1 /\ a[Len(g) + 1] = p.m_pkt_id
      /\ g = << >> <=> Len(g) = 0
  BY <1>1, AppendFacts, Zenon
<1>3. With(h, p)[d] = a
  BY WithFacts, Zenon
<1> HIDE DEF a
<1>4. p.m_pkt_id = Len(g)
  <2>1. Len(g) + 1 \in DOMAIN With(h, p)[d]
    BY <1>2, <1>3
  <2>2. With(h, p)[d][Len(g) + 1] = (Len(g) + 1) - 1
    BY <1>1, <2>1, Zenon DEF InSequence
  <2> HIDE DEF g
  <2> QED BY <1>2, <1>3, <2>2
<1>5. CASE ~lf.open
  <2>1. Len(g) = 0
    BY <1>1, <1>2, <1>5, SeenNothing
  <2> QED BY <1>4, <1>5, <2>1 DEF Expected
<1>6. CASE lf.open
  <2> SUFFICES ASSUME s.fif_seen
               PROVE  p.m_pkt_id # 0 /\ s.m_seq = p.m_pkt_id /\ s.m_flow_size = p.m_flow_size
    BY <1>6 DEF Expected
  <2>1. EntryOK(p.m_flow_id, lf, h, c) /\ lf.m_oo_err = 0
    BY <1>6
  <2>2. FlowClean(lf, h) /\ SeenOK(lf, h)
    BY <2>1 DEF EntryOK
  <2>3. g # << >>
    BY <1>1, <2>2 DEF SeenOK
  <2>4. s.m_seq = Len(g)
    BY <1>1, <2>2, <2>3 DEF FlowClean, DirClean
  <2>5. PICK q \in Packets : /\ q.m_flow_id = p.m_flow_id /\ q.dir = d /\ c[q] >= 1
                             /\ q.m_flow_size = s.m_flow_size
    BY <1>1, <2>1 DEF EntryOK
  <2>6. e[p] \in Nat /\ c[p] \in Nat /\ e[q] \in Nat /\ c[q] \in Nat /\ e[p] <= 1 /\ e[q] <= 1
    BY DEF Undisturbed
  <2>7. e[p] = 1 /\ e[q] = 1
    BY <2>5, <2>6
  <2>8. p.m_flow_size = q.m_flow_size
    BY <2>5, <2>7 DEF Undisturbed
  <2> QED BY <1>2, <1>4, <2>3, <2>4, <2>5, <2>8
<1> QED BY <1>5, <1>6 DEF FlowState

\* What was in sequence with a packet was so before it.
LEMMA InSequenceBefore ==
  ASSUME NEW p \in Packets, NEW h \in [Dirs -> Seq(Nat)], InSequence(With(h, p))
  PROVE  InSequence(h)
<1> SUFFICES ASSUME NEW b \in Dirs, NEW i \in DOMAIN h[b] PROVE h[b][i] = i - 1
  BY DEF InSequence
<1>1. p.dir \in Dirs /\ h[p.dir] \in Seq(Nat) /\ p.m_pkt_id \in Nat
  BY PacketFacts
<1>2. With(h, p)[p.dir] = Append(h[p.dir], p.m_pkt_id)
      /\ \A d \in Dirs : d # p.dir => With(h, p)[d] = h[d]
  BY WithFacts
<1>3. CASE b # p.dir
  BY <1>2, <1>3 DEF InSequence
<1>4. CASE b = p.dir
  <2>1. i \in DOMAIN Append(h[b], p.m_pkt_id) /\ Append(h[b], p.m_pkt_id)[i] = h[b][i]
    BY <1>1, <1>4
  <2> QED BY <1>1, <1>2, <1>4, <2>1 DEF InSequence
<1> QED BY <1>3, <1>4

\* A packet preserves the invariant of the errors.
LEMMA HandlePacketAlarm ==
  ASSUME RxInv, HistInv, AlarmInv, NEW p \in Packets, handle_packet(p)
  PROVE  AlarmInv'
<1> DEFINE f == p.m_flow_id
           h == Heard(f)
           n == FlowAfter(m_ft[f], p)
           k == With(h, p)
<1>1. /\ f \in Flow /\ m_ft[f] \in FlowState /\ n \in FlowState /\ n.open = TRUE
      /\ h \in [Dirs -> Seq(Nat)]
      /\ ~m_ft[f].open => m_ft[f] = Closed /\ h = Nothing
      /\ got'[f] = k /\ \A g \in Flow : g # f => got'[g] = got[g]
  BY HandlePacketGot, Zenon
<1>2. /\ copies' \in [Packets -> Nat] /\ copies \in [Packets -> Nat]
      /\ copies'[p] = copies[p] + 1 /\ \A q \in Packets : q # p => copies'[q] = copies[q]
      /\ EntryOK(f, n, k, copies') /\ CameIn(f, k, copies')
  BY HandlePacketGot, Zenon
<1>3. /\ m_ft'[f] = IF is_all_pkts_seen(n) THEN Closed ELSE n
      /\ \A g \in Flow : g # f => m_ft'[g] = m_ft[g]
      /\ m_stats'.m_err_aged = m_stats.m_err_aged
      /\ m_stats'.m_err_drop = m_stats.m_err_drop
      /\ \A e \in FlowErrors :
            m_stats'[e] = m_stats[e] + (IF e \in ErrorsOf(m_ft[f], p) THEN 1 ELSE 0)
  BY HandlePacketFacts, Zenon
<1>4. loop = "rx" /\ k \in [Dirs -> Seq(Nat)]
  BY <1>1, WithFacts DEF handle_packet
<1>5. Undisturbed(copies') => Undisturbed(copies)
  <2>1. \A q \in Packets : copies'[q] >= copies[q]
    BY <1>2
  <2> QED BY <1>2, <2>1, UndisturbedBefore
<1>6. m_ft[f].open => h = got[f] /\ EntryOK(f, m_ft[f], h, copies)
  BY <1>1 DEF Heard, HistInv
<1>7. CameIn(f, h, copies)
  <2>1. CASE m_ft[f].open
    BY <1>1, <1>6, <2>1 DEF HistInv
  <2>2. CASE ~m_ft[f].open
    BY <1>1, <2>2, SeenNothing DEF CameIn
  <2> QED BY <2>1, <2>2
<1> HIDE DEF f, h, n, k
<1>8. Undisturbed(copies') => NothingTwice(k)
  <2> SUFFICES ASSUME Undisturbed(copies') PROVE NothingTwice(k)
    OBVIOUS
  <2>1. NothingTwice(h)
    <3>1. CASE m_ft[f].open
      BY <1>1, <1>5, <1>6, <3>1 DEF AlarmInv
    <3>2. CASE ~m_ft[f].open
      BY <1>1, <3>2, SeenNothing DEF NothingTwice
    <3> QED BY <3>1, <3>2
  <2> QED BY <1>1, <1>2, <1>7, <2>1, StillOnce DEF f, k
<1>9. \A g \in Flow : Undisturbed(copies') => NothingTwice(got'[g])
  BY <1>1, <1>5, <1>8 DEF AlarmInv
<1>10. ASSUME Undisturbed(copies'), m_stats'.m_err_aged = 0, NEW g \in Flow, ~m_ft'[g].open
       PROVE  InSequence(got'[g])
  <2>1. CASE g = f
    <3>1. is_all_pkts_seen(n)
      BY <1>1, <1>3, <1>10, <2>1
    <3>2. InSequence(k)
      BY <1>1, <1>2, <1>4, <1>8, <1>10, <3>1, CompleteInSequence
    <3> QED BY <1>1, <2>1, <3>2
  <2>2. CASE g # f
    BY <1>1, <1>3, <1>4, <1>5, <1>10, <2>2 DEF AlarmInv
  <2> QED BY <2>1, <2>2
<1>11. ASSUME Undisturbed(copies'), m_stats'.m_err_aged = 0, \A g \in Flow : InSequence(got'[g])
       PROVE  /\ \A e \in FlowErrors : m_stats'[e] = 0
              /\ \A g \in Flow : m_ft'[g].open => m_ft'[g].m_oo_err = 0
  <2>1. Undisturbed(copies) /\ m_stats.m_err_aged = 0
    BY <1>3, <1>5, <1>11
  <2>2. InSequence(k)
    BY <1>1, <1>11
  <2>3. InSequence(h)
    BY <1>1, <2>2, InSequenceBefore DEF k
  <2>4. \A g \in Flow : InSequence(got[g])
    <3>1. ASSUME NEW g \in Flow, g # f PROVE InSequence(got[g])
      BY <1>1, <1>11, <3>1
    <3>2. InSequence(got[f])
      <4>1. CASE m_ft[f].open
        BY <1>6, <2>3, <4>1
      <4>2. CASE ~m_ft[f].open
        BY <1>1, <1>4, <2>1, <4>2 DEF AlarmInv
      <4> QED BY <4>1, <4>2
    <3> QED BY <3>1, <3>2
  <2>5. /\ \A e \in FlowErrors : m_stats[e] = 0
        /\ \A g \in Flow : m_ft[g].open => m_ft[g].m_oo_err = 0
    BY <2>1, <2>4 DEF AlarmInv
  <2>6. Expected(m_ft[f], p)
    <3>1. m_ft[f].open => EntryOK(p.m_flow_id, m_ft[f], h, copies) /\ m_ft[f].m_oo_err = 0
      BY <1>1, <1>6, <2>5 DEF f
    <3> QED BY <1>1, <1>2, <1>11, <2>2, <3>1, InSequenceIsExpected DEF k
  <2>7. ErrorsOf(m_ft[f], p) = {}
    BY <1>1, <2>6, NoErrors
  <2>8. \A e \in FlowErrors : m_stats'[e] = 0
    BY <1>3, <2>5, <2>7
  <2>9. m_ft[f].m_oo_err = 0
    BY <1>1, <2>5, ClosedFacts
  <2>10. n.m_oo_err = 0
    <3>1. n.m_oo_err = m_ft[f].m_oo_err + Cardinality(ErrorsOf(m_ft[f], p))
      BY <1>1, ErrorsAfter DEF n
    <3> QED BY <2>7, <2>9, <3>1, FS_EmptySet
  <2>11. ASSUME NEW g \in Flow, m_ft'[g].open PROVE m_ft'[g].m_oo_err = 0
    <3>1. CASE g # f
      BY <1>3, <2>5, <2>11, <3>1
    <3>2. CASE g = f
      BY <1>3, <2>10, <3>2, ClosedFacts
    <3> QED BY <3>1, <3>2
  <2> QED BY <2>8, <2>11
<1>12. m_stats'.m_err_aged = 0 => m_stats'.m_err_drop = 0
  BY <1>3 DEF AlarmInv
<1> QED BY <1>9, <1>10, <1>11, <1>12 DEF AlarmInv

\* The counters in the steps that receive no packet of a flow: only an aging pass
\* counts packets as dropped, and it counts the flow as aged.
LEMMA QuietCounts ==
  ASSUME RxInv, handle_junk \/ Tick \/ Stop \/ Pass \/ UNCHANGED vars
  PROVE  /\ \A e \in FlowErrors : m_stats'[e] = m_stats[e]
         /\ m_stats'.m_err_aged = 0 =>
               m_stats.m_err_aged = 0 /\ m_stats'.m_err_drop = m_stats.m_err_drop
         /\ m_stats'.m_err_aged = 0 /\ loop' \in {"rx", "aging"} =>
               loop \in {"rx", "aging"} /\ m_ft' = m_ft
<1>1. CASE expire_top
  <2>1. PICK f \in Flow : /\ m_ft[f].open /\ m_stats.m_active > 0
                          /\ m_stats' = EndStats(m_stats, m_ft[f], FALSE, loop = "drain")
    BY <1>1, ExpireTopRx
  <2>2. m_stats \in Stats /\ m_ft[f] \in FlowState /\ (loop = "drain") \in BOOLEAN
    BY DEF RxInv
  <2>3. m_stats.m_err_aged \in Nat /\ loop' = loop /\ loop \in {"aging", "drain"}
    BY <1>1, <2>2 DEF Stats, StatNames, expire_top, InPass
  <2>4. /\ m_stats'.m_err_aged = IF loop = "drain" THEN m_stats.m_err_aged
                                 ELSE m_stats.m_err_aged + 1
        /\ loop = "drain" => m_stats'.m_err_drop = m_stats.m_err_drop
        /\ \A e \in FlowErrors : m_stats'[e] = m_stats[e]
    BY ONLY <2>1, <2>2, EndStatsFacts, ZenonT(60)
  <2> QED BY <2>3, <2>4
<1>2. CASE handle_junk
  <2> DEFINE a == m_stats.m_total_rx + 1
             b == m_stats.m_err_junk + 1
  <2>1. m_stats \in Stats /\ m_stats' = [m_stats EXCEPT !.m_total_rx = a, !.m_err_junk = b]
    BY <1>2 DEF RxInv, handle_junk
  <2> HIDE DEF a, b
  <2>2. /\ \A e \in FlowErrors : m_stats'[e] = m_stats[e]
        /\ m_stats'.m_err_aged = m_stats.m_err_aged /\ m_stats'.m_err_drop = m_stats.m_err_drop
    BY <2>1 DEF Stats, StatNames, FlowErrors
  <2> QED BY <1>2, <2>2 DEF handle_junk
<1>3. CASE Tick \/ Stop \/ drop_top \/ repush_top \/ pass_done \/ UNCHANGED vars
  <2>1. UNCHANGED <<m_stats, m_ft>>
    BY <1>3 DEF Tick, Stop, drop_top, repush_top, pass_done, vars
  <2>2. loop' \in {"rx", "aging"} => loop \in {"rx", "aging"}
    BY <1>3 DEF Tick, Stop, drop_top, repush_top, pass_done, vars, InPass
  <2> QED BY <2>1, <2>2
<1> QED BY <1>1, <1>2, <1>3 DEF Pass

\* Steps that receive nothing keep AlarmInv.
LEMMA QuietAlarm ==
  ASSUME RxInv, AlarmInv, handle_junk \/ Tick \/ Stop \/ Pass \/ UNCHANGED vars
  PROVE  AlarmInv'
<1>1. /\ UNCHANGED <<copies, got>>
      /\ \A f \in Flow : m_ft'[f] = m_ft[f] \/ m_ft'[f] = Closed
  BY OthersAreQuiet DEF QuietStep
<1>2. /\ \A e \in FlowErrors : m_stats'[e] = m_stats[e]
      /\ m_stats'.m_err_aged = 0 =>
            m_stats.m_err_aged = 0 /\ m_stats'.m_err_drop = m_stats.m_err_drop
      /\ m_stats'.m_err_aged = 0 /\ loop' \in {"rx", "aging"} =>
            loop \in {"rx", "aging"} /\ m_ft' = m_ft
  BY QuietCounts
<1>3. m_stats'.m_err_aged = 0 => m_stats'.m_err_drop = 0
  BY <1>2 DEF AlarmInv
<1>4. \A f \in Flow : Undisturbed(copies') => NothingTwice(got'[f])
  BY <1>1 DEF AlarmInv
<1>5. ASSUME Undisturbed(copies'), m_stats'.m_err_aged = 0, loop' \in {"rx", "aging"},
             NEW f \in Flow, ~m_ft'[f].open
      PROVE  InSequence(got'[f])
  BY <1>1, <1>2, <1>5 DEF AlarmInv
<1>6. ASSUME Undisturbed(copies'), m_stats'.m_err_aged = 0, \A f \in Flow : InSequence(got'[f])
      PROVE  /\ \A e \in FlowErrors : m_stats'[e] = 0
             /\ \A f \in Flow : m_ft'[f].open => m_ft'[f].m_oo_err = 0
  <2>1. /\ \A e \in FlowErrors : m_stats[e] = 0
        /\ \A f \in Flow : m_ft[f].open => m_ft[f].m_oo_err = 0
    BY <1>1, <1>2, <1>6 DEF AlarmInv
  <2> QED BY <1>1, <1>2, <2>1, ClosedFacts
<1> QED BY <1>3, <1>4, <1>5, <1>6 DEF AlarmInv

\* Every step keeps the error counters in accord with the order of delivery.
LEMMA NextAlarm == RxInv /\ HistInv /\ AlarmInv /\ [Next]_vars => AlarmInv'
BY HandlePacketAlarm, QuietAlarm DEF Next

\* RxCheckManager: as long as every direction of every flow is delivered in order,
\* however the flows and the directions interleave, and no flow fell silent for too
\* long, no error is counted but the packets that belong to no flow.
THEOREM NoAlarmWithoutCause == Spec => []NoFalseAlarm
<1>1. RxInv /\ AlarmInv => NoFalseAlarm
  <2> SUFFICES ASSUME RxInv, AlarmInv, InOrder, m_stats.m_err_aged = 0
               PROVE  get_total_err(m_stats) = m_stats.m_err_junk
    BY DEF NoFalseAlarm
  <2>1. m_stats.m_err_drop = 0 /\ \A e \in FlowErrors : m_stats[e] = 0
    BY InOrderParts DEF AlarmInv
  <2>2. m_stats.m_err_junk \in Nat
    BY DEF RxInv, Stats, StatNames
  <2>3. /\ m_stats.m_err_fif_seen_twice = 0 /\ m_stats.m_err_open_with_no_fif_pkt = 0
        /\ m_stats.m_err_oo_dup = 0 /\ m_stats.m_err_oo_early = 0
        /\ m_stats.m_err_oo_late = 0 /\ m_stats.m_err_flow_length_changed = 0
    BY <2>1 DEF FlowErrors
  <2> QED BY <2>1, <2>2, <2>3 DEF get_total_err
<1>2. Spec => []AlarmInv
  BY InitAlarm, NextAlarm, SpecRx, SpecHist, PTL DEF Spec
<1> QED BY <1>1, <1>2, SpecRx, PTL
=============================================================================
