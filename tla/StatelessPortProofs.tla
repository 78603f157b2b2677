------------------------- MODULE StatelessPortProofs -------------------------
(* Proofs about StatelessPort for every set of cores, every set of streams, *)
(* every ring size and every value of the bounds: types, the order of       *)
(* reports, the count of the event, what holds unless the handler was       *)
(* overtaken, the table, the cause of an end, and pause and resume.         *)
EXTENDS StatelessPort, FiniteSetTheorems, TLAPS

Msg == StartMsg \cup CtlMsg

-----------------------------------------------------------------------------
(* The inductive invariants.                                               *)

\* The RPC thread arms the event, or has armed it and not yet sent the start.
Arming == {"reset", "signal", "count", "store"}
Armed  == Arming \cup {"start_tx"}

\* An event waited for is that of the last run, and there is a last run
\* whenever the handler or the arming of the event is in progress.
EventKnown ==
  /\ event_id # EVENT_ID_INVALID => event_id = counter
  /\ master # "idle" => counter # EVENT_ID_INVALID
  /\ master = "mark" => sender \in Cores
  /\ rpc \in Armed => counter # EVENT_ID_INVALID

\* A core that transmits has the event id of its run.
BusyHasRun == \A c \in Cores : dpState[c] # "IDLE" => dpEvent[c] # EVENT_ID_INVALID

TypeInv == TypeOK /\ EventKnown /\ BusyHasRun

\* The last run whose start was sent.
Sent == IF rpc \in Armed THEN counter - 1 ELSE counter

\* The starts waiting in ring q are of runs after e, the last one the core
\* began, and up to n, in the order of their ids.
StartsInOrder(q, e, n) ==
  /\ e <= n
  /\ \A i \in DOMAIN q : q[i].type = "start" => e < q[i].id /\ q[i].id <= n
  /\ \A i, j \in DOMAIN q :
       i < j /\ q[i].type = "start" /\ q[j].type = "start" => q[i].id < q[j].id

RunsInOrder == \A c \in Cores : StartsInOrder(toDp[c], dpEvent[c], Sent)

OrderInv == TypeInv /\ RunsInOrder /\ EndReportedOnce

\* Every start in ring q meets an idle core.
StartsMeetIdle(q, st) ==
  \A n \in DOMAIN q : q[n].type = "start" => QuietBefore(q, st, n)

NoStart(q) == \A i \in DOMAIN q : q[i].type # "start"

\* The core has ended the last run and nothing new is on its way.
Done(c) == dpState[c] = "IDLE" /\ dpEvent[c] = counter /\ NoStart(toDp[c])

Counted == Cores \ uncounted

\* How the count is made up: while the RPC thread arms the event, from the
\* signals it has cleared; from then on it follows the signals, one behind
\* while the handler is about to write it.
CountKept ==
  /\ rpc \in Armed => master = "idle"
  /\ rpc \in {"signal", "count", "store"} => \A c \in Counted : ~signal[c]
  /\ rpc = "signal" => (IF Optimized THEN held ELSE pending) = Cardinality(Counted)
  /\ rpc = "count"  => (IF Optimized THEN held ELSE pending) = Cardinality(Counted) - 1
  /\ rpc = "store"  => held = Cardinality(Counted)
  /\ rpc = "start_tx" => \A c \in Cores : ~signal[c]
  /\ counter # EVENT_ID_INVALID /\ rpc \notin Arming =>
       pending = Cardinality(Unsignalled) + (IF master \in {"read", "store"} THEN 1 ELSE 0)
  /\ master = "store" => seen = pending

CountInv == OrderInv /\ (~overtaken => CountKept)

\* What the event handler may rely on as long as it was never overtaken: the
\* event it handles stays that of the last run, and the port is in that run
\* until the handler itself takes it out.
HandlerKnows ==
  /\ master \in {"mark", "read", "store", "test", "occured"} => event_id # EVENT_ID_INVALID
  /\ master = "mark" => Done(sender)
  /\ master = "occured" => \A c \in Cores : signal[c]
  /\ event_id # EVENT_ID_INVALID /\ rpc \notin Arming =>
       \A c \in Cores : signal[c] => Done(c)
  /\ event_id # EVENT_ID_INVALID /\ rpc \notin Armed /\ master # "clear" =>
       port_state \in {"TX", "PAUSE"}
  /\ rpc \in {"add", "remove", "remove_all", "start"} \cup Armed =>
       port_state \in {"IDLE", "STREAMS"}

CoresQuiet == port_state \in {"IDLE", "STREAMS"} => \A c \in Cores : Quiet(c)

QuietInv ==
  /\ CountInv
  /\ ~dropped /\ ~overtaken =>
       /\ \A c \in Cores : StartsMeetIdle(toDp[c], dpState[c])
       /\ HandlerKnows
       /\ CoresQuiet
       /\ aborted # "start"

-----------------------------------------------------------------------------
(* The steps of the two threads that only move the count.                  *)

USE DEF rpcVars, armVars, masterVars

ArmStep ==
  \/ wait_for_event_reset \/ wait_for_event_signal
  \/ wait_for_event_count \/ wait_for_event_store

CountStep == handle_event_read \/ handle_event_store \/ handle_event_test

\* What arming the event leaves alone once its id is set.
LEMMA ArmStepFacts ==
  ASSUME ArmStep
  PROVE  /\ UNCHANGED <<portVars, counter, event_id, overtaken, masterVars, ringVars, dpVars, aborted>>
         /\ rpc \in Arming /\ rpc' \in Armed
  BY DEF ArmStep, wait_for_event_reset, wait_for_event_signal, wait_for_event_count,
       wait_for_event_store, Arming, Armed, eventVars

\* What the handler leaves alone while it counts down and tests.
LEMMA CountStepFacts ==
  ASSUME CountStep
  PROVE  /\ UNCHANGED <<portVars, counter, event_id, signal, overtaken, rpcVars, sender,
                        ringVars, dpVars, aborted>>
         /\ master \in {"read", "store", "test"}
         /\ master' \in {"store", "test", "occured", "idle"}
  BY DEF CountStep, handle_event_read, handle_event_store, handle_event_test, eventVars

-----------------------------------------------------------------------------
(* Queues and counting.                                                    *)

\* Taking the first message off a ring.
LEMMA DequeueFacts ==
  ASSUME NEW S, NEW q \in Seq(S), q # <<>>
  PROVE  /\ Len(q) \in Nat /\ Len(q) >= 1 /\ Len(Tail(q)) = Len(q) - 1
         /\ Tail(q) \in Seq(S)
         /\ Head(q) = q[1] /\ Head(q) \in S
         /\ DOMAIN q = 1..Len(q) /\ DOMAIN Tail(q) = 1..(Len(q) - 1)
         /\ \A i \in DOMAIN Tail(q) : Tail(q)[i] = q[i + 1]
  OBVIOUS

\* Adding a message to a ring that has room; a full ring stays as it is.
LEMMA EnqueueFacts ==
  ASSUME NEW S, NEW q \in Seq(S), NEW m \in S
  PROVE  /\ Enqueue(q, m) \in Seq(S)
         /\ IsFull(q) => Enqueue(q, m) = q
         /\ ~IsFull(q) =>
              /\ Len(q) \in Nat /\ DOMAIN q = 1..Len(q)
              /\ DOMAIN Enqueue(q, m) = 1..(Len(q) + 1)
              /\ \A i \in DOMAIN q : Enqueue(q, m)[i] = q[i]
              /\ Enqueue(q, m)[Len(q) + 1] = m
  BY DEF Enqueue, IsFull

\* Everything in the set of cores can be counted.
LEMMA CountFacts ==
  ASSUME NEW T, T \subseteq Cores
  PROVE  /\ IsFiniteSet(T) /\ Cardinality(T) \in 0..Cardinality(Cores)
         /\ Cardinality(T) = 0 <=> T = {}
         /\ \A c \in T : Cardinality(T \ {c}) = Cardinality(T) - 1
  <1>1. IsFiniteSet(Cores)  BY CoresAssumption
  <1>2. IsFiniteSet(T) /\ Cardinality(T) <= Cardinality(Cores)
    BY <1>1, FS_Subset
  <1>3. Cardinality(T) \in Nat /\ Cardinality(Cores) \in Nat
    BY <1>1, <1>2, FS_CardinalityType
  <1>4. Cardinality(T) = 0 <=> T = {}  BY <1>2, FS_EmptySet
  <1>5. \A c \in T : Cardinality(T \ {c}) = Cardinality(T) - 1
    BY <1>2, FS_RemoveElement
  <1> QED  BY <1>2, <1>3, <1>4, <1>5

-----------------------------------------------------------------------------
(* Type correctness.                                                       *)

\* A message to all cores is put into every ring that is not full.
LEMMA SendTyped ==
  ASSUME TypeOK, NEW m \in Msg, send_message_to_all_dp(m)
  PROVE  /\ toDp' \in [Cores -> Seq(Msg)]
         /\ toCp' = toCp /\ dropped' \in BOOLEAN
         /\ dropped => dropped'
         /\ \A c \in Cores : toDp'[c] = Enqueue(toDp[c], m)
         /\ ~dropped' => \A c \in Cores : ~IsFull(toDp[c])
  <1>1. \A c \in Cores : toDp[c] \in Seq(Msg)  BY DEF TypeOK, Msg
  <1>2. \A c \in Cores : Enqueue(toDp[c], m) \in Seq(Msg)  BY <1>1, EnqueueFacts
  <1> QED  BY <1>2 DEF send_message_to_all_dp, TypeOK

\* A core takes the first message of its ring.
LEMMA DequeueTyped ==
  ASSUME TypeOK, NEW c \in Cores, NEW type, Dequeue(c, type)
  PROVE  /\ toDp' \in [Cores -> Seq(Msg)]
         /\ toDp[c] \in Seq(Msg) /\ toDp[c] # <<>>
         /\ toDp'[c] = Tail(toDp[c])
         /\ Head(toDp[c]) \in Msg /\ Head(toDp[c]).type = type
         /\ \A d \in Cores : d # c => toDp'[d] = toDp[d]
  <1>1. toDp \in [Cores -> Seq(Msg)]  BY DEF TypeOK, Msg
  <1>2. Tail(toDp[c]) \in Seq(Msg) /\ Head(toDp[c]) \in Msg
    BY <1>1, DequeueFacts DEF Dequeue
  <1> QED  BY <1>1, <1>2 DEF Dequeue

\* What dp_stop_traffic does to the core it is called for, and to the others.
StopResult(c) ==
  /\ toCp' \in [Cores -> Seq(Nat)]
  /\ dropped' \in BOOLEAN
  /\ dropped => dropped'
  /\ dpState' \in [Cores -> {"IDLE", "TRANSMITTING", "PAUSE"}]
  /\ \A d \in Cores : d # c => dpState'[d] = dpState[d] /\ toCp'[d] = toCp[d]
  /\ \/ dpState'[c] = dpState[c] /\ toCp'[c] = toCp[c]
     \/ /\ dpState[c] # "IDLE" /\ dpState'[c] = "IDLE"
        /\ toCp'[c] = Enqueue(toCp[c], dpEvent[c])

\* What the end of a run does to a core.
LEMMA StopTyped ==
  ASSUME TypeOK, BusyHasRun, NEW c \in Cores, NEW b, NEW id, dp_stop_traffic(c, b, id)
  PROVE  StopResult(c)
  <1> USE DEF StopResult
  <1>1. toCp \in [Cores -> Seq(Nat)] /\ dropped \in BOOLEAN
        /\ dpState \in [Cores -> {"IDLE", "TRANSMITTING", "PAUSE"}]  BY DEF TypeOK
  <1>2. CASE dpState[c] = "IDLE" \/ (b /\ id # dpEvent[c])
    BY <1>1, <1>2 DEF dp_stop_traffic
  <1>3. CASE ~(dpState[c] = "IDLE" \/ (b /\ id # dpEvent[c]))
    <2>1. dpEvent[c] \in Nat  BY <1>3 DEF BusyHasRun, TypeOK
    <2>2. Enqueue(toCp[c], dpEvent[c]) \in Seq(Nat)  BY <1>1, <2>1, EnqueueFacts
    <2> QED  BY <1>1, <1>3, <2>2 DEF dp_stop_traffic
  <1> QED  BY <1>2, <1>3

\* Every step keeps TypeInv.
LEMMA TypeInvNext == TypeInv /\ [Next]_vars => TypeInv'
  <1> SUFFICES ASSUME TypeInv, [Next]_vars PROVE TypeInv'
    OBVIOUS
  <1> USE DEF TypeInv, EVENT_ID_INVALID, Armed, Arming
  <1>1. ASSUME NEW cmd \in Commands, RpcVerify(cmd) PROVE TypeInv'
    BY <1>1 DEF RpcVerify, verify_state, Commands, TypeOK, EventKnown, BusyHasRun,
         portVars, eventVars, ringVars, dpVars
  <1>2. CASE start_traffic
    BY <1>2 DEF start_traffic, TypeOK, EventKnown, BusyHasRun,
         portVars, eventVars, ringVars, dpVars
  <1>3. CASE validate
    BY <1>3 DEF validate, CachedGraph, TypeOK, EventKnown, BusyHasRun,
         portVars, eventVars, ringVars, dpVars
  <1>4. CASE add_stream
    BY <1>4 DEF add_stream, TypeOK, EventKnown, BusyHasRun,
         portVars, eventVars, ringVars, dpVars
  <1>5. CASE remove_stream
    BY <1>5 DEF remove_stream, TypeOK, EventKnown, BusyHasRun,
         portVars, eventVars, ringVars, dpVars
  <1>6. CASE remove_and_delete_all_streams
    BY <1>6 DEF remove_and_delete_all_streams, TypeOK, EventKnown, BusyHasRun, portVars, eventVars, ringVars, dpVars
  <1>7. CASE wait_for_event
    BY <1>7 DEF wait_for_event, TypeOK, EventKnown, BusyHasRun, portVars, eventVars,
         ringVars, dpVars
  <1>7a. CASE ArmStep
    <2>1. /\ UNCHANGED <<portVars, counter, event_id, overtaken, masterVars, ringVars, dpVars,
                         aborted>>
          /\ rpc \in Arming /\ rpc' \in Armed
      BY <1>7a, ArmStepFacts
    <2>2. /\ signal' \in [Cores -> BOOLEAN] /\ uncounted' \subseteq Cores
          /\ pending' \in Int /\ held' \in Int
      <3>0. /\ signal \in [Cores -> BOOLEAN] /\ uncounted \subseteq Cores
            /\ pending \in Int /\ held \in Int
        BY DEF TypeOK
      <3>1. CASE wait_for_event_reset  BY <3>0, <3>1 DEF wait_for_event_reset
      <3>2. CASE wait_for_event_signal
        <4>1. PICK c \in uncounted : /\ signal' = [signal EXCEPT ![c] = FALSE]
                                     /\ uncounted' = uncounted \ {c}
          BY <3>2 DEF wait_for_event_signal
        <4> QED  BY <3>0, <3>2, <4>1 DEF wait_for_event_signal
      <3>3. CASE wait_for_event_count  BY <3>0, <3>3 DEF wait_for_event_count, eventVars
      <3>4. CASE wait_for_event_store  BY <3>0, <3>4 DEF wait_for_event_store
      <3> QED  BY <1>7a, <3>1, <3>2, <3>3, <3>4 DEF ArmStep
    <2>3. TypeOK'  BY <2>1, <2>2 DEF TypeOK, portVars, ringVars, dpVars
    <2> QED  BY <2>1, <2>3 DEF EventKnown, BusyHasRun, dpVars
  <1>8. CASE start_traffic_send
    <2>1. PICK dur \in BOOLEAN :
            /\ last_duration' = dur
            /\ send_message_to_all_dp([type |-> "start", id |-> counter,
                                       prog |-> Program(streams), dur |-> dur])
      BY <1>8 DEF start_traffic_send
    <2>2. Program(streams) \in Progs  BY DEF Program, Progs
    <2>3. [type |-> "start", id |-> counter, prog |-> Program(streams), dur |-> dur] \in Msg
      BY <1>8, <2>2 DEF start_traffic_send, EventKnown, TypeOK, Msg, StartMsg
    <2>4. toDp' \in [Cores -> Seq(Msg)] /\ dropped' \in BOOLEAN /\ toCp' = toCp
      BY <2>1, <2>3, SendTyped
    <2>5. AllContinues(streams) \in BOOLEAN  BY DEF AllContinues
    <2> QED
      BY <1>8, <2>1, <2>2, <2>4, <2>5 DEF start_traffic_send, TypeOK, EventKnown, BusyHasRun, Msg, portVars, eventVars, ringVars, dpVars
  <1>9. ASSUME NEW type \in {"stop", "pause", "resume", "update"},
               send_message_to_all_dp([type |-> type])
        PROVE  toDp' \in [Cores -> Seq(Msg)] /\ dropped' \in BOOLEAN /\ toCp' = toCp
    <2>1. [type |-> type] \in Msg  BY DEF Msg, CtlMsg
    <2> QED  BY <1>9, <2>1, SendTyped
  <1>10. CASE stop_traffic
    BY <1>9, <1>10 DEF stop_traffic, TypeOK, EventKnown, BusyHasRun,
         Msg, portVars, eventVars, ringVars, dpVars
  <1>11. CASE pause_traffic
    BY <1>9, <1>11 DEF pause_traffic, TypeOK, EventKnown, BusyHasRun,
         Msg, portVars, eventVars, ringVars, dpVars
  <1>12. CASE resume_traffic
    BY <1>9, <1>12 DEF resume_traffic, TypeOK, EventKnown, BusyHasRun,
         Msg, portVars, eventVars, ringVars, dpVars
  <1>13. CASE update_traffic
    BY <1>9, <1>13 DEF update_traffic, CachedGraph, TypeOK, EventKnown, BusyHasRun, Msg, portVars, eventVars, ringVars, dpVars
  <1>13a. CASE update_traffic_refuse
    BY <1>13a DEF update_traffic_refuse, CachedGraph, TypeOK, EventKnown, BusyHasRun,
         portVars, eventVars, ringVars, dpVars
  <1>14. ASSUME NEW c \in Cores, handle_event(c) PROVE TypeInv'
    <2>1. toCp' \in [Cores -> Seq(Nat)]  BY <1>14, DequeueFacts DEF handle_event, TypeOK
    <2>2. /\ master' \in {"mark", master} /\ sender' \in {c, sender}
          /\ master' = "mark" => sender' = c /\ event_id # -1
          /\ UNCHANGED <<portVars, eventVars, rpcVars, seen, toDp, dropped, dpVars, aborted>>
      BY <1>14 DEF handle_event, EventMatches
    <2>3. TypeOK'  BY <2>1, <2>2 DEF TypeOK, portVars, eventVars, dpVars
    <2>4. EventKnown'  BY <2>2 DEF EventKnown, eventVars, TypeOK
    <2>5. BusyHasRun'  BY <2>2 DEF BusyHasRun, dpVars
    <2> QED  BY <2>3, <2>4, <2>5
  <1>15. CASE handle_event_mark
    <2>1. signal' \in [Cores -> BOOLEAN]
      <3>1. CASE signal[sender]
        BY <1>15, <3>1 DEF handle_event_mark, TypeOK
      <3>2. CASE ~signal[sender]
        BY <1>15, <3>2 DEF handle_event_mark, TypeOK
      <3> QED  BY <3>1, <3>2
    <2>2. /\ UNCHANGED <<portVars, counter, event_id, pending, overtaken, rpcVars, seen,
                         ringVars, dpVars, aborted>>
          /\ master = "mark" /\ master' \in {"test", "read"} /\ sender' = NoCore
      BY <1>15 DEF handle_event_mark
    <2>3. TypeOK'  BY <2>1, <2>2 DEF TypeOK, portVars, ringVars, dpVars
    <2>4. EventKnown'  BY <2>2 DEF EventKnown
    <2>5. BusyHasRun'  BY <2>2 DEF BusyHasRun, dpVars
    <2> QED  BY <2>3, <2>4, <2>5
  <1>15a. CASE CountStep
    <2>1. /\ UNCHANGED <<portVars, counter, event_id, signal, overtaken, rpcVars, sender,
                         ringVars, dpVars, aborted>>
          /\ master \in {"read", "store", "test"}
          /\ master' \in {"store", "test", "occured", "idle"}
      BY <1>15a, CountStepFacts
    <2>2. pending' \in Int /\ seen' \in Int
      BY <1>15a DEF CountStep, handle_event_read, handle_event_store, handle_event_test,
           TypeOK, eventVars
    <2>3. TypeOK'  BY <2>1, <2>2 DEF TypeOK, portVars, ringVars, dpVars
    <2> QED  BY <2>1, <2>3 DEF EventKnown, BusyHasRun, dpVars
  <1>16. CASE on_dp_event_occured
    BY <1>16 DEF on_dp_event_occured, TypeOK, EventKnown, BusyHasRun,
         portVars, eventVars, ringVars, dpVars
  <1>17. CASE handle_event_clear
    BY <1>17 DEF handle_event_clear, TypeOK, EventKnown, BusyHasRun,
         portVars, eventVars, ringVars, dpVars
  <1>18. ASSUME NEW c \in Cores, dp_start_traffic(c) PROVE TypeInv'
    <2>1. Dequeue(c, "start")  BY <1>18 DEF dp_start_traffic
    <2>a. /\ toDp' \in [Cores -> Seq(Msg)]
          /\ Head(toDp[c]) \in Msg /\ Head(toDp[c]).type = "start"
      BY <2>1, DequeueTyped
    <2>2. toDp' \in [Cores -> Seq(Msg)] /\ Head(toDp[c]) \in StartMsg
      BY <2>a DEF Msg, CtlMsg
    <2>3. dpEvent' = [dpEvent EXCEPT ![c] = Head(toDp[c]).id]
          /\ dpProg' = [dpProg EXCEPT ![c] = Head(toDp[c]).prog]
          /\ dpDur' = [dpDur EXCEPT ![c] = Head(toDp[c]).dur]
      BY <1>18 DEF dp_start_traffic
    <2>4. Head(toDp[c]).id \in Nat /\ Head(toDp[c]).prog \in Progs
          /\ Head(toDp[c]).dur \in BOOLEAN
      BY <2>2 DEF StartMsg
    <2>5. dpEvent' \in [Cores -> Nat \cup {-1}] /\ dpProg' \in [Cores -> Progs]
          /\ dpDur' \in [Cores -> BOOLEAN]
      BY <2>3, <2>4 DEF TypeOK
    <2>6. queued' \in [Cores -> BOOLEAN]
      BY <1>18 DEF dp_start_traffic, TypeOK
    <2>7. timers' \in [Cores -> SUBSET Nat]
      BY <1>18, <2>4 DEF dp_start_traffic, TypeOK
    <2>b. /\ UNCHANGED <<portVars, eventVars, rpcVars, masterVars, toCp, dropped, aborted>>
          /\ dpState' = [dpState EXCEPT ![c] = "TRANSMITTING"]
          /\ coreState' = [coreState EXCEPT ![c] = "TRANSMITTING"]
      BY <1>18 DEF dp_start_traffic
    <2>8. TypeOK'
      BY <2>2, <2>5, <2>6, <2>7, <2>b DEF TypeOK, Msg, portVars, eventVars
    <2>9. BusyHasRun'
      BY <1>18, <2>3, <2>4 DEF dp_start_traffic, BusyHasRun, TypeOK
    <2> QED
      BY <1>18, <2>8, <2>9 DEF dp_start_traffic, EventKnown, eventVars
  <1>19. ASSUME NEW c \in Cores, DpStop(c) PROVE TypeInv'
    <2>1. Dequeue(c, "stop") /\ dp_stop_traffic(c, FALSE, 0)  BY <1>19 DEF DpStop
    <2>2. toDp' \in [Cores -> Seq(Msg)]  BY <2>1, DequeueTyped
    <2>3. StopResult(c)  BY <2>1, StopTyped
    <2>4. UNCHANGED <<portVars, eventVars, rpcVars, masterVars, dpEvent, dpProg, dpDur,
                      timers, queued, coreState, aborted>>
      BY <1>19 DEF DpStop
    <2>5. TypeOK'  BY <2>2, <2>3, <2>4 DEF StopResult, TypeOK, Msg, portVars, eventVars
    <2>6. EventKnown'  BY <2>4 DEF EventKnown, eventVars
    <2>7. BusyHasRun'  BY <2>3, <2>4 DEF StopResult, BusyHasRun
    <2> QED  BY <2>5, <2>6, <2>7
  <1>20. ASSUME NEW c \in Cores, DpTimer(c) PROVE TypeInv'
    <2>1. PICK id \in timers[c] : /\ timers' = [timers EXCEPT ![c] = @ \ {id}]
                                  /\ dp_stop_traffic(c, TRUE, id)
      BY <1>20 DEF DpTimer
    <2>2. StopResult(c)  BY <2>1, StopTyped
    <2>3. timers' \in [Cores -> SUBSET Nat]  BY <2>1 DEF TypeOK
    <2>4. UNCHANGED <<portVars, eventVars, rpcVars, masterVars, toDp, dpEvent, dpProg,
                      dpDur, queued, coreState, aborted>>
      BY <1>20 DEF DpTimer
    <2>5. TypeOK'  BY <2>2, <2>3, <2>4 DEF StopResult, TypeOK, portVars, eventVars
    <2>6. EventKnown'  BY <2>4 DEF EventKnown, eventVars
    <2>7. BusyHasRun'  BY <2>2, <2>4 DEF StopResult, BusyHasRun
    <2> QED  BY <2>5, <2>6, <2>7
  <1>21. ASSUME NEW c \in Cores, DpFinish(c) PROVE TypeInv'
    <2>1. StopResult(c)  BY <1>21, StopTyped DEF DpFinish
    <2>4. UNCHANGED <<portVars, eventVars, rpcVars, masterVars, toDp, dpEvent, dpProg,
                      dpDur, timers, queued, coreState, aborted>>
      BY <1>21 DEF DpFinish
    <2>5. TypeOK'  BY <2>1, <2>4 DEF StopResult, TypeOK, portVars, eventVars
    <2>6. EventKnown'  BY <2>4 DEF EventKnown, eventVars
    <2>7. BusyHasRun'  BY <2>1, <2>4 DEF StopResult, BusyHasRun
    <2> QED  BY <2>5, <2>6, <2>7
  <1>22. ASSUME NEW c \in Cores, dp_pause_traffic(c) PROVE TypeInv'
    BY <1>22, DequeueTyped, SMTT(60) DEF dp_pause_traffic, AssertHolds, Dequeue, TypeOK,
         EventKnown, BusyHasRun, Msg, portVars, eventVars, ringVars, dpVars
  <1>23. ASSUME NEW c \in Cores, dp_resume_traffic(c) PROVE TypeInv'
    BY <1>23, DequeueTyped DEF dp_resume_traffic, AssertHolds, Dequeue, TypeOK,
         EventKnown, BusyHasRun, Msg, portVars, eventVars, ringVars, dpVars
  <1>24. ASSUME NEW c \in Cores, dp_update_traffic(c) PROVE TypeInv'
    <2>1. toDp' \in [Cores -> Seq(Msg)]  BY <1>24, DequeueTyped DEF dp_update_traffic
    <2> QED
      BY <1>24, <2>1, SMTT(60) DEF dp_update_traffic, TypeOK, EventKnown, BusyHasRun, Msg, portVars, eventVars, ringVars, dpVars
  <1>25. ASSUME NEW c \in Cores, DpAbort(c) PROVE TypeInv'
    <2>1. Head(toDp[c]) \in Msg  BY <1>25, DequeueFacts DEF DpAbort, TypeOK, Msg
    <2>2. Head(toDp[c]).type \in {"start", "pause", "resume", "update"}
      BY <1>25, <2>1 DEF DpAbort, AssertHolds, Msg, StartMsg, CtlMsg
    <2>3. UNCHANGED <<portVars, eventVars, rpcVars, masterVars, ringVars, dpVars>>
          /\ aborted' = Head(toDp[c]).type
      BY <1>25 DEF DpAbort
    <2>4. TypeOK'  BY <2>2, <2>3 DEF TypeOK, portVars, eventVars, ringVars, dpVars
    <2> QED  BY <2>3, <2>4 DEF EventKnown, BusyHasRun, eventVars, dpVars
  <1>26. ASSUME NEW c \in Cores, DpReap(c) PROVE TypeInv'
    BY <1>26 DEF DpReap, TypeOK, EventKnown, BusyHasRun,
         portVars, eventVars, ringVars, dpVars
  <1>27. ASSUME NEW c \in Cores, DpSchedulerExit(c) PROVE TypeInv'
    BY <1>27 DEF DpSchedulerExit, TypeOK, EventKnown, BusyHasRun,
         portVars, eventVars, ringVars, dpVars
  <1>28. CASE UNCHANGED vars
    BY <1>28 DEF vars, TypeOK, EventKnown, BusyHasRun,
         portVars, eventVars, ringVars, dpVars
  <1> QED
    BY <1>7a, <1>13a, <1>15a, <1>1, <1>2, <1>3, <1>4, <1>5, <1>6, <1>7, <1>8, <1>10, <1>11, <1>12, <1>13,
       <1>14, <1>15, <1>16, <1>17, <1>18, <1>19, <1>20, <1>21, <1>22, <1>23, <1>24,
       <1>25, <1>26, <1>27, <1>28
    DEF Next, Rpc, RpcFinish, Master, MasterFinish, ArmStep, CountStep, Dp, DpHandle

\* TypeInv holds at the start.
LEMMA TypeInvInit == Init => TypeInv
  <1> SUFFICES ASSUME Init PROVE TypeInv
    OBVIOUS
  <1>1. toDp \in [Cores -> Seq(StartMsg \cup CtlMsg)] /\ toCp \in [Cores -> Seq(Nat)]
    BY DEF Init
  <1>2. pending \in Int /\ held \in Int /\ seen \in Int  BY DEF Init
  <1>3. timers \in [Cores -> SUBSET Nat]  BY DEF Init
  <1>4. streams \subseteq Streams /\ (graph = NoGraph \/ graph \subseteq Streams)
    BY DEF Init
  <1>5. TypeOK  BY <1>1, <1>2, <1>3, <1>4 DEF Init, TypeOK, Progs, EVENT_ID_INVALID
  <1> QED  BY <1>5 DEF Init, TypeInv, EventKnown, BusyHasRun, Armed, Arming,
       EVENT_ID_INVALID

\* Type correctness: no report carries the invalid id, no handler is without
\* its core, whatever the interleaving.  The count is only an integer: a start
\* that overtakes the handler can take it below zero.
THEOREM TypeCorrect == Spec => []TypeOK
  <1>1. TypeInv => TypeOK  BY DEF TypeInv
  <1> QED  BY <1>1, TypeInvInit, TypeInvNext, PTL DEF Spec

-----------------------------------------------------------------------------
(* Runs reach a core, and are reported by it, in their order.              *)

\* A core handles a message that starts nothing.
LEMMA StartsTail ==
  ASSUME NEW q \in Seq(Msg), q # <<>>, NEW e \in Int, NEW n \in Int,
         StartsInOrder(q, e, n)
  PROVE  StartsInOrder(Tail(q), e, n)
  <1>1. /\ DOMAIN q = 1..Len(q) /\ DOMAIN Tail(q) = 1..(Len(q) - 1) /\ Len(q) \in Nat
        /\ \A i \in DOMAIN Tail(q) : Tail(q)[i] = q[i + 1]
    BY DequeueFacts
  <1> QED  BY <1>1 DEF StartsInOrder

\* A core begins the run of the first message.
LEMMA StartsBegin ==
  ASSUME NEW q \in Seq(Msg), q # <<>>, NEW e \in Int, NEW n \in Int,
         StartsInOrder(q, e, n), Head(q).type = "start", Head(q).id \in Int
  PROVE  StartsInOrder(Tail(q), Head(q).id, n) /\ e < Head(q).id
  <1>1. /\ DOMAIN q = 1..Len(q) /\ DOMAIN Tail(q) = 1..(Len(q) - 1) /\ Len(q) \in Nat
        /\ Len(q) >= 1 /\ Head(q) = q[1]
        /\ \A i \in DOMAIN Tail(q) : Tail(q)[i] = q[i + 1]
    BY DequeueFacts
  <1>2. 1 \in DOMAIN q /\ \A i \in DOMAIN Tail(q) : i + 1 \in DOMAIN q /\ 1 < i + 1
    BY <1>1
  <1>3. e < Head(q).id /\ Head(q).id <= n  BY <1>1, <1>2 DEF StartsInOrder
  <1>4. ASSUME NEW i \in DOMAIN Tail(q), Tail(q)[i].type = "start"
        PROVE  Head(q).id < Tail(q)[i].id /\ Tail(q)[i].id <= n
    BY <1>1, <1>2, <1>4 DEF StartsInOrder
  <1>5. ASSUME NEW i \in DOMAIN Tail(q), NEW j \in DOMAIN Tail(q), i < j,
               Tail(q)[i].type = "start", Tail(q)[j].type = "start"
        PROVE  Tail(q)[i].id < Tail(q)[j].id
    <2>1. i + 1 < j + 1  BY <1>1, <1>5
    <2> QED  BY <1>1, <1>2, <1>5, <2>1 DEF StartsInOrder
  <1> QED  BY <1>3, <1>4, <1>5 DEF StartsInOrder

\* The control plane sends a message that starts nothing.
LEMMA StartsControl ==
  ASSUME NEW q \in Seq(Msg), NEW e \in Int, NEW n \in Int, NEW m \in CtlMsg,
         StartsInOrder(q, e, n)
  PROVE  StartsInOrder(Enqueue(q, m), e, n)
  <1>1. m \in Msg /\ m.type # "start"  BY DEF Msg, CtlMsg
  <1>2. CASE IsFull(q)  BY <1>1, <1>2, EnqueueFacts
  <1>3. CASE ~IsFull(q)
    <2> DEFINE p == Enqueue(q, m)
    <2>1. DOMAIN p = 1..(Len(q) + 1) /\ DOMAIN q = 1..Len(q) /\ Len(q) \in Nat
      BY <1>1, <1>3, EnqueueFacts
    <2>2. \A i \in DOMAIN q : p[i] = q[i]  BY <1>1, <1>3, EnqueueFacts
    <2>3. p[Len(q) + 1] = m  BY <1>1, <1>3, EnqueueFacts
    <2>4. \A i \in DOMAIN p : p[i].type = "start" => i \in DOMAIN q
      BY <1>1, <2>1, <2>3
    <2> HIDE DEF p
    <2> QED  BY <2>2, <2>4 DEF StartsInOrder, p
  <1> QED  BY <1>2, <1>3

\* The control plane sends the start of the next run.
LEMMA StartsNext ==
  ASSUME NEW q \in Seq(Msg), NEW e \in Int, NEW n \in Int, NEW m \in StartMsg,
         StartsInOrder(q, e, n), m.id = n + 1,
         \A i \in DOMAIN q : q[i].type = "start" => q[i].id \in Int
  PROVE  StartsInOrder(Enqueue(q, m), e, n + 1)
  <1>1. m \in Msg  BY DEF Msg
  <1>2. CASE IsFull(q)  BY <1>1, <1>2, EnqueueFacts DEF StartsInOrder
  <1>3. CASE ~IsFull(q)
    <2> DEFINE p == Enqueue(q, m)
    <2>1. DOMAIN p = 1..(Len(q) + 1) /\ DOMAIN q = 1..Len(q) /\ Len(q) \in Nat
      BY <1>1, <1>3, EnqueueFacts
    <2>2. \A i \in DOMAIN q : p[i] = q[i]  BY <1>1, <1>3, EnqueueFacts
    <2>3. p[Len(q) + 1] = m  BY <1>1, <1>3, EnqueueFacts
    <2>4. \A i \in DOMAIN p : i \in DOMAIN q \/ i = Len(q) + 1  BY <2>1
    <2>5. \A i \in DOMAIN p : p[i].type = "start" => e < p[i].id /\ p[i].id <= n + 1
      BY <2>2, <2>3, <2>4 DEF StartsInOrder
    <2>6. \A i, j \in DOMAIN p :
            i < j /\ p[i].type = "start" /\ p[j].type = "start" => p[i].id < p[j].id
      BY <2>1, <2>2, <2>3, <2>4 DEF StartsInOrder
    <2> QED  BY <2>5, <2>6 DEF StartsInOrder
  <1> QED  BY <1>2, <1>3

\* The master takes a report.
LEMMA ReportsTail ==
  ASSUME NEW r \in Seq(Nat), r # <<>>, NEW e \in Int, NEW st, ReportsInOrder(r, e, st)
  PROVE  ReportsInOrder(Tail(r), e, st)
  <1>1. DOMAIN r = 1..Len(r) /\ DOMAIN Tail(r) = 1..(Len(r) - 1) /\ Len(r) \in Nat
    BY DequeueFacts
  <1>2. \A i \in DOMAIN Tail(r) : Tail(r)[i] = r[i + 1]  BY DequeueFacts
  <1>3. \A i \in DOMAIN Tail(r) : i \in Int /\ i + 1 \in DOMAIN r  BY <1>1
  <1>4. \A i, j \in DOMAIN Tail(r) : i < j => i + 1 < j + 1  BY <1>3
  <1> QED  BY <1>2, <1>3, <1>4 DEF ReportsInOrder

\* The core reports the run it was in.
LEMMA ReportsEnd ==
  ASSUME NEW r \in Seq(Nat), NEW e \in Nat, NEW st, ReportsInOrder(r, e, st), st # "IDLE"
  PROVE  ReportsInOrder(Enqueue(r, e), e, "IDLE")
  <1>1. CASE IsFull(r)  BY <1>1, EnqueueFacts DEF ReportsInOrder
  <1>2. CASE ~IsFull(r)
    <2> DEFINE p == Enqueue(r, e)
    <2>1. DOMAIN p = 1..(Len(r) + 1) /\ DOMAIN r = 1..Len(r) /\ Len(r) \in Nat
      BY <1>2, EnqueueFacts
    <2>2. \A i \in DOMAIN r : p[i] = r[i]  BY <1>2 DEF Enqueue
    <2>3. p[Len(r) + 1] = e  BY <1>2, EnqueueFacts
    <2> HIDE DEF p
    <2>4. \A i \in DOMAIN r : r[i] < e  BY DEF ReportsInOrder
    <2>5. \A i, j \in DOMAIN p : i < j => p[i] < p[j]
      BY <2>1, <2>2, <2>3, <2>4, SMTT(60) DEF ReportsInOrder
    <2>6. \A i \in DOMAIN p : p[i] < e \/ p[i] = e  BY <2>1, <2>2, <2>3, <2>4
    <2> QED  BY <2>5, <2>6 DEF ReportsInOrder, p
  <1> QED  BY <1>1, <1>2

\* The core begins a later run.
LEMMA ReportsBegin ==
  ASSUME NEW r \in Seq(Nat), NEW e \in Int, NEW f \in Int, e < f, NEW st, NEW su,
         ReportsInOrder(r, e, st)
  PROVE  ReportsInOrder(r, f, su)
  <1>1. \A i \in DOMAIN r : r[i] \in Int  OBVIOUS
  <1> QED  BY <1>1 DEF ReportsInOrder

\* The ids in a ring of the control plane are numbers.
LEMMA StartIdsAreNumbers ==
  ASSUME NEW q \in Seq(Msg)
  PROVE  \A i \in DOMAIN q : q[i].type = "start" => q[i].id \in Int
  <1>1. \A i \in DOMAIN q : q[i] \in Msg  OBVIOUS
  <1> QED  BY <1>1 DEF Msg, StartMsg, CtlMsg

\* What the order of the runs depends on at core d.
OrderAt(d) ==
  /\ StartsInOrder(toDp[d], dpEvent[d], Sent)
  /\ ReportsInOrder(toCp[d], dpEvent[d], dpState[d])

SameAt(d) ==
  /\ toDp'[d] = toDp[d] /\ toCp'[d] = toCp[d]
  /\ dpEvent'[d] = dpEvent[d] /\ dpState'[d] = dpState[d]

\* Every step keeps the starts of a ring in order.
LEMMA OrderInvNext == OrderInv /\ [Next]_vars => OrderInv'
  <1> SUFFICES ASSUME OrderInv, [Next]_vars PROVE OrderInv'
    OBVIOUS
  <1>a. TypeInv /\ TypeInv'  BY TypeInvNext DEF OrderInv
  <1>b. \A c \in Cores : OrderAt(c)  BY DEF OrderInv, RunsInOrder, EndReportedOnce, OrderAt
  <1>t. /\ toDp \in [Cores -> Seq(Msg)] /\ toCp \in [Cores -> Seq(Nat)]
        /\ \A c \in Cores : dpEvent[c] \in Int
        /\ Sent \in Int /\ Sent' \in Int /\ counter \in Int
    BY <1>a DEF TypeInv, TypeOK, Msg, Sent, EVENT_ID_INVALID
  <1>s. SUFFICES \A c \in Cores : OrderAt(c)'
    BY <1>a, <1>s DEF OrderInv, RunsInOrder, EndReportedOnce, OrderAt
  <1>f. ASSUME Sent' = Sent, NEW d \in Cores, SameAt(d) PROVE OrderAt(d)'
    BY <1>f, <1>b DEF SameAt, OrderAt
  <1>1. ASSUME NEW cmd \in Commands, RpcVerify(cmd) PROVE \A c \in Cores : OrderAt(c)'
    BY <1>1, <1>f DEF RpcVerify, verify_state, Commands, Sent, Armed, Arming, SameAt, eventVars, ringVars, dpVars
  <1>2. CASE start_traffic
    BY <1>2, <1>f DEF start_traffic, verify_state, Sent, Armed, Arming, SameAt, eventVars, ringVars, dpVars
  <1>3. CASE validate
    BY <1>3, <1>f DEF validate, Sent, Armed, Arming, SameAt, eventVars, ringVars, dpVars
  <1>4. CASE add_stream
    BY <1>4, <1>f DEF add_stream, Sent, Armed, Arming, SameAt, eventVars, ringVars, dpVars
  <1>5. CASE remove_stream
    BY <1>5, <1>f DEF remove_stream, Sent, Armed, Arming, SameAt, eventVars, ringVars, dpVars
  <1>6. CASE remove_and_delete_all_streams
    BY <1>6, <1>f DEF remove_and_delete_all_streams, Sent, Armed, Arming, SameAt, eventVars, ringVars, dpVars
  <1>7. CASE wait_for_event
    <2>1. Sent' = Sent  BY <1>7, <1>t DEF wait_for_event, Sent, Armed, Arming
    <2> QED  BY <1>7, <1>f, <2>1 DEF wait_for_event, SameAt, ringVars, dpVars
  <1>7a. CASE ArmStep
    <2>1. Sent' = Sent  BY <1>7a, ArmStepFacts DEF Sent, Armed, Arming
    <2> QED  BY <1>7a, <1>f, <2>1, ArmStepFacts DEF SameAt, ringVars, dpVars
  <1>8. CASE start_traffic_send
    <2>1. PICK dur \in BOOLEAN :
            send_message_to_all_dp([type |-> "start", id |-> counter,
                                    prog |-> Program(streams), dur |-> dur])
      BY <1>8 DEF start_traffic_send
    <2> DEFINE m == [type |-> "start", id |-> counter,
                     prog |-> Program(streams), dur |-> dur]
    <2>2. Program(streams) \in Progs  BY DEF Program, Progs
    <2>3. counter \in Nat
      BY <1>8, <1>a DEF start_traffic_send, TypeInv, TypeOK, EventKnown, Armed,
           EVENT_ID_INVALID
    <2>4. m \in StartMsg /\ m.id = counter  BY <2>2, <2>3 DEF StartMsg
    <2>5. Sent = counter - 1 /\ Sent' = counter
      BY <1>8 DEF start_traffic_send, Sent, Armed, Arming, eventVars
    <2> HIDE DEF m
    <2>6. toCp' = toCp /\ \A c \in Cores : toDp'[c] = Enqueue(toDp[c], m)
      BY <1>a, <2>1, <2>4, SendTyped DEF TypeInv, Msg, m
    <2>7. ASSUME NEW c \in Cores PROVE StartsInOrder(Enqueue(toDp[c], m), dpEvent[c], Sent + 1)
      <3>1. toDp[c] \in Seq(Msg) /\ dpEvent[c] \in Int /\ m.id = Sent + 1
        BY <1>t, <2>3, <2>4, <2>5
      <3> QED  BY <1>b, <1>t, <2>4, <3>1, StartIdsAreNumbers, StartsNext DEF OrderAt
    <2>8. Sent' = Sent + 1  BY <2>3, <2>5
    <2> QED  BY <1>8, <1>b, <2>6, <2>7, <2>8 DEF start_traffic_send, OrderAt, dpVars
  <1>9. ASSUME NEW type \in {"stop", "pause", "resume", "update"},
               send_message_to_all_dp([type |-> type]), UNCHANGED <<dpEvent, dpState>>,
               Sent' = Sent
        PROVE  \A c \in Cores : OrderAt(c)'
    <2>1. [type |-> type] \in CtlMsg  BY DEF CtlMsg
    <2>2. toCp' = toCp /\ \A c \in Cores : toDp'[c] = Enqueue(toDp[c], [type |-> type])
      BY <1>a, <1>9, <2>1, SendTyped DEF TypeInv, Msg
    <2>3. \A c \in Cores : StartsInOrder(Enqueue(toDp[c], [type |-> type]), dpEvent[c], Sent)
      BY <1>b, <1>t, <2>1, StartsControl DEF OrderAt
    <2> QED  BY <1>9, <1>b, <2>2, <2>3 DEF OrderAt
  <1>10. CASE stop_traffic
    BY <1>9, <1>10 DEF stop_traffic, Sent, Armed, Arming, dpVars
  <1>11. CASE pause_traffic
    BY <1>9, <1>11 DEF pause_traffic, Sent, Armed, Arming, eventVars, dpVars
  <1>12. CASE resume_traffic
    BY <1>9, <1>12 DEF resume_traffic, Sent, Armed, Arming, eventVars, dpVars
  <1>13. CASE update_traffic
    BY <1>9, <1>13 DEF update_traffic, Sent, Armed, Arming, eventVars, dpVars
  <1>13a. CASE update_traffic_refuse
    BY <1>13a, <1>f DEF update_traffic_refuse, Sent, Armed, Arming, SameAt, eventVars, ringVars, dpVars
  <1>14. ASSUME NEW c \in Cores, handle_event(c) PROVE \A d \in Cores : OrderAt(d)'
    <2>1. ReportsInOrder(Tail(toCp[c]), dpEvent[c], dpState[c])
      BY <1>14, <1>b, <1>t, ReportsTail DEF handle_event, OrderAt
    <2> QED
      BY <1>14, <1>b, <1>t, <2>1 DEF handle_event, OrderAt, Sent, eventVars, dpVars
  <1>15. CASE handle_event_mark
    BY <1>15, <1>f DEF handle_event_mark, Sent, SameAt, ringVars, dpVars
  <1>15a. CASE CountStep
    BY <1>15a, <1>f, CountStepFacts DEF Sent, SameAt, ringVars, dpVars
  <1>16. CASE on_dp_event_occured
    BY <1>16, <1>f DEF on_dp_event_occured, Sent, SameAt, eventVars, ringVars, dpVars
  <1>17. CASE handle_event_clear
    BY <1>17, <1>f DEF handle_event_clear, Sent, SameAt, ringVars, dpVars
  <1>18. ASSUME NEW c \in Cores, dp_start_traffic(c) PROVE \A d \in Cores : OrderAt(d)'
    <2>1. Dequeue(c, "start")  BY <1>18 DEF dp_start_traffic
    <2>2. /\ toDp'[c] = Tail(toDp[c]) /\ toDp[c] \in Seq(Msg) /\ toDp[c] # <<>>
          /\ Head(toDp[c]) \in StartMsg /\ Head(toDp[c]).type = "start"
          /\ \A d \in Cores : d # c => toDp'[d] = toDp[d]
      BY <1>a, <2>1, DequeueTyped DEF TypeInv, Msg, CtlMsg
    <2>3. dpEvent' = [dpEvent EXCEPT ![c] = Head(toDp[c]).id] /\ Sent' = Sent
      BY <1>18 DEF dp_start_traffic, Sent, eventVars
    <2>4. dpState' = [dpState EXCEPT ![c] = "TRANSMITTING"] /\ toCp' = toCp
      BY <1>18 DEF dp_start_traffic
    <2>5. Head(toDp[c]).id \in Int  BY <2>2 DEF StartMsg
    <2>6. StartsInOrder(Tail(toDp[c]), Head(toDp[c]).id, Sent) /\ dpEvent[c] < Head(toDp[c]).id
      BY <1>b, <1>t, <2>2, <2>5, StartsBegin DEF OrderAt
    <2>7. ReportsInOrder(toCp[c], Head(toDp[c]).id, "TRANSMITTING")
      BY <1>b, <1>t, <2>5, <2>6, ReportsBegin DEF OrderAt
    <2>8. dpEvent'[c] = Head(toDp[c]).id /\ dpState'[c] = "TRANSMITTING"
      BY <1>a, <2>3, <2>4 DEF TypeInv, TypeOK
    <2>9. OrderAt(c)'  BY <2>2, <2>3, <2>4, <2>6, <2>7, <2>8 DEF OrderAt
    <2>10. ASSUME NEW d \in Cores, d # c PROVE SameAt(d)
      BY <1>a, <2>2, <2>3, <2>4, <2>10 DEF SameAt, TypeInv, TypeOK
    <2> QED  BY <1>f, <2>3, <2>9, <2>10
  <1>19. ASSUME NEW c \in Cores, StopResult(c), Sent' = Sent, dpEvent' = dpEvent,
                toDp' = toDp \/ Dequeue(c, "stop")
         PROVE  \A d \in Cores : OrderAt(d)'
    <2>1. ReportsInOrder(toCp'[c], dpEvent[c], dpState'[c])
      <3>1. CASE dpState'[c] = dpState[c] /\ toCp'[c] = toCp[c]  BY <1>b, <3>1 DEF OrderAt
      <3>2. CASE /\ dpState[c] # "IDLE" /\ dpState'[c] = "IDLE"
                 /\ toCp'[c] = Enqueue(toCp[c], dpEvent[c])
        <4>1. dpEvent[c] \in Nat  BY <1>a, <3>2 DEF TypeInv, TypeOK, BusyHasRun
        <4>2. toCp[c] \in Seq(Nat)  BY <1>t
        <4> QED  BY <1>b, <3>2, <4>1, <4>2, ReportsEnd DEF OrderAt
      <3> QED  BY <1>19, <3>1, <3>2 DEF StopResult
    <2>2. StartsInOrder(toDp'[c], dpEvent[c], Sent) /\ \A d \in Cores : d # c => toDp'[d] = toDp[d]
      <3>1. CASE toDp' = toDp  BY <1>b, <3>1 DEF OrderAt
      <3>2. CASE Dequeue(c, "stop")
        <4>1. /\ toDp'[c] = Tail(toDp[c]) /\ toDp[c] \in Seq(Msg) /\ toDp[c] # <<>>
              /\ \A d \in Cores : d # c => toDp'[d] = toDp[d]
          BY <1>a, <3>2, DequeueTyped DEF TypeInv
        <4> QED  BY <1>b, <1>t, <4>1, StartsTail DEF OrderAt
      <3> QED  BY <1>19, <3>1, <3>2
    <2>3. OrderAt(c)'  BY <1>19, <2>1, <2>2 DEF OrderAt
    <2>4. ASSUME NEW d \in Cores, d # c PROVE SameAt(d)
      BY <1>19, <2>2, <2>4 DEF SameAt, StopResult
    <2> QED  BY <1>19, <1>f, <2>3, <2>4
  <1>20. ASSUME NEW c \in Cores, DpStop(c) PROVE \A d \in Cores : OrderAt(d)'
    <2>1. StopResult(c)  BY <1>20, <1>a, StopTyped DEF DpStop, TypeInv
    <2> QED  BY <1>20, <1>19, <2>1 DEF DpStop, Sent, eventVars
  <1>21. ASSUME NEW c \in Cores, DpTimer(c) PROVE \A d \in Cores : OrderAt(d)'
    <2>1. StopResult(c)  BY <1>21, <1>a, StopTyped DEF DpTimer, TypeInv
    <2> QED  BY <1>21, <1>19, <2>1 DEF DpTimer, Sent, eventVars
  <1>22. ASSUME NEW c \in Cores, DpFinish(c) PROVE \A d \in Cores : OrderAt(d)'
    <2>1. StopResult(c)  BY <1>22, <1>a, StopTyped DEF DpFinish, TypeInv
    <2> QED  BY <1>22, <1>19, <2>1 DEF DpFinish, Sent, eventVars
  <1>23. ASSUME NEW c \in Cores, NEW type, Dequeue(c, type), dpState[c] # "IDLE",
                dpState'[c] # "IDLE", \A d \in Cores : d # c => dpState'[d] = dpState[d],
                UNCHANGED <<toCp, dpEvent>>, Sent' = Sent
         PROVE  \A d \in Cores : OrderAt(d)'
    <2>1. /\ toDp'[c] = Tail(toDp[c]) /\ toDp[c] \in Seq(Msg) /\ toDp[c] # <<>>
          /\ \A d \in Cores : d # c => toDp'[d] = toDp[d]
      BY <1>a, <1>23, DequeueTyped DEF TypeInv
    <2>2. StartsInOrder(Tail(toDp[c]), dpEvent[c], Sent)
      BY <1>b, <1>t, <2>1, StartsTail DEF OrderAt
    <2>3. ReportsInOrder(toCp[c], dpEvent[c], dpState'[c])
      BY <1>23, <1>b DEF OrderAt, ReportsInOrder
    <2>4. OrderAt(c)'  BY <1>23, <2>1, <2>2, <2>3 DEF OrderAt
    <2>5. ASSUME NEW d \in Cores, d # c PROVE SameAt(d)
      BY <1>23, <2>1, <2>5 DEF SameAt
    <2> QED  BY <1>23, <1>f, <2>4, <2>5
  <1>24. ASSUME NEW c \in Cores, dp_pause_traffic(c) PROVE \A d \in Cores : OrderAt(d)'
    BY <1>23, <1>24, <1>a DEF dp_pause_traffic, Dequeue, AssertHolds, TypeInv, TypeOK,
         Sent, eventVars
  <1>25. ASSUME NEW c \in Cores, dp_resume_traffic(c) PROVE \A d \in Cores : OrderAt(d)'
    BY <1>23, <1>25, <1>a DEF dp_resume_traffic, Dequeue, AssertHolds, TypeInv, TypeOK,
         Sent, eventVars
  <1>26. ASSUME NEW c \in Cores, dp_update_traffic(c) PROVE \A d \in Cores : OrderAt(d)'
    BY <1>23, <1>26, <1>a DEF dp_update_traffic, Dequeue, AssertHolds, TypeInv, TypeOK,
         Sent, eventVars, dpVars
  <1>27. ASSUME NEW c \in Cores, DpAbort(c) PROVE \A d \in Cores : OrderAt(d)'
    BY <1>27, <1>f DEF DpAbort, Sent, SameAt, eventVars, ringVars, dpVars
  <1>28. ASSUME NEW c \in Cores, DpReap(c) PROVE \A d \in Cores : OrderAt(d)'
    BY <1>28, <1>f DEF DpReap, Sent, SameAt, eventVars, ringVars
  <1>29. ASSUME NEW c \in Cores, DpSchedulerExit(c) PROVE \A d \in Cores : OrderAt(d)'
    BY <1>29, <1>f DEF DpSchedulerExit, Sent, SameAt, eventVars, ringVars
  <1>30. CASE UNCHANGED vars
    BY <1>30, <1>f DEF vars, Sent, SameAt, eventVars, ringVars, dpVars
  <1> QED
    BY <1>7a, <1>13a, <1>15a, <1>1, <1>2, <1>3, <1>4, <1>5, <1>6, <1>7, <1>8, <1>10, <1>11, <1>12, <1>13,
       <1>14, <1>15, <1>16, <1>17, <1>18, <1>20, <1>21, <1>22, <1>24, <1>25, <1>26,
       <1>27, <1>28, <1>29, <1>30
    DEF Next, Rpc, RpcFinish, Master, MasterFinish, ArmStep, CountStep, Dp, DpHandle

\* OrderInv holds at the start.
LEMMA OrderInvInit == Init => OrderInv
  <1>1. Init => TypeInv  BY TypeInvInit
  <1>2. Init => RunsInOrder /\ EndReportedOnce
    BY DEF Init, RunsInOrder, EndReportedOnce, StartsInOrder, ReportsInOrder, Sent,
         Armed, Arming, EVENT_ID_INVALID
  <1> QED  BY <1>1, <1>2 DEF OrderInv

\* OrderInv holds of every reachable state.
LEMMA OrderInvHolds == Spec => []OrderInv
  BY OrderInvInit, OrderInvNext, PTL DEF Spec

\* In the code as it is, with the master thread inside RPC commands and with
\* rings that lose messages, a core reports the end of each run at most once,
\* in the order of the runs, and only when it has stopped transmitting it.
THEOREM EndReportedOnceHolds == Spec => []EndReportedOnce
  <1>1. OrderInv => EndReportedOnce  BY DEF OrderInv
  <1> QED  BY <1>1, OrderInvHolds, PTL

-----------------------------------------------------------------------------
(* Ring q leaves the core idle: what sending and handling do to it.        *)

\* The core handles its first message and goes from state st to su.
LEMMA QuietTail ==
  ASSUME NEW q \in Seq(Msg), q # <<>>, NEW n \in Int, n > 1, NEW st, NEW su,
         QuietBefore(q, st, n),
         \/ Head(q).type = "stop" /\ su = "IDLE"
         \/ Head(q).type # "stop" /\ (st = "IDLE" => Head(q).type = "start")
  PROVE  QuietBefore(Tail(q), su, n - 1)
  <1> DEFINE p == Tail(q)
  <1>1. DOMAIN q = 1..Len(q) /\ DOMAIN p = 1..(Len(q) - 1) /\ Len(q) \in Nat
        /\ Len(q) >= 1 /\ Head(q) = q[1]
    BY DequeueFacts
  <1>2. \A i \in DOMAIN p : p[i] = q[i + 1]  BY DequeueFacts
  <1> HIDE DEF p
  <1>3. CASE st = "IDLE" /\ \A i \in DOMAIN q : i < n => q[i].type # "start"
    <2>1. Head(q).type = "stop" /\ su = "IDLE"  BY <1>1, <1>3
    <2>2. \A i \in DOMAIN p : i < n - 1 => p[i].type # "start"  BY <1>1, <1>2, <1>3
    <2> QED  BY <2>1, <2>2 DEF QuietBefore, p
  <1>4. CASE \E i \in DOMAIN q :
               /\ i < n /\ q[i].type = "stop"
               /\ \A j \in DOMAIN q : i < j /\ j < n => q[j].type # "start"
    <2>1. PICK i \in DOMAIN q :
               /\ i < n /\ q[i].type = "stop"
               /\ \A j \in DOMAIN q : i < j /\ j < n => q[j].type # "start"
      BY <1>4
    <2>2. CASE i = 1
      <3>1. su = "IDLE"  BY <1>1, <2>1, <2>2
      <3>2. \A j \in DOMAIN p : j < n - 1 => p[j].type # "start"
        BY <1>1, <1>2, <2>1, <2>2
      <3> QED  BY <3>1, <3>2 DEF QuietBefore, p
    <2>3. CASE i # 1
      <3>1. i - 1 \in DOMAIN p /\ i - 1 < n - 1 /\ p[i - 1].type = "stop"
        BY <1>1, <1>2, <2>1, <2>3
      <3>2. \A j \in DOMAIN p : i - 1 < j /\ j < n - 1 => p[j].type # "start"
        BY <1>1, <1>2, <2>1
      <3> QED  BY <3>1, <3>2 DEF QuietBefore, p
    <2> QED  BY <2>2, <2>3
  <1> QED  BY <1>3, <1>4 DEF QuietBefore

\* The same for all the starts that wait, and for the whole ring.
LEMMA HandleKeepsIdle ==
  ASSUME NEW q \in Seq(Msg), q # <<>>, NEW st, NEW su, StartsMeetIdle(q, st),
         \/ Head(q).type = "stop" /\ su = "IDLE"
         \/ Head(q).type # "stop" /\ (st = "IDLE" => Head(q).type = "start")
  PROVE  /\ StartsMeetIdle(Tail(q), su)
         /\ QuietBefore(q, st, Len(q) + 1) => QuietBefore(Tail(q), su, Len(Tail(q)) + 1)
  <1>1. DOMAIN q = 1..Len(q) /\ DOMAIN Tail(q) = 1..(Len(q) - 1) /\ Len(q) \in Nat
        /\ Len(q) >= 1 /\ Len(Tail(q)) = Len(q) - 1
    BY DequeueFacts
  <1>2. \A i \in DOMAIN Tail(q) : Tail(q)[i] = q[i + 1]  BY DequeueFacts
  <1>3. StartsMeetIdle(Tail(q), su)
    <2> SUFFICES ASSUME NEW n \in DOMAIN Tail(q), Tail(q)[n].type = "start"
                 PROVE  QuietBefore(Tail(q), su, n)
      BY DEF StartsMeetIdle
    <2>1. n + 1 \in DOMAIN q /\ q[n + 1].type = "start" /\ n + 1 \in Int /\ n + 1 > 1
          /\ (n + 1) - 1 = n
      BY <1>1, <1>2
    <2>2. QuietBefore(q, st, n + 1)  BY <2>1 DEF StartsMeetIdle
    <2>3. QuietBefore(Tail(q), su, (n + 1) - 1)  BY <2>1, <2>2, QuietTail
    <2> QED  BY <2>1, <2>3
  <1>4. ASSUME QuietBefore(q, st, Len(q) + 1)
        PROVE  QuietBefore(Tail(q), su, Len(Tail(q)) + 1)
    <2>1. Len(q) + 1 \in Int /\ Len(q) + 1 > 1 /\ (Len(q) + 1) - 1 = Len(Tail(q)) + 1
      BY <1>1
    <2>2. QuietBefore(Tail(q), su, (Len(q) + 1) - 1)  BY <1>4, <2>1, QuietTail
    <2> QED  BY <2>1, <2>2
  <1> QED  BY <1>3, <1>4

\* The core stops by itself.
LEMMA StopKeepsIdle ==
  ASSUME NEW q, NEW st, StartsMeetIdle(q, st)
  PROVE  /\ StartsMeetIdle(q, "IDLE")
         /\ QuietBefore(q, st, Len(q) + 1) => QuietBefore(q, "IDLE", Len(q) + 1)
  BY DEF StartsMeetIdle, QuietBefore

\* A message is added to a ring with room: a start only to a quiet core.
LEMMA SendKeepsIdle ==
  ASSUME NEW q \in Seq(Msg), NEW m \in Msg, NEW st, ~IsFull(q), StartsMeetIdle(q, st),
         m.type = "start" => QuietBefore(q, st, Len(q) + 1)
  PROVE  /\ StartsMeetIdle(Enqueue(q, m), st)
         /\ m.type = "stop" \/ (m.type # "start" /\ QuietBefore(q, st, Len(q) + 1)) =>
              QuietBefore(Enqueue(q, m), st, Len(Enqueue(q, m)) + 1)
  <1> DEFINE p == Enqueue(q, m)
  <1>1. DOMAIN p = 1..(Len(q) + 1) /\ DOMAIN q = 1..Len(q) /\ Len(q) \in Nat
    BY EnqueueFacts
  <1>2. \A i \in DOMAIN q : p[i] = q[i]  BY EnqueueFacts
  <1>3. p[Len(q) + 1] = m  BY EnqueueFacts
  <1>4. p \in Seq(Msg)  BY EnqueueFacts
  <1>5. Len(p) = Len(q) + 1  BY DEF Enqueue
  <1> HIDE DEF p
  <1>6. ASSUME NEW n \in 1..(Len(q) + 1), QuietBefore(q, st, n) PROVE QuietBefore(p, st, n)
    <2>1. CASE st = "IDLE" /\ \A i \in DOMAIN q : i < n => q[i].type # "start"
      BY <1>1, <1>2, <2>1 DEF QuietBefore
    <2>2. CASE \E i \in DOMAIN q :
                 /\ i < n /\ q[i].type = "stop"
                 /\ \A j \in DOMAIN q : i < j /\ j < n => q[j].type # "start"
      BY <1>1, <1>2, <2>2 DEF QuietBefore
    <2> QED  BY <1>6, <2>1, <2>2 DEF QuietBefore
  <1>7. StartsMeetIdle(p, st)
    <2> SUFFICES ASSUME NEW n \in DOMAIN p, p[n].type = "start" PROVE QuietBefore(p, st, n)
      BY DEF StartsMeetIdle
    <2>1. CASE n \in DOMAIN q
      BY <1>1, <1>2, <1>6, <2>1 DEF StartsMeetIdle
    <2>2. CASE n = Len(q) + 1
      BY <1>1, <1>3, <1>6, <2>2
    <2> QED  BY <1>1, <2>1, <2>2
  <1>8. m.type = "stop" => QuietBefore(p, st, Len(p) + 1)
    BY <1>1, <1>3, <1>5 DEF QuietBefore
  <1>9. m.type # "start" /\ QuietBefore(q, st, Len(q) + 1) => QuietBefore(p, st, Len(p) + 1)
    <2> SUFFICES ASSUME m.type # "start", QuietBefore(q, st, Len(q) + 1)
                 PROVE  QuietBefore(p, st, Len(q) + 2)
      BY <1>1, <1>5
    <2>1. \A i \in DOMAIN p : i \in DOMAIN q \/ (i = Len(q) + 1 /\ p[i].type # "start")
      BY <1>1, <1>3
    <2>2. \A i \in DOMAIN q : i \in DOMAIN p /\ i < Len(q) + 1 /\ i < Len(q) + 2
      BY <1>1
    <2> QED  BY <1>2, <2>1, <2>2 DEF QuietBefore
  <1> QED  BY <1>7, <1>8, <1>9 DEF p

\* A ring without a start has none after a read or a message that is not a start.
LEMMA NoStartKept ==
  ASSUME NEW q \in Seq(Msg), NoStart(q)
  PROVE  /\ q # <<>> => NoStart(Tail(q)) /\ Head(q).type # "start"
         /\ \A m \in CtlMsg : NoStart(Enqueue(q, m))
  <1>1. q # <<>> => NoStart(Tail(q)) /\ Head(q).type # "start"
    BY DequeueFacts DEF NoStart
  <1>2. ASSUME NEW m \in CtlMsg PROVE NoStart(Enqueue(q, m))
    <2>1. m \in Msg /\ m.type # "start"  BY DEF Msg, CtlMsg
    <2>2. CASE IsFull(q)  BY <2>2 DEF Enqueue
    <2>3. CASE ~IsFull(q)
      <3> DEFINE p == Enqueue(q, m)
      <3>1. DOMAIN p = 1..(Len(q) + 1) /\ DOMAIN q = 1..Len(q) /\ Len(q) \in Nat
        BY <2>1, <2>3, EnqueueFacts
      <3>2. \A i \in DOMAIN q : p[i] = q[i]  BY <2>1, <2>3, EnqueueFacts
      <3>3. p[Len(q) + 1] = m  BY <2>1, <2>3, EnqueueFacts
      <3> HIDE DEF p
      <3> QED  BY <2>1, <3>1, <3>2, <3>3 DEF NoStart, p
    <2> QED  BY <2>2, <2>3
  <1> QED  BY <1>1, <1>2

\* A core that has signalled the awaited run is quiet.
LEMMA DoneIsQuiet ==
  ASSUME NEW c \in Cores, Done(c) PROVE Quiet(c)
  BY DEF Done, Quiet, QuietBefore, NoStart

\* A message lost stays lost.
LEMMA DroppedForever == TypeInv /\ [Next]_vars => (dropped => dropped')
  <1> SUFFICES ASSUME TypeInv, [Next]_vars, dropped PROVE dropped'
    OBVIOUS
  <1>1. CASE RpcFinish
    BY <1>1, ArmStepFacts DEF RpcFinish, ArmStep, add_stream, remove_stream,
         remove_and_delete_all_streams, wait_for_event, start_traffic_send, stop_traffic,
         pause_traffic, resume_traffic, update_traffic, update_traffic_refuse,
         send_message_to_all_dp, ringVars
  <1>2. CASE start_traffic \/ validate \/ \E cmd \in Commands : RpcVerify(cmd)
    BY <1>2 DEF start_traffic, validate, RpcVerify, ringVars
  <1>3. CASE Master
    BY <1>3, CountStepFacts DEF Master, MasterFinish, CountStep, handle_event,
         handle_event_mark, on_dp_event_occured, handle_event_clear, ringVars
  <1>4. ASSUME NEW c \in Cores, DpHandle(c) PROVE dropped'
    BY <1>4 DEF DpHandle, dp_start_traffic, DpStop, dp_pause_traffic, dp_resume_traffic,
         dp_update_traffic, DpAbort, dp_stop_traffic, ringVars
  <1>5. ASSUME NEW c \in Cores, DpTimer(c) \/ DpFinish(c) PROVE dropped'
    BY <1>5 DEF DpTimer, DpFinish, dp_stop_traffic
  <1>6. ASSUME NEW c \in Cores, DpReap(c) \/ DpSchedulerExit(c) PROVE dropped'
    BY <1>6 DEF DpReap, DpSchedulerExit, ringVars
  <1>7. CASE UNCHANGED vars  BY <1>7 DEF vars, ringVars
  <1> QED  BY <1>1, <1>2, <1>3, <1>4, <1>5, <1>6, <1>7 DEF Next, Rpc, Dp

\* A step of a core leaves the two threads and the event alone.
LEMMA DpLeavesEvent ==
  ASSUME NEW c \in Cores, Dp(c) PROVE UNCHANGED <<eventVars, rpcVars, masterVars>>
  BY DEF Dp, DpHandle, dp_start_traffic, DpStop, dp_pause_traffic, dp_resume_traffic,
       dp_update_traffic, DpAbort, DpTimer, DpFinish, DpReap, DpSchedulerExit

\* A handler once overtaken is remembered.
LEMMA OvertakenForever == [Next]_vars => (overtaken => overtaken')
  <1> SUFFICES ASSUME [Next]_vars, overtaken PROVE overtaken'
    OBVIOUS
  <1>1. CASE RpcFinish
    BY <1>1, ArmStepFacts DEF RpcFinish, ArmStep, add_stream, remove_stream,
         remove_and_delete_all_streams, wait_for_event, start_traffic_send, stop_traffic,
         pause_traffic, resume_traffic, update_traffic, update_traffic_refuse, eventVars
  <1>2. CASE start_traffic \/ validate \/ \E cmd \in Commands : RpcVerify(cmd)
    BY <1>2 DEF start_traffic, validate, RpcVerify, eventVars
  <1>3. CASE Master
    BY <1>3, CountStepFacts DEF Master, MasterFinish, CountStep, handle_event,
         handle_event_mark, on_dp_event_occured, handle_event_clear, eventVars
  <1>4. ASSUME NEW c \in Cores, Dp(c) PROVE overtaken'
    BY <1>4, DpLeavesEvent DEF eventVars
  <1>5. CASE UNCHANGED vars  BY <1>5 DEF vars, eventVars
  <1> QED  BY <1>1, <1>2, <1>3, <1>4, <1>5 DEF Next, Rpc

\* An event that matches comes from a core that is done with the last run, and
\* never while that run is being armed.
LEMMA MatchMeansDone ==
  ASSUME OrderInv, NEW c \in Cores, toCp[c] # <<>>, EventMatches(Head(toCp[c]))
  PROVE  Done(c) /\ rpc \notin Armed
  <1>1. event_id # EVENT_ID_INVALID /\ Head(toCp[c]) = counter /\ counter \in Nat
    BY DEF EventMatches, OrderInv, TypeInv, EventKnown, TypeOK
  <1>2. StartsInOrder(toDp[c], dpEvent[c], Sent) /\ Sent <= counter /\ Sent \in Int
        /\ (rpc \in Armed => Sent < counter)
    BY <1>1 DEF OrderInv, RunsInOrder, Sent
  <1>3. dpEvent[c] \in Int /\ toCp[c] \in Seq(Nat)
    BY DEF OrderInv, TypeInv, TypeOK, EVENT_ID_INVALID
  <1>4. 1 \in DOMAIN toCp[c] /\ toCp[c][1] = counter
    BY <1>1, <1>3, DequeueFacts
  <1>5. dpEvent[c] <= Sent  BY <1>2 DEF StartsInOrder
  <1>6. counter < dpEvent[c] \/ (counter = dpEvent[c] /\ dpState[c] = "IDLE")
    BY <1>4 DEF OrderInv, EndReportedOnce, ReportsInOrder
  <1>7. dpEvent[c] = counter /\ dpState[c] = "IDLE" /\ Sent = counter /\ rpc \notin Armed
    BY <1>1, <1>2, <1>3, <1>5, <1>6
  <1>8. ASSUME NEW i \in DOMAIN toDp[c], toDp[c][i].type = "start" PROVE FALSE
    <2>1. counter < toDp[c][i].id /\ toDp[c][i].id <= counter
      BY <1>2, <1>7, <1>8 DEF StartsInOrder
    <2>2. toDp[c] \in Seq(Msg)  BY DEF OrderInv, TypeInv, TypeOK, Msg
    <2>3. toDp[c][i] \in Msg  BY <2>2
    <2>4. toDp[c][i].id \in Nat  BY <2>3, <1>8 DEF Msg, StartMsg, CtlMsg
    <2> QED  BY <1>1, <2>1, <2>4
  <1> QED  BY <1>7, <1>8 DEF Done, NoStart

-----------------------------------------------------------------------------
(* The count of the event.                                                 *)

\* Every step keeps CountInv.
LEMMA CountInvNext == CountInv /\ [Next]_vars => CountInv'
  <1> SUFFICES ASSUME CountInv, [Next]_vars, ~overtaken' PROVE CountKept'
    BY OrderInvNext DEF CountInv
  <1>k. ~overtaken /\ CountKept /\ OrderInv /\ TypeInv
    BY OvertakenForever DEF CountInv, OrderInv
  <1>t. /\ signal \in [Cores -> BOOLEAN] /\ pending \in Int /\ held \in Int /\ seen \in Int
        /\ uncounted \subseteq Cores /\ Unsignalled \subseteq Cores /\ Counted \subseteq Cores
        /\ Cardinality(Unsignalled) \in Int /\ Cardinality(Counted) \in Int
        /\ Cardinality(Cores) \in Int
    <2>1. /\ signal \in [Cores -> BOOLEAN] /\ pending \in Int /\ held \in Int /\ seen \in Int
          /\ uncounted \subseteq Cores
      BY <1>k DEF TypeInv, TypeOK
    <2>2. Unsignalled \subseteq Cores /\ Counted \subseteq Cores
      BY DEF Unsignalled, Counted
    <2>3. Cardinality(Cores) \in Nat  BY CoresAssumption, FS_CardinalityType
    <2> QED  BY <2>1, <2>2, <2>3, CountFacts
  <1> DEFINE Same == UNCHANGED <<counter, signal, pending, uncounted, held, seen>>
  \* No count and no signal moves, and neither thread enters or leaves the count.
  <1>f. ASSUME Same, rpc' = rpc \/ (rpc' \notin Armed /\ rpc \notin Arming),
               master' = master \/ (/\ rpc' \notin Armed
                                    /\ master' \notin {"read", "store"}
                                    /\ master \notin {"read", "store"})
        PROVE  CountKept'
    <2>1. Counted' = Counted /\ Unsignalled' = Unsignalled
      BY <1>f DEF Counted, Unsignalled
    <2>2. rpc' = rpc \/ (rpc' \notin Armed /\ rpc \notin Arming)  BY <1>f
    <2>3. master' = master \/ (/\ rpc' \notin Armed /\ master' \notin {"read", "store"}
                               /\ master \notin {"read", "store"})
      BY <1>f
    <2>4. UNCHANGED <<counter, signal, pending, uncounted, held, seen>>  BY <1>f
    <2> HIDE DEF Same
    <2>5. CASE rpc' = rpc
      BY <1>k, <2>1, <2>3, <2>4, <2>5 DEF CountKept, Armed, Arming
    <2>6. CASE rpc' \notin Armed /\ rpc \notin Arming
      BY <1>k, <2>1, <2>3, <2>4, <2>6 DEF CountKept, Armed, Arming
    <2> QED  BY <2>2, <2>5, <2>6
  <1>1. ASSUME NEW cmd \in Commands, RpcVerify(cmd) PROVE CountKept'
    BY <1>1, <1>f DEF RpcVerify, verify_state, Commands, Armed, Arming, eventVars
  <1>2. CASE start_traffic \/ validate
    BY <1>2, <1>f DEF start_traffic, validate, verify_state, Armed, Arming, eventVars
  <1>3. CASE add_stream \/ remove_stream \/ remove_and_delete_all_streams
    BY <1>3, <1>f DEF add_stream, remove_stream, remove_and_delete_all_streams, Armed,
         Arming, eventVars
  <1>4. CASE wait_for_event
    BY <1>4 DEF wait_for_event, CountKept, Armed, Arming
  <1>5. CASE wait_for_event_reset
    <2>1. Counted' = {} /\ Cardinality({}) = 0
      BY <1>5, FS_EmptySet DEF wait_for_event_reset, Counted
    <2> QED  BY <1>5, <1>k, <2>1 DEF wait_for_event_reset, CountKept, Armed, Arming, EVENT_ID_INVALID
  <1>6. CASE wait_for_event_signal
    <2>1. PICK c \in uncounted : /\ signal' = [signal EXCEPT ![c] = FALSE]
                                 /\ uncounted' = uncounted \ {c}
      BY <1>6 DEF wait_for_event_signal
    <2>2. c \in Cores /\ Counted' = Counted \cup {c} /\ c \notin Counted
          /\ Counted' \subseteq Cores
      BY <1>t, <2>1 DEF Counted
    <2>3. Cardinality(Counted') \in Int /\ Cardinality(Counted' \ {c}) = Cardinality(Counted') - 1
      BY <2>2, CountFacts
    <2>4. Counted' \ {c} = Counted  BY <2>2
    <2>5. \A d \in Counted' : ~signal'[d]
      BY <1>6, <1>k, <1>t, <2>1, <2>2 DEF wait_for_event_signal, CountKept
    <2>6. /\ rpc = "signal" /\ rpc' = "count" /\ pending' = pending /\ held' = held
          /\ counter' = counter /\ master' = master /\ seen' = seen
      BY <1>6 DEF wait_for_event_signal
    <2>7. (IF Optimized THEN held ELSE pending) = Cardinality(Counted') - 1
      BY <1>k, <2>3, <2>4, <2>6 DEF CountKept
    <2> QED  BY <1>k, <2>5, <2>6, <2>7 DEF CountKept, Armed, Arming
  <1>7. CASE wait_for_event_count
    <2>1. Counted' = Counted /\ held' = Cardinality(Counted)
      BY <1>7, <1>k, <1>t DEF wait_for_event_count, CountKept, Counted
    <2> QED  BY <1>7, <1>k, <2>1 DEF wait_for_event_count, CountKept, Armed, Arming, eventVars
  <1>8. CASE wait_for_event_store
    <2>1. Counted' = Counted /\ held' = held /\ signal' = signal /\ master' = master
          /\ rpc = "store" /\ held = Cardinality(Counted) /\ seen' = seen /\ master = "idle"
          /\ \A c \in Counted : ~signal[c]
      BY <1>8, <1>k DEF wait_for_event_store, CountKept, Counted, Armed, Arming
    <2>2. CASE uncounted # {}
      <3>1. rpc' = "signal" /\ pending' = IF Optimized THEN pending ELSE held
        BY <1>8, <2>2 DEF wait_for_event_store
      <3> QED  BY <2>1, <3>1 DEF CountKept, Armed, Arming
    <2>3. CASE uncounted = {}
      <3>1. rpc' = "start_tx" /\ pending' = held  BY <1>8, <2>3 DEF wait_for_event_store
      <3>2. Counted = Cores  BY <2>3 DEF Counted
      <3>3. Unsignalled' = Cores  BY <2>1, <3>2 DEF Unsignalled
      <3> QED  BY <1>t, <2>1, <3>1, <3>2, <3>3 DEF CountKept, Armed, Arming
    <2> QED  BY <2>2, <2>3
  <1>9. CASE start_traffic_send
    BY <1>9, <1>f DEF start_traffic_send, Armed, Arming, eventVars
  <1>10. CASE stop_traffic
    BY <1>10, <1>f DEF stop_traffic, Armed, Arming
  <1>11. CASE pause_traffic \/ resume_traffic \/ update_traffic \/ update_traffic_refuse
    BY <1>11, <1>f DEF pause_traffic, resume_traffic, update_traffic, update_traffic_refuse,
         Armed, Arming, eventVars
  <1>12. ASSUME NEW c \in Cores, handle_event(c) PROVE CountKept'
    <2>1. master' = "mark" => rpc \notin Armed
      BY <1>12, <1>k, MatchMeansDone DEF handle_event
    <2> QED  BY <1>12, <1>f, <2>1 DEF handle_event, eventVars
  <1>13. CASE handle_event_mark
    <2>1. /\ master = "mark" /\ rpc \notin Armed /\ sender \in Cores
          /\ counter # EVENT_ID_INVALID
          /\ UNCHANGED <<counter, pending, rpc, uncounted, held, seen>>
          /\ pending = Cardinality(Unsignalled)
      BY <1>13, <1>k, <1>t DEF handle_event_mark, CountKept, TypeInv, EventKnown, Armed
    <2>2. CASE signal[sender]
      BY <1>13, <1>f, <2>1, <2>2 DEF handle_event_mark, Armed
    <2>3. CASE ~signal[sender]
      <3>1. signal' = [signal EXCEPT ![sender] = TRUE] /\ master' = "read"
        BY <1>13, <2>3 DEF handle_event_mark
      <3>2. Unsignalled' = Unsignalled \ {sender} /\ sender \in Unsignalled
        BY <1>t, <2>1, <2>3, <3>1 DEF Unsignalled
      <3>3. Cardinality(Unsignalled') = Cardinality(Unsignalled) - 1
        BY <1>t, <3>2, CountFacts
      <3>4. pending' = Cardinality(Unsignalled') + 1  BY <1>t, <2>1, <3>3
      <3> QED  BY <2>1, <3>1, <3>4 DEF CountKept, Armed, Arming
    <2> QED  BY <2>2, <2>3
  <1>14. CASE CountStep
    <2>1. /\ UNCHANGED <<counter, signal, rpc, uncounted, held>>
          /\ master \in {"read", "store", "test"} /\ rpc \notin Armed
          /\ counter # EVENT_ID_INVALID
          /\ Unsignalled' = Unsignalled
      BY <1>14, <1>k, CountStepFacts DEF CountKept, TypeInv, EventKnown, Unsignalled
    <2>2. CASE handle_event_read
      BY <1>k, <2>1, <2>2 DEF handle_event_read, CountKept, Armed, Arming, eventVars
    <2>3. CASE handle_event_store
      <3>1. /\ pending' = seen - 1 /\ seen = pending /\ master' \notin {"read", "store"}
            /\ pending = Cardinality(Unsignalled) + 1
        BY <1>k, <2>1, <2>3 DEF handle_event_store, CountKept, Armed
      <3>2. pending' = Cardinality(Unsignalled)  BY <1>t, <3>1
      <3> QED  BY <1>t, <2>1, <3>1, <3>2 DEF CountKept, Armed, Arming
    <2>4. CASE handle_event_test
      BY <1>f, <2>1, <2>4 DEF handle_event_test, eventVars
    <2> QED  BY <1>14, <2>2, <2>3, <2>4 DEF CountStep
  <1>15. CASE on_dp_event_occured \/ handle_event_clear
    <2>1. rpc \notin Armed
      BY <1>15, <1>k DEF on_dp_event_occured, handle_event_clear, CountKept
    <2> QED  BY <1>15, <1>f, <2>1 DEF on_dp_event_occured, handle_event_clear, eventVars
  <1>16. ASSUME NEW c \in Cores, Dp(c) PROVE CountKept'
    BY <1>16, <1>f, DpLeavesEvent DEF eventVars
  <1>17. CASE UNCHANGED vars  BY <1>17, <1>f DEF vars, eventVars
  <1> QED
    BY <1>1, <1>2, <1>3, <1>4, <1>5, <1>6, <1>7, <1>8, <1>9, <1>10, <1>11, <1>12, <1>13,
       <1>14, <1>15, <1>16, <1>17
    DEF Next, Rpc, RpcFinish, Master, MasterFinish, CountStep

\* CountInv holds of every reachable state.
LEMMA CountInvHolds == Spec => []CountInv
  <1>1. Init => CountKept
    BY DEF Init, CountKept, Armed, Arming
  <1>2. Init => CountInv
    BY <1>1, OrderInvInit DEF CountInv
  <1> QED  BY <1>2, CountInvNext, PTL DEF Spec

\* Unless a start or stop overtook the handler, the count of the event is the
\* number of cores not heard of, in both builds, although two threads read and
\* write it without a lock: nothing else they do at once can spoil it.
THEOREM PendingIsExactHolds == Spec => []PendingIsExact
  <1>1. CountInv => PendingIsExact
    <2> SUFFICES ASSUME CountInv, ~overtaken, counter # EVENT_ID_INVALID,
                        master \notin {"read", "store"}, rpc \notin Arming
                 PROVE  pending = Cardinality(Unsignalled)
      BY DEF PendingIsExact, Arming
    <2>1. Unsignalled \subseteq Cores  BY DEF Unsignalled
    <2>2. Cardinality(Unsignalled) \in Int  BY <2>1, CountFacts
    <2> QED  BY <2>2 DEF CountInv, CountKept
  <1> QED  BY <1>1, CountInvHolds, PTL

-----------------------------------------------------------------------------
(* What the port shows and what the cores do.                              *)

\* Every step keeps QuietInv.
LEMMA QuietInvNext ==
  ASSUME QuietInv, [Next]_vars
  PROVE  QuietInv'
  <1>1. CountInv'  BY CountInvNext DEF QuietInv
  <1> SUFFICES ASSUME ~dropped', ~overtaken'
               PROVE  /\ (\A c \in Cores : StartsMeetIdle(toDp[c], dpState[c]))'
                      /\ HandlerKnows' /\ CoresQuiet' /\ (aborted # "start")'
    BY <1>1 DEF QuietInv
  <1>k. /\ ~dropped /\ ~overtaken /\ OrderInv /\ TypeInv /\ CountKept /\ CountKept'
        /\ \A c \in Cores : StartsMeetIdle(toDp[c], dpState[c])
        /\ HandlerKnows /\ CoresQuiet /\ aborted # "start"
    BY <1>1, DroppedForever, OvertakenForever DEF QuietInv, CountInv, OrderInv
  <1>t. /\ \A c \in Cores : toDp[c] \in Seq(Msg)
        /\ signal \in [Cores -> BOOLEAN] /\ dpState \in [Cores -> {"IDLE", "TRANSMITTING", "PAUSE"}]
    BY <1>k DEF TypeInv, TypeOK, Msg
  <1>m. rpc \in Armed => master = "idle"
    BY <1>k DEF CountKept
  <1> DEFINE Goal == /\ \A c \in Cores : StartsMeetIdle(toDp'[c], dpState'[c])
                     /\ HandlerKnows' /\ CoresQuiet' /\ aborted' # "start"
  <1> SUFFICES Goal  OBVIOUS
  <1> USE DEF Armed, Arming
  \* Nothing of the cores changes.
  <1>f. ASSUME UNCHANGED <<counter, toDp, dpState, dpEvent>>
        PROVE  /\ \A c \in Cores : StartsMeetIdle(toDp'[c], dpState'[c])
               /\ \A c \in Cores : (Quiet(c)' <=> Quiet(c)) /\ (Done(c)' <=> Done(c))
    <2>1. \A c \in Cores : StartsMeetIdle(toDp'[c], dpState'[c])  BY <1>f, <1>k
    <2>2. \A c \in Cores : Quiet(c)' <=> Quiet(c)  BY <1>f DEF Quiet
    <2>3. \A c \in Cores : Done(c)' <=> Done(c)  BY <1>f DEF Done
    <2> QED  BY <2>1, <2>2, <2>3
  <1>g. master = "mark" => sender \in Cores
    BY <1>k DEF TypeInv, EventKnown
  <1>2. ASSUME NEW cmd \in Commands, RpcVerify(cmd) PROVE Goal
    <2>1. UNCHANGED <<counter, toDp, dpState, dpEvent, port_state, event_id, signal, master,
                      sender, aborted>>
      BY <1>2 DEF RpcVerify, portVars, eventVars, ringVars, dpVars
    <2>2. rpc' = cmd /\ rpc = "idle" /\ port_state \in AllowedStates(cmd)
      BY <1>2 DEF RpcVerify, verify_state
    <2>3. HandlerKnows'
      BY <1>f, <1>g, <1>k, <2>1, <2>2 DEF HandlerKnows, AllowedStates, Commands
    <2> QED  BY <1>f, <1>k, <2>1, <2>3 DEF CoresQuiet
  <1>3. CASE start_traffic
    <2>1. UNCHANGED <<counter, toDp, dpState, dpEvent, port_state, event_id, signal, master,
                      sender>>
      BY <1>3 DEF start_traffic, eventVars, ringVars, dpVars
    <2>2. rpc' \in {"start", "idle"} /\ rpc = "idle" /\ port_state = "STREAMS"
      BY <1>3 DEF start_traffic, verify_state, AllowedStates
    <2>3. aborted' # "start"  BY <1>3, <1>k DEF start_traffic
    <2>4. HandlerKnows'  BY <1>f, <1>g, <1>k, <2>1, <2>2 DEF HandlerKnows
    <2> QED  BY <1>f, <1>k, <2>1, <2>3, <2>4 DEF CoresQuiet
  <1>4. CASE validate \/ update_traffic_refuse
    <2>1. /\ UNCHANGED <<counter, toDp, dpState, dpEvent, port_state, event_id, signal, master,
                         sender, aborted>>
          /\ rpc \in {"idle", "update"} /\ rpc' = "idle"
      BY <1>4 DEF validate, update_traffic_refuse, eventVars, ringVars, dpVars
    <2>2. HandlerKnows'  BY <1>f, <1>g, <1>k, <2>1 DEF HandlerKnows
    <2> QED  BY <1>f, <1>k, <2>1, <2>2 DEF CoresQuiet
  <1>5. CASE add_stream \/ remove_stream \/ remove_and_delete_all_streams
    <2>1. UNCHANGED <<counter, toDp, dpState, dpEvent, event_id, signal, master, sender, aborted>>
      BY <1>5 DEF add_stream, remove_stream, remove_and_delete_all_streams, eventVars,
           ringVars, dpVars
    <2>2. rpc' = "idle" /\ rpc \in {"add", "remove", "remove_all"}
      BY <1>5 DEF add_stream, remove_stream, remove_and_delete_all_streams
    <2>3. port_state \in {"IDLE", "STREAMS"}
          /\ (event_id = EVENT_ID_INVALID \/ master = "clear")
      BY <1>k, <2>2 DEF HandlerKnows
    <2>4. HandlerKnows'  BY <1>f, <1>g, <1>k, <2>1, <2>2, <2>3 DEF HandlerKnows
    <2> QED  BY <1>f, <1>k, <2>1, <2>3, <2>4 DEF CoresQuiet
  <1>6. CASE wait_for_event
    <2>1. UNCHANGED <<toDp, dpState, dpEvent, port_state, master, sender, aborted>>
      BY <1>6 DEF wait_for_event, portVars, ringVars, dpVars
    <2>2. rpc' = "reset" /\ rpc = "start" /\ master = "idle"
      BY <1>6 DEF wait_for_event
    <2>3. port_state \in {"IDLE", "STREAMS"}
      BY <1>k, <2>2 DEF HandlerKnows
    <2>4. HandlerKnows'  BY <2>1, <2>2, <2>3 DEF HandlerKnows
    <2>5. \A c \in Cores : Quiet(c)' <=> Quiet(c)  BY <2>1 DEF Quiet
    <2> QED  BY <1>k, <2>1, <2>4, <2>5 DEF CoresQuiet
  <1>6a. CASE ArmStep
    <2>1. /\ UNCHANGED <<counter, toDp, dpState, dpEvent, port_state, event_id, master, sender,
                         aborted>>
          /\ rpc \in Arming /\ rpc' \in Armed
      BY <1>6a, ArmStepFacts DEF portVars, ringVars, dpVars
    <2>2. rpc' = "start_tx" => \A c \in Cores : ~signal'[c]
      BY <1>k DEF CountKept
    <2>3. port_state \in {"IDLE", "STREAMS"} /\ master = "idle"
      BY <1>k, <1>m, <2>1 DEF HandlerKnows
    <2>4. HandlerKnows'  BY <2>1, <2>2, <2>3 DEF HandlerKnows
    <2> QED  BY <1>f, <1>k, <2>1, <2>4 DEF CoresQuiet
  <1>7. CASE start_traffic_send
    <2>1. PICK dur \in BOOLEAN :
            send_message_to_all_dp([type |-> "start", id |-> counter,
                                    prog |-> Program(streams), dur |-> dur])
      BY <1>7 DEF start_traffic_send
    <2> DEFINE m == [type |-> "start", id |-> counter, prog |-> Program(streams), dur |-> dur]
    <2>2. Program(streams) \in Progs  BY DEF Program, Progs
    <2>3. m \in Msg /\ m.type = "start"
      BY <1>7, <1>k, <2>2 DEF start_traffic_send, TypeInv, EventKnown, TypeOK, Msg,
           StartMsg, EVENT_ID_INVALID
    <2> HIDE DEF m
    <2>4. /\ \A c \in Cores : toDp'[c] = Enqueue(toDp[c], m)
          /\ \A c \in Cores : ~IsFull(toDp[c])
      BY <1>k, <2>1, <2>3, SendTyped DEF TypeInv, m
    <2>5. /\ UNCHANGED <<counter, dpState, dpEvent, event_id, signal, master, sender, aborted>>
          /\ port_state' = "TX" /\ rpc' = "idle" /\ rpc = "start_tx"
      BY <1>7 DEF start_traffic_send, eventVars, dpVars
    <2>6. /\ \A c \in Cores : Quiet(c) /\ ~signal[c]
          /\ master = "idle"
      BY <1>k, <2>5 DEF HandlerKnows, CoresQuiet, CountKept
    <2>7. \A c \in Cores : StartsMeetIdle(toDp'[c], dpState'[c])
      BY <1>k, <1>t, <2>3, <2>4, <2>5, <2>6, SendKeepsIdle DEF Quiet
    <2>8. HandlerKnows'  BY <1>k, <2>5, <2>6 DEF HandlerKnows
    <2> QED  BY <1>k, <2>5, <2>7, <2>8 DEF CoresQuiet
  \* Another message is sent to a port.
  <1>8. ASSUME NEW type \in {"stop", "pause", "resume", "update"},
               send_message_to_all_dp([type |-> type])
        PROVE  /\ \A c \in Cores : StartsMeetIdle(toDp'[c], dpState[c])
               /\ \A c \in Cores : NoStart(toDp[c]) => NoStart(toDp'[c])
               /\ \A c \in Cores : type = "stop" \/ Quiet(c) =>
                    QuietBefore(toDp'[c], dpState[c], Len(toDp'[c]) + 1)
    <2> DEFINE m == [type |-> type]
    <2>1. m \in Msg /\ m \in CtlMsg /\ m.type # "start" /\ m.type = type  BY DEF Msg, CtlMsg
    <2> HIDE DEF m
    <2>2. /\ \A c \in Cores : toDp'[c] = Enqueue(toDp[c], m)
          /\ \A c \in Cores : ~IsFull(toDp[c])
      BY <1>k, <1>8, <2>1, SendTyped DEF TypeInv, m
    <2>3. \A c \in Cores : StartsMeetIdle(toDp'[c], dpState[c])
      BY <1>k, <1>t, <2>1, <2>2, SendKeepsIdle
    <2>4. \A c \in Cores : NoStart(toDp[c]) => NoStart(toDp'[c])
      BY <1>t, <2>1, <2>2, NoStartKept
    <2>5. \A c \in Cores : type = "stop" \/ Quiet(c) =>
            QuietBefore(toDp'[c], dpState[c], Len(toDp'[c]) + 1)
      BY <1>k, <1>t, <2>1, <2>2, SendKeepsIdle DEF Quiet
    <2> QED  BY <2>3, <2>4, <2>5
  <1>9. CASE stop_traffic
    <2>1. send_message_to_all_dp([type |-> "stop"])  BY <1>9 DEF stop_traffic
    <2>2. /\ UNCHANGED <<counter, dpState, dpEvent, signal, master, sender, aborted>>
          /\ port_state' = "STREAMS" /\ rpc' = "idle" /\ rpc = "stop" /\ master = "idle"
          /\ event_id' = EVENT_ID_INVALID
      BY <1>9 DEF stop_traffic, dpVars
    <2>4. HandlerKnows'  BY <2>2 DEF HandlerKnows
    <2>5. CoresQuiet'  BY <1>8, <2>1, <2>2 DEF CoresQuiet, Quiet
    <2> QED  BY <1>8, <1>k, <2>1, <2>2, <2>4, <2>5
  <1>10. CASE pause_traffic \/ resume_traffic \/ update_traffic
    <2>1. PICK type \in {"pause", "resume", "update"} : send_message_to_all_dp([type |-> type])
      BY <1>10 DEF pause_traffic, resume_traffic, update_traffic
    <2>2. /\ UNCHANGED <<counter, dpState, dpEvent, event_id, signal, master, sender, aborted>>
          /\ port_state' \in {"TX", "PAUSE", port_state} /\ rpc' = "idle"
          /\ rpc \in {"pause", "resume", "update"}
      BY <1>10 DEF pause_traffic, resume_traffic, update_traffic, eventVars, dpVars
    <2>4. \A c \in Cores : (Done(c) => Done(c)') /\ (Quiet(c) => Quiet(c)')
      BY <1>8, <2>1, <2>2 DEF Done, Quiet
    <2>7. (master = "mark" => Done(sender))'
      <3>1. SUFFICES ASSUME NEW c \in Cores, c = sender, master = "mark" PROVE Done(sender)'
        BY <1>g, <1>k, <2>2 DEF HandlerKnows
      <3>2. Done(c)'  BY <1>k, <2>4, <3>1 DEF HandlerKnows, Done
      <3> QED  BY <2>2, <3>1, <3>2 DEF Done
    <2>8. HandlerKnows'  BY <1>k, <2>2, <2>4, <2>7 DEF HandlerKnows
    <2>9. CoresQuiet'  BY <1>k, <2>2, <2>4 DEF CoresQuiet
    <2> QED  BY <1>8, <1>k, <2>1, <2>2, <2>8, <2>9
  <1>11. ASSUME NEW c \in Cores, handle_event(c) PROVE Goal
    <2>1. UNCHANGED <<counter, toDp, dpState, dpEvent, port_state, event_id, signal, rpc, aborted>>
      BY <1>11 DEF handle_event, portVars, eventVars, dpVars
    <2>2. master = "idle" /\ toCp[c] # <<>>
      BY <1>11 DEF handle_event
    <2>3. CASE EventMatches(Head(toCp[c]))
      <3>1. master' = "mark" /\ sender' = c  BY <1>11, <2>3 DEF handle_event
      <3>2. Done(c) /\ event_id # EVENT_ID_INVALID
        BY <1>k, <2>2, <2>3, MatchMeansDone DEF EventMatches
      <3>3. Done(sender)'
        BY <2>1, <3>1, <3>2 DEF Done
      <3>4. HandlerKnows'  BY <1>f, <1>k, <2>1, <2>2, <3>1, <3>2, <3>3 DEF HandlerKnows
      <3> QED  BY <1>f, <1>k, <2>1, <3>4 DEF CoresQuiet
    <2>4. CASE ~EventMatches(Head(toCp[c]))
      <3>1. UNCHANGED <<master, sender>>  BY <1>11, <2>4 DEF handle_event
      <3>2. HandlerKnows'  BY <1>f, <1>k, <2>1, <2>2, <3>1 DEF HandlerKnows
      <3> QED  BY <1>f, <1>k, <2>1, <3>2 DEF CoresQuiet
    <2> QED  BY <2>3, <2>4
  <1>12. CASE handle_event_mark
    <2>1. UNCHANGED <<counter, toDp, dpState, dpEvent, port_state, event_id, rpc, aborted>>
      BY <1>12 DEF handle_event_mark, portVars, ringVars, dpVars
    <2>2. /\ master = "mark" /\ event_id # EVENT_ID_INVALID /\ Done(sender)
          /\ sender \in Cores /\ rpc \notin Armed /\ master' \in {"test", "read"}
      BY <1>12, <1>g, <1>k, <1>m DEF handle_event_mark, HandlerKnows
    <2>4. \A c \in Cores : signal'[c] => signal[c] \/ c = sender
      BY <1>12, <1>t, <2>2 DEF handle_event_mark
    <2>5. \A c \in Cores : signal'[c] => Done(c)
      BY <1>k, <2>2, <2>4 DEF HandlerKnows
    <2>7. HandlerKnows'
      BY <1>f, <1>k, <2>1, <2>2, <2>5 DEF HandlerKnows
    <2> QED  BY <1>f, <1>k, <2>1, <2>7 DEF CoresQuiet
  <1>12a. CASE CountStep
    <2>1. /\ UNCHANGED <<counter, toDp, dpState, dpEvent, port_state, event_id, signal, rpc, aborted>>
          /\ master \in {"read", "store", "test"}
          /\ master' \in {"store", "test", "occured", "idle"}
      BY <1>12a, CountStepFacts DEF portVars, ringVars, dpVars
    <2>2. rpc \notin Armed /\ counter # EVENT_ID_INVALID
      BY <1>k, <1>m, <2>1 DEF TypeInv, EventKnown
    <2>3. master' = "occured" => pending' = 0
      BY <1>12a DEF CountStep, handle_event_read, handle_event_store, handle_event_test,
           AllHeard, eventVars
    <2>4. master' = "occured" => \A c \in Cores : signal[c]
      <3> HAVE master' = "occured"
      <3>1. Unsignalled' = Unsignalled /\ Unsignalled \subseteq Cores
        BY <2>1 DEF Unsignalled
      <3>2. pending' = Cardinality(Unsignalled) + 0
        BY <1>k, <2>1, <2>2, <3>1 DEF CountKept
      <3>3. Cardinality(Unsignalled) = 0
        BY <2>3, <3>1, <3>2, CountFacts
      <3>4. Unsignalled = {}  BY <3>1, <3>3, CountFacts
      <3> QED  BY <3>4 DEF Unsignalled
    <2>5. HandlerKnows'  BY <1>f, <1>k, <2>1, <2>2, <2>4 DEF HandlerKnows
    <2> QED  BY <1>f, <1>k, <2>1, <2>5 DEF CoresQuiet
  <1>13. CASE on_dp_event_occured
    <2>1. UNCHANGED <<counter, toDp, dpState, dpEvent, event_id, signal, rpc, sender, aborted>>
      BY <1>13 DEF on_dp_event_occured, eventVars, ringVars, dpVars
    <2>2. master = "occured" /\ master' = "clear" /\ rpc \notin Armed /\ port_state' = "STREAMS"
      BY <1>13, <1>m DEF on_dp_event_occured
    <2>3. \A c \in Cores : Done(c)  BY <1>k, <2>2 DEF HandlerKnows
    <2>4. \A c \in Cores : Quiet(c)  BY <2>3, DoneIsQuiet
    <2>5. HandlerKnows'  BY <1>f, <1>k, <2>1, <2>2 DEF HandlerKnows
    <2> QED  BY <1>f, <1>k, <2>1, <2>4, <2>5 DEF CoresQuiet
  <1>14. CASE handle_event_clear
    <2>1. UNCHANGED <<counter, toDp, dpState, dpEvent, port_state, signal, rpc, sender, aborted>>
      BY <1>14 DEF handle_event_clear, portVars, ringVars, dpVars
    <2>2. master' = "idle" /\ event_id' = EVENT_ID_INVALID
      BY <1>14 DEF handle_event_clear
    <2>3. HandlerKnows'  BY <1>k, <2>1, <2>2 DEF HandlerKnows
    <2> QED  BY <1>f, <1>k, <2>1, <2>3 DEF CoresQuiet
  \* Core c takes a step that leaves it idle whenever it was bound to be.
  <1>15. ASSUME NEW c \in Cores,
                UNCHANGED <<port_state, counter, event_id, signal, rpc, master, sender, aborted>>,
                \A d \in Cores : d # c => /\ toDp'[d] = toDp[d] /\ dpState'[d] = dpState[d]
                                          /\ dpEvent'[d] = dpEvent[d],
                StartsMeetIdle(toDp'[c], dpState'[c]),
                Quiet(c) => QuietBefore(toDp'[c], dpState'[c], Len(toDp'[c]) + 1),
                Done(c) => /\ dpState'[c] = "IDLE" /\ dpEvent'[c] = dpEvent[c]
                           /\ NoStart(toDp'[c])
         PROVE  Goal
    <2>1. \A d \in Cores : StartsMeetIdle(toDp'[d], dpState'[d])  BY <1>k, <1>15
    <2>2. ASSUME NEW d \in Cores PROVE (Quiet(d) => Quiet(d)') /\ (Done(d) => Done(d)')
      <3>1. CASE d = c  BY <1>15, <3>1 DEF Quiet, Done
      <3>2. CASE d # c  BY <1>15, <3>2 DEF Quiet, Done
      <3> QED  BY <3>1, <3>2
    <2>3. CoresQuiet'  BY <1>k, <1>15, <2>2 DEF CoresQuiet
    <2>4. master = "mark" => sender \in Cores /\ sender' = sender
      BY <1>g, <1>15
    <2>5. (master = "mark" => Done(sender))'
      <3>1. master = "mark" => Done(sender)  BY <1>k DEF HandlerKnows
      <3>2. master = "mark" => Done(sender)'  BY <1>15, <2>2, <2>4, <3>1 DEF Done
      <3> QED  BY <1>15, <1>k, <3>2 DEF HandlerKnows
    <2>6. HandlerKnows'  BY <1>k, <1>15, <2>2, <2>5 DEF HandlerKnows
    <2> QED  BY <1>k, <1>15, <2>1, <2>3, <2>6
  \* Core c handles its first message and goes to state su.
  <1>16. ASSUME NEW c \in Cores, NEW type, Dequeue(c, type)
         PROVE  /\ toDp[c] # <<>> /\ Head(toDp[c]).type = type /\ toDp'[c] = Tail(toDp[c])
                /\ \A d \in Cores : d # c => toDp'[d] = toDp[d]
                /\ NoStart(toDp[c]) => NoStart(toDp'[c]) /\ type # "start"
                /\ \/ type = "stop" /\ dpState'[c] = "IDLE"
                   \/ type # "stop" /\ (dpState[c] = "IDLE" => type = "start")
                   => /\ StartsMeetIdle(toDp'[c], dpState'[c])
                      /\ Quiet(c) => QuietBefore(toDp'[c], dpState'[c], Len(toDp'[c]) + 1)
    <2>1. /\ toDp[c] # <<>> /\ Head(toDp[c]).type = type /\ toDp'[c] = Tail(toDp[c])
          /\ \A d \in Cores : d # c => toDp'[d] = toDp[d]
      BY <1>16, <1>k, DequeueTyped DEF TypeInv
    <2>2. NoStart(toDp[c]) => NoStart(toDp'[c]) /\ type # "start"
      BY <1>t, <2>1, NoStartKept
    <2>3. ASSUME \/ type = "stop" /\ dpState'[c] = "IDLE"
                 \/ type # "stop" /\ (dpState[c] = "IDLE" => type = "start")
          PROVE  /\ StartsMeetIdle(toDp'[c], dpState'[c])
                 /\ Quiet(c) => QuietBefore(toDp'[c], dpState'[c], Len(toDp'[c]) + 1)
      BY <1>k, <1>t, <2>1, <2>3, HandleKeepsIdle DEF Quiet
    <2> QED  BY <2>1, <2>2, <2>3
  <1>17. ASSUME NEW c \in Cores, dp_start_traffic(c) PROVE Goal
    <2>1. Dequeue(c, "start")  BY <1>17 DEF dp_start_traffic
    <2>2. /\ UNCHANGED <<port_state, counter, event_id, signal, rpc, master, sender, aborted>>
          /\ \A d \in Cores : d # c => dpState'[d] = dpState[d] /\ dpEvent'[d] = dpEvent[d]
      BY <1>17, <1>k DEF dp_start_traffic, portVars, eventVars, TypeInv, TypeOK
    <2>3. ~Done(c)  BY <1>16, <2>1 DEF Done
    <2> QED  BY <1>15, <1>16, <2>1, <2>2, <2>3
  <1>18. ASSUME NEW c \in Cores, DpStop(c) PROVE Goal
    <2>1. Dequeue(c, "stop") /\ dp_stop_traffic(c, FALSE, 0)  BY <1>18 DEF DpStop
    <2>2. UNCHANGED <<port_state, counter, event_id, signal, rpc, master, sender, aborted, dpEvent>>
      BY <1>18 DEF DpStop, portVars, eventVars
    <2>3. dpState'[c] = "IDLE" /\ \A d \in Cores : d # c => dpState'[d] = dpState[d]
      BY <1>t, <2>1 DEF dp_stop_traffic
    <2>4. Done(c) => NoStart(toDp'[c])  BY <1>16, <2>1 DEF Done
    <2> QED  BY <1>15, <1>16, <2>1, <2>2, <2>3, <2>4
  <1>19. ASSUME NEW c \in Cores, DpTimer(c) \/ DpFinish(c) PROVE Goal
    <2>1. UNCHANGED <<port_state, counter, event_id, signal, rpc, master, sender, aborted, dpEvent,
                      toDp>>
      BY <1>19 DEF DpTimer, DpFinish, portVars, eventVars
    <2>2. /\ dpState'[c] \in {"IDLE", dpState[c]}
          /\ \A d \in Cores : d # c => dpState'[d] = dpState[d]
      BY <1>t, <1>19 DEF DpTimer, DpFinish, dp_stop_traffic
    <2>3. StartsMeetIdle(toDp'[c], dpState'[c])
      BY <1>k, <2>1, <2>2, StopKeepsIdle
    <2>4. Quiet(c) => QuietBefore(toDp'[c], dpState'[c], Len(toDp'[c]) + 1)
      BY <1>k, <2>1, <2>2, StopKeepsIdle DEF Quiet
    <2>5. Done(c) => dpState'[c] = "IDLE" /\ NoStart(toDp'[c])
      BY <2>1, <2>2 DEF Done
    <2> QED  BY <1>15, <2>1, <2>2, <2>3, <2>4, <2>5
  <1>20. ASSUME NEW c \in Cores,
                dp_pause_traffic(c) \/ dp_resume_traffic(c) \/ dp_update_traffic(c)
         PROVE  Goal
    <2>1. PICK type \in {"pause", "resume", "update"} : Dequeue(c, type)
      BY <1>20 DEF dp_pause_traffic, dp_resume_traffic, dp_update_traffic
    <2>2. UNCHANGED <<port_state, counter, event_id, signal, rpc, master, sender, aborted, dpEvent>>
      BY <1>20 DEF dp_pause_traffic, dp_resume_traffic, dp_update_traffic, portVars,
           eventVars, dpVars
    <2>3. dpState[c] # "IDLE"  BY <2>1 DEF Dequeue, AssertHolds
    <2>4. \A d \in Cores : d # c => dpState'[d] = dpState[d]
      BY <1>t, <1>20 DEF dp_pause_traffic, dp_resume_traffic, dp_update_traffic, dpVars
    <2>5. ~Done(c)  BY <2>3 DEF Done
    <2> QED  BY <1>15, <1>16, <2>1, <2>2, <2>3, <2>4, <2>5
  <1>21. ASSUME NEW c \in Cores, DpAbort(c) PROVE Goal
    <2>1. UNCHANGED <<counter, toDp, dpState, dpEvent, port_state, event_id, signal, rpc, master,
                      sender>>
      BY <1>21 DEF DpAbort, portVars, eventVars, ringVars, dpVars
    <2>2. aborted' # "start"
      <3> SUFFICES ASSUME Head(toDp[c]).type = "start" PROVE FALSE
        BY <1>21 DEF DpAbort
      <3>1. toDp[c] # <<>> /\ ~AssertHolds(c, "start")  BY <1>21 DEF DpAbort
      <3>2. 1 \in DOMAIN toDp[c] /\ toDp[c][1].type = "start"
            /\ \A i \in DOMAIN toDp[c] : ~(i < 1)
        BY <1>t, <3>1, DequeueFacts
      <3>3. QuietBefore(toDp[c], dpState[c], 1)  BY <1>k, <3>2 DEF StartsMeetIdle
      <3>4. dpState[c] = "IDLE"  BY <3>2, <3>3 DEF QuietBefore
      <3> QED  BY <3>1, <3>4 DEF AssertHolds, HasActiveNodes
    <2>3. HandlerKnows'  BY <1>f, <1>k, <2>1 DEF HandlerKnows, Done
    <2> QED  BY <1>f, <1>k, <2>1, <2>2, <2>3 DEF CoresQuiet
  <1>22. ASSUME UNCHANGED <<counter, toDp, dpState, dpEvent, port_state, event_id, signal, rpc,
                            master, sender, aborted>>
         PROVE  Goal
    <2>1. HandlerKnows'  BY <1>f, <1>k, <1>22 DEF HandlerKnows, Done
    <2> QED  BY <1>f, <1>k, <1>22, <2>1 DEF CoresQuiet
  <1>23. ASSUME NEW c \in Cores, DpReap(c) \/ DpSchedulerExit(c) PROVE Goal
    BY <1>22, <1>23 DEF DpReap, DpSchedulerExit, portVars, eventVars, ringVars
  <1>24. CASE UNCHANGED vars
    BY <1>22, <1>24 DEF vars, portVars, eventVars, ringVars, dpVars
  <1> QED
    BY <1>2, <1>3, <1>4, <1>5, <1>6, <1>6a, <1>7, <1>9, <1>10, <1>11, <1>12, <1>12a, <1>13,
       <1>14, <1>17, <1>18, <1>19, <1>20, <1>21, <1>23, <1>24
    DEF Next, Rpc, RpcFinish, Master, MasterFinish, ArmStep, CountStep, Dp, DpHandle

\* QuietInv holds at the start.
LEMMA QuietInvInit == Init => QuietInv
  <1> SUFFICES ASSUME Init PROVE QuietInv
    OBVIOUS
  <1>1. CountInv
    BY OrderInvInit DEF Init, CountInv, CountKept, Armed, Arming
  <1>3. \A c \in Cores : StartsMeetIdle(toDp[c], dpState[c]) /\ Quiet(c)
    BY DEF Init, StartsMeetIdle, Quiet, QuietBefore
  <1>4. HandlerKnows  BY DEF Init, HandlerKnows, Armed, Arming
  <1> QED  BY <1>1, <1>3, <1>4 DEF Init, QuietInv, CoresQuiet

\* Unless a message was lost or a start or stop overtook the handler, a port that
\* shows no traffic has none: no core transmits that is not about to be stopped,
\* and the state a client sees never runs ahead of the data plane.
THEOREM StoppedPortIsQuietHolds == Spec => []StoppedPortIsQuiet
  <1>1. QuietInv => StoppedPortIsQuiet  BY DEF QuietInv, CoresQuiet, StoppedPortIsQuiet
  <1>2. QuietInv /\ [Next]_vars => QuietInv'  BY QuietInvNext
  <1> QED  BY <1>1, <1>2, QuietInvInit, PTL DEF Spec

\* The assert of start_traffic on the data plane, "no nodes in the list", fails
\* only after a message was lost or a start or stop overtook the handler: the
\* race that v_start shows is the only one there is.
THEOREM StartFindsIdleHolds == Spec => []StartFindsIdleUnlessOvertaken
  <1>1. QuietInv => StartFindsIdleUnlessOvertaken
    BY DEF QuietInv, StartFindsIdleUnlessOvertaken, CountInv, OrderInv, TypeInv, TypeOK
  <1>2. QuietInv /\ [Next]_vars => QuietInv'  BY QuietInvNext
  <1> QED  BY <1>1, <1>2, QuietInvInit, PTL DEF Spec

-----------------------------------------------------------------------------
(* The stream table.                                                       *)

\* Every change of the table throws the cached graph away, and every graph is
\* generated from the table: a rate is never computed from streams of the past,
\* whatever the master thread does meanwhile.
THEOREM GraphFreshHolds == Spec => []GraphFresh
  <1>1. Init => GraphFresh  BY DEF Init, GraphFresh
  <1>2. GraphFresh /\ [Next]_vars => GraphFresh'
    <2> SUFFICES ASSUME GraphFresh, [Next]_vars PROVE GraphFresh'
      OBVIOUS
    <2>1. CASE UNCHANGED <<graph, streams>>
      BY <2>1 DEF GraphFresh
    <2>2. CASE graph' = NoGraph
      BY <2>2 DEF GraphFresh
    <2>3. CASE start_traffic
      BY <2>3 DEF start_traffic, GraphFresh
    <2>4. CASE update_traffic \/ update_traffic_refuse \/ validate
      BY <2>4 DEF update_traffic, update_traffic_refuse, validate, CachedGraph, GraphFresh
    <2>5. ASSUME NEW cmd \in Commands, RpcVerify(cmd) PROVE UNCHANGED <<graph, streams>>
      BY <2>5 DEF RpcVerify, portVars
    <2>6. CASE add_stream \/ remove_stream \/ remove_and_delete_all_streams \/ stop_traffic
      BY <2>2, <2>6 DEF add_stream, remove_stream, remove_and_delete_all_streams, stop_traffic
    <2>7. CASE wait_for_event \/ start_traffic_send \/ pause_traffic \/ resume_traffic
      BY <2>1, <2>7 DEF wait_for_event, start_traffic_send, pause_traffic, resume_traffic, portVars
    <2>7a. CASE ArmStep \/ CountStep
      BY <2>1, <2>7a, ArmStepFacts, CountStepFacts DEF portVars
    <2>8. CASE handle_event_mark \/ on_dp_event_occured \/ handle_event_clear
      BY <2>1, <2>8 DEF handle_event_mark, on_dp_event_occured, handle_event_clear, portVars
    <2>8a. ASSUME NEW c \in Cores, handle_event(c) PROVE UNCHANGED <<graph, streams>>
      BY <2>8a DEF handle_event, portVars
    <2>9. ASSUME NEW c \in Cores, Dp(c) PROVE UNCHANGED <<graph, streams>>
      BY <2>9 DEF Dp, DpHandle, dp_start_traffic, DpStop, dp_pause_traffic, dp_resume_traffic,
           dp_update_traffic, DpAbort, DpTimer, DpFinish, DpReap, DpSchedulerExit, portVars
    <2>10. CASE UNCHANGED vars
      BY <2>1, <2>10 DEF vars, portVars
    <2> QED
      BY <2>1, <2>3, <2>4, <2>5, <2>6, <2>7, <2>7a, <2>8, <2>8a, <2>9,
         <2>10
      DEF Next, Rpc, RpcFinish, Master, MasterFinish, ArmStep, CountStep
  <1> QED  BY <1>1, <1>2, PTL DEF Spec

\* The port keeps its types, and a cached graph is the graph of the table.
THEOREM PortIsConsistent == Spec => []PortInv
  BY TypeCorrect, GraphFreshHolds, PTL DEF PortInv

\* The port state and the table, as long as the handler was never overtaken: an
\* event is awaited only while the port is in a run, and a run needs streams.
TableKept ==
  ~overtaken =>
    /\ master \in {"mark", "read", "store", "test", "occured"} => event_id # EVENT_ID_INVALID
    /\ event_id # EVENT_ID_INVALID =>
         port_state \in {"TX", "PAUSE"} \/ rpc \in Armed \/ master = "clear"
    /\ rpc \in {"pause", "resume", "update", "stop"} => streams # {}
    /\ rpc \in {"remove", "start"} \cup Armed => port_state = "STREAMS"
    /\ rpc \in {"add", "remove_all"} => port_state \in {"IDLE", "STREAMS"}
    /\ port_state = "IDLE" <=> streams = {}

\* Every step keeps TableKept.
LEMMA TableKeptNext == CountInv /\ TableKept /\ [Next]_vars => TableKept'
  <1> SUFFICES ASSUME CountInv, TableKept, [Next]_vars, ~overtaken' PROVE TableKept'
    BY DEF TableKept
  <1>o. ~overtaken /\ CountKept
    BY OvertakenForever DEF CountInv
  <1>a. /\ rpc \in Armed => master = "idle"
        /\ port_state \in {"IDLE", "STREAMS", "TX", "PAUSE"}
    BY <1>o DEF CountKept, CountInv, OrderInv, TypeInv, TypeOK
  <1> USE <1>o DEF TableKept, Armed, Arming
  <1>1. ASSUME NEW cmd \in Commands, RpcVerify(cmd) PROVE TableKept'
    BY <1>1 DEF RpcVerify, verify_state, AllowedStates, Commands, portVars, eventVars
  <1>2. CASE start_traffic
    BY <1>2 DEF start_traffic, verify_state, AllowedStates, eventVars
  <1>3. CASE validate
    BY <1>3 DEF validate, eventVars
  <1>4. CASE add_stream
    BY <1>4 DEF add_stream, eventVars
  <1>5. CASE remove_stream
    BY <1>5 DEF remove_stream, eventVars
  <1>6. CASE remove_and_delete_all_streams
    BY <1>6 DEF remove_and_delete_all_streams, eventVars
  <1>7. CASE wait_for_event
    BY <1>7 DEF wait_for_event, portVars
  <1>7a. CASE ArmStep
    BY <1>a, <1>7a, ArmStepFacts DEF portVars
  <1>8. CASE start_traffic_send
    BY <1>8 DEF start_traffic_send, eventVars
  <1>9. CASE stop_traffic
    BY <1>9 DEF stop_traffic
  <1>10. CASE pause_traffic \/ resume_traffic \/ update_traffic \/ update_traffic_refuse
    BY <1>10 DEF pause_traffic, resume_traffic, update_traffic, update_traffic_refuse, eventVars
  <1>11. ASSUME NEW c \in Cores, handle_event(c) PROVE TableKept'
    BY <1>11 DEF handle_event, EventMatches, portVars, eventVars
  <1>12. CASE handle_event_mark
    BY <1>12 DEF handle_event_mark, portVars
  <1>12a. CASE CountStep
    BY <1>12a, CountStepFacts DEF portVars
  <1>13. CASE on_dp_event_occured
    BY <1>a, <1>13 DEF on_dp_event_occured, eventVars
  <1>14. CASE handle_event_clear
    BY <1>14 DEF handle_event_clear, portVars
  <1>15. ASSUME NEW c \in Cores, Dp(c)
         PROVE  UNCHANGED <<port_state, streams, rpc, master, event_id>>
    BY <1>15 DEF Dp, DpHandle, dp_start_traffic, DpStop, dp_pause_traffic, dp_resume_traffic,
         dp_update_traffic, DpAbort, DpTimer, DpFinish, DpReap, DpSchedulerExit, portVars, eventVars
  <1>16. CASE UNCHANGED vars
    BY <1>16 DEF vars, portVars, eventVars
  <1> QED
    BY <1>1, <1>2, <1>3, <1>4, <1>5, <1>6, <1>7, <1>7a, <1>8, <1>9, <1>10, <1>11, <1>12,
       <1>12a, <1>13, <1>14, <1>15, <1>16
    DEF Next, Rpc, RpcFinish, Master, MasterFinish, ArmStep, CountStep

\* Unless a start or stop overtook the handler, a port is IDLE exactly when its
\* table is empty: the end of a run never gives streams to a port without any,
\* although the handler sets STREAMS without a look at the table or a lock.
THEOREM TableMatchesStateHolds == Spec => []TableMatchesState
  <1>1. Init => TableKept  BY DEF Init, TableKept, Armed, Arming
  <1>3. TableKept => TableMatchesState  BY DEF TableKept, TableMatchesState
  <1> QED  BY <1>1, <1>3, CountInvHolds, TableKeptNext, PTL DEF Spec

-----------------------------------------------------------------------------
(* The timers of a core.                                                   *)

\* The timers of a core are of runs it has begun, and the one of the last run
\* is there only if that run has a duration.
TimersKnown ==
  \A c \in Cores : /\ \A id \in timers[c] : id <= dpEvent[c]
                   /\ dpEvent[c] \in timers[c] => dpDur[c]

\* Every step keeps the timers those of runs that began.
LEMMA TimersNext == OrderInv /\ TimersKnown /\ [Next]_vars => TimersKnown'
  <1> SUFFICES ASSUME OrderInv, TimersKnown, [Next]_vars PROVE TimersKnown'
    OBVIOUS
  <1>t. TypeOK /\ \A c \in Cores : toDp[c] \in Seq(Msg) /\ dpEvent[c] \in Int
                                   /\ timers[c] \in SUBSET Nat
    BY DEF OrderInv, TypeInv, TypeOK, Msg, EVENT_ID_INVALID
  <1>1. CASE UNCHANGED <<timers, dpEvent, dpDur>>
    BY <1>1 DEF TimersKnown
  <1>2. ASSUME NEW c \in Cores, dp_start_traffic(c) PROVE TimersKnown'
    <2> DEFINE m == Head(toDp[c])
    <2>1. Dequeue(c, "start")
      BY <1>2 DEF dp_start_traffic
    <2>2. toDp[c] # <<>> /\ m.type = "start" /\ m \in StartMsg
      BY <1>t, <2>1, DequeueTyped DEF Msg, CtlMsg
    <2>3. m.id \in Nat /\ m.dur \in BOOLEAN
      BY <2>2 DEF StartMsg
    <2>4. dpEvent[c] < m.id
      <3>1. StartsInOrder(toDp[c], dpEvent[c], Sent)
        BY DEF OrderInv, RunsInOrder
      <3>2. Sent \in Int
        BY <1>t DEF Sent, TypeOK, EVENT_ID_INVALID
      <3> QED BY <1>t, <2>2, <2>3, <3>1, <3>2, StartsBegin
    <2>5. /\ dpEvent' = [dpEvent EXCEPT ![c] = m.id]
          /\ dpDur' = [dpDur EXCEPT ![c] = m.dur]
          /\ timers' = [timers EXCEPT ![c] = IF m.dur THEN @ \cup {m.id} ELSE @]
      BY <1>2 DEF dp_start_traffic
    <2> HIDE DEF m
    <2> SUFFICES ASSUME NEW d \in Cores
                 PROVE  /\ \A id \in timers'[d] : id <= dpEvent'[d]
                        /\ dpEvent'[d] \in timers'[d] => dpDur'[d]
      BY DEF TimersKnown
    <2>6. CASE d # c
      BY <1>t, <2>5, <2>6 DEF TypeOK, TimersKnown
    <2>7. CASE d = c
      <3>1. dpEvent'[c] = m.id /\ dpDur'[c] = m.dur
            /\ timers'[c] = IF m.dur THEN timers[c] \cup {m.id} ELSE timers[c]
        BY <1>t, <2>5 DEF TypeOK
      <3>2. \A id \in timers[c] : id <= m.id /\ id # m.id
        BY <1>t, <2>3, <2>4 DEF TimersKnown
      <3>3. m.id \in timers'[c] => m.dur
        BY <3>1, <3>2
      <3>4. \A id \in timers'[c] : id <= m.id
        <4>1. m.id <= m.id
          BY <2>3
        <4> QED BY <3>1, <3>2, <4>1
      <3> QED BY <2>7, <3>1, <3>3, <3>4
    <2> QED BY <2>6, <2>7
  <1>3. ASSUME NEW c \in Cores, DpTimer(c) \/ DpSchedulerExit(c) PROVE TimersKnown'
    <2>1. UNCHANGED <<dpEvent, dpDur>>
      BY <1>3 DEF DpTimer, DpSchedulerExit
    <2>2. \A d \in Cores : timers'[d] \subseteq timers[d]
      BY ONLY <1>3, <1>t, ZenonT(60) DEF DpTimer, DpSchedulerExit, TypeOK
    <2> QED BY <2>1, <2>2 DEF TimersKnown
  <1>4. CASE Rpc \/ Master
    BY <1>1, <1>4, ArmStepFacts, CountStepFacts DEF ArmStep, CountStep, Rpc, RpcFinish, RpcVerify, start_traffic, validate, add_stream,
         remove_stream, remove_and_delete_all_streams, wait_for_event, start_traffic_send,
         stop_traffic, pause_traffic, resume_traffic, update_traffic, update_traffic_refuse, Master,
         MasterFinish, handle_event,
         handle_event_mark, on_dp_event_occured, handle_event_clear, dpVars
  <1>5. ASSUME NEW c \in Cores, Dp(c), ~dp_start_traffic(c), ~DpTimer(c), ~DpSchedulerExit(c)
        PROVE  UNCHANGED <<timers, dpEvent, dpDur>>
    BY <1>5 DEF Dp, DpHandle, DpStop, dp_pause_traffic, dp_resume_traffic,
         dp_update_traffic, DpAbort, DpFinish, DpReap, dpVars
  <1>6. CASE UNCHANGED vars
    BY <1>1, <1>6 DEF vars, dpVars
  <1> QED  BY <1>1, <1>2, <1>3, <1>4, <1>5, <1>6 DEF Next

\* TimersKnown holds of every reachable state.
LEMMA TimersHold == Spec => [](OrderInv /\ TimersKnown)
  <1>1. Init => TimersKnown  BY DEF Init, TimersKnown
  <1> QED  BY <1>1, TimersNext, OrderInvHolds, PTL DEF Spec

\* A run ends by a stop from the control plane, by the end of its own streams or
\* by its own duration, never by the timer of a run before it, of which several
\* may still be in the queue.
THEOREM RunEndsForCauseHolds == Spec => RunEndsForCause
  <1> DEFINE Ended(c) == dpState[c] # "IDLE" /\ dpState'[c] = "IDLE"
             Cause(c) == \/ toDp[c] # <<>> /\ Head(toDp[c]).type = "stop"
                            /\ toDp'[c] = Tail(toDp[c])
                         \/ dpProg[c] = "finite"
                         \/ dpDur[c] /\ dpEvent[c] \in timers[c]
  <1>1. OrderInv /\ TimersKnown /\ [Next]_vars => [\A c \in Cores : Ended(c) => Cause(c)]_vars
    <2> SUFFICES ASSUME OrderInv, TimersKnown, [Next]_vars, NEW c \in Cores, Ended(c)
                 PROVE  Cause(c)
      OBVIOUS
    <2>t. TypeOK
      BY DEF OrderInv, TypeInv
    <2>1. dpState' # dpState
      OBVIOUS
    <2>2. ASSUME NEW d \in Cores, DpStop(d) PROVE Cause(c)
      <3>1. StopResult(d)
        BY <2>2, StopTyped DEF DpStop, OrderInv, TypeInv
      <3>2. d = c
        BY <3>1 DEF StopResult
      <3>3. toDp[c] # <<>> /\ Head(toDp[c]).type = "stop" /\ toDp'[c] = Tail(toDp[c])
        BY <2>2, <2>t, <3>2, DequeueTyped DEF DpStop
      <3> QED BY <3>3
    <2>3. ASSUME NEW d \in Cores, DpTimer(d) PROVE Cause(c)
      <3>1. PICK id \in timers[d] : dp_stop_traffic(d, TRUE, id)
        BY <2>3 DEF DpTimer
      <3>2. d = c /\ id = dpEvent[c]
        BY <2>t, <3>1 DEF dp_stop_traffic, TypeOK
      <3> QED BY <3>2 DEF TimersKnown
    <2>4. ASSUME NEW d \in Cores, DpFinish(d) PROVE Cause(c)
      <3>1. d = c
        BY <2>4, <2>t DEF DpFinish, dp_stop_traffic, TypeOK
      <3> QED BY <2>4, <3>1 DEF DpFinish
    <2>5. ASSUME NEW d \in Cores, dp_start_traffic(d) \/ dp_pause_traffic(d) \/ dp_resume_traffic(d)
          PROVE  Cause(c)
      <3>1. dpState'[c] = dpState[c] \/ dpState'[c] # "IDLE"
        BY <2>5, <2>t DEF dp_start_traffic, dp_pause_traffic, dp_resume_traffic, TypeOK
      <3> QED BY <3>1
    <2>6. Rpc \/ Master \/ UNCHANGED vars => UNCHANGED dpState
      BY ArmStepFacts, CountStepFacts DEF ArmStep, CountStep, Rpc, RpcFinish, RpcVerify,
         start_traffic, validate, add_stream,
         remove_stream, remove_and_delete_all_streams, wait_for_event, start_traffic_send,
         stop_traffic, pause_traffic, resume_traffic, update_traffic, update_traffic_refuse, Master,
         MasterFinish, handle_event,
         handle_event_mark, on_dp_event_occured, handle_event_clear, vars, dpVars
    <2>7. \A d \in Cores : ~dp_update_traffic(d) /\ ~DpAbort(d) /\ ~DpReap(d) /\ ~DpSchedulerExit(d)
      BY <2>1 DEF dp_update_traffic, DpAbort, DpReap, DpSchedulerExit, dpVars
    <2> HIDE DEF Ended, Cause
    <2> QED BY <2>1, <2>2, <2>3, <2>4, <2>5, <2>6, <2>7 DEF Next, Dp, DpHandle
  <1> QED  BY <1>1, TimersHold, PTL DEF Spec, RunEndsForCause

-----------------------------------------------------------------------------
(* Pause and resume.                                                       *)

\* After the messages of q before position n, a core in state st is in state to,
\* to which the messages of the given types lead.
LeadsTo(q, st, n, types, to) ==
  \/ st = to /\ \A i \in DOMAIN q : i < n => q[i].type = "update"
  \/ \E i \in DOMAIN q : /\ i < n /\ q[i].type \in types
                         /\ \A j \in DOMAIN q : i < j /\ j < n => q[j].type = "update"

Transmits(q, st, n) == LeadsTo(q, st, n, {"start", "resume"}, "TRANSMITTING")
Pauses(q, st, n) == LeadsTo(q, st, n, {"pause"}, "PAUSE")

\* The run that the core is in after them does not end by itself; p and d are
\* what the core knows of its present run.
Lasts(q, p, d, n) ==
  /\ (\A i \in DOMAIN q : i < n => q[i].type # "start") => p # "finite" /\ ~d
  /\ \A i \in DOMAIN q :
       /\ i < n /\ q[i].type = "start"
       /\ \A j \in DOMAIN q : i < j /\ j < n => q[j].type # "start"
       => q[i].prog # "finite" /\ ~q[i].dur

Goes(q, st, p, d, n) == Transmits(q, st, n) /\ Lasts(q, p, d, n)
Rests(q, st, p, d, n) == Pauses(q, st, n) /\ Lasts(q, p, d, n)

\* Every pause in the ring meets a core that transmits, every resume one that
\* is paused.
RingOK(q, st, p, d) ==
  \A n \in DOMAIN q : /\ q[n].type = "pause" => Goes(q, st, p, d, n)
                      /\ q[n].type = "resume" => Rests(q, st, p, d, n)

EndOf(c) == Len(toDp[c]) + 1
GoesOn(c) == Goes(toDp[c], dpState[c], dpProg[c], dpDur[c], EndOf(c))
RestsOn(c) == Rests(toDp[c], dpState[c], dpProg[c], dpDur[c], EndOf(c))

\* What the RPC thread knows of a core once all that was sent is handled.
PortKnows(c) ==
  /\ port_state = "TX" /\ last_continues /\ ~last_duration => GoesOn(c)
  /\ port_state = "PAUSE" => RestsOn(c)
  /\ rpc = "pause" => GoesOn(c)
  /\ rpc = "resume" => RestsOn(c)

PauseInv ==
  ~dropped => /\ aborted \notin {"pause", "resume"}
              /\ \A c \in Cores : /\ RingOK(toDp[c], dpState[c], dpProg[c], dpDur[c])
                                  /\ PortKnows(c)

\* A core that stays in its state and its run.
LEMMA LeadsToSent ==
  ASSUME NEW q \in Seq(Msg), NEW m \in Msg, ~IsFull(q), NEW st, NEW types, NEW to,
         NEW n \in 1..(Len(q) + 1)
  PROVE  LeadsTo(Enqueue(q, m), st, n, types, to) <=> LeadsTo(q, st, n, types, to)
  <1> DEFINE r == Enqueue(q, m)
  <1>1. /\ Len(q) \in Nat /\ DOMAIN q = 1..Len(q) /\ DOMAIN r = 1..(Len(q) + 1)
        /\ \A i \in DOMAIN q : r[i] = q[i]
    BY EnqueueFacts
  <1> HIDE DEF r
  <1>2. \A i \in DOMAIN r : i < n => i \in DOMAIN q /\ r[i] = q[i]
    BY <1>1
  <1>3. \A i \in DOMAIN q : i \in DOMAIN r /\ r[i] = q[i]
    BY <1>1
  <1> QED  BY <1>2, <1>3 DEF LeadsTo, r

\* A message sent does not change what comes before it in the ring.
LEMMA LastsSent ==
  ASSUME NEW q \in Seq(Msg), NEW m \in Msg, ~IsFull(q), NEW p, NEW d,
         NEW n \in 1..(Len(q) + 1)
  PROVE  Lasts(Enqueue(q, m), p, d, n) <=> Lasts(q, p, d, n)
  <1> DEFINE r == Enqueue(q, m)
  <1>1. /\ Len(q) \in Nat /\ DOMAIN q = 1..Len(q) /\ DOMAIN r = 1..(Len(q) + 1)
        /\ \A i \in DOMAIN q : r[i] = q[i]
    BY EnqueueFacts
  <1> HIDE DEF r
  <1>2. \A i \in DOMAIN r : i < n => i \in DOMAIN q /\ r[i] = q[i]
    BY <1>1
  <1>3. \A i \in DOMAIN q : i \in DOMAIN r /\ r[i] = q[i]
    BY <1>1
  <1> QED  BY <1>2, <1>3 DEF Lasts, r

\* The message sent leads to a state, or leaves the one before.
LEMMA LeadsToLast ==
  ASSUME NEW q \in Seq(Msg), NEW m \in Msg, ~IsFull(q), NEW st, NEW types, NEW to
  PROVE  LET n == Len(Enqueue(q, m)) + 1 IN
         /\ m.type \in types => LeadsTo(Enqueue(q, m), st, n, types, to)
         /\ m.type = "update" /\ LeadsTo(q, st, Len(q) + 1, types, to) =>
              LeadsTo(Enqueue(q, m), st, n, types, to)
  <1> DEFINE r == Enqueue(q, m)
             n == Len(r) + 1
  <1>1. /\ Len(q) \in Nat /\ DOMAIN q = 1..Len(q) /\ DOMAIN r = 1..(Len(q) + 1)
        /\ \A i \in DOMAIN q : r[i] = q[i]
        /\ r[Len(q) + 1] = m /\ r \in Seq(Msg)
    BY EnqueueFacts
  <1> HIDE DEF r
  <1>2. n = Len(q) + 2
    BY <1>1
  <1> HIDE DEF n
  <1>3. \A i \in DOMAIN r : (i \in DOMAIN q /\ i < Len(q) + 1) \/ i = Len(q) + 1
    BY <1>1
  <1>4. \A i \in DOMAIN q : i \in DOMAIN r /\ i < Len(q) + 1 /\ i < n
    BY <1>1, <1>2
  <1>5. Len(q) + 1 \in DOMAIN r /\ Len(q) + 1 < n
    BY <1>1, <1>2
  <1>6. m.type \in types => LeadsTo(r, st, n, types, to)
    <2> HAVE m.type \in types
    <2>1. \A j \in DOMAIN r : Len(q) + 1 < j /\ j < n => r[j].type = "update"
      BY <1>1, <1>2
    <2> QED  BY <1>1, <1>5, <2>1 DEF LeadsTo
  <1>7. m.type = "update" /\ LeadsTo(q, st, Len(q) + 1, types, to) => LeadsTo(r, st, n, types, to)
    BY <1>1, <1>3, <1>4, <1>5 DEF LeadsTo
  <1> QED  BY <1>6, <1>7 DEF r, n

\* What a message sent last means for the run a core is in after it.
LEMMA LastsLast ==
  ASSUME NEW q \in Seq(Msg), NEW m \in Msg, ~IsFull(q), NEW p, NEW d
  PROVE  LET n == Len(Enqueue(q, m)) + 1 IN
         /\ m.type = "start" /\ m.prog # "finite" /\ ~m.dur => Lasts(Enqueue(q, m), p, d, n)
         /\ m.type # "start" /\ Lasts(q, p, d, Len(q) + 1) => Lasts(Enqueue(q, m), p, d, n)
  <1> DEFINE r == Enqueue(q, m)
             n == Len(r) + 1
  <1>1. /\ Len(q) \in Nat /\ DOMAIN q = 1..Len(q) /\ DOMAIN r = 1..(Len(q) + 1)
        /\ \A i \in DOMAIN q : r[i] = q[i]
        /\ r[Len(q) + 1] = m /\ r \in Seq(Msg)
    BY EnqueueFacts
  <1> HIDE DEF r
  <1>2. n = Len(q) + 2
    BY <1>1
  <1> HIDE DEF n
  <1>3. \A i \in DOMAIN r : (i \in DOMAIN q /\ i < Len(q) + 1) \/ i = Len(q) + 1
    BY <1>1
  <1>4. \A i \in DOMAIN q : i \in DOMAIN r /\ i < Len(q) + 1 /\ i < n
    BY <1>1, <1>2
  <1>5. Len(q) + 1 \in DOMAIN r /\ Len(q) + 1 < n
    BY <1>1, <1>2
  <1>6. m.type = "start" /\ m.prog # "finite" /\ ~m.dur => Lasts(r, p, d, n)
    BY <1>1, <1>3, <1>4, <1>5 DEF Lasts
  <1>7. m.type # "start" /\ Lasts(q, p, d, Len(q) + 1) => Lasts(r, p, d, n)
    <2> SUFFICES ASSUME m.type # "start", Lasts(q, p, d, Len(q) + 1) PROVE Lasts(r, p, d, n)
      OBVIOUS
    <2>1. \A i \in DOMAIN r : r[i].type = "start" => i \in DOMAIN q /\ r[i] = q[i]
      BY <1>1, <1>3
    <2>2. (\A i \in DOMAIN r : i < n => r[i].type # "start") => p # "finite" /\ ~d
      BY <1>1, <1>4 DEF Lasts
    <2> QED  BY <1>1, <1>4, <2>1, <2>2 DEF Lasts
  <1> QED  BY <1>6, <1>7 DEF r, n

\* What sending a message does to a ring in order, and to what the port knows.
LEMMA SendKeepsRing ==
  ASSUME NEW q \in Seq(Msg), NEW m \in Msg, ~IsFull(q), NEW st, NEW p, NEW d,
         RingOK(q, st, p, d),
         m.type = "pause" => Goes(q, st, p, d, Len(q) + 1),
         m.type = "resume" => Rests(q, st, p, d, Len(q) + 1)
  PROVE  LET r == Enqueue(q, m)
             n == Len(r) + 1
         IN  /\ RingOK(r, st, p, d)
             /\ m.type = "start" /\ m.prog # "finite" /\ ~m.dur => Goes(r, st, p, d, n)
             /\ m.type = "pause" => Rests(r, st, p, d, n)
             /\ m.type = "resume" => Goes(r, st, p, d, n)
             /\ m.type = "update" /\ Goes(q, st, p, d, Len(q) + 1) => Goes(r, st, p, d, n)
             /\ m.type = "update" /\ Rests(q, st, p, d, Len(q) + 1) => Rests(r, st, p, d, n)
  <1> DEFINE r == Enqueue(q, m)
             n == Len(r) + 1
  <1>1. /\ Len(q) \in Nat /\ DOMAIN q = 1..Len(q) /\ DOMAIN r = 1..(Len(q) + 1)
        /\ \A i \in DOMAIN q : r[i] = q[i]
        /\ r[Len(q) + 1] = m
    BY EnqueueFacts
  <1>2. ASSUME NEW x \in 1..(Len(q) + 1)
        PROVE  /\ Goes(r, st, p, d, x) <=> Goes(q, st, p, d, x)
               /\ Rests(r, st, p, d, x) <=> Rests(q, st, p, d, x)
    BY LeadsToSent, LastsSent DEF Goes, Rests, Transmits, Pauses
  <1>3. RingOK(r, st, p, d)
    <2> HIDE DEF r
    <2> SUFFICES ASSUME NEW x \in DOMAIN r
                 PROVE  /\ r[x].type = "pause" => Goes(r, st, p, d, x)
                        /\ r[x].type = "resume" => Rests(r, st, p, d, x)
      BY DEF RingOK
    <2>1. x \in 1..(Len(q) + 1) /\ (x \in DOMAIN q \/ x = Len(q) + 1)
      BY <1>1
    <2>2. CASE x \in DOMAIN q
      BY <1>1, <1>2, <2>1, <2>2 DEF RingOK
    <2>3. CASE x = Len(q) + 1
      BY <1>1, <1>2, <2>1, <2>3
    <2> QED  BY <2>1, <2>2, <2>3
  <1>4. /\ m.type \in {"start", "resume"} => Transmits(r, st, n)
        /\ m.type \in {"pause"} => Pauses(r, st, n)
        /\ m.type = "update" /\ Transmits(q, st, Len(q) + 1) => Transmits(r, st, n)
        /\ m.type = "update" /\ Pauses(q, st, Len(q) + 1) => Pauses(r, st, n)
    BY LeadsToLast DEF Transmits, Pauses
  <1>5. /\ m.type = "start" /\ m.prog # "finite" /\ ~m.dur => Lasts(r, p, d, n)
        /\ m.type # "start" /\ Lasts(q, p, d, Len(q) + 1) => Lasts(r, p, d, n)
    BY LastsLast
  <1> HIDE DEF r, n
  <1>6. /\ m.type = "start" /\ m.prog # "finite" /\ ~m.dur => Goes(r, st, p, d, n)
        /\ m.type = "pause" => Rests(r, st, p, d, n)
        /\ m.type = "resume" => Goes(r, st, p, d, n)
        /\ m.type = "update" /\ Goes(q, st, p, d, Len(q) + 1) => Goes(r, st, p, d, n)
        /\ m.type = "update" /\ Rests(q, st, p, d, Len(q) + 1) => Rests(r, st, p, d, n)
    BY <1>4, <1>5 DEF Goes, Rests
  <1> QED  BY <1>3, <1>6 DEF r, n

-----------------------------------------------------------------------------
(* Handling a message.                                                     *)

\* The state and the run of a core after it has handled message h.
Handled(h, st, p, d, st2, p2, d2) ==
  /\ h.type \in {"start", "resume"} => st2 = "TRANSMITTING"
  /\ h.type = "pause" => st2 = "PAUSE"
  /\ h.type = "update" => st2 = st
  /\ h.type = "start" => p2 = h.prog /\ d2 = h.dur
  /\ h.type # "start" => p2 = p /\ d2 = d

\* The state a core comes to, told from the ring without its first message.
LEMMA LeadsToTail ==
  ASSUME NEW q \in Seq(Msg), q # <<>>, NEW st, NEW st2, NEW types, NEW to,
         NEW n \in 2..(Len(q) + 1), LeadsTo(q, st, n, types, to),
         "update" \notin types,
         Head(q).type \in types => st2 = to, Head(q).type = "update" => st2 = st
  PROVE  LeadsTo(Tail(q), st2, n - 1, types, to)
  <1> DEFINE t == Tail(q)
  <1>1. /\ Len(q) \in Nat /\ Len(q) >= 1 /\ Head(q) = q[1]
        /\ DOMAIN q = 1..Len(q) /\ DOMAIN t = 1..(Len(q) - 1)
        /\ \A i \in DOMAIN t : t[i] = q[i + 1]
    BY DequeueFacts
  <1> HIDE DEF t
  <1>2. \A i \in DOMAIN t : i + 1 \in DOMAIN q /\ 1 < i + 1 /\ (i < n - 1 => i + 1 < n)
    BY <1>1
  <1>3. 1 \in DOMAIN q /\ 1 < n
    BY <1>1
  <1>4. CASE st = to /\ \A i \in DOMAIN q : i < n => q[i].type = "update"
    <2>1. st2 = to
      BY <1>1, <1>3, <1>4
    <2>2. \A i \in DOMAIN t : i < n - 1 => t[i].type = "update"
      BY <1>1, <1>2, <1>4
    <2> QED  BY <2>1, <2>2 DEF LeadsTo, t
  <1>5. CASE \E i \in DOMAIN q :
               /\ i < n /\ q[i].type \in types
               /\ \A j \in DOMAIN q : i < j /\ j < n => q[j].type = "update"
    <2>1. PICK i \in DOMAIN q :
            /\ i < n /\ q[i].type \in types
            /\ \A j \in DOMAIN q : i < j /\ j < n => q[j].type = "update"
      BY <1>5
    <2>2. CASE i = 1
      <3>1. st2 = to
        BY <1>1, <2>1, <2>2
      <3>2. \A j \in DOMAIN t : j < n - 1 => t[j].type = "update"
        BY <1>1, <1>2, <2>1, <2>2
      <3> QED  BY <3>1, <3>2 DEF LeadsTo, t
    <2>3. CASE i # 1
      <3>1. i - 1 \in DOMAIN t /\ t[i - 1] = q[i] /\ i - 1 < n - 1
        BY <1>1, <2>1, <2>3
      <3>2. \A j \in DOMAIN t : i - 1 < j /\ j < n - 1 => t[j].type = "update"
        <4> TAKE j \in DOMAIN t
        <4> HAVE i - 1 < j /\ j < n - 1
        <4>1. j + 1 \in DOMAIN q /\ i < j + 1 /\ j + 1 < n
          BY <1>1, <1>2
        <4> QED  BY <1>1, <2>1, <4>1
      <3> QED  BY <2>1, <3>1, <3>2 DEF LeadsTo, t
    <2> QED  BY <2>2, <2>3
  <1> QED  BY <1>4, <1>5 DEF LeadsTo

\* The run a core is in, told from the ring without its first message.
LEMMA LastsTail ==
  ASSUME NEW q \in Seq(Msg), q # <<>>, NEW p, NEW d, NEW p2, NEW d2,
         NEW n \in 2..(Len(q) + 1), Lasts(q, p, d, n),
         Head(q).type = "start" => p2 = Head(q).prog /\ d2 = Head(q).dur,
         Head(q).type # "start" => p2 = p /\ d2 = d
  PROVE  Lasts(Tail(q), p2, d2, n - 1)
  <1> DEFINE t == Tail(q)
  <1>1. /\ Len(q) \in Nat /\ Len(q) >= 1 /\ Head(q) = q[1]
        /\ DOMAIN q = 1..Len(q) /\ DOMAIN t = 1..(Len(q) - 1)
        /\ \A i \in DOMAIN t : t[i] = q[i + 1]
    BY DequeueFacts
  <1> HIDE DEF t
  <1>2. \A i \in DOMAIN t : i + 1 \in DOMAIN q /\ t[i] = q[i + 1] /\ (i < n - 1 => i + 1 < n)
    BY <1>1
  <1>3. 1 \in DOMAIN q /\ 1 < n
    BY <1>1
  <1>4. \A j \in DOMAIN q : j = 1 \/ (j - 1 \in DOMAIN t /\ t[j - 1] = q[j] /\ (j < n => j - 1 < n - 1))
    BY <1>1
  <1>5. (\A i \in DOMAIN t : i < n - 1 => t[i].type # "start") => p2 # "finite" /\ ~d2
    <2> HAVE \A i \in DOMAIN t : i < n - 1 => t[i].type # "start"
    <2>1. \A j \in DOMAIN q : 1 < j /\ j < n => q[j].type # "start"
      BY <1>1, <1>4
    <2>2. CASE Head(q).type = "start"
      BY <1>1, <1>3, <2>1, <2>2 DEF Lasts
    <2>3. CASE Head(q).type # "start"
      <3>1. \A j \in DOMAIN q : j < n => q[j].type # "start"
        BY <1>1, <2>1, <2>3
      <3> QED  BY <2>3, <3>1 DEF Lasts
    <2> QED  BY <2>2, <2>3
  <1>6. ASSUME NEW i \in DOMAIN t, i < n - 1, t[i].type = "start",
               \A j \in DOMAIN t : i < j /\ j < n - 1 => t[j].type # "start"
        PROVE  t[i].prog # "finite" /\ ~t[i].dur
    <2>1. i + 1 \in DOMAIN q /\ i + 1 < n /\ t[i] = q[i + 1]
      BY <1>2, <1>6
    <2>2. \A j \in DOMAIN q : i + 1 < j /\ j < n => q[j].type # "start"
      <3> TAKE j \in DOMAIN q
      <3> HAVE i + 1 < j /\ j < n
      <3>1. j # 1 /\ i < j - 1
        BY <1>1
      <3> QED  BY <1>4, <1>6, <3>1
    <2> QED  BY <1>6, <2>1, <2>2 DEF Lasts
  <1> QED  BY <1>5, <1>6 DEF Lasts, t

\* Handling the first message keeps what is said of the rest of the ring.
LEMMA HandleKeepsRing ==
  ASSUME NEW q \in Seq(Msg), q # <<>>, NEW st, NEW p, NEW d, NEW st2, NEW p2, NEW d2,
         Handled(Head(q), st, p, d, st2, p2, d2)
  PROVE  /\ \A n \in 2..(Len(q) + 1) :
              /\ Goes(q, st, p, d, n) => Goes(Tail(q), st2, p2, d2, n - 1)
              /\ Rests(q, st, p, d, n) => Rests(Tail(q), st2, p2, d2, n - 1)
         /\ RingOK(q, st, p, d) => RingOK(Tail(q), st2, p2, d2)
         /\ Len(q) + 1 \in 2..(Len(q) + 1) /\ Len(Tail(q)) + 1 = (Len(q) + 1) - 1
  <1>1. ASSUME NEW n \in 2..(Len(q) + 1)
        PROVE  /\ Transmits(q, st, n) => Transmits(Tail(q), st2, n - 1)
               /\ Pauses(q, st, n) => Pauses(Tail(q), st2, n - 1)
               /\ Lasts(q, p, d, n) => Lasts(Tail(q), p2, d2, n - 1)
    BY LeadsToTail, LastsTail DEF Transmits, Pauses, Handled
  <1>2. ASSUME NEW n \in 2..(Len(q) + 1)
        PROVE  /\ Goes(q, st, p, d, n) => Goes(Tail(q), st2, p2, d2, n - 1)
               /\ Rests(q, st, p, d, n) => Rests(Tail(q), st2, p2, d2, n - 1)
    BY <1>1 DEF Goes, Rests
  <1>3. /\ Len(q) \in Nat /\ Len(q) >= 1 /\ DOMAIN q = 1..Len(q)
        /\ Len(Tail(q)) = Len(q) - 1
        /\ DOMAIN Tail(q) = 1..(Len(q) - 1)
        /\ \A i \in DOMAIN Tail(q) : Tail(q)[i] = q[i + 1]
    BY DequeueFacts
  <1>4. RingOK(q, st, p, d) => RingOK(Tail(q), st2, p2, d2)
    <2> SUFFICES ASSUME RingOK(q, st, p, d), NEW x \in DOMAIN Tail(q)
                 PROVE  /\ Tail(q)[x].type = "pause" => Goes(Tail(q), st2, p2, d2, x)
                        /\ Tail(q)[x].type = "resume" => Rests(Tail(q), st2, p2, d2, x)
      BY DEF RingOK
    <2>1. x + 1 \in DOMAIN q /\ x + 1 \in 2..(Len(q) + 1) /\ (x + 1) - 1 = x
          /\ Tail(q)[x] = q[x + 1]
      BY <1>3
    <2>2. /\ q[x + 1].type = "pause" => Goes(q, st, p, d, x + 1)
          /\ q[x + 1].type = "resume" => Rests(q, st, p, d, x + 1)
      BY <2>1 DEF RingOK
    <2>3. /\ Goes(q, st, p, d, x + 1) => Goes(Tail(q), st2, p2, d2, x)
          /\ Rests(q, st, p, d, x + 1) => Rests(Tail(q), st2, p2, d2, x)
      BY <1>2, <2>1
    <2> QED  BY <2>1, <2>2, <2>3
  <1>5. Len(q) + 1 \in 2..(Len(q) + 1) /\ Len(Tail(q)) + 1 = (Len(q) + 1) - 1
    BY <1>3
  <1> QED  BY <1>2, <1>4, <1>5

\* A run that can end by itself is not the one a pause or a resume is meant for.
LEMMA EndKeepsRing ==
  ASSUME NEW q \in Seq(Msg), NEW st, NEW p, NEW d, p = "finite" \/ d
  PROVE  /\ \A n : Goes(q, st, p, d, n) => Goes(q, "IDLE", p, d, n)
         /\ \A n : Rests(q, st, p, d, n) => Rests(q, "IDLE", p, d, n)
         /\ RingOK(q, st, p, d) => RingOK(q, "IDLE", p, d)
  <1>1. ASSUME NEW n, NEW types, NEW to, LeadsTo(q, st, n, types, to), Lasts(q, p, d, n)
        PROVE  LeadsTo(q, "IDLE", n, types, to)
    <2>1. ~\A i \in DOMAIN q : i < n => q[i].type = "update"
      BY <1>1 DEF Lasts
    <2> QED  BY <1>1, <2>1 DEF LeadsTo
  <1>2. /\ \A n : Goes(q, st, p, d, n) => Goes(q, "IDLE", p, d, n)
        /\ \A n : Rests(q, st, p, d, n) => Rests(q, "IDLE", p, d, n)
    BY <1>1 DEF Goes, Rests, Transmits, Pauses
  <1> QED  BY <1>2 DEF RingOK

-----------------------------------------------------------------------------
(* Pause and resume, step by step.                                         *)

\* What PauseInv says of core c, and what it depends on there.
PausesAt(c) == RingOK(toDp[c], dpState[c], dpProg[c], dpDur[c]) /\ PortKnows(c)

SameCore(c) ==
  /\ toDp'[c] = toDp[c] /\ dpState'[c] = dpState[c]
  /\ dpProg'[c] = dpProg[c] /\ dpDur'[c] = dpDur[c]

SamePort == UNCHANGED <<port_state, last_continues, last_duration, rpc>>

\* Every step keeps PauseInv.
LEMMA PauseInvNext == OrderInv /\ TimersKnown /\ PauseInv /\ [Next]_vars => PauseInv'
  <1> SUFFICES ASSUME OrderInv, TimersKnown, PauseInv, [Next]_vars, ~dropped' PROVE PauseInv'
    BY DEF PauseInv
  <1>a. ~dropped /\ TypeInv /\ TypeOK
    BY DroppedForever DEF OrderInv, TypeInv
  <1>b. aborted \notin {"pause", "resume"} /\ \A c \in Cores : PausesAt(c)
    BY <1>a DEF PauseInv, PausesAt
  <1>t. /\ toDp \in [Cores -> Seq(Msg)]
        /\ dpState \in [Cores -> {"IDLE", "TRANSMITTING", "PAUSE"}]
        /\ dpProg \in [Cores -> Progs] /\ dpDur \in [Cores -> BOOLEAN]
        /\ last_continues \in BOOLEAN /\ last_duration \in BOOLEAN
    BY <1>a DEF TypeOK, Msg
  <1>s. ASSUME aborted' = aborted, \A c \in Cores : PausesAt(c)' PROVE PauseInv'
    BY <1>s, <1>b DEF PauseInv, PausesAt
  <1>f. ASSUME NEW c \in Cores, SameCore(c), SamePort PROVE PausesAt(c)'
    BY <1>f, <1>b DEF SameCore, SamePort, PausesAt, PortKnows, GoesOn, RestsOn, EndOf
  \* The RPC thread knows less than before of cores that are as they were.
  <1>g. ASSUME UNCHANGED <<toDp, dpState, dpProg, dpDur, last_continues, last_duration>>,
               port_state' = port_state \/ port_state' \in {"IDLE", "STREAMS"},
               rpc' = rpc \/ rpc' \notin {"pause", "resume"}
        PROVE  \A c \in Cores : PausesAt(c)'
    BY <1>g, <1>b DEF PausesAt, PortKnows, GoesOn, RestsOn, EndOf
  <1>1. ASSUME NEW cmd \in Commands, RpcVerify(cmd) PROVE PauseInv'
    <2>1. UNCHANGED <<toDp, dpState, dpProg, dpDur, last_continues, last_duration, port_state>>
          /\ rpc' = cmd /\ aborted' = aborted
      BY <1>1 DEF RpcVerify, portVars, ringVars, dpVars
    <2>2. /\ cmd = "pause" => port_state = "TX" /\ last_continues /\ ~last_duration
          /\ cmd = "resume" => port_state = "PAUSE"
      BY <1>1 DEF RpcVerify, verify_state, AllowedStates
    <2>3. ASSUME NEW c \in Cores PROVE PausesAt(c)'
      BY <2>1, <2>2, <1>b DEF PausesAt, PortKnows, GoesOn, RestsOn, EndOf
    <2> QED  BY <1>s, <2>1, <2>3
  <1>2. CASE start_traffic
    <2>1. \A c \in Cores : PausesAt(c)'
      BY <1>2, <1>g DEF start_traffic, ringVars, dpVars
    <2>2. aborted' \notin {"pause", "resume"}
      BY <1>2, <1>b DEF start_traffic
    <2> QED  BY <2>1, <2>2 DEF PauseInv, PausesAt
  <1>3. CASE validate
    BY <1>3, <1>g, <1>s DEF validate, ringVars, dpVars
  <1>4. CASE add_stream \/ remove_stream \/ remove_and_delete_all_streams
    BY <1>4, <1>g, <1>s DEF add_stream, remove_stream, remove_and_delete_all_streams,
       ringVars, dpVars
  <1>5. CASE wait_for_event
    BY <1>5, <1>g, <1>s DEF wait_for_event, portVars, ringVars, dpVars
  <1>5a. CASE ArmStep \/ CountStep
    <2>1. UNCHANGED <<portVars, ringVars, dpVars, aborted>> /\ (rpc' = rpc \/ rpc' \in Armed)
      BY <1>5a, ArmStepFacts, CountStepFacts
    <2> QED  BY <1>g, <1>s, <2>1 DEF portVars, ringVars, dpVars, Armed, Arming
  <1>5b. CASE update_traffic_refuse
    BY <1>5b, <1>g, <1>s DEF update_traffic_refuse, ringVars, dpVars
  <1>6. ASSUME NEW m \in Msg, send_message_to_all_dp(m),
               UNCHANGED <<dpState, dpProg, dpDur>>, NEW c \in Cores,
               m.type = "pause" => GoesOn(c), m.type = "resume" => RestsOn(c)
        PROVE  /\ RingOK(toDp[c], dpState[c], dpProg[c], dpDur[c])'
               /\ m.type = "start" /\ m.prog # "finite" /\ ~m.dur => GoesOn(c)'
               /\ m.type = "pause" => RestsOn(c)'
               /\ m.type = "resume" => GoesOn(c)'
               /\ m.type = "update" /\ GoesOn(c) => GoesOn(c)'
               /\ m.type = "update" /\ RestsOn(c) => RestsOn(c)'
    <2>1. toDp'[c] = Enqueue(toDp[c], m) /\ ~IsFull(toDp[c])
      BY <1>6, <1>a, SendTyped
    <2>2. RingOK(toDp[c], dpState[c], dpProg[c], dpDur[c]) /\ toDp[c] \in Seq(Msg)
      BY <1>b, <1>t DEF PausesAt
    <2> DEFINE q == toDp[c]
               r == Enqueue(q, m)
               n == Len(r) + 1
               st == dpState[c]
               p == dpProg[c]
               d == dpDur[c]
    <2>3. /\ RingOK(r, st, p, d)
          /\ m.type = "start" /\ m.prog # "finite" /\ ~m.dur => Goes(r, st, p, d, n)
          /\ m.type = "pause" => Rests(r, st, p, d, n)
          /\ m.type = "resume" => Goes(r, st, p, d, n)
          /\ m.type = "update" /\ Goes(q, st, p, d, Len(q) + 1) => Goes(r, st, p, d, n)
          /\ m.type = "update" /\ Rests(q, st, p, d, Len(q) + 1) => Rests(r, st, p, d, n)
      BY <1>6, <2>1, <2>2, SendKeepsRing DEF GoesOn, RestsOn, EndOf
    <2>4. /\ GoesOn(c)' <=> Goes(r, st, p, d, n)
          /\ RestsOn(c)' <=> Rests(r, st, p, d, n)
          /\ GoesOn(c) <=> Goes(q, st, p, d, Len(q) + 1)
          /\ RestsOn(c) <=> Rests(q, st, p, d, Len(q) + 1)
          /\ RingOK(toDp[c], dpState[c], dpProg[c], dpDur[c])' <=> RingOK(r, st, p, d)
      BY <1>6, <2>1 DEF GoesOn, RestsOn, EndOf
    <2> HIDE DEF q, r, n, st, p, d
    <2> QED  BY <2>3, <2>4
  <1>7. CASE start_traffic_send
    <2>1. PICK dur \in BOOLEAN :
            /\ last_duration' = dur
            /\ send_message_to_all_dp([type |-> "start", id |-> counter,
                                       prog |-> Program(streams), dur |-> dur])
      BY <1>7 DEF start_traffic_send
    <2> DEFINE m == [type |-> "start", id |-> counter, prog |-> Program(streams), dur |-> dur]
    <2>2. Program(streams) \in Progs /\ counter \in Nat
      BY <1>7, <1>a DEF start_traffic_send, TypeInv, TypeOK, EventKnown, Armed, Program,
           Progs, EVENT_ID_INVALID
    <2>3. m \in Msg /\ m.type = "start" /\ m.prog = Program(streams) /\ m.dur = dur
      BY <2>2 DEF StartMsg, Msg
    <2>4. AllContinues(streams) => Program(streams) # "finite"
      BY DEF AllContinues, Program, Enabled
    <2>5. UNCHANGED <<dpState, dpProg, dpDur, aborted>> /\ port_state' = "TX" /\ rpc' = "idle"
          /\ last_continues' = AllContinues(streams)
      BY <1>7 DEF start_traffic_send, dpVars
    <2> HIDE DEF m
    <2>6. send_message_to_all_dp(m)
      BY <2>1 DEF m
    <2>7. ASSUME NEW c \in Cores PROVE PausesAt(c)'
      <3>1. /\ RingOK(toDp[c], dpState[c], dpProg[c], dpDur[c])'
            /\ m.type = "start" /\ m.prog # "finite" /\ ~m.dur => GoesOn(c)'
        BY <1>6, <2>3, <2>5, <2>6
      <3>2. last_continues' /\ ~last_duration' => GoesOn(c)'
        BY <2>1, <2>3, <2>4, <2>5, <3>1
      <3> QED  BY <2>5, <3>1, <3>2 DEF PausesAt, PortKnows
    <2> QED  BY <1>s, <2>5, <2>7
  <1>8. CASE stop_traffic \/ pause_traffic \/ resume_traffic \/ update_traffic
    <2>1. PICK type \in {"stop", "pause", "resume", "update"} :
            /\ send_message_to_all_dp([type |-> type])
            /\ rpc = type
            /\ type = "stop" => port_state' = "STREAMS"
            /\ type = "pause" => port_state' = "PAUSE"
            /\ type = "resume" => port_state' = "TX"
            /\ type = "update" => port_state' = port_state
      BY <1>8 DEF stop_traffic, pause_traffic, resume_traffic, update_traffic
    <2>2. UNCHANGED <<dpState, dpProg, dpDur, aborted, last_continues, last_duration>>
          /\ rpc' = "idle"
      BY <1>8 DEF stop_traffic, pause_traffic, resume_traffic, update_traffic, dpVars
    <2> DEFINE m == [type |-> type]
    <2>3. m \in Msg /\ m.type = type
      BY DEF Msg, CtlMsg
    <2> HIDE DEF m
    <2>4. send_message_to_all_dp(m)
      BY <2>1 DEF m
    <2>5. ASSUME NEW c \in Cores PROVE PausesAt(c)'
      <3>1. /\ port_state = "TX" /\ last_continues /\ ~last_duration => GoesOn(c)
            /\ port_state = "PAUSE" => RestsOn(c)
            /\ rpc = "pause" => GoesOn(c)
            /\ rpc = "resume" => RestsOn(c)
        BY <1>b DEF PausesAt, PortKnows
      <3>2. /\ RingOK(toDp[c], dpState[c], dpProg[c], dpDur[c])'
            /\ m.type = "pause" => RestsOn(c)'
            /\ m.type = "resume" => GoesOn(c)'
            /\ m.type = "update" /\ GoesOn(c) => GoesOn(c)'
            /\ m.type = "update" /\ RestsOn(c) => RestsOn(c)'
        BY <1>6, <2>1, <2>2, <2>3, <2>4, <3>1
      <3>3. PortKnows(c)'
        BY <2>1, <2>2, <2>3, <3>1, <3>2 DEF PortKnows
      <3> QED  BY <3>2, <3>3 DEF PausesAt
    <2> QED  BY <1>s, <2>2, <2>5
  <1>9. ASSUME NEW c \in Cores, handle_event(c) PROVE PauseInv'
    BY <1>9, <1>g, <1>s DEF handle_event, portVars, dpVars
  <1>10. CASE handle_event_mark \/ handle_event_clear
    BY <1>10, <1>g, <1>s DEF handle_event_mark, handle_event_clear, portVars, ringVars, dpVars
  <1>11. CASE on_dp_event_occured
    BY <1>11, <1>g, <1>s DEF on_dp_event_occured, ringVars, dpVars
  <1>12. ASSUME NEW c \in Cores, NEW type, Dequeue(c, type), SamePort, aborted' = aborted,
                \A e \in Cores : e # c => SameCore(e),
                Handled(Head(toDp[c]), dpState[c], dpProg[c], dpDur[c],
                        dpState'[c], dpProg'[c], dpDur'[c])
         PROVE  PauseInv'
    <2> DEFINE q == toDp[c]
               n == Len(q) + 1
               k == Len(Tail(q)) + 1
    <2>1. q \in Seq(Msg) /\ q # <<>> /\ toDp'[c] = Tail(q)
      BY <1>12, <1>a, DequeueTyped
    <2>2. /\ Goes(q, dpState[c], dpProg[c], dpDur[c], n) =>
               Goes(Tail(q), dpState'[c], dpProg'[c], dpDur'[c], k)
          /\ Rests(q, dpState[c], dpProg[c], dpDur[c], n) =>
               Rests(Tail(q), dpState'[c], dpProg'[c], dpDur'[c], k)
          /\ RingOK(q, dpState[c], dpProg[c], dpDur[c]) =>
               RingOK(Tail(q), dpState'[c], dpProg'[c], dpDur'[c])
      <3>1. Len(q) + 1 \in 2..(Len(q) + 1) /\ k = (Len(q) + 1) - 1
        BY <1>12, <2>1, HandleKeepsRing
      <3> HIDE DEF k, q
      <3> QED BY <1>12, <2>1, <3>1, HandleKeepsRing DEF q
    <2>3. /\ GoesOn(c) => GoesOn(c)'
          /\ RestsOn(c) => RestsOn(c)'
          /\ RingOK(toDp[c], dpState[c], dpProg[c], dpDur[c]) =>
               RingOK(toDp[c], dpState[c], dpProg[c], dpDur[c])'
      BY <2>1, <2>2 DEF GoesOn, RestsOn, EndOf
    <2>4. PausesAt(c)'
      BY <1>12, <1>b, <2>3 DEF PausesAt, PortKnows, SamePort
    <2> QED  BY <1>12, <1>f, <1>s, <2>4
  <1>13. ASSUME NEW c \in Cores, dp_start_traffic(c) PROVE PauseInv'
    <2>1. Dequeue(c, "start") /\ aborted' = aborted /\ SamePort
      BY <1>13 DEF dp_start_traffic, portVars, SamePort
    <2>2. Head(toDp[c]).type = "start" /\ \A e \in Cores : e # c => toDp'[e] = toDp[e]
      BY <1>a, <2>1, DequeueTyped
    <2>3. /\ dpState'[c] = "TRANSMITTING" /\ dpProg'[c] = Head(toDp[c]).prog
          /\ dpDur'[c] = Head(toDp[c]).dur
          /\ \A e \in Cores : e # c => /\ dpState'[e] = dpState[e] /\ dpProg'[e] = dpProg[e]
                                       /\ dpDur'[e] = dpDur[e]
      BY <1>13, <1>t DEF dp_start_traffic
    <2> QED  BY <1>12, <2>1, <2>2, <2>3 DEF SameCore, Handled
  <1>14. ASSUME NEW c \in Cores, dp_pause_traffic(c) \/ dp_resume_traffic(c) \/ dp_update_traffic(c)
         PROVE  PauseInv'
    <2>1. aborted' = aborted /\ SamePort /\ UNCHANGED <<dpProg, dpDur>>
      BY <1>14 DEF dp_pause_traffic, dp_resume_traffic, dp_update_traffic, portVars, dpVars, SamePort
    <2>2. PICK type \in {"pause", "resume", "update"} :
            /\ Dequeue(c, type)
            /\ type = "pause" => dpState'[c] = "PAUSE"
            /\ type = "resume" => dpState'[c] = "TRANSMITTING"
            /\ type = "update" => dpState'[c] = dpState[c]
            /\ \A e \in Cores : e # c => dpState'[e] = dpState[e]
      BY <1>14, <1>t DEF dp_pause_traffic, dp_resume_traffic, dp_update_traffic, dpVars
    <2>3. Head(toDp[c]).type = type /\ \A e \in Cores : e # c => toDp'[e] = toDp[e]
      BY <1>a, <2>2, DequeueTyped
    <2> QED  BY <1>12, <2>1, <2>2, <2>3 DEF SameCore, Handled
  <1>15. ASSUME NEW c \in Cores, DpStop(c) PROVE PauseInv'
    <2>1. Dequeue(c, "stop") /\ aborted' = aborted /\ SamePort /\ UNCHANGED <<dpProg, dpDur>>
          /\ StopResult(c)
      BY <1>15, <1>a, StopTyped DEF DpStop, TypeInv, portVars, SamePort
    <2>2. Head(toDp[c]).type = "stop" /\ \A e \in Cores : e # c => toDp'[e] = toDp[e]
      BY <1>a, <2>1, DequeueTyped
    <2> QED  BY <1>12, <2>1, <2>2 DEF SameCore, Handled, StopResult
  <1>16. ASSUME NEW c \in Cores, DpTimer(c) \/ DpFinish(c) PROVE PauseInv'
    <2>1. aborted' = aborted /\ SamePort /\ UNCHANGED <<toDp, dpProg, dpDur>> /\ StopResult(c)
      BY <1>16, <1>a, StopTyped DEF DpTimer, DpFinish, TypeInv, portVars, SamePort
    <2>2. \A e \in Cores : e # c => SameCore(e)
      BY <2>1 DEF StopResult, SameCore
    <2>3. CASE dpState'[c] = dpState[c]
      BY <1>f, <1>s, <2>1, <2>2, <2>3 DEF SameCore
    <2>4. CASE dpState'[c] # dpState[c]
      <3>1. dpState'[c] = "IDLE"
        BY <2>1, <2>4 DEF StopResult
      <3>2. dpProg[c] = "finite" \/ dpDur[c]
        <4>1. CASE DpFinish(c)
          BY <4>1 DEF DpFinish
        <4>2. CASE DpTimer(c)
          <5>1. PICK id \in timers[c] : dp_stop_traffic(c, TRUE, id)
            BY <4>2 DEF DpTimer
          <5>2. id = dpEvent[c]
            BY <2>4, <5>1 DEF dp_stop_traffic
          <5> QED  BY <5>2 DEF TimersKnown
        <4> QED  BY <1>16, <4>1, <4>2
      <3> DEFINE q == toDp[c]
                 st == dpState[c]
                 p == dpProg[c]
                 d == dpDur[c]
      <3>3. /\ \A n : Goes(q, st, p, d, n) => Goes(q, "IDLE", p, d, n)
            /\ \A n : Rests(q, st, p, d, n) => Rests(q, "IDLE", p, d, n)
            /\ RingOK(q, st, p, d) => RingOK(q, "IDLE", p, d)
        BY <1>t, <3>2, EndKeepsRing
      <3>4. /\ GoesOn(c) => GoesOn(c)'
            /\ RestsOn(c) => RestsOn(c)'
            /\ RingOK(toDp[c], dpState[c], dpProg[c], dpDur[c]) =>
                 RingOK(toDp[c], dpState[c], dpProg[c], dpDur[c])'
        BY <2>1, <3>1, <3>3 DEF GoesOn, RestsOn, EndOf
      <3>5. PausesAt(c)'
        BY <1>b, <2>1, <3>4 DEF PausesAt, PortKnows, SamePort
      <3> QED  BY <1>f, <1>s, <2>1, <2>2, <3>5
    <2> QED  BY <2>3, <2>4
  \* The assert of a pause or a resume holds at the head of the ring.
  <1>17. ASSUME NEW c \in Cores, DpAbort(c) PROVE PauseInv'
    <2>1. UNCHANGED <<toDp, dpState, dpProg, dpDur>> /\ SamePort
          /\ toDp[c] # <<>> /\ ~AssertHolds(c, Head(toDp[c]).type) /\ aborted' = Head(toDp[c]).type
      BY <1>17 DEF DpAbort, portVars, ringVars, dpVars, SamePort
    <2>2. 1 \in DOMAIN toDp[c] /\ Head(toDp[c]) = toDp[c][1] /\ toDp[c] \in Seq(Msg)
          /\ DOMAIN toDp[c] = 1..Len(toDp[c])
      BY <1>t, <2>1, DequeueFacts
    <2>3. /\ toDp[c][1].type = "pause" => Transmits(toDp[c], dpState[c], 1)
          /\ toDp[c][1].type = "resume" => Pauses(toDp[c], dpState[c], 1)
      BY <1>b, <2>2 DEF PausesAt, RingOK, Goes, Rests
    <2>4. /\ Transmits(toDp[c], dpState[c], 1) => dpState[c] = "TRANSMITTING"
          /\ Pauses(toDp[c], dpState[c], 1) => dpState[c] = "PAUSE"
      BY <2>2 DEF Transmits, Pauses, LeadsTo
    <2>5. aborted' \notin {"pause", "resume"}
      BY <2>1, <2>2, <2>3, <2>4 DEF AssertHolds
    <2>6. \A e \in Cores : PausesAt(e)'
      BY <1>f, <2>1 DEF SameCore
    <2> QED  BY <2>5, <2>6 DEF PauseInv, PausesAt
  <1>18. ASSUME NEW c \in Cores, DpReap(c) \/ DpSchedulerExit(c) PROVE PauseInv'
    BY <1>18, <1>g, <1>s DEF DpReap, DpSchedulerExit, portVars, ringVars
  <1>19. CASE UNCHANGED vars
    BY <1>19, <1>g, <1>s DEF vars, portVars, ringVars, dpVars
  <1> QED
    BY <1>5a, <1>5b, <1>1, <1>2, <1>3, <1>4, <1>5, <1>7, <1>8, <1>9, <1>10, <1>11, <1>13, <1>14, <1>15,
       <1>16, <1>17, <1>18, <1>19
    DEF Next, Rpc, RpcFinish, Master, MasterFinish, ArmStep, CountStep, Dp, DpHandle

\* With the master thread inside RPC commands, as the code has it, and however
\* late the cores are: unless a ring lost a message, a pause meets a port that
\* transmits and a resume one that is paused, so the asserts of the data plane on
\* them do not fail.  Only runs that cannot end by themselves are paused.
THEOREM PauseResumeInOrderHolds == Spec => []PauseResumeInOrder
  <1>1. Init => PauseInv
    BY DEF Init, PauseInv, RingOK, PortKnows
  <1>2. PauseInv /\ TypeOK => PauseResumeInOrder
    BY DEF PauseInv, PauseResumeInOrder
  <1>3. OrderInv => TypeOK  BY DEF OrderInv, TypeInv
  <1> QED  BY <1>1, <1>2, <1>3, PauseInvNext, TimersHold, PTL DEF Spec
=============================================================================
