----------------------------- MODULE TimerWheel -----------------------------
(***************************************************************************)
(* CTimerWheel (timer_wheel_pq.cpp, timer_wheel_pq.h): aging timers kept   *)
(* in a priority queue that is only repaired lazily.                       *)
(*                                                                         *)
(* A wheel is a record                                                     *)
(*   m_pq     timer id -> CFlowTimer, the queue with every object in it;   *)
(*   m_timer  flow -> id of the timer its handle points to, 0 for none;    *)
(*   m_st_alloc, m_st_free   the allocation counters.                      *)
(*                                                                         *)
(* A timer that is put off is not moved: its m_updated_time is set and it  *)
(* is pushed again when it reaches the top.  A timer that is stopped or    *)
(* brought forward stays in the queue with no flow and is deleted when it  *)
(* reaches the top.  An id is the value of m_st_alloc at allocation.       *)
(***************************************************************************)
EXTENDS Integers, FiniteSets, Functions

CONSTANT Flow       \* the flows that may own a timer

\* m_flow of a timer that was killed.
NoFlow == 0

ASSUME FlowAssumption == NoFlow \notin Flow

\* No timer: m_timer of a handle without one.
NoTimer == 0

\* m_updated_time of a timer that was never put off.
NotUpdated == -1

EmptyWheel == [m_pq |-> [i \in {} |-> 0],
               m_timer |-> [f \in Flow |-> NoTimer],
               m_st_alloc |-> 0, m_st_free |-> 0]

\* new CFlowTimer() for f, pushed into the queue.
Push(w, f, t) ==
    LET id == w.m_st_alloc + 1
    IN  [w EXCEPT
           !.m_pq = [i \in (DOMAIN w.m_pq) \cup {id} |->
                        IF i = id
                        THEN [m_time |-> t, m_updated_time |-> NotUpdated, m_flow |-> f]
                        ELSE w.m_pq[i]],
           !.m_timer[f] = id,
           !.m_st_alloc = id]

\* Kill the timer of f where it stands; it is deleted when it gets to the top.
Kill(w, f) == [w EXCEPT !.m_pq[w.m_timer[f]].m_flow = NoFlow]

\* Mutant: a timer that runs is not put off.
restart_timer_Once(w, f, new_time) ==
    IF w.m_timer[f] = NoTimer THEN Push(w, f, new_time) ELSE w

restart_timer(w, f, new_time) ==
    IF w.m_timer[f] = NoTimer
    THEN Push(w, f, new_time)
    ELSE IF new_time > w.m_pq[w.m_timer[f]].m_time
         THEN [w EXCEPT !.m_pq[w.m_timer[f]].m_updated_time = new_time]
         ELSE Push(Kill(w, f), f, new_time)

\* Mutant: the handle forgets its timer, which stays alive in the queue.
stop_timer_LeftAlive(w, f) == [w EXCEPT !.m_timer[f] = NoTimer]

stop_timer(w, f) ==
    IF w.m_timer[f] = NoTimer
    THEN w
    ELSE [Kill(w, f) EXCEPT !.m_timer[f] = NoTimer]

-----------------------------------------------------------------------------
(* The loop of peek_top_time() and handle(), one turn of it at a time.     *)

\* What m_pq.top() may return: the queue orders by m_time alone.
Tops(w) == {i \in DOMAIN w.m_pq :
               \A j \in DOMAIN w.m_pq : w.m_pq[i].m_time <= w.m_pq[j].m_time}

is_valid(w, i) == w.m_pq[i].m_flow # NoFlow

IsPutOff(w, i) == /\ w.m_pq[i].m_updated_time > 0
                  /\ w.m_pq[i].m_updated_time > w.m_pq[i].m_time

\* m_pq.pop() and delete of a killed timer.
DropTop(w, i) == [w EXCEPT !.m_pq = Restrict(w.m_pq, (DOMAIN w.m_pq) \ {i}),
                           !.m_st_free = w.m_st_free + 1]

\* Mutant: the timer is pushed again with its old time.
RepushTop_OldTime(w, i) == w

\* m_pq.pop() and m_pq.push() of a timer that was put off.
RepushTop(w, i) == [w EXCEPT !.m_pq[i].m_time = w.m_pq[i].m_updated_time]

\* handle() of a timer that expires, without its callback: the handle is
\* cleared, the timer popped and deleted.
ExpireTop(w, i) == DropTop([w EXCEPT !.m_timer[w.m_pq[i].m_flow] = NoTimer], i)

\* When the timer of f really expires: m_time unless it was put off.
DeadlineOf(w, f) ==
    LET i == w.m_timer[f]
    IN  IF IsPutOff(w, i) THEN w.m_pq[i].m_updated_time ELSE w.m_pq[i].m_time
=============================================================================
