---------------------------- MODULE AgingTimers ----------------------------
(***************************************************************************)
(* What the aging of flows promises, without a queue: every open flow has  *)
(* one deadline, its last packet plus its aging time; an aging pass ends   *)
(* the flows whose deadline lies before the time the pass was started with,*)
(* all of them and no other; the final drain ends every flow.              *)
(***************************************************************************)
EXTENDS Integers

CONSTANTS Flow, Ages, NoDeadline, Never

VARIABLES now, deadline, limit

timers == <<now, deadline, limit>>

\* limit is Never outside a pass, the time of the pass in one; a drain has
\* no limit and is told apart by the value -1.
Drain == -1

Init == /\ now = 0
        /\ deadline = [f \in Flow |-> NoDeadline]
        /\ limit = Never

Tick == /\ now' = now + 1
        /\ UNCHANGED <<deadline, limit>>

\* A packet of f: its deadline moves to now plus an aging time, or is
\* cleared when the packet completes the flow; it may start a pass.
Packet(f) ==
    /\ limit = Never
    /\ \/ deadline' = [deadline EXCEPT ![f] = NoDeadline]
       \/ \E a \in Ages : deadline' = [deadline EXCEPT ![f] = now + a]
    /\ limit' \in {Never, now}
    /\ UNCHANGED now

Stop == /\ limit = Never
        /\ limit' = Drain
        /\ UNCHANGED <<now, deadline>>

\* The pass ends f, which is overdue.
Expire(f) ==
    /\ limit # Never
    /\ deadline[f] # NoDeadline
    /\ limit = Drain \/ deadline[f] < limit
    /\ deadline' = [deadline EXCEPT ![f] = NoDeadline]
    /\ UNCHANGED <<now, limit>>

\* The pass is over only when nothing overdue is left.
PassDone ==
    /\ limit # Never
    /\ \A f \in Flow : \/ deadline[f] = NoDeadline
                       \/ limit # Drain /\ deadline[f] >= limit
    /\ limit' = Never
    /\ UNCHANGED <<now, deadline>>

Next == \/ Tick \/ Stop \/ PassDone
        \/ \E f \in Flow : Packet(f) \/ Expire(f)

Spec == Init /\ [][Next]_timers
=============================================================================
