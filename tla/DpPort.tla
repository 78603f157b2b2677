------------------------------- MODULE DpPort -------------------------------
(***************************************************************************)
(* What the control plane may rely on from a port of a data-plane core,    *)
(* without the nodes, the queue and the scheduler behind it: runs are      *)
(* started with ascending event ids, each run ends at most once and is     *)
(* reported with its own id, and only a STOP, the run's own duration or    *)
(* the end of a finite program ends it.  A finite program does end.  Only  *)
(* a run that starts no stream may be followed by another without an end.  *)
(***************************************************************************)
EXTENDS Integers, Sequences

VARIABLES
  state,     \* ppSTATE
  run,       \* event id of the last run started
  finite,    \* does its program end by itself?
  empty,     \* does its program start no stream?
  timed,     \* has it a duration?
  ends,      \* the events sent to the control plane, each with its cause
  gone,      \* has the core been told to quit, or the process died?
  stalled    \* is the core held up by a program that takes no time?

\* stalled is not the port's: it changes as it likes.
vars == <<state, run, finite, empty, timed, ends, gone>>

Init ==
  /\ state = "IDLE" /\ run = -1
  /\ timed = FALSE
  /\ ends = <<>> /\ gone = FALSE

Start ==
  /\ state = "IDLE" \/ empty
  /\ run' > run
  /\ finite' \in BOOLEAN /\ empty' \in BOOLEAN /\ timed' \in BOOLEAN
  /\ state' = "TRANSMITTING"
  /\ UNCHANGED <<ends, gone>>

End(cause) ==
  /\ state # "IDLE"
  /\ state' = "IDLE"
  /\ ends' = Append(ends, <<run, cause>>)
  /\ UNCHANGED <<run, finite, empty, timed, gone>>

Stop == End("stop")
Expire == timed /\ End("duration")
Finish == finite /\ state = "TRANSMITTING" /\ End("finished")

Pause ==
  /\ state = "TRANSMITTING" /\ state' = "PAUSE"
  /\ UNCHANGED <<run, finite, empty, timed, ends, gone>>

Resume ==
  /\ state = "PAUSE" /\ state' = "TRANSMITTING"
  /\ UNCHANGED <<run, finite, empty, timed, ends, gone>>

Quit ==
  /\ ~gone /\ gone' = TRUE
  /\ UNCHANGED <<state, run, finite, empty, timed, ends>>

Next == Start \/ Stop \/ Expire \/ Finish \/ Pause \/ Resume \/ Quit

\* A run with a finite program that starts at all comes to an end, unless the core is
\* told to quit or is held up.
FiniteRunsEnd ==
  (finite /\ ~empty /\ state = "TRANSMITTING") ~> (state = "IDLE" \/ gone \/ stalled)

Spec == Init /\ [][Next]_vars /\ FiniteRunsEnd
=============================================================================
