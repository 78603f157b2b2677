----------------------------- MODULE MCNatLearn -----------------------------
(***************************************************************************)
(* Two threads for TLC, with a flow id in common.  Thread 1 has a short    *)
(* flow; thread 2 a flow that sends two packets before its answer, and     *)
(* whose learn packet may arrive twice, and a short one.                   *)
(***************************************************************************)
EXTENDS NatLearn

MCFlows ==
    << << <<"init", "resp">> >>,
       << <<"init", "init", "resp">>, <<"init", "resp">> >> >>

MCCopies == << <<1>>, <<2, 1>> >>
=============================================================================
