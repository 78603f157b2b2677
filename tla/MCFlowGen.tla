----------------------------- MODULE MCFlowGen -----------------------------
(***************************************************************************)
(* Two pools and three templates for TLC.  Pool 1 has one client whose     *)
(* ports age; pool 2 two clients of the large kind, taken in turn, whose   *)
(* TCP ports are released at once.  Template 1 is a flow of two packets    *)
(* that is repeated (limit 1) and so keeps its port; the flows of template *)
(* 2 have a plugin and hold three ports of the same client; those of       *)
(* template 3 take the same client of pool 2 twice (w = 2).                *)
(***************************************************************************)
EXTENDS FlowGen

MCPools ==
    << [ips |-> 1, large |-> FALSE, random |-> TRUE,
        aging |-> [k \in Proto |-> 1]],
       [ips |-> 2, large |-> TRUE, random |-> FALSE,
        aging |-> [k \in Proto |-> IF k = "tcp" THEN 0 ELSE 1]] >>

MCTemplates ==
    << [pool |-> 1, proto |-> "udp", plugin |-> FALSE, pkts |-> 2, w |-> 1, limit |-> 1],
       [pool |-> 1, proto |-> "udp", plugin |-> TRUE, pkts |-> 1, w |-> 1, limit |-> 0],
       [pool |-> 2, proto |-> "tcp", plugin |-> FALSE, pkts |-> 1, w |-> 2, limit |-> 3] >>
=============================================================================
