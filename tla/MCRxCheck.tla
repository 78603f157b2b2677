------------------------------ MODULE MCRxCheck ------------------------------
(***************************************************************************)
(* Two flows for TLC: f1 has two packets in each direction and the longer  *)
(* aging time, f2 two packets in one direction and an aging time below the *)
(* floor.  One header of f1 claims another flow size.                      *)
(***************************************************************************)
EXTENDS RxCheck

CONSTANTS f1, f2

MCFlow == {f1, f2}

Pkt(f, d, i, size, both, age) ==
    [m_flow_id |-> f, dir |-> d, m_pkt_id |-> i, m_flow_size |-> size,
     both_dir |-> both, m_aging_sec |-> age]

MCPackets == {Pkt(f1, d, i, 2, TRUE, 2) : d \in Dirs, i \in 0 .. 1}
             \cup {Pkt(f2, 0, i, 2, FALSE, 0) : i \in 0 .. 1}
             \cup {Pkt(f1, 1, 1, 3, TRUE, 2)}
=============================================================================
