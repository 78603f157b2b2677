---------------------------- MODULE ClientPorts ----------------------------
(***************************************************************************)
(* The source ports of one client address (tuple_gen.h).                   *)
(*                                                                         *)
(* CIpInfo keeps a bitmap of the ports in use and a head to search from,   *)
(* and gives up after Tries ports.  CIpInfoL, for pools with very many     *)
(* clients, only counts round and never notes who holds a port.  A client  *)
(* is a record                                                             *)
(*   large           TRUE for CIpInfoL;                                    *)
(*   m_bitmap_port   the ports in use (empty for CIpInfoL);                *)
(*   m_head_port     where the search starts (m_curr_port of CIpInfoL).    *)
(***************************************************************************)
EXTENDS Integers

CONSTANTS MinPort,   \* MIN_PORT, 1024
          MaxPort,   \* MAX_PORT, 64000; MaxPort itself is legal for CIpInfoL only
          Tries      \* the ports looked at before giving up, 21

\* ILLEGAL_PORT, the answer when no port was found.
IllegalPort == 0

ASSUME PortAssumption == /\ MinPort \in Nat /\ MaxPort \in Nat
                         /\ IllegalPort < MinPort /\ MinPort < MaxPort
                         /\ Tries \in Nat \ {0}

is_port_legal(a) == MinPort <= a /\ a < MaxPort

\* The ports a CIpInfo hands out.
Port == MinPort .. MaxPort - 1

\* CIpInfo() and CIpInfoL().
NewIp(is_large) == [large |-> is_large, m_bitmap_port |-> {}, m_head_port |-> MinPort]

\* The k-th port from a, going round.
After(a, k) == MinPort + (((a - MinPort) + k) % (MaxPort - MinPort))

\* How far get_next_free_port_by_bit() goes from a to a free port.
FreeAt(ip, a) == {k \in 0 .. Tries - 1 : After(a, k) \notin ip.m_bitmap_port}

\* Mutant: a port that is in use is handed out when the search gives up.
NextFree_Any(ip) ==
    LET a == IF is_port_legal(ip.m_head_port) THEN ip.m_head_port ELSE MinPort
    IN  IF FreeAt(ip, a) = {}
        THEN a
        ELSE After(a, CHOOSE k \in FreeAt(ip, a) : \A j \in FreeAt(ip, a) : k <= j)

\* get_next_free_port_by_bit(): the port it stops at, IllegalPort if that one
\* is in use.
NextFree(ip) ==
    LET a == IF is_port_legal(ip.m_head_port) THEN ip.m_head_port ELSE MinPort
    IN  IF FreeAt(ip, a) = {}
        THEN IllegalPort
        ELSE After(a, CHOOSE k \in FreeAt(ip, a) : \A j \in FreeAt(ip, a) : k <= j)

\* The port get_new_free_port() answers, ...
NewPort(ip) ==
    IF ip.large
    THEN IF ip.m_head_port > MaxPort THEN MinPort ELSE ip.m_head_port
    ELSE NextFree(ip)

\* ... and the client after it.  The head may become MaxPort.
get_new_free_port(ip) ==
    LET r == NewPort(ip)
    IN  IF ip.large
        THEN [ip EXCEPT !.m_head_port = r + 1]
        ELSE IF r = IllegalPort
             THEN [ip EXCEPT !.m_head_port = MinPort]
             ELSE [ip EXCEPT !.m_bitmap_port = @ \cup {r}, !.m_head_port = r + 1]

\* The assertions of return_port().
MayReturn(ip, a) == ip.large \/ (is_port_legal(a) /\ a \in ip.m_bitmap_port)

\* return_port() for each of the ports.
return_ports(ip, ports) == [ip EXCEPT !.m_bitmap_port = @ \ ports]
=============================================================================
