------------------------------ MODULE MCClient ------------------------------
(* Instances of Client for TLC. *)
EXTENDS Client

CONSTANTS ip1, ip2, t1, t2

(* Every configuration of the plain transport; TLS, which uses none of the *)
(* others.                                                                 *)
PlainConfigs == {c \in AllConfigs : ~c.over_tls}

TlsConfigs == {[over_tls |-> TRUE, is_ip |-> TRUE, feedback |-> FALSE, access |-> TRUE]}

MCConfigs == PlainConfigs \cup TlsConfigs
=============================================================================
