------------------------------ MODULE MCLocal -------------------------------
(* Instances of Local for TLC. *)
EXTENDS Local

MCRequests ==
    [cmd : {"connect"}, addr : {"ip", "web", "name", "bad"}]
        \cup {[cmd |-> "udp", addr |-> "ip"], [cmd |-> "other", addr |-> "ip"]}

(* Every section and both modes; a name, a server name or the address on   *)
(* each list, or on none.                                                  *)
MCAclFiles ==
    {<<"[proxy_all]", "[outbound_block_list]", "name", "[bypass_list]", "sni">>,
     <<"[bypass_all]", "[proxy_list]", "sni", "[outbound_block_list]", "junk">>}
=============================================================================
