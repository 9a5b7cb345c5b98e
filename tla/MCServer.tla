------------------------------ MODULE MCServer ------------------------------
(* Instances of Server for TLC. *)
EXTENDS Server, TLC

CONSTANTS h1, h2, ip1, ip2, t1, t2

(* h1 has two addresses, so concurrent lookups of it may differ; h2, where *)
(* it is a host, is one that validate_hostname rejects.                    *)
MCAnswers == [h \in Hosts |-> IF h = h1 THEN {ip1, ip2} ELSE {ip2}]

TunnelSymmetry == Permutations(Tunnels)

(* The close callbacks of one tunnel commute with everything else; the run *)
(* with several tunnels takes them in one order.                           *)
CloseOrder == <<<<"out", "timer">>, <<"out", "tcp">>, <<"in", "timer">>, <<"in", "tcp">>>>

CloseInOrder ==
    \A i \in Tunnels :
        \E k \in 0..4 : tun'[i].closing = {CloseOrder[j] : j \in 1..k}

(* With several tunnels only what they share matters: stalled tunnels and  *)
(* destinations that need no lookup are left to the run with one tunnel.   *)
SharingOnly ==
    \A i \in Tunnels : ~Stalled(tun[i]) /\ tun[i].init_pkg.name \notin Ips
=============================================================================
