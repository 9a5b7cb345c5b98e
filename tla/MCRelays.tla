------------------------------ MODULE MCRelays ------------------------------
(***************************************************************************)
(* The relays beside the tunnel, for TLC: the UDP relay (UdpRelay), the    *)
(* event-driven ss-server (ServerEv), ss-redir and ss-tunnel (RedirEv) and *)
(* the resolver they wait for (Udns).  They do not share state; relay says *)
(* which of them a behaviour is about, the state of the others is fixed.   *)
(***************************************************************************)
EXTENDS UdpRelay, ServerEv, RedirEv, Udns

CONSTANTS r1, r2

VARIABLE relay

relaysVars == <<relay, vars, serverEvVars, redirVars, udnsVars>>

\* For each address type, a datagram with the shortest header that fits and
\* one a byte too short, and the lengths around the three bytes before it.
Datagram(len, atyp, name) ==
    [len |-> len, atyp |-> atyp, name_len |-> name, frag |-> 0]

MCPackets ==
    {Datagram(n, 1, 0) : n \in {0, 1, 2, 3, 4, 9, 10, 30, 31}}
    \cup {Datagram(n, 3, 5) : n \in {4, 5, 11, 12}}
    \cup {Datagram(n, 4, 0) : n \in {21, 22}}
    \cup {Datagram(7, 3, 0), Datagram(10, 2, 0),
          [Datagram(10, 1, 0) EXCEPT !.frag = 1]}

RelaysInit ==
    /\ relay \in {"udp", "server", "redir", "dns"}
    /\ Init /\ UdnsInit
    /\ ServerEvInit /\ (relay = "server" \/ svDest = "ip")
    /\ RedirInit /\ (relay = "redir" \/ (rdKind = "redir" /\ rdObfs.kind = "plain"))

UdpStep(A) == relay = "udp" /\ A
DnsStep(A) == relay = "dns" /\ A

RelaysNext ==
    /\ UNCHANGED relay
    /\ \/ UdpStep(Next) /\ UNCHANGED <<serverEvVars, redirVars, udnsVars>>
       \/ relay = "server" /\ ServerEvNext /\ UNCHANGED <<vars, redirVars, udnsVars>>
       \/ relay = "redir" /\ RedirNext /\ UNCHANGED <<vars, serverEvVars, udnsVars>>
       \/ DnsStep(UdnsNext) /\ UNCHANGED <<vars, serverEvVars, redirVars>>

\* The fairness of FairSpec and UdnsFairness, in the behaviours of that part.
RelaysSpec ==
    /\ RelaysInit /\ [][RelaysNext]_relaysVars
    /\ \A r \in Remotes :
          /\ WF_vars(UdpStep(RecvAgain(r)))
          /\ WF_vars(UdpStep(udp_remote_timeout_cb(r)))
          /\ \A h \in Handles : WF_vars(UdpStep(udp_remote_close_done_cb(r, h)))
    /\ WF_vars(UdpStep(udp_local_listener_close_done_cb))
    /\ SF_udnsVars(DnsStep(resolv_timeout_cb)) /\ WF_udnsVars(DnsStep(dns_timeouts))
    /\ SF_udnsVars(DnsStep(dnLoop = "io" /\ dnLoop' = "idle" /\ dns_ioevent))
    /\ WF_udnsVars(DnsStep(CallbackReturns)) /\ SF_udnsVars(DnsStep(Tick))

\* Every association of the UDP relay ends, by an answer, its timeout or
\* udprelay_shutdown; and once that was called, the listener and every
\* association are freed (udprelay.c).
RelayEnds == AssociationsEnd /\ ShutdownCompletes

\* In ss-server, ss-redir and ss-tunnel the bytes of both directions arrive in
\* order, none lost or sent twice, while either side stalls, answers half or
\* resets; an end that is freed is no longer watched nor looked up
\* (server.c, redir.c, tunnel-back.c).
RelaysKeep == EndsOwned /\ StreamKept /\ ForwardKept

\* No query is without a timer while it waits, and each ends as its answers,
\* its tries and its search list say (udns_resolver.c, resolv.c).
ResolverRight == ResolverTimed /\ EndedRight
=============================================================================
