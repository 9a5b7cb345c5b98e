------------------------------- MODULE Client -------------------------------
(***************************************************************************)
(* ssr-client (client/client.c, client/tls_cli.c and client/listener.c on  *)
(* top of tunnel.c): the start-up lookup of the listen address, the        *)
(* listeners, any number of tunnels with the stages of do_next, the TLS    *)
(* transport, and the exit on a signal.                                    *)
(*                                                                         *)
(* One action is one libuv (or uv-mbed) callback.  What depends on bytes   *)
(* is an input of the action: what s5_parse says of a read (s5), what the  *)
(* cipher pipeline makes of it (dec), and whether uv_tcp_connect fails     *)
(* synchronously (err).                                                    *)
(***************************************************************************)
EXTENDS TunnelOps, FiniteSets

CONSTANTS
    Tunnels,       \* identities of accepted connections
    Ips, NoIp,     \* addresses of the ssr server; no address
    RemotePort,    \* config->remote_port
    Configs,       \* the configurations considered
    MaxMore,       \* bound: reads that leave s5_parse wanting more
    MaxListeners,  \* bound: addresses of the listen host
    MaxChunks      \* bound: chunks read per direction of a streaming tunnel

(***************************************************************************)
(* A configuration: over_tls_enable, whether remote_host is an address,    *)
(* whether the plugins need a feedback, whether can_access lets it pass.   *)
(***************************************************************************)
AllConfigs == [over_tls : BOOLEAN, is_ip : BOOLEAN,
               feedback : BOOLEAN, access : BOOLEAN]

ASSUME ConstantsAssumption ==
    /\ NoIp \notin Ips /\ Ips # {}
    /\ RemotePort \in Nat \ {0}
    /\ Configs \subseteq AllConfigs
    /\ MaxMore \in Nat /\ MaxListeners \in Nat /\ MaxChunks \in Nat

VARIABLES
    cf,            \* env->config, fixed
    tun,           \* the tunnels
    tunnel_set,    \* env->tunnel_set
    boot,          \* the lookup of listen_host: "resolving" or "done"
    listeners,     \* state->listeners[n].tcp_server
    shutting_down, \* state->shutting_down
    loop           \* "running" until uv_run returns

vars == <<cf, tun, tunnel_set, boot, listeners, shutting_down, loop>>

Stages == {"unborn", "handshake", "handshake_replied", "s5_request",
           "s5_udp_accoc", "tls_connecting", "tls_first_package",
           "tls_streaming", "resolve_ssr_server_host_done",
           "connecting_ssr_server", "ssr_auth_sent", "ssr_waiting_feedback",
           "ssr_receipt_of_feedback_sent", "auth_complition_done",
           "streaming", "kill"}

ListenerStates == {"none", "open", "unbound", "closing", "closed"}

TlsStates == {"none", "connecting", "up", "closing", "closed"}

(* The assertions of client.c and tls_cli.c, by function. *)
ClientAsserts ==
    {"next.incoming", "next.outgoing", "stage.all_stop", "next.unreachable",
     "feedback.decodes_empty", "tls_incoming.one_of_read_write_done",
     "tls_data.unreachable", "tls.tunnel_exists"}

(* The VERIFYs, which abort in every build, and a use of freed memory. *)
Fatal == {"read.uv_read_start", "write.uv_write", "tls.tunnel_exists"}

NewTunnel ==
    [stage |-> "handshake", addr |-> [ip |-> NoIp, port |-> 0], tls |-> "none",
     more |-> 0, rd |-> Both("stop"), wr |-> Both("stop"),
     reading |-> Both(FALSE), timer |-> Both(FALSE), wreq |-> Both(FALSE),
     conn |-> "none", gai |-> FALSE,
     terminated |-> FALSE, ref_count |-> 0, closing |-> {}, freed |-> FALSE,
     taken |-> Both(0), delivered |-> Both(0), failed |-> {}]

Unborn == [NewTunnel EXCEPT !.stage = "unborn"]

(* s5_parse in the handshake, s5_parse of the request. *)
HandshakeResults == {"ok", "junk", "error", "none", "passwd"}

RequestResults == {"ok", "junk", "error", "bind", "udp", "connect"}

(* Client decrypt: rejected, empty, empty with a receipt to send, data. *)
Decoded == {"error", "empty", "receipt", "data"}

Inputs(t) ==
    CASE t.stage = "handshake" -> [s5 : HandshakeResults, dec : {"data"}, err : {FALSE}]
      [] t.stage = "s5_request" -> [s5 : RequestResults, dec : {"data"}, err : BOOLEAN]
      [] t.stage = "ssr_waiting_feedback" -> [s5 : {"ok"}, dec : Decoded, err : {FALSE}]
      [] OTHER -> [s5 : {"ok"}, dec : {"error", "data"}, err : {FALSE}]

(* A callback that reads nothing: a cipher or a connect it starts may fail. *)
NoData == [s5 : {"ok"}, dec : {"error", "data"}, err : BOOLEAN]

Stop(t) == Check(t, "stage.all_stop", AllStop(t))

InStop(t) == Check(t, "stage.all_stop", t.rd["in"] = "stop" /\ t.wr["in"] = "stop")

-----------------------------------------------------------------------------
(***************************************************************************)
(* The TLS transport.  tls_client_shutdown asks uv-mbed to close; the      *)
(* tunnel is shut down by the close callback, not here.                    *)
(***************************************************************************)
tls_client_launch(t) == [t EXCEPT !.tls = "connecting"]

tls_client_shutdown(t) ==
    [t EXCEPT !.tls = IF @ \in {"connecting", "up"} THEN "closing" ELSE @]

(***************************************************************************)
(* The stages of do_next.                                                  *)
(***************************************************************************)
want_more(t) == [socket_read(t, "in", TRUE) EXCEPT !.more = @ + 1]

do_handshake(t, o) ==
    LET s == InStop(t)
    IN  CASE o.s5 = "ok" -> want_more(s)
          [] o.s5 \in {"junk", "error"} -> tunnel_shutdown(s)
          [] o.s5 = "none" -> [socket_write(s, "in") EXCEPT !.stage = "handshake_replied"]
          [] OTHER -> [socket_write(s, "in") EXCEPT !.stage = "kill"]

do_wait_s5_request(t) ==
    [socket_read(InStop(t), "in", TRUE) EXCEPT !.stage = "s5_request"]

do_connect_ssr_server(t, err) ==
    LET a == Stop(t)
        s == socket_connect(a, "out", err)
    IN  IF ~cf.access THEN [socket_write(a, "in") EXCEPT !.stage = "kill"]
        ELSE IF err THEN tunnel_shutdown(s)
        ELSE [s EXCEPT !.stage = "connecting_ssr_server"]

do_parse_s5_request(t, o) ==
    LET a == Stop(t)
    IN  CASE o.s5 = "ok" -> want_more(a)
          [] o.s5 \in {"junk", "error", "bind"} -> tunnel_shutdown(a)
          [] o.s5 = "udp" -> [socket_write(a, "in") EXCEPT !.stage = "s5_udp_accoc"]
          [] OTHER ->
               IF cf.over_tls
               THEN tls_client_launch([a EXCEPT !.stage = "tls_connecting"])
               ELSE IF cf.is_ip
               THEN do_connect_ssr_server(
                      [a EXCEPT !.addr = [ip |-> CHOOSE i \in Ips : TRUE,
                                          port |-> RemotePort]], o.err)
               ELSE [socket_getaddrinfo(a, "out")
                        EXCEPT !.stage = "resolve_ssr_server_host_done"]

do_resolve_unported(t, r, err) ==   \* mutant: the port is left as it was
    IF r = "neg" THEN [socket_write(Stop(t), "in") EXCEPT !.stage = "kill"]
    ELSE do_connect_ssr_server(Stop(t), err)

do_resolve_ssr_server_host_aftercare(t, r, err) ==
    IF r = "neg" THEN [socket_write(Stop(t), "in") EXCEPT !.stage = "kill"]
    ELSE do_connect_ssr_server([Stop(t) EXCEPT !.addr.port = RemotePort], err)

do_connect_ssr_server_done(t, r, dec) ==
    LET a == Stop(t)
    IN  IF r # "zero" THEN [socket_write(a, "in") EXCEPT !.stage = "kill"]
        ELSE IF dec = "error" THEN tunnel_shutdown(a)
        ELSE [socket_write(a, "out") EXCEPT !.stage = "ssr_auth_sent"]

do_socks5_reply_success(t) ==
    [socket_write(Stop(t), "in") EXCEPT !.stage = "auth_complition_done"]

do_ssr_auth_sent(t) ==
    LET a == Stop(t)
    IN  IF cf.feedback
        THEN [socket_read(a, "out", TRUE) EXCEPT !.stage = "ssr_waiting_feedback"]
        ELSE do_socks5_reply_success(a)

do_ssr_receipt_for_feedback(t, dec) ==
    LET a == Check(Stop(t), "feedback.decodes_empty", dec \in {"empty", "receipt"})
    IN  IF dec = "receipt"
        THEN [socket_write(a, "out") EXCEPT !.stage = "ssr_receipt_of_feedback_sent"]
        ELSE do_socks5_reply_success(a)

do_launch_streaming(t) ==
    [socket_read(socket_read(Stop(t), "in", FALSE), "out", TRUE)
        EXCEPT !.stage = "streaming"]

tunnel_tls_do_launch_streaming(t) ==
    [socket_read(Stop(t), "in", TRUE) EXCEPT !.stage = "tls_streaming"]

(* The next read starts at once: the data sent is not waited for. *)
tunnel_tls_client_incoming_streaming(t, c, dec) ==
    LET a == Check(Check(t, "next.incoming", c = "in"),
                   "tls_incoming.one_of_read_write_done",
                   (t.wr[c] = "done") # (t.rd[c] = "done"))
        s == [a EXCEPT !.rd[c] = "stop", !.taken[c] = @ + 1]
    IN  IF t.wr[c] = "done" THEN [a EXCEPT !.wr[c] = "stop"]
        ELSE socket_read(IF dec = "error" THEN tls_client_shutdown(s) ELSE s,
                         c, FALSE)

read_unreset(t, c, side) ==   \* mutant: rdstate stays done
    Check(t, "next.incoming", c = side /\ t.rd[side] = "done")

read(t, c, side) ==
    [Check(t, IF side = "in" THEN "next.incoming" ELSE "next.outgoing",
           c = side /\ t.rd[side] = "done") EXCEPT !.rd[side] = "stop"]

written(t, c, side) ==
    [Check(t, IF side = "in" THEN "next.incoming" ELSE "next.outgoing",
           c = side /\ t.wr[side] = "done") EXCEPT !.wr[side] = "stop"]

do_next(t, c, r, o) ==
    CASE t.stage = "handshake" -> do_handshake(read(t, c, "in"), o)
      [] t.stage = "handshake_replied" -> do_wait_s5_request(written(t, c, "in"))
      [] t.stage = "s5_request" -> do_parse_s5_request(read(t, c, "in"), o)
      [] t.stage = "s5_udp_accoc" -> tunnel_shutdown(written(t, c, "in"))
      [] t.stage = "resolve_ssr_server_host_done" ->
           do_resolve_ssr_server_host_aftercare(t, r, o.err)
      [] t.stage = "connecting_ssr_server" -> do_connect_ssr_server_done(t, r, o.dec)
      [] t.stage = "ssr_auth_sent" -> do_ssr_auth_sent(written(t, c, "out"))
      [] t.stage = "ssr_waiting_feedback" ->
           do_ssr_receipt_for_feedback(read(t, c, "out"), o.dec)
      [] t.stage = "ssr_receipt_of_feedback_sent" ->
           do_socks5_reply_success(written(t, c, "out"))
      [] t.stage = "auth_complition_done" ->
           IF cf.over_tls
           THEN tunnel_tls_do_launch_streaming(written(t, c, "in"))
           ELSE do_launch_streaming(written(t, c, "in"))
      [] t.stage = "tls_streaming" -> tunnel_tls_client_incoming_streaming(t, c, o.dec)
      [] t.stage = "streaming" -> tunnel_traditional_streaming(t, c, o.dec = "data")
      [] t.stage = "kill" -> tunnel_shutdown(t)
      [] OTHER -> Check(t, "next.unreachable", FALSE)

-----------------------------------------------------------------------------
Listeners == 1..MaxListeners

Init ==
    /\ cf \in Configs
    /\ tun = [i \in Tunnels |-> Unborn]
    /\ tunnel_set = {}
    /\ boot = "resolving"
    /\ listeners = [n \in Listeners |-> "none"]
    /\ shutting_down = FALSE
    /\ loop = "running"

client_shutdown_none(ts) == ts   \* mutant: the tunnels are not shut down

client_shutdown(ts) ==
    [i \in Tunnels |-> IF i \in tunnel_set THEN tunnel_shutdown(ts[i]) ELSE ts[i]]

Closed_first(ls) ==   \* mutant: only the first listener is closed
    [n \in Listeners |-> IF n = 1 /\ ls[n] \in {"open", "unbound"} THEN "closing" ELSE ls[n]]

(* Every tcp_server that exists is closed, bound or not. *)
Closed(ls) ==
    [n \in Listeners |-> IF ls[n] \in {"open", "unbound"} THEN "closing" ELSE ls[n]]

(* A second call returns at once, whatever listeners exist by then. *)
ssr_run_loop_shutdown(ls) ==
    IF shutting_down
    THEN listeners' = ls /\ UNCHANGED <<tun, shutting_down>>
    ELSE /\ shutting_down' = TRUE
         /\ listeners' = Closed(ls)
         /\ tun' = client_shutdown(tun)

(***************************************************************************)
(* getaddrinfo_done_cb of listener.c: the lookup fails or finds nothing    *)
(* (n = 0), or gives n addresses of which all are bound (k = n + 1) or the *)
(* k-th cannot be.                                                         *)
(***************************************************************************)
ListenHostResolved ==
    /\ boot = "resolving"
    /\ boot' = "done"
    /\ \E n \in 0..MaxListeners : \E k \in 1..(n + 1) :
          LET ls == [j \in Listeners |-> IF j < k /\ j <= n THEN "open"
                                         ELSE IF j = k /\ j <= n THEN "unbound"
                                         ELSE "none"]
          IN  IF k <= n THEN ssr_run_loop_shutdown(ls)
              ELSE listeners' = ls /\ UNCHANGED <<tun, shutting_down>>
    /\ UNCHANGED <<cf, tunnel_set, loop>>

(* SIGINT, SIGTERM; both watchers are stopped by the first signal. *)
SignalQuit ==
    /\ ~shutting_down
    /\ ssr_run_loop_shutdown(listeners)
    /\ UNCHANGED <<cf, tunnel_set, boot, loop>>

ListenerClosed(n) ==
    /\ listeners[n] = "closing"
    /\ listeners' = [listeners EXCEPT ![n] = "closed"]
    /\ UNCHANGED <<cf, tun, tunnel_set, boot, shutting_down, loop>>

EnvUnchanged == UNCHANGED <<cf, boot, listeners, shutting_down, loop>>

OnlyTunnel(i, t) ==
    /\ tun' = [tun EXCEPT ![i] = t]
    /\ UNCHANGED tunnel_set
    /\ EnvUnchanged

Connection(i) ==
    /\ \E n \in Listeners : listeners[n] = "open"
    /\ tun[i].stage = "unborn"
    /\ tun' = [tun EXCEPT ![i] = socket_read(NewTunnel, "in", TRUE)]
    /\ tunnel_set' = tunnel_set \cup {i}
    /\ EnvUnchanged

ReadDone(i, c) ==
    /\ tun[i].reading[c]
    /\ \E n \in Results, o \in Inputs(tun[i]) :
          LET t == socket_read_done_cb(tun[i], c, n)
          IN  /\ n = "pos" /\ tun[i].stage \in {"streaming", "tls_streaming"}
                    => tun[i].taken[c] < MaxChunks
              /\ tun[i].stage \in {"handshake", "s5_request"} /\ o.s5 = "ok"
                    => tun[i].more < MaxMore
              /\ OnlyTunnel(i, IF Continues(tun[i], n) /\ n = "pos"
                               THEN do_next(t, c, n, o) ELSE t)

WriteDone(i, c) ==
    /\ tun[i].wreq[c]
    /\ \E s \in {"neg", "zero"}, o \in NoData :
          LET t == socket_write_done_cb(tun[i], c, s)
          IN  OnlyTunnel(i, IF Continues(tun[i], s)
                            THEN do_next(t, c, s, o) ELSE t)

ConnectDone(i) ==
    /\ tun[i].conn = "pending"
    /\ \E s \in {"neg", "zero"}, o \in NoData :
          LET t == socket_connect_done_cb(tun[i], s)
          IN  OnlyTunnel(i, IF Continues(tun[i], s)
                            THEN do_next(t, "out", s, o) ELSE t)

GetaddrinfoDone(i) ==
    /\ tun[i].gai
    /\ \E s \in {"neg", "zero"}, a \in Ips, o \in NoData :
          LET t == socket_getaddrinfo_done_cb(tun[i], s, a)
          IN  OnlyTunnel(i, IF Continues(tun[i], s)
                            THEN do_next(t, "out", s, o) ELSE t)

TimerExpire(i, c) ==
    /\ tun[i].timer[c]
    /\ OnlyTunnel(i, socket_timer_expire_cb(tun[i], c))

(* libuv cancels what is pending on a stream before its close callback. *)
CloseReady(t, h) ==
    /\ h \in t.closing
    /\ h[2] = "tcp" => ~t.wreq[h[1]] /\ (h[1] = "out" => t.conn # "pending")

tunnel_dying(i, t) == IF t.freed THEN tunnel_set \ {i} ELSE tunnel_set

CloseDone(i, h) ==
    /\ CloseReady(tun[i], h)
    /\ LET t == socket_close_done_cb(tun[i], h)
       IN  /\ tun' = [tun EXCEPT ![i] = t]
           /\ tunnel_set' = tunnel_dying(i, t)
    /\ EnvUnchanged

(***************************************************************************)
(* The uv-mbed callbacks.  None of them asks whether the tunnel is dead;   *)
(* tls_cli.c keeps a weak pointer to it.                                   *)
(***************************************************************************)
TlsCallback(i, t) ==
    OnlyTunnel(i, IF tun[i].freed THEN Check(tun[i], "tls.tunnel_exists", FALSE) ELSE t)

tunnel_tls_on_connection_established(t, dec) ==
    LET a == Stop(t)
    IN  IF dec = "error" THEN tls_client_shutdown(a)
        ELSE [a EXCEPT !.stage = "tls_first_package"]

TlsConnectDone(i) ==
    /\ tun[i].tls = "connecting"
    /\ \E ok \in BOOLEAN, dec \in {"error", "data"} :
          TlsCallback(i, IF ok
              THEN tunnel_tls_on_connection_established(
                      [tun[i] EXCEPT !.tls = "up"], dec)
              ELSE tls_client_shutdown(tun[i]))

tunnel_tls_on_data_received(t, dec) ==
    IF t.stage # "tls_first_package" THEN Check(t, "tls_data.unreachable", FALSE)
    ELSE IF dec = "error" THEN tls_client_shutdown(t)
    ELSE do_socks5_reply_success(t)

TlsDataReceived(i) ==
    /\ tun[i].tls = "up"
    /\ \E dec \in {"error", "data"} :
          TlsCallback(i, tunnel_tls_on_data_received(tun[i], dec))

(* EOF or an error on the TLS connection, of a read or of a write. *)
TlsFailed(i) ==
    /\ tun[i].tls = "up"
    /\ TlsCallback(i, tls_client_shutdown(tun[i]))

TlsCloseDone(i) ==
    /\ tun[i].tls = "closing"
    /\ TlsCallback(i, [tunnel_shutdown(tun[i]) EXCEPT !.tls = "closed"])

(* uv_run returns when no handle and no request is active. *)
LoopIdle ==
    /\ boot = "done" /\ shutting_down
    /\ \A n \in Listeners : listeners[n] \in {"none", "unbound", "closed"}
    /\ \A i \in Tunnels : /\ tun[i].stage = "unborn" \/ tun[i].freed
                          /\ ~tun[i].gai
                          /\ tun[i].tls \in {"none", "closed"}

LoopExit ==
    /\ loop = "running"
    /\ LoopIdle
    /\ loop' = "exited"
    /\ UNCHANGED <<cf, tun, tunnel_set, boot, listeners, shutting_down>>

Aborted == \E i \in Tunnels : tun[i].failed \cap Fatal # {}

(* The loop polls for connections as long as a listener is open. *)
Polling == (\E n \in Listeners : listeners[n] = "open") /\ UNCHANGED vars

Ended == (loop = "exited" \/ Aborted) /\ UNCHANGED vars

TunnelNext(i) ==
    \/ Connection(i)
    \/ \E c \in Sides : ReadDone(i, c) \/ WriteDone(i, c) \/ TimerExpire(i, c)
    \/ ConnectDone(i)
    \/ GetaddrinfoDone(i)
    \/ \E h \in Handles : CloseDone(i, h)
    \/ TlsConnectDone(i) \/ TlsDataReceived(i) \/ TlsFailed(i) \/ TlsCloseDone(i)

Next ==
    \/ ~Aborted /\ \/ \E i \in Tunnels : TunnelNext(i)
                   \/ ListenHostResolved
                   \/ SignalQuit
                   \/ \E n \in Listeners : ListenerClosed(n)
                   \/ LoopExit
    \/ Polling
    \/ Ended

Spec == Init /\ [][Next]_vars

(***************************************************************************)
(* Fairness: libuv runs the callbacks of what is closed or cancelled, the  *)
(* resolver answers, and a timer that stays armed expires.  Nothing is     *)
(* assumed of the peers, nor of uv-mbed.                                   *)
(***************************************************************************)
Cancelled(i, A) == tun[i].terminated /\ A

Fairness ==
    /\ WF_vars(ListenHostResolved)
    /\ WF_vars(LoopExit)
    /\ \A n \in Listeners : WF_vars(ListenerClosed(n))
    /\ \A i \in Tunnels :
          /\ WF_vars(Cancelled(i, ConnectDone(i)))
          /\ WF_vars(GetaddrinfoDone(i))
          /\ \A c \in Sides : /\ WF_vars(Cancelled(i, WriteDone(i, c)))
                              /\ WF_vars(TimerExpire(i, c))
          /\ \A h \in Handles : WF_vars(CloseDone(i, h))

FairSpec == Spec /\ Fairness

-----------------------------------------------------------------------------
IsTunnel(t) ==
    /\ DOMAIN t = {"stage", "addr", "tls", "more", "rd", "wr", "reading", "timer",
                   "wreq", "conn", "gai", "terminated", "ref_count", "closing",
                   "freed", "taken", "delivered", "failed"}
    /\ t.stage \in Stages /\ t.tls \in TlsStates /\ t.more \in Nat
    /\ t.addr \in [ip : Ips \cup {NoIp}, port : {0, RemotePort}]
    /\ t.rd \in [Sides -> SockStates] /\ t.wr \in [Sides -> SockStates]
    /\ t.reading \in [Sides -> BOOLEAN] /\ t.timer \in [Sides -> BOOLEAN]
    /\ t.wreq \in [Sides -> BOOLEAN]
    /\ t.conn \in Connections /\ t.gai \in BOOLEAN
    /\ t.terminated \in BOOLEAN /\ t.freed \in BOOLEAN
    /\ t.ref_count \in Nat /\ t.closing \subseteq Handles
    /\ t.taken \in [Sides -> Nat] /\ t.delivered \in [Sides -> Nat]
    /\ t.failed \subseteq TunnelAsserts \cup ClientAsserts

(* Every variable has its type. *)
TypeOK ==
    /\ cf \in AllConfigs
    /\ DOMAIN tun = Tunnels
    /\ \A i \in Tunnels : IsTunnel(tun[i])
    /\ tunnel_set \subseteq Tunnels
    /\ boot \in {"resolving", "done"}
    /\ listeners \in [Listeners -> ListenerStates]
    /\ shutting_down \in BOOLEAN
    /\ loop \in {"running", "exited"}

Alive(t) == t.stage # "unborn" /\ ~t.terminated

(***************************************************************************)
(* No ASSERT or VERIFY of tunnel.c and client.c that speaks of a socket's  *)
(* state fails, whatever the order of callbacks, while the tunnel is not   *)
(* shut down; without TLS, none fails afterwards either.  The assertions   *)
(* about what a server sends are the subject of the findings below.        *)
(***************************************************************************)
AssertsHold ==
    \A i \in Tunnels :
        tun[i].failed \subseteq
            {"feedback.decodes_empty"} \cup
            (IF ~cf.over_tls THEN {}
             ELSE IF Alive(tun[i]) THEN {"tls_data.unreachable"}
             ELSE Fatal \cup {"tls_data.unreachable", "stage.all_stop",
                              "write.wrstate_stop"})

(***************************************************************************)
(* Whatever way the address was found (configured, or looked up for this   *)
(* tunnel), the tunnel connects to an address of the configured server and *)
(* to the configured port (do_parse_s5_request,                            *)
(* do_resolve_ssr_server_host_aftercare).                                  *)
(***************************************************************************)
ConnectsToServer ==
    \A i \in Tunnels :
        tun[i].conn # "none" => tun[i].addr \in [ip : Ips, port : {RemotePort}]

(***************************************************************************)
(* Once ssr_run_loop_shutdown has closed the listeners no tunnel is left   *)
(* alive, and none comes to life (client_shutdown).                        *)
(***************************************************************************)
NoneLeftBehind ==
    shutting_down /\ (\A n \in Listeners : listeners[n] # "open")
        => \A i \in Tunnels : ~Alive(tun[i])

(***************************************************************************)
(* Every tunnel is accounted for: while it lives it reaches no server but  *)
(* the configured one, and none is left once the listeners are closed.     *)
(* The state of tunnels and listeners keeps its types.                     *)
(***************************************************************************)
TunnelsAccounted == TypeOK /\ ConnectsToServer /\ NoneLeftBehind

(* libuv's EAGAIN (nread = 0) stops a read that nothing restarts. *)
Stalled(t) == \E c \in Sides : t.rd[c] = "busy" /\ ~t.reading[c]

TlsStages == {"tls_connecting", "tls_first_package", "tls_streaming"}

(***************************************************************************)
(* A tunnel does not stay in the SOCKS handshake or in the stages that     *)
(* reach the server: the timers end each of them, unless a read returned   *)
(* nothing (see Stalled) or the tunnel waits for TLS, which has no timer.  *)
(***************************************************************************)
SetupEnds ==
    \A i \in Tunnels :
        (tun[i].stage = "handshake") ~>
            \/ tun[i].terminated \/ tun[i].stage = "streaming"
            \/ tun[i].stage \in TlsStages \/ Stalled(tun[i])

(***************************************************************************)
(* After SIGINT or SIGTERM uv_run returns (ssr_run_loop_shutdown), except  *)
(* when the signal comes while the listen address is being looked up, and  *)
(* over TLS, where the connections to the server are not closed.           *)
(***************************************************************************)
ShutdownCompletes ==
    [](boot = "resolving" \/ cf.over_tls => ~shutting_down)
        => (shutting_down ~> loop = "exited")

(***************************************************************************)
(* The client never hangs: each tunnel leaves its set-up, and a signal     *)
(* ends the loop, both with the exceptions named above.                    *)
(***************************************************************************)
ClientEnds == SetupEnds /\ ShutdownCompletes

RelayPhase(t) ==
    IF t.terminated THEN "closed"
    ELSE IF t.stage = "streaming" THEN "open"
    ELSE "setup"

Pipe(i) == INSTANCE Relay WITH phase <- RelayPhase(tun[i]),
                               taken <- tun[i].taken,
                               delivered <- tun[i].delivered

(***************************************************************************)
(* Without TLS every tunnel is a Relay: chunks pass in order, none lost    *)
(* while it is open, one in flight per direction                           *)
(* (tunnel_traditional_streaming as the client drives it).                 *)
(***************************************************************************)
ImplementsRelay ==
    /\ \A i \in Tunnels : Pipe(i)!RelayInit
    /\ [][\A i \in Tunnels : cf.over_tls \/ [Pipe(i)!RelayNext]_(Pipe(i)!relayVars)]_vars

-----------------------------------------------------------------------------
(***************************************************************************)
(* The inductive invariant.  Between two callbacks a live tunnel waits for *)
(* what its stage waits for and for nothing else.  A dead one waits for    *)
(* the close callbacks that are outstanding, unless a TLS callback that    *)
(* came too late has aborted the process.                                  *)
(***************************************************************************)
ReadsIn == {"handshake", "s5_request", "tls_streaming"}

WritesIn == {"handshake_replied", "s5_udp_accoc", "auth_complition_done", "kill"}

WritesOut == {"ssr_auth_sent", "ssr_receipt_of_feedback_sent"}

WaitsIdle == {"resolve_ssr_server_host_done", "connecting_ssr_server",
              "tls_connecting", "tls_first_package"}

(* The stages that only a tunnel without TLS goes through. *)
PlainStages == WritesOut \cup {"ssr_waiting_feedback", "streaming",
                   "resolve_ssr_server_host_done", "connecting_ssr_server"}

Shape(t, rin, win, rout, wout) ==
    t.rd["in"] = rin /\ t.wr["in"] = win /\ t.rd["out"] = rout /\ t.wr["out"] = wout

(* One direction of a streaming tunnel: a chunk in flight or a read pending. *)
Direction(t, c) ==
    \/ /\ t.rd[c] = "stop" /\ t.wr[Other(c)] = "busy"
       /\ t.taken[c] = t.delivered[Other(c)] + 1
    \/ /\ t.rd[c] = "busy" /\ t.wr[Other(c)] = "stop"
       /\ t.taken[c] = t.delivered[Other(c)]

StageShape(t) ==
    /\ t.stage \in ReadsIn => Shape(t, "busy", "stop", "stop", "stop")
    /\ t.stage \in WritesIn => Shape(t, "stop", "busy", "stop", "stop")
    /\ t.stage = "ssr_waiting_feedback" => Shape(t, "stop", "stop", "busy", "stop")
    /\ t.stage \in WritesOut => Shape(t, "stop", "stop", "stop", "busy")
    /\ t.stage \in WaitsIdle => Shape(t, "stop", "stop", "stop", "stop")
    /\ t.stage = "streaming" => Direction(t, "in") /\ Direction(t, "out")
    /\ t.stage \notin {"streaming", "tls_streaming"} =>
          t.taken = Both(0) /\ t.delivered = Both(0)

(* The lookup and the connection to the server belong to their stages. *)
ServerLink(over_tls, t) ==
    /\ t.gai <=> t.stage = "resolve_ssr_server_host_done"
    /\ t.conn = "pending" <=> t.stage = "connecting_ssr_server"
    /\ t.conn = "up" <=> \/ t.stage \in WritesOut \cup {"ssr_waiting_feedback", "streaming"}
                         \/ t.stage = "auth_complition_done" /\ ~over_tls

LiveInv(over_tls, t) ==
    /\ t.ref_count = 0 /\ t.closing = {} /\ ~t.freed
    /\ \A c \in Sides : /\ t.wreq[c] <=> t.wr[c] = "busy"
                        /\ t.reading[c] => t.rd[c] = "busy"
    /\ ServerLink(over_tls, t)
    /\ StageShape(t)

(* How many of the four handles of a tunnel are in a set of them. *)
HandleCount(c) ==
    LET One(h) == IF h \in c THEN 1 ELSE 0
    IN  One(<<"in", "tcp">>) + One(<<"in", "timer">>)
        + One(<<"out", "tcp">>) + One(<<"out", "timer">>)

DeadInv(t) ==
    /\ t.rd = Both("dead") /\ t.wr = Both("dead")
    /\ t.reading = Both(FALSE) /\ t.timer = Both(FALSE)
    /\ t.ref_count = HandleCount(t.closing)

(* TLS is up or coming up only in its own stages, and only if configured. *)
TlsInv(over_tls, t) ==
    /\ ~over_tls => t.tls = "none" /\ t.stage \notin TlsStages
    /\ over_tls => t.stage \notin PlainStages
    /\ t.tls = "connecting" => t.stage = "tls_connecting"
    /\ t.tls = "up" => t.stage \in {"tls_first_package", "auth_complition_done",
                                    "tls_streaming"}

Tolerated(over_tls, t) ==
    {"feedback.decodes_empty"} \cup
    (IF ~over_tls THEN {}
     ELSE IF Alive(t) THEN {"tls_data.unreachable"}
     ELSE Fatal \cup {"tls_data.unreachable", "stage.all_stop", "write.wrstate_stop"})

ServerAddress == [ip : Ips, port : {RemotePort}]

TunnelInv(over_tls, t) ==
    /\ IsTunnel(t)
    /\ t.failed \subseteq Tolerated(over_tls, t)
    /\ t.conn # "none" => t.addr \in ServerAddress
    /\ TlsInv(over_tls, t)
    /\ t.stage = "unborn" => t = Unborn
    /\ Alive(t) => LiveInv(over_tls, t)
    /\ t.terminated => DeadInv(t) \/ (over_tls /\ t.failed \cap Fatal # {})

(***************************************************************************)
(* Every tunnel is as its stage says, tunnel_set holds every live one, and *)
(* no listener exists before the listen address is known: the inductive    *)
(* form of the properties above.                                           *)
(***************************************************************************)
ClientInv ==
    /\ TypeOK
    /\ \A i \in Tunnels : TunnelInv(cf.over_tls, tun[i])
    /\ \A i \in Tunnels : Alive(tun[i]) => i \in tunnel_set
    /\ \A i \in tunnel_set : tun[i].stage # "unborn"
    /\ boot = "resolving" => \A n \in Listeners : listeners[n] = "none"
    /\ NoneLeftBehind

-----------------------------------------------------------------------------
(***************************************************************************)
(* What comments and assertions of the code say and the code does not do.  *)
(***************************************************************************)

(***************************************************************************)
(* client.c:466 and client.c:542: a failed lookup of the server is         *)
(* answered with 'Host unreachable', a failed connect with 'Connection     *)
(* refused'.                                                               *)
(***************************************************************************)
FailureIsReplied ==
    [][\A i \in Tunnels :
          /\ Alive(tun[i])
          /\ \/ tun[i].gai /\ ~tun'[i].gai /\ tun'[i].addr.ip = NoIp
             \/ tun[i].conn = "pending" /\ tun'[i].conn = "none"
          => tun'[i].wreq["in"]]_vars

(***************************************************************************)
(* client.c:599 and client.c:600: what the server sends as feedback        *)
(* decodes, and to nothing but the feedback.                               *)
(***************************************************************************)
FeedbackIsAlone ==
    \A i \in Tunnels : "feedback.decodes_empty" \notin tun[i].failed

(***************************************************************************)
(* client.c:823: over TLS no data comes after the first package.           *)
(***************************************************************************)
TlsDataExpected ==
    \A i \in Tunnels : "tls_data.unreachable" \notin tun[i].failed

(***************************************************************************)
(* tls_cli.c:125: a TLS callback finds the tunnel's handlers, so the       *)
(* tunnel, in place.                                                       *)
(***************************************************************************)
TlsTunnelExists ==
    \A i \in Tunnels : "tls.tunnel_exists" \notin tun[i].failed

(***************************************************************************)
(* listener.c:173: after a signal the client is "terminated".              *)
(***************************************************************************)
SignalTerminates == shutting_down ~> loop = "exited"
=============================================================================
