------------------------------- MODULE Server -------------------------------
(***************************************************************************)
(* ssr-server (server/server.c on top of tunnel.c): the listener, any      *)
(* number of tunnels with the stages of do_next, the cache of resolved     *)
(* host names shared by the tunnels, and the orderly exit on a signal.     *)
(*                                                                         *)
(* One action is one libuv callback.  What depends on bytes is an input    *)
(* chosen by the action: how the cipher pipeline decodes a read (dec), the *)
(* header and payload that the first package turns out to hold (pkg), and  *)
(* whether uv_tcp_connect fails synchronously (err).                       *)
(***************************************************************************)
EXTENDS TunnelOps, FiniteSets

CONSTANTS
    Tunnels,     \* identities of accepted connections
    Hosts,       \* destination names that need a lookup
    BadHosts,    \* those that validate_hostname rejects
    Ips,         \* addresses; a destination may be one
    Ports,
    NoIp,        \* no address stored
    Answers,     \* the addresses a successful lookup may give for a host
    MaxChunks    \* bound: chunks read per direction of a streaming tunnel

ASSUME ConstantsAssumption ==
    /\ BadHosts \subseteq Hosts
    /\ Hosts \cap Ips = {}
    /\ NoIp \notin Hosts \cup Ips
    /\ Answers \in [Hosts -> (SUBSET Ips) \ {{}}]
    /\ Ports \subseteq Nat /\ 0 \notin Ports
    /\ MaxChunks \in Nat

VARIABLES
    tun,           \* the tunnels
    tunnel_set,    \* env->tunnel_set
    resolved_ips,  \* state->resolved_ips: host name to address
    listener,      \* "open", "closing" or "closed"
    shutting_down, \* state->shutting_down
    loop           \* "running" until uv_run returns

vars == <<tun, tunnel_set, resolved_ips, listener, shutting_down, loop>>

Stages == {"unborn", "initial", "receipt_done", "client_feedback",
           "confirm_done", "resolve_host", "connect_host",
           "launch_streaming", "streaming"}

(* The assertions of server.c, by stage. *)
ServerAsserts ==
    {"connect_host_start.all_stop", "init_package.result",
     "client_feedback.no_receipt", "resolve_host_done.settled",
     "launch_streaming.out_written", "connect_host_done.all_stop",
     "next.incoming", "next.unreachable"}

Addresses == [ip : Ips \cup {NoIp}, port : Ports \cup {0}]

NoAddr == [ip |-> NoIp, port |-> 0]

(* init_pkg: its SOCKS5 header, the destination, and whether data follows. *)
NoPkg == [hdr |-> "illegal", name |-> NoIp, port |-> 0, payload |-> FALSE]

Packages ==
    {NoPkg, [NoPkg EXCEPT !.hdr = "incomplete"]} \cup
    [hdr : {"complete"}, name : Hosts \cup Ips, port : Ports, payload : BOOLEAN]

(* What the obfs plugin may still do: "tls" answers one ClientHello. *)
ObfsStates == {"plain", "tls"}

(***************************************************************************)
(* A decode result: a receipt (handshake answer, no data), a rejected      *)
(* package, an empty one, data, or data with a confirm to be sent back.    *)
(***************************************************************************)
Inputs(t) ==
    LET none(d) == [dec |-> d, pkg |-> NoPkg, err |-> FALSE]
    IN  IF t.stage = "streaming"
        THEN {none("null"), none("data")}
        ELSE {none("null"), none("empty")}
             \cup (IF t.obfs = "tls" THEN {none("receipt")} ELSE {})
             \cup [dec : {"data", "confirm"}, pkg : Packages, err : BOOLEAN]

(* A callback that decodes nothing: only a connect it starts may fail. *)
NoData == [dec : {"data"}, pkg : {NoPkg}, err : BOOLEAN]

NewTunnel(k) ==
    [stage |-> "initial", obfs |-> k, init_pkg |-> NoPkg,
     addr |-> NoAddr,
     rd |-> Both("stop"), wr |-> Both("stop"),
     reading |-> Both(FALSE), timer |-> Both(FALSE), wreq |-> Both(FALSE),
     conn |-> "none", gai |-> FALSE,
     terminated |-> FALSE, ref_count |-> 0, closing |-> {}, freed |-> FALSE,
     taken |-> Both(0), delivered |-> Both(0), failed |-> {}]

Unborn == [NewTunnel("plain") EXCEPT !.stage = "unborn"]

(***************************************************************************)
(* The stages of do_next.                                                  *)
(***************************************************************************)
do_connect_host_start(t, err) ==
    LET a == Check(t, "connect_host_start.all_stop", AllStop(t))
        s == socket_connect([a EXCEPT !.stage = "connect_host"], "out", err)
    IN  IF err THEN tunnel_shutdown(s) ELSE s

do_parse_cached_port(t, ips, err) ==   \* mutant: the cached port is used
    LET name  == t.init_pkg.name
        addr  == IF name \in Ips THEN [ip |-> name, port |-> t.init_pkg.port]
                 ELSE ips[name]
    IN  IF addr # NoAddr THEN do_connect_host_start([t EXCEPT !.addr = addr], err)
        ELSE socket_getaddrinfo([t EXCEPT !.stage = "resolve_host",
                                          !.addr.port = t.init_pkg.port], "out")

do_parse(t, ips, err) ==
    LET name  == t.init_pkg.name
        port  == t.init_pkg.port
        at(a) == do_connect_host_start([t EXCEPT !.addr = a], err)
    IN  IF name \in Ips THEN at([ip |-> name, port |-> port])
        ELSE IF ips[name] # NoAddr THEN at([ips[name] EXCEPT !.port = port])
        ELSE IF name \in BadHosts THEN tunnel_shutdown(t)
        ELSE socket_getaddrinfo(
                [t EXCEPT !.stage = "resolve_host", !.addr.port = port], "out")

do_prepare_parse(t, ips, err) ==
    IF t.init_pkg.hdr = "complete" THEN do_parse(t, ips, err)
    ELSE tunnel_shutdown(t)

(* A rejected package (no result) resets init_pkg when ASSERT is off. *)
do_init_package(t, r, o, ips) ==
    LET p == [t EXCEPT !.failed = @ \cup
                          ASSERT("init_package.result", o.dec # "null"),
                       !.init_pkg = o.pkg]
    IN  IF r = "neg" THEN tunnel_shutdown(t)
        ELSE IF o.dec = "receipt"
        THEN [socket_write(t, "in") EXCEPT !.stage = "receipt_done",
                                           !.obfs = "plain"]
        ELSE IF o.dec = "confirm"
        THEN [socket_write(p, "in") EXCEPT !.stage = "confirm_done"]
        ELSE do_prepare_parse(p, ips, o.err)

do_client_feedback(t, r, o, ips) ==
    LET a == Check(t, "client_feedback.no_receipt", o.dec # "receipt")
        p == [a EXCEPT !.init_pkg = o.pkg]
    IN  IF r = "neg" \/ o.dec \notin {"data", "confirm"}
        THEN tunnel_shutdown(a)
        ELSE IF o.dec = "confirm"
        THEN [socket_write(p, "in") EXCEPT !.stage = "confirm_done"]
        ELSE do_prepare_parse(p, ips, o.err)

do_resolve_host_done(t, r, err) ==
    LET Settled(s) == s \in {"stop", "done"}
        a == Check(t, "resolve_host_done.settled",
                    \A c \in Sides : Settled(t.rd[c]) /\ Settled(t.wr[c]))
    IN  IF r = "neg" THEN tunnel_shutdown(a)
        ELSE do_connect_host_start(a, err)

do_launch_streaming(t, r) ==
    LET a == Check(t, "launch_streaming.out_written",
                    /\ AllStop([t EXCEPT !.wr["out"] = "stop"])
                    /\ t.wr["out"] = "done")
        s == [a EXCEPT !.wr["out"] = "stop",
                       !.delivered["out"] = t.taken["in"]]
        b == socket_read(socket_read(s, "in", FALSE), "out", TRUE)
    IN  IF r = "neg" THEN tunnel_shutdown(s)
        ELSE [b EXCEPT !.stage = "streaming"]

(* The payload of the first package is the first chunk of the stream. *)
do_connect_host_done(t, r) ==
    LET a == Check(t, "connect_host_done.all_stop", AllStop(t))
    IN  IF r # "zero" THEN tunnel_shutdown(a)
        ELSE IF t.init_pkg.payload
        THEN [socket_write([a EXCEPT !.taken["in"] = 1], "out")
                 EXCEPT !.stage = "launch_streaming"]
        ELSE do_launch_streaming([a EXCEPT !.wr["out"] = "done"], r)

(* incoming was read (rd) or written (wr) and is idle otherwise. *)
IncomingAt(t, c, rd, wr) ==
    Check(t, "next.incoming", c = "in" /\ t.rd["in"] = rd /\ t.wr["in"] = wr)

do_next(t, c, r, o, ips) ==
    LET read    == [IncomingAt(t, c, "done", "stop") EXCEPT !.rd["in"] = "stop"]
        written == [IncomingAt(t, c, "stop", "done") EXCEPT !.wr["in"] = "stop"]
    IN  CASE t.stage = "initial" -> do_init_package(read, r, o, ips)
          [] t.stage = "receipt_done" ->
               [socket_read(written, "in", TRUE)
                   EXCEPT !.stage = "client_feedback"]
          [] t.stage = "client_feedback" -> do_client_feedback(read, r, o, ips)
          [] t.stage = "confirm_done" -> do_prepare_parse(written, ips, o.err)
          [] t.stage = "resolve_host" -> do_resolve_host_done(t, r, o.err)
          [] t.stage = "connect_host" -> do_connect_host_done(t, r)
          [] t.stage = "launch_streaming" -> do_launch_streaming(t, r)
          [] t.stage = "streaming" ->
               tunnel_traditional_streaming(t, c, o.dec = "data")
          [] OTHER -> Check(t, "next.unreachable", FALSE)

-----------------------------------------------------------------------------
Init ==
    /\ tun = [i \in Tunnels |-> Unborn]
    /\ tunnel_set = {}
    /\ resolved_ips = [h \in Hosts |-> NoAddr]
    /\ listener = "open"
    /\ shutting_down = FALSE
    /\ loop = "running"

ServerUnchanged == UNCHANGED <<listener, shutting_down, loop>>

OnlyTunnel(i, t) ==
    /\ tun' = [tun EXCEPT ![i] = t]
    /\ UNCHANGED <<tunnel_set, resolved_ips>>
    /\ ServerUnchanged

Connection(i) ==
    /\ listener = "open"
    /\ tun[i].stage = "unborn"
    /\ \E k \in ObfsStates :
          tun' = [tun EXCEPT ![i] = socket_read(NewTunnel(k), "in", TRUE)]
    /\ tunnel_set' = tunnel_set \cup {i}
    /\ UNCHANGED resolved_ips
    /\ ServerUnchanged

ReadDone(i, c) ==
    /\ tun[i].reading[c]
    /\ \E n \in Results, o \in Inputs(tun[i]) :
          LET t == socket_read_done_cb(tun[i], c, n)
          IN  /\ n = "pos" /\ tun[i].stage = "streaming"
                    => tun[i].taken[c] < MaxChunks
              /\ OnlyTunnel(i, IF Continues(tun[i], n) /\ n = "pos"
                               THEN do_next(t, c, n, o, resolved_ips) ELSE t)

WriteDone(i, c) ==
    /\ tun[i].wreq[c]
    /\ \E s \in {"neg", "zero"}, o \in NoData :
          LET t == socket_write_done_cb(tun[i], c, s)
          IN  OnlyTunnel(i, IF Continues(tun[i], s)
                            THEN do_next(t, c, s, o, resolved_ips) ELSE t)

ConnectDone(i) ==
    /\ tun[i].conn = "pending"
    /\ \E s \in {"neg", "zero"}, o \in NoData :
          LET t == socket_connect_done_cb(tun[i], s)
          IN  OnlyTunnel(i, IF Continues(tun[i], s)
                            THEN do_next(t, "out", s, o, resolved_ips) ELSE t)

(* A name is entered once; the first answer stays. *)
resolved_ips_add(ips, h, a) ==
    IF ips[h] = NoAddr THEN [ips EXCEPT ![h] = a] ELSE ips

(* uv_cancel need not succeed, so the callback may find the tunnel freed. *)
GetaddrinfoDone(i) ==
    /\ tun[i].gai
    /\ \E s \in {"neg", "zero"}, a \in Answers[tun[i].init_pkg.name],
          o \in NoData :
          LET t == socket_getaddrinfo_done_cb(tun[i], s, a)
              go == Continues(tun[i], s)
          IN  /\ tun' = [tun EXCEPT ![i] =
                           IF go THEN do_next(t, "out", s, o, resolved_ips) ELSE t]
              /\ resolved_ips' =
                    IF go THEN resolved_ips_add(resolved_ips,
                                                t.init_pkg.name, t.addr)
                    ELSE resolved_ips
    /\ UNCHANGED tunnel_set
    /\ ServerUnchanged

TimerExpire(i, c) ==
    /\ tun[i].timer[c]
    /\ OnlyTunnel(i, socket_timer_expire_cb(tun[i], c))

(* libuv cancels what is pending on a stream before its close callback. *)
CloseReady(t, h) ==
    /\ h \in t.closing
    /\ h[2] = "tcp" => ~t.wreq[h[1]] /\ (h[1] = "out" => t.conn # "pending")

tunnel_dying_kept(i, t) == tunnel_set   \* mutant: never removed

tunnel_dying(i, t) == IF t.freed THEN tunnel_set \ {i} ELSE tunnel_set

CloseDone(i, h) ==
    /\ CloseReady(tun[i], h)
    /\ LET t == socket_close_done_cb(tun[i], h)
       IN  /\ tun' = [tun EXCEPT ![i] = t]
           /\ tunnel_set' = tunnel_dying(i, t)
    /\ UNCHANGED resolved_ips
    /\ ServerUnchanged

SignalQuit_listener_only ==   \* mutant: the tunnels are not shut down
    /\ ~shutting_down
    /\ shutting_down' = TRUE
    /\ listener' = "closing"
    /\ UNCHANGED <<tun, tunnel_set, resolved_ips, loop>>

(* SIGINT or SIGTERM; the watchers are stopped by ssr_server_shutdown. *)
SignalQuit ==
    /\ ~shutting_down
    /\ shutting_down' = TRUE
    /\ listener' = "closing"
    /\ tun' = [i \in Tunnels |-> IF i \in tunnel_set
                                 THEN tunnel_shutdown(tun[i]) ELSE tun[i]]
    /\ UNCHANGED <<tunnel_set, resolved_ips, loop>>

ListenerClosed ==
    /\ listener = "closing"
    /\ listener' = "closed"
    /\ UNCHANGED <<tun, tunnel_set, resolved_ips, shutting_down, loop>>

(* uv_run returns when no handle and no request is active. *)
LoopIdle ==
    /\ listener = "closed"
    /\ \A i \in Tunnels : /\ tun[i].stage = "unborn" \/ tun[i].freed
                          /\ ~tun[i].gai

LoopExit ==
    /\ loop = "running"
    /\ LoopIdle
    /\ loop' = "exited"
    /\ UNCHANGED <<tun, tunnel_set, resolved_ips, listener, shutting_down>>

Exited == loop = "exited" /\ UNCHANGED vars

TunnelNext(i) ==
    \/ Connection(i)
    \/ \E c \in Sides : ReadDone(i, c) \/ WriteDone(i, c) \/ TimerExpire(i, c)
    \/ ConnectDone(i)
    \/ GetaddrinfoDone(i)
    \/ \E h \in Handles : CloseDone(i, h)

Next ==
    \/ \E i \in Tunnels : TunnelNext(i)
    \/ SignalQuit
    \/ ListenerClosed
    \/ LoopExit
    \/ Exited

Spec == Init /\ [][Next]_vars

(***************************************************************************)
(* Fairness: libuv runs the close callbacks and the callbacks of cancelled *)
(* requests, the resolver answers, and a timer that stays armed expires.   *)
(* Nothing is assumed of the peers.                                        *)
(***************************************************************************)
Cancelled(i, A) == tun[i].terminated /\ A

Fairness ==
    /\ WF_vars(ListenerClosed)
    /\ WF_vars(LoopExit)
    /\ \A i \in Tunnels :
          /\ WF_vars(Cancelled(i, ConnectDone(i)))
          /\ WF_vars(GetaddrinfoDone(i))
          /\ \A c \in Sides : /\ WF_vars(Cancelled(i, WriteDone(i, c)))
                              /\ WF_vars(TimerExpire(i, c))
          /\ \A h \in Handles : WF_vars(CloseDone(i, h))

FairSpec == Spec /\ Fairness

-----------------------------------------------------------------------------
IsTunnel(t) ==
    /\ DOMAIN t = {"stage", "obfs", "init_pkg", "addr", "rd", "wr", "reading",
                   "timer", "wreq", "conn", "gai", "terminated", "ref_count",
                   "closing", "freed", "taken", "delivered", "failed"}
    /\ t.stage \in Stages /\ t.obfs \in ObfsStates
    /\ t.init_pkg \in Packages /\ t.addr \in Addresses
    /\ t.rd \in [Sides -> SockStates] /\ t.wr \in [Sides -> SockStates]
    /\ t.reading \in [Sides -> BOOLEAN] /\ t.timer \in [Sides -> BOOLEAN]
    /\ t.wreq \in [Sides -> BOOLEAN]
    /\ t.conn \in Connections /\ t.gai \in BOOLEAN
    /\ t.terminated \in BOOLEAN /\ t.freed \in BOOLEAN
    /\ t.ref_count \in Nat /\ t.closing \subseteq Handles
    /\ t.taken \in [Sides -> Nat] /\ t.delivered \in [Sides -> Nat]
    /\ t.failed \subseteq TunnelAsserts \cup ServerAsserts

(* Every variable has its type. *)
TypeOK ==
    /\ DOMAIN tun = Tunnels
    /\ \A i \in Tunnels : IsTunnel(tun[i])
    /\ tunnel_set \subseteq Tunnels
    /\ resolved_ips \in [Hosts -> Addresses]
    /\ listener \in {"open", "closing", "closed"}
    /\ shutting_down \in BOOLEAN
    /\ loop \in {"running", "exited"}

Alive(t) == t.stage # "unborn" /\ ~t.terminated

(***************************************************************************)
(* No ASSERT or VERIFY of tunnel.c and server.c that speaks of a socket's  *)
(* state fails, whatever the order of callbacks: no read or write starts   *)
(* while one is pending or on a stream that is not open, and every stage   *)
(* is entered with the sockets as it expects them.                         *)
(***************************************************************************)
AssertsHold ==
    \A i \in Tunnels : tun[i].failed \subseteq {"init_package.result"}

(***************************************************************************)
(* The loop can see data or an EOF on one side of a streaming tunnel only  *)
(* when all that was read from this side before is written to the other    *)
(* side: the claim of tunnel_traditional_streaming that reading only when  *)
(* not writing gives back-pressure, and that an EOF cuts nothing off.      *)
(***************************************************************************)
FlushedBeforeRead ==
    \A i \in Tunnels, c \in Sides :
        Alive(tun[i]) /\ tun[i].stage = "streaming" /\ tun[i].reading[c]
            => /\ tun[i].taken[c] = tun[i].delivered[Other(c)]
               /\ ~tun[i].wreq[Other(c)]

(***************************************************************************)
(* A tunnel is freed by the last of its four close callbacks and no read,  *)
(* write, connect or timer callback can reach it afterwards                *)
(* (tunnel_release, socket_close).                                         *)
(***************************************************************************)
FreedLast ==
    \A i \in Tunnels :
        LET t == tun[i]
        IN  /\ t.ref_count = Cardinality(t.closing)
            /\ t.freed => /\ t.closing = {}
                          /\ t.conn # "pending"
                          /\ \A c \in Sides : ~(t.reading[c] \/ t.timer[c] \/ t.wreq[c])

(***************************************************************************)
(* tunnel_set holds exactly the tunnels that exist, so that the shutdown   *)
(* traversal reaches all of them and none that is freed (tunnel_dying).    *)
(***************************************************************************)
TunnelSetExact ==
    tunnel_set = {i \in Tunnels : tun[i].stage # "unborn" /\ ~tun[i].freed}

IsAnswer(name, ip) ==
    IF name \in Hosts THEN ip \in Answers[name] ELSE ip = name

(***************************************************************************)
(* A tunnel connects to the port its own client asked for and to an        *)
(* address of the name asked for, also when the address comes from the     *)
(* cache that another tunnel filled for another port (do_parse,            *)
(* socket_getaddrinfo_done_cb).                                            *)
(***************************************************************************)
RightDestination ==
    \A i \in Tunnels :
        LET p == tun[i].init_pkg
            a == tun[i].addr
        IN  tun[i].conn # "none" =>
              /\ a.port = p.port
              /\ IsAnswer(p.name, a.ip)

(***************************************************************************)
(* After tunnel_shutdown no read, timer or request is started: a callback  *)
(* that comes late leaves the tunnel alone (the tunnel_is_dead checks).    *)
(***************************************************************************)
DeadStaysQuiet ==
    [][\A i \in Tunnels : tun[i].terminated =>
          /\ tun'[i].terminated
          /\ tun'[i].stage = tun[i].stage
          /\ tun'[i].conn = "pending" => tun[i].conn = "pending"
          /\ tun'[i].gai => tun[i].gai
          /\ \A c \in Sides : /\ ~tun'[i].reading[c] /\ ~tun'[i].timer[c]
                              /\ tun'[i].wreq[c] => tun[i].wreq[c]]_vars

(* libuv's EAGAIN (nread = 0) stops a read that nothing restarts. *)
Stalled(t) == \E c \in Sides : t.rd[c] = "busy" /\ ~t.reading[c]

(***************************************************************************)
(* A tunnel does not stay in the handshake, resolve or connect stages: the *)
(* timers that guard each of them end it, unless a read returned nothing   *)
(* (see Stalled).                                                          *)
(***************************************************************************)
HandshakeEnds ==
    \A i \in Tunnels :
        (tun[i].stage = "initial") ~>
            (tun[i].terminated \/ tun[i].stage = "streaming" \/ Stalled(tun[i]))

(***************************************************************************)
(* After SIGINT or SIGTERM uv_run returns: every tunnel is shut down and   *)
(* freed and every handle closed (ssr_server_shutdown).                    *)
(***************************************************************************)
ShutdownCompletes == shutting_down ~> (loop = "exited" /\ tunnel_set = {})

(***************************************************************************)
(* Every tunnel is a Relay: chunks pass in order, none lost while it is    *)
(* open, one in flight per direction.                                      *)
(***************************************************************************)
RelayPhase(t) ==
    IF t.terminated THEN "closed"
    ELSE IF t.stage \in {"launch_streaming", "streaming"} THEN "open"
    ELSE "setup"

Pipe(i) == INSTANCE Relay WITH phase <- RelayPhase(tun[i]),
                               taken <- tun[i].taken,
                               delivered <- tun[i].delivered

ImplementsRelay ==
    /\ \A i \in Tunnels : Pipe(i)!RelayInit
    /\ [][\A i \in Tunnels : [Pipe(i)!RelayNext]_(Pipe(i)!relayVars)]_vars

-----------------------------------------------------------------------------
(***************************************************************************)
(* The inductive invariant.  Between two callbacks a live tunnel is in the *)
(* shape its stage prescribes; a dead one only waits for the close         *)
(* callbacks that are outstanding.                                         *)
(***************************************************************************)
Shape(t, rin, win, rout, wout) ==
    t.rd["in"] = rin /\ t.wr["in"] = win /\ t.rd["out"] = rout /\ t.wr["out"] = wout

(* One direction of a streaming tunnel: a chunk in flight or a read pending. *)
Direction(t, c) ==
    \/ /\ t.rd[c] = "stop" /\ t.wr[Other(c)] = "busy"
       /\ t.taken[c] = t.delivered[Other(c)] + 1
    \/ /\ t.rd[c] = "busy" /\ t.wr[Other(c)] = "stop"
       /\ t.taken[c] = t.delivered[Other(c)]

StageShape(t) ==
    /\ t.stage \in {"initial", "client_feedback"} =>
          Shape(t, "busy", "stop", "stop", "stop")
    /\ t.stage \in {"receipt_done", "confirm_done"} =>
          Shape(t, "stop", "busy", "stop", "stop")
    /\ t.stage \in {"resolve_host", "connect_host"} => AllStop(t)
    /\ t.stage = "launch_streaming" =>
          /\ Shape(t, "stop", "stop", "stop", "busy")
          /\ t.taken["in"] = 1 /\ t.taken["out"] = 0 /\ t.delivered = Both(0)
    /\ t.stage = "streaming" => Direction(t, "in") /\ Direction(t, "out")
    /\ t.stage \notin {"launch_streaming", "streaming"} =>
          t.taken = Both(0) /\ t.delivered = Both(0)

LiveInv(t) ==
    /\ t.ref_count = 0 /\ t.closing = {} /\ ~t.freed
    /\ \A c \in Sides : /\ t.wreq[c] <=> t.wr[c] = "busy"
                        /\ t.reading[c] => t.rd[c] = "busy"
    /\ t.gai <=> t.stage = "resolve_host"
    /\ t.conn = "pending" <=> t.stage = "connect_host"
    /\ t.conn = "up" <=> t.stage \in {"launch_streaming", "streaming"}
    /\ t.stage \in {"receipt_done", "client_feedback"} => t.obfs = "plain"
    /\ StageShape(t)

(* How many of the four handles of a tunnel are in a set of them. *)
HandleCount(c) ==
    LET One(h) == IF h \in c THEN 1 ELSE 0
    IN  One(<<"in", "tcp">>) + One(<<"in", "timer">>)
        + One(<<"out", "tcp">>) + One(<<"out", "timer">>)

DeadInv(t) ==
    /\ t.rd = Both("dead") /\ t.wr = Both("dead")
    /\ t.reading = Both(FALSE) /\ t.timer = Both(FALSE)
    /\ t.ref_count = HandleCount(t.closing)
    /\ t.freed <=> t.closing = {}
    /\ \A c \in Sides : <<c, "tcp">> \notin t.closing => ~t.wreq[c]
    /\ <<"out", "tcp">> \notin t.closing => t.conn # "pending"

DestInv(t) ==
    /\ t.gai => /\ t.init_pkg.name \in Hosts
                /\ t.addr.port = t.init_pkg.port
    /\ t.conn # "none" => /\ t.addr.port = t.init_pkg.port
                          /\ IsAnswer(t.init_pkg.name, t.addr.ip)

TunnelInv(t) ==
    /\ IsTunnel(t)
    /\ t.failed \subseteq {"init_package.result"}
    /\ DestInv(t)
    /\ t.stage = "unborn" => t = Unborn
    /\ Alive(t) => LiveInv(t)
    /\ t.terminated => DeadInv(t)

CacheInv == \A h \in Hosts : resolved_ips[h] # NoAddr => resolved_ips[h].ip \in Answers[h]

(***************************************************************************)
(* Every tunnel is as its stage says, the cache holds answers only, and    *)
(* tunnel_set is exact: the inductive form of the properties above.        *)
(***************************************************************************)
ServerInv ==
    /\ TypeOK
    /\ \A i \in Tunnels : TunnelInv(tun[i])
    /\ CacheInv
    /\ TunnelSetExact

-----------------------------------------------------------------------------
(***************************************************************************)
(* What comments and assertions of the code say and the code does not do.  *)
(***************************************************************************)

(***************************************************************************)
(* tunnel.c:201: reading the outgoing side is what the timeout guards.     *)
(***************************************************************************)
OutgoingReadTimed ==
    \A i \in Tunnels :
        Alive(tun[i]) /\ tun[i].stage = "streaming" /\ tun[i].reading["out"]
            => tun[i].timer["out"]

(***************************************************************************)
(* tunnel.h:13: a socket whose read state is busy waits for incoming data. *)
(***************************************************************************)
BusyMeansReading ==
    \A i \in Tunnels : Alive(tun[i]) => ~Stalled(tun[i])

(***************************************************************************)
(* tunnel.c:163: the callback of a cancelled lookup still runs; it works   *)
(* on the tunnel, so the tunnel must still exist when it does.             *)
(***************************************************************************)
LookupEndsBeforeFree ==
    \A i \in Tunnels : tun[i].freed => ~tun[i].gai

(***************************************************************************)
(* server.c:532: the first package always decodes to a buffer.             *)
(***************************************************************************)
InitPackageDecodes ==
    \A i \in Tunnels : "init_package.result" \notin tun[i].failed
=============================================================================
