------------------------------- MODULE Local --------------------------------
(***************************************************************************)
(* One connection of ssr-local (local.c): struct local_t talks to a SOCKS5 *)
(* client, struct remote_t to the shadowsocks server, and each frees       *)
(* itself after its own handles have closed.                               *)
(*                                                                         *)
(* What the client sends is a sequence of messages: 1 is the greeting, 2   *)
(* the request, 3 and up are data.  A read delivers any run of them, so    *)
(* that messages come together or apart; a message cut in two is left out. *)
(* What goes to the server is a sequence of the same numbers, 0 standing   *)
(* for the address header that local.c puts first.                         *)
(*                                                                         *)
(* The read loop of remote_recv_cb cuts a read into pieces of              *)
(* SSR_BUFF_SIZE; each piece is a read of its own here.                    *)
(***************************************************************************)
EXTENDS Acl

CONSTANTS
    Requests,    \* requests a client makes: [cmd, addr]
    AclFiles,    \* ACL files the process may be started with
    NoAcl,       \* no --acl option
    MaxMessage,  \* last message of a client that connects
    MaxAnswers   \* reads from the server

ASSUME LocalAssumption ==
    /\ MaxMessage \in Nat /\ MaxMessage >= 2 /\ MaxAnswers \in Nat
    /\ \A q \in Requests : /\ q.cmd \in {"connect", "udp", "other"}
                           /\ q.addr \in {"ip", "web", "name", "bad"}

VARIABLES
    local,     \* struct local_t and its socket
    remote,    \* struct remote_t, its socket and two timers
    plugin,    \* the obfs plugin of the connection: handshake and data held
    process,   \* "run", "stopped" by a signal, "crashed"
    acl,       \* the access control lists, or NoAcl
    request,   \* the request this client makes
    sent,      \* messages the client has sent
    answers    \* reads from the server so far

vars == <<local, remote, plugin, process, acl, request, sent, answers>>

Timers == {"send", "recv"}

NoLocal ==
    [phase |-> "none", stage |-> "INIT", reading |-> FALSE, remote |-> FALSE,
     server_env |-> FALSE, writes |-> 0, methods |-> 0, replies |-> 0,
     dying |-> FALSE, ref_count |-> 0, closing |-> {}, misread |-> FALSE]

NoRemote ==
    [phase |-> "none", local |-> FALSE, host |-> "none",
     connect |-> "none", connected |-> FALSE, reading |-> FALSE,
     timers |-> {}, buf |-> <<>>, queued |-> 0, written |-> 0, wire |-> <<>>,
     dying |-> FALSE, ref_count |-> 0, closing |-> {}]

Init ==
    /\ local = NoLocal /\ remote = NoRemote
    /\ plugin \in {[stage |-> s, held |-> <<>>] : s \in {"plain", "start"}}
    /\ process = "run"
    /\ acl \in {NoAcl} \cup {init_acl(f) : f \in AclFiles}
    /\ request \in Requests
    /\ sent = 0 /\ answers = 0

(***************************************************************************)
(* tunnel_close_and_free, and the close callbacks.  Each object counts the *)
(* uv_close calls made for its handles, is destroyed by the last callback, *)
(* and then clears the other object's pointer to it.                       *)
(***************************************************************************)
remote_close_and_free_extra(r) ==   \* mutant: a reference nobody drops
    [r EXCEPT !.dying = TRUE, !.timers = {}, !.reading = FALSE,
              !.closing = {"send", "recv", "tcp"}, !.ref_count = @ + 4]

remote_close_and_free(r) ==
    [r EXCEPT !.dying = TRUE, !.timers = {}, !.reading = FALSE,
              !.closing = {"send", "recv", "tcp"}, !.ref_count = @ + 3]

local_close_and_free(l) ==
    [l EXCEPT !.dying = TRUE, !.reading = FALSE, !.closing = {"tcp"},
              !.ref_count = @ + 1]

tunnel_close_and_free(l, r) ==
    /\ local' = local_close_and_free(l)
    /\ remote' = IF l.remote THEN remote_close_and_free(r) ELSE r

remote_close_done_cb_kept(h) ==   \* mutant: local->remote is not cleared
    LET r == [remote EXCEPT !.closing = @ \ {h}, !.ref_count = @ - 1]
    IN  /\ h \in remote.closing
        /\ h = "tcp" => r.connect # "pending" /\ r.queued + r.written = 0
        /\ remote' = [r EXCEPT !.phase = IF r.ref_count = 0 THEN "freed" ELSE @]
        /\ UNCHANGED local

(* libuv calls a socket's cancelled requests back before its close. *)
remote_close_done_cb(h) ==
    LET r == [remote EXCEPT !.closing = @ \ {h}, !.ref_count = @ - 1]
        last == r.ref_count = 0
    IN  /\ h \in remote.closing
        /\ h = "tcp" => r.connect # "pending" /\ r.queued + r.written = 0
        /\ remote' = [r EXCEPT !.phase = IF last THEN "freed" ELSE @]
        /\ local' = IF last /\ r.local THEN [local EXCEPT !.remote = FALSE]
                    ELSE local

local_close_done_cb ==
    LET l == [local EXCEPT !.closing = {}, !.ref_count = @ - 1]
        last == l.ref_count = 0
    IN  /\ local.closing # {} /\ local.writes = 0
        /\ local' = [l EXCEPT !.phase = IF last THEN "freed" ELSE @]
        /\ remote' = IF last /\ l.remote THEN [remote EXCEPT !.local = FALSE]
                     ELSE remote

(***************************************************************************)
(* remote_send_data hands remote->buf itself to uv_write and starts the    *)
(* send timer.  With nothing queued libuv tries to write at once; what the *)
(* kernel does not take (full) stays queued, by reference.                 *)
(***************************************************************************)
remote_send_data(r, full) ==
    LET s == [r EXCEPT !.timers = @ \cup {"send"}]
    IN  IF full \/ r.queued > 0 THEN [s EXCEPT !.queued = @ + 1]
        ELSE [s EXCEPT !.wire = @ \o r.buf, !.written = @ + 1]

local_send_data(l) == [l EXCEPT !.writes = @ + 1]

(***************************************************************************)
(* _tunnel_encrypt of messages m.  A plugin with a handshake keeps the     *)
(* data it is given: the first time it yields its hello (no message of the *)
(* client), then nothing until the server has answered.                    *)
(***************************************************************************)
Encoded(m) ==
    CASE plugin.stage = "plain" -> [buf |-> m, len |-> Len(m), plugin |-> plugin]
      [] plugin.stage = "start" ->
            [buf |-> <<>>, len |-> 1, plugin |-> [stage |-> "hello", held |-> m]]
      [] plugin.stage = "hello" ->
            [buf |-> <<>>, len |-> 0, plugin |-> [plugin EXCEPT !.held = @ \o m]]

(***************************************************************************)
(* The route of a destination under the access control lists: blocked,     *)
(* direct, or by the server.  A name on no list is resolved and its        *)
(* address looked up; when that fails the address looked up is whatever    *)
(* the uninitialized array holds.  A direct route whose address cannot be  *)
(* made falls back to the server.                                          *)
(***************************************************************************)
Addresses == {"addr", "junk"}

IpRoute(ip) ==
    IF outbound_block_match_host(acl, ip) THEN "block"
    ELSE CASE acl_match_host(acl, ip) < 0 -> "direct"
           [] acl_match_host(acl, ip) > 0 -> "server"
           [] OTHER -> IF acl.mode = "BLACK_LIST" THEN "direct" ELSE "server"

HostRoute(q, host) ==
    LET ips == IF q.addr = "name" THEN Addresses ELSE {"addr"}
    IN  CASE acl_match_host(acl, host) > 0 -> {"server"}
          [] acl_match_host(acl, host) < 0 -> {"direct", "server"}
          [] OTHER -> UNION {IF IpRoute(ip) = "direct" THEN {"direct", "server"}
                             ELSE {IpRoute(ip)} : ip \in ips}

Route_unblocked(q, host) ==   \* mutant: blocked names are not looked up
    IF acl = NoAcl THEN {"server"} ELSE HostRoute(q, host)

Route(q, host) ==
    CASE acl = NoAcl -> {"server"}
      [] acl # NoAcl /\ outbound_block_match_host(acl, host) -> {"block"}
      [] OTHER -> HostRoute(q, host)

(***************************************************************************)
(* STAGE_STREAM of local_recv_cb, for local l and remote r: encrypt (which *)
(* may fail), then connect, or stop reading, or send.                      *)
(***************************************************************************)
stream_unstopped(l, r, m) ==   \* mutant: reads on while it connects
    LET e == Encoded(m)
        s == [r EXCEPT !.buf = e.buf]
    IN  IF r.connected
        THEN /\ local' = l /\ \E full \in BOOLEAN : remote' = remote_send_data(s, full)
             /\ plugin' = e.plugin
        ELSE /\ local' = l /\ remote' = [s EXCEPT !.connect = "pending"]
             /\ plugin' = e.plugin

stream(l, r, m) ==
    LET e == Encoded(m)
        s == [r EXCEPT !.buf = e.buf]
        stopped == [l EXCEPT !.reading = FALSE]
    IN  \/ tunnel_close_and_free(l, s) /\ UNCHANGED plugin
        \/ /\ plugin' = e.plugin
           /\ \/ /\ ~r.connected
                 /\ local' = stopped
                 /\ remote' = [s EXCEPT !.connect = "pending"]
              \/ /\ r.connected /\ e.len = 0
                 /\ local' = stopped /\ remote' = s
              \/ /\ r.connected /\ e.len # 0
                 /\ local' = l
                 /\ \E full \in BOOLEAN : remote' = remote_send_data(s, full)

(***************************************************************************)
(* STAGE_HANDSHAKE and STAGE_PARSE: messages m, of which the first is read *)
(* as a request.  If it is none its bytes can say anything, a length       *)
(* beyond the end of the read included.                                    *)
(***************************************************************************)
Overlong == [cmd |-> "connect", addr |-> "overlong"]

ReadAs(i) == IF i = 2 THEN {request} ELSE Requests \cup {Overlong}

Crash(how) ==
    /\ process' = how
    /\ UNCHANGED <<local, remote, plugin>>

(* The server name found in the data that came with the request. *)
Sni(q, m) ==
    IF q.addr = "web" /\ Len(m) > 1 THEN {"incomplete", "none", "name"} ELSE {"none"}

Host(q, sni) ==
    CASE sni = "name" -> "sni" [] q.addr = "name" -> "name" [] OTHER -> "addr"

connect_to(l, q, host, m) ==
    \E route \in Route(q, host) :
        \/ /\ route = "block"
           /\ tunnel_close_and_free(l, remote)
           /\ UNCHANGED <<plugin, process>>
        \/ route = "direct" /\ Crash("null_server_env")
        \/ /\ route = "server"
           /\ stream([l EXCEPT !.stage = "STREAM", !.remote = TRUE,
                               !.server_env = TRUE],
                     [NoRemote EXCEPT !.phase = "open", !.local = TRUE,
                                      !.host = host],
                     <<0>> \o Tail(m))
           /\ UNCHANGED process

parse_request(l, m) ==
    \E q \in ReadAs(Head(m)) :
        LET x == [l EXCEPT !.misread = @ \/ Head(m) # 2]
            y == IF l.stage = "HANDSHAKE"
                 THEN [local_send_data(x) EXCEPT !.replies = @ + 1] ELSE x
        IN  \/ /\ q.cmd = "other"
               /\ tunnel_close_and_free(local_send_data(x), remote)
               /\ UNCHANGED <<plugin, process>>
            \/ /\ q.cmd = "udp" /\ l.stage = "HANDSHAKE"
               /\ local' = y
               /\ UNCHANGED <<remote, plugin, process>>
            \/ /\ q.cmd # "other" /\ (q.cmd = "udp" => l.stage = "PARSE")
               /\ CASE q.addr = "bad" -> /\ tunnel_close_and_free(y, remote)
                                         /\ UNCHANGED <<plugin, process>>
                    [] q.addr = "overlong" -> Crash("header_overrun")
                    [] OTHER -> \E sni \in Sni(q, m) :
                         IF sni = "incomplete"
                         THEN /\ local' = [y EXCEPT !.stage = "PARSE"]
                              /\ UNCHANGED <<remote, plugin, process>>
                         ELSE connect_to(y, q, Host(q, sni), m)

(***************************************************************************)
(* local_recv_cb.  Without a remote the read replaces what local->buf      *)
(* held; with one it replaces what remote->buf held.                       *)
(***************************************************************************)
Running == process = "run"

LastMessage == IF request.cmd = "connect" THEN MaxMessage ELSE 2

Received(k) == [i \in 1..k |-> sent + i]

greeted(l) == [local_send_data(l) EXCEPT !.stage = "HANDSHAKE", !.methods = @ + 1]

local_recv_cb(k) ==
    LET m == Received(k)
    IN  /\ Running /\ local.reading /\ sent + k <= LastMessage
        /\ sent' = sent + k
        /\ CASE local.stage = "STREAM" -> /\ stream(local, remote, m)
                                          /\ UNCHANGED process
             [] local.stage = "INIT" /\ k = 1 ->
                    /\ local' = greeted(local)
                    /\ UNCHANGED <<remote, plugin, process>>
             [] local.stage = "INIT" /\ k > 1 -> parse_request(greeted(local), Tail(m))
             [] OTHER -> parse_request(local, m)
        /\ UNCHANGED <<acl, request, answers>>

(* nread < 0 *)
ClientEnd ==
    /\ Running /\ local.reading
    /\ tunnel_close_and_free(local, remote)
    /\ UNCHANGED <<plugin, process, acl, request, sent, answers>>

local_send_cb_undying(status) ==   \* mutant: closes a second time
    LET l == [local EXCEPT !.writes = @ - 1]
    IN  /\ Running /\ local.writes > 0
        /\ IF status = 0 THEN local' = l /\ UNCHANGED remote
           ELSE tunnel_close_and_free(l, remote)
        /\ UNCHANGED <<plugin, process, acl, request, sent, answers>>

local_send_cb(status) ==
    LET l == [local EXCEPT !.writes = @ - 1]
    IN  /\ Running /\ local.writes > 0
        /\ IF local.dying \/ (local.remote /\ remote.dying) \/ status = 0
           THEN local' = l /\ UNCHANGED remote
           ELSE tunnel_close_and_free(l, remote)
        /\ UNCHANGED <<plugin, process, acl, request, sent, answers>>

remote_connected_cb_untimed(status) ==   \* mutant: no timer for the answer
    LET r == [remote EXCEPT !.connect = IF status = 0 THEN "up" ELSE "none"]
        up == [r EXCEPT !.connected = TRUE, !.reading = TRUE]
    IN  /\ Running /\ remote.connect = "pending"
        /\ IF ~remote.local \/ local.dying \/ remote.dying
           THEN remote' = r /\ UNCHANGED local
           ELSE IF status # 0 THEN tunnel_close_and_free(local, r)
           ELSE /\ \E full \in BOOLEAN : remote' = remote_send_data(up, full)
                /\ local' = [local EXCEPT !.reading = TRUE]
        /\ UNCHANGED <<plugin, process, acl, request, sent, answers>>

remote_connected_cb(status) ==
    LET r == [remote EXCEPT !.connect = IF status = 0 THEN "up" ELSE "none"]
        up == [r EXCEPT !.connected = TRUE, !.reading = TRUE,
                        !.timers = @ \cup {"recv"}]
    IN  /\ Running /\ remote.connect = "pending"
        /\ IF ~remote.local \/ local.dying \/ remote.dying
           THEN remote' = r /\ UNCHANGED local
           ELSE IF status # 0 THEN tunnel_close_and_free(local, r)
           ELSE /\ \E full \in BOOLEAN : remote' = remote_send_data(up, full)
                /\ local' = [local EXCEPT !.reading = TRUE]
        /\ UNCHANGED <<plugin, process, acl, request, sent, answers>>

remote_timeout_cb(t) ==
    LET r == [remote EXCEPT !.timers = @ \ {t}]
    IN  /\ Running /\ t \in remote.timers
        /\ IF ~remote.local \/ local.dying \/ remote.dying
           THEN remote' = r /\ UNCHANGED local
           ELSE tunnel_close_and_free(local, r)
        /\ UNCHANGED <<plugin, process, acl, request, sent, answers>>

(***************************************************************************)
(* remote_recv_cb.  While the plugin waits for the server's hello a read   *)
(* completes it, or not yet; when it does, what was held goes out as       *)
(* feedback, reading from the client resumes, and data may follow.         *)
(***************************************************************************)
remote_recv_cb(result) ==
    LET r == [remote EXCEPT !.timers = @ \cup {"recv"}]
        fed == plugin.stage = "hello" /\ result \in {"data", "empty"}
        s(full) == IF fed THEN remote_send_data([r EXCEPT !.buf = plugin.held], full)
                   ELSE r
        l == IF fed THEN [local EXCEPT !.reading = TRUE] ELSE local
    IN  /\ Running /\ remote.reading /\ answers < MaxAnswers
        /\ answers' = answers + 1
        /\ plugin' = IF fed THEN [stage |-> "plain", held |-> <<>>] ELSE plugin
        /\ \E full \in BOOLEAN :
              CASE result \in {"eof", "error", "undecodable"} ->
                        tunnel_close_and_free(local, r)
                [] result = "data" -> local' = local_send_data(l) /\ remote' = s(full)
                [] result \in {"empty", "partial"} -> local' = l /\ remote' = s(full)
        /\ UNCHANGED <<process, acl, request, sent>>

(* The kernel takes a queued write: the bytes remote->buf holds by now. *)
Flush ==
    /\ Running /\ remote.queued > 0 /\ ~remote.dying
    /\ remote' = [remote EXCEPT !.queued = @ - 1, !.written = @ + 1,
                                !.wire = @ \o remote.buf]
    /\ UNCHANGED <<local, plugin, process, acl, request, sent, answers>>

(* Any of a remote's sends coming back stops the one send timer. *)
remote_send_cb(status) ==
    LET done == [remote EXCEPT !.written = @ - 1]
        failed == [remote EXCEPT !.queued = @ - 1]
        r == IF status = 0 THEN done ELSE failed
        stopped == [r EXCEPT !.timers = @ \ {"send"}]
    IN  /\ Running
        /\ IF status = 0 THEN remote.written > 0 ELSE remote.queued > 0
        /\ IF ~remote.local \/ local.dying \/ remote.dying
           THEN remote' = r /\ UNCHANGED local
           ELSE IF status # 0 THEN tunnel_close_and_free(local, stopped)
           ELSE remote' = stopped /\ UNCHANGED local
        /\ UNCHANGED <<plugin, process, acl, request, sent, answers>>

(* accept_cb; when uv_accept fails the new object is left as it is. *)
accept_cb(accepted) ==
    /\ Running /\ local.phase = "none"
    /\ local' = IF accepted THEN [NoLocal EXCEPT !.phase = "open", !.reading = TRUE]
                ELSE [NoLocal EXCEPT !.phase = "leaked"]
    /\ UNCHANGED <<remote, plugin, process, acl, request, sent, answers>>

(* signal_cb stops the loop; free_connections does nothing. *)
signal_cb ==
    /\ Running
    /\ process' = "stopped"
    /\ UNCHANGED <<local, remote, plugin, acl, request, sent, answers>>

CloseDone ==
    /\ Running
    /\ local_close_done_cb \/ \E h \in remote.closing : remote_close_done_cb(h)
    /\ UNCHANGED <<plugin, process, acl, request, sent, answers>>

(* Nothing left to do for this connection, or no process to do it. *)
Over ==
    /\ ~Running \/ local.phase = "leaked"
         \/ (local.phase = "freed" /\ remote.phase \in {"none", "freed"})
    /\ UNCHANGED vars

Next ==
    \/ \E accepted \in BOOLEAN : accept_cb(accepted)
    \/ \E k \in 1..MaxMessage : local_recv_cb(k)
    \/ ClientEnd
    \/ \E status \in {0, -1} : \/ local_send_cb(status)
                               \/ remote_connected_cb(status)
                               \/ remote_send_cb(status)
    \/ \E t \in Timers : remote_timeout_cb(t)
    \/ \E result \in {"data", "empty", "partial", "undecodable", "eof", "error"} :
          remote_recv_cb(result)
    \/ Flush
    \/ CloseDone
    \/ signal_cb
    \/ Over

Spec == Init /\ [][Next]_vars

(***************************************************************************)
(* The loop runs every callback that is due: closes, cancelled requests,   *)
(* the end of a connect, an armed timer once the peer is silent (reads are *)
(* bounded).  Nothing obliges a peer to read or to write.                  *)
(***************************************************************************)
FairSpec ==
    /\ Spec
    /\ WF_vars(CloseDone)
    /\ WF_vars(local.dying /\ \E status \in {0, -1} : local_send_cb(status))
    /\ WF_vars(remote.dying /\ \E status \in {0, -1} : remote_send_cb(status))
    /\ WF_vars(\E status \in {0, -1} : remote_connected_cb(status))
    /\ \A t \in Timers : WF_vars(remote_timeout_cb(t))
-----------------------------------------------------------------------------
Messages == 0..MaxMessage

(* What struct local_t and struct remote_t hold: a reference count never   *)
(* exceeds the handles of its object, though any callback may close it.    *)
TypeOK ==
    /\ local.phase \in {"none", "open", "freed", "leaked"}
    /\ local.stage \in {"INIT", "HANDSHAKE", "PARSE", "STREAM"}
    /\ local.ref_count \in 0..1 /\ local.writes \in Nat
    /\ local.methods \in 0..1 /\ local.replies \in 0..1
    /\ remote.phase \in {"none", "open", "freed"}
    /\ remote.connect \in {"none", "pending", "up"}
    /\ remote.ref_count \in 0..3 /\ remote.timers \subseteq Timers
    /\ remote.queued \in Nat /\ remote.written \in Nat
    /\ \A i \in DOMAIN remote.wire : remote.wire[i] \in Messages
    /\ plugin.stage \in {"plain", "start", "hello"}
    /\ process \in {"run", "stopped", "null_server_env", "header_overrun"}

(* The two weak pointers never dangle: an object that another one points   *)
(* to is still allocated, in whatever order the close callbacks come;      *)
(* tunnel_close_and_free closes both ends of a connection together; and    *)
(* remote_destroy and local_destroy free an object only when all its       *)
(* handles are closed and no request that points to it is outstanding.     *)
(* Every field of the two keeps its type.                                  *)
LifetimesNest ==
    /\ TypeOK
    /\ local.phase = "open" /\ local.remote => remote.phase = "open"
    /\ remote.phase = "open" /\ remote.local => local.phase = "open"
    /\ remote.phase = "open" /\ local.phase = "open" => remote.dying = local.dying
    /\ local.phase = "freed" => local.closing = {} /\ local.writes = 0
    /\ remote.phase = "freed" => /\ remote.closing = {}
                                 /\ remote.connect # "pending"
                                 /\ remote.queued + remote.written = 0

(* The package local_recv_cb makes before the connect, which begins with   *)
(* the address header, is still whole in remote->buf when                  *)
(* remote_connected_cb sends it.                                           *)
FirstPackageKept ==
    remote.connect = "pending" /\ plugin.stage = "plain" => Head(remote.buf) = 0

(* No connection is made for a name on the outbound block list, whatever   *)
(* the other lists say of it and whether it was asked for or found as SNI. *)
BlockedNotReached ==
    remote.phase # "none" /\ acl # NoAcl => remote.host \notin acl.outbound

(* After tunnel_close_and_free the close callbacks release both objects.   *)
CloseCompletes ==
    local.dying ~> (\/ ~Running
                    \/ local.phase = "freed" /\ remote.phase \in {"none", "freed"})

(* A connected remote does not stay for ever: when the server is silent    *)
(* the timer remote_connected_cb armed for its answer ends the connection. *)
ConnectedEnds == remote.connected ~> (remote.phase = "freed" \/ ~Running)

(* Every connection of ssr-local ends: one that is closed is released, and *)
(* one whose server stays silent is closed.                                *)
ConnectionEnds == CloseCompletes /\ ConnectedEnds

(* "Parse the header": what STAGE_PARSE of local_recv_cb reads as a        *)
(* request header is one.                                                  *)
HeaderIsHeader == ~local.misread

(* "white list: you can connect directly": local_recv_cb survives the      *)
(* direct route, which leaves local->server_env without a value.           *)
WhiteListConnects == process # "null_server_env"

(* "Stream between client and server": what goes to the server is the      *)
(* header and then the client's data, each once and in order.              *)
StreamIntact ==
    ~local.misread => \A i \in DOMAIN remote.wire :
        remote.wire[i] = IF i = 1 THEN 0 ELSE i + 1
=============================================================================
