---------------------------- MODULE LocalProofs -----------------------------
(***************************************************************************)
(* The lifetimes of a connection of ssr-local, for any client, any lists   *)
(* and any order of callbacks.  LifetimesNest is not inductive: it says    *)
(* nothing of the state in which an object waits for its handles.          *)
(* LocalOk and RemoteOk say what each object is in every phase, Linked     *)
(* which phases of the two go together and what the pointers are then,     *)
(* First what goes out first, Flow when the client is read, and History    *)
(* what it has sent.                                                       *)
(***************************************************************************)
EXTENDS Local, TLAPS

(* Facts about sequences. *)
LEMMA LengthOfList ==
    ASSUME NEW S, NEW s \in Seq(S)
    PROVE  Len(s) \in Nat /\ DOMAIN s = 1..Len(s) /\ s \in [1..Len(s) -> S]
  OBVIOUS

LEMMA ElementOfList ==
    ASSUME NEW S, NEW s \in Seq(S), NEW n \in 1..Len(s)
    PROVE  s[n] \in S
  OBVIOUS

LEMMA JoinOfList ==
    ASSUME NEW S, NEW s \in Seq(S), NEW t \in Seq(S)
    PROVE  /\ s \o t \in Seq(S) /\ Len(s \o t) = Len(s) + Len(t)
           /\ \A i \in 1..(Len(s) + Len(t)) :
                 (s \o t)[i] = IF i <= Len(s) THEN s[i] ELSE t[i - Len(s)]
  OBVIOUS

LEMMA HeadTailOfList ==
    ASSUME NEW S, NEW s \in Seq(S), s # <<>>
    PROVE  /\ Head(s) \in S /\ Tail(s) \in Seq(S) /\ Len(Tail(s)) = Len(s) - 1
           /\ \A i \in 1..Len(Tail(s)) : Tail(s)[i] = s[i + 1]
  OBVIOUS

LEMMA EmptyOfList ==
    ASSUME NEW S
    PROVE  <<>> \in Seq(S) /\ \A s \in Seq(S) : s = <<>> <=> Len(s) = 0
  OBVIOUS


IsLocal(l) ==
    /\ DOMAIN l = {"phase", "stage", "reading", "remote", "server_env", "writes",
                   "methods", "replies", "dying", "ref_count", "closing", "misread"}
    /\ l.phase \in {"none", "open", "freed", "leaked"}
    /\ l.stage \in {"INIT", "HANDSHAKE", "PARSE", "STREAM"}
    /\ l.reading \in BOOLEAN /\ l.remote \in BOOLEAN /\ l.dying \in BOOLEAN
    /\ l.writes \in Nat /\ l.ref_count \in Nat
    /\ l.methods \in 0..1 /\ l.replies \in 0..1

IsRemote(r) ==
    /\ DOMAIN r = {"phase", "local", "host", "connect", "connected", "reading",
                   "timers", "buf", "queued", "written", "wire", "dying",
                   "ref_count", "closing"}
    /\ r.phase \in {"none", "open", "freed"}
    /\ r.connect \in {"none", "pending", "up"}
    /\ r.local \in BOOLEAN /\ r.connected \in BOOLEAN
    /\ r.reading \in BOOLEAN /\ r.dying \in BOOLEAN
    /\ r.timers \subseteq Timers /\ r.closing \subseteq {"send", "recv", "tcp"}
    /\ r.queued \in Nat /\ r.written \in Nat /\ r.ref_count \in Nat
    /\ r.buf \in Seq(Messages) /\ r.wire \in Seq(Messages)

IsPlugin(p) ==
    /\ DOMAIN p = {"stage", "held"}
    /\ p.stage \in {"plain", "start", "hello"} /\ p.held \in Seq(Messages)

(* No request of the remote's socket is outstanding. *)
Quiet(r) == r.connect # "pending" /\ r.queued = 0 /\ r.written = 0

LocalOk(l) ==
    /\ l.reading => l.phase = "open" /\ ~l.dying
    /\ l.phase \in {"none", "leaked"} => ~l.dying /\ l.writes = 0 /\ l.stage = "INIT"
    /\ l.phase = "freed" => l.dying /\ l.writes = 0
    /\ l.closing = IF l.phase = "open" /\ l.dying THEN {"tcp"} ELSE {}
    /\ l.ref_count = IF l.phase = "open" /\ l.dying THEN 1 ELSE 0

(* The count of handles still closing. *)
Handles(r) ==
    (IF "send" \in r.closing THEN 1 ELSE 0) + (IF "recv" \in r.closing THEN 1 ELSE 0)
        + (IF "tcp" \in r.closing THEN 1 ELSE 0)

RemoteOk(r) ==
    /\ r.ref_count = Handles(r)
    /\ r.closing # {} <=> r.phase = "open" /\ r.dying
    /\ r.phase = "none" => ~r.dying
    /\ r.phase = "freed" => r.dying
    /\ r.phase = "none" \/ r.dying => ~r.reading /\ r.timers = {}
    /\ r.phase # "open" \/ (r.dying /\ "tcp" \notin r.closing) => Quiet(r)
    /\ r.reading => r.connected
    /\ r.connected => r.connect = "up"

Linked(l, r) ==
    /\ r.phase # "none" => l.phase \in {"open", "freed"}
    /\ r.phase = "none" => ~l.remote
    /\ r.phase = "open" /\ l.phase = "open" => l.remote /\ r.local /\ r.dying = l.dying
    /\ r.phase = "open" /\ l.phase = "freed" => r.dying /\ ~r.local
    /\ r.phase = "freed" => l.dying /\ (l.phase = "open" => ~l.remote)
    /\ l.phase = "open" /\ ~l.dying => (l.stage = "STREAM" <=> r.phase = "open")

(* What a remote that connects will send first. *)
First(r, p) ==
    r.connect = "pending" /\ p.stage = "plain" => Len(r.buf) > 0 /\ Head(r.buf) = 0

Conn(l, r, p) ==
    /\ IsLocal(l) /\ IsRemote(r) /\ IsPlugin(p)
    /\ LocalOk(l) /\ RemoteOk(r) /\ Linked(l, r) /\ First(r, p)

Flow(l, r) == r.phase = "open" /\ l.reading => r.connected

(* The greeting is message 1 and the request message 2: a connection that  *)
(* waits for a request has had one message, or was answered for UDP.       *)
History(l, n) ==
    /\ l.stage = "INIT" => l.methods = 0 /\ l.replies = 0 /\ n = 0
    /\ l.stage = "HANDSHAKE" /\ ~l.dying =>
          \/ l.replies = 0 /\ n = 1
          \/ n = LastMessage

Processes == {"run", "stopped", "null_server_env", "header_overrun"}

LocalInv ==
    /\ Conn(local, remote, plugin) /\ Flow(local, remote)
    /\ sent \in Nat /\ request \in Requests
    /\ Running => History(local, sent)
    /\ process \in Processes
    /\ BlockedNotReached
-----------------------------------------------------------------------------
(* tunnel_close_and_free of an open connection: both objects wait for      *)
(* their handles, and nothing else about them changes.                     *)
LEMMA CloseKeeps ==
    ASSUME NEW l, NEW r, NEW p, Conn(l, r, p), l.phase = "open", ~l.dying,
           NEW u, u = local_close_and_free(l),
           NEW v, v = IF l.remote THEN remote_close_and_free(r) ELSE r
    PROVE  /\ Conn(u, v, p) /\ Flow(u, v)
           /\ u.dying /\ u.stage = l.stage
           /\ u.methods = l.methods /\ u.replies = l.replies
           /\ v.host = r.host /\ v.phase = r.phase
<1>1. /\ IsLocal(u) /\ LocalOk(u)
      /\ u.phase = "open" /\ u.dying /\ ~u.reading
      /\ u.stage = l.stage /\ u.remote = l.remote
      /\ u.methods = l.methods /\ u.replies = l.replies
  BY DEF Conn, IsLocal, LocalOk, local_close_and_free
<1>2. CASE l.remote
  <2>1. r.phase = "open" /\ ~r.dying /\ r.closing = {} /\ r.ref_count = 0
    BY <1>2 DEF Conn, Linked, IsRemote, RemoteOk, Handles
  <2>2. /\ v.phase = r.phase /\ v.host = r.host /\ v.local = r.local
        /\ v.connect = r.connect /\ v.connected = r.connected
        /\ ~v.reading /\ v.timers = {} /\ v.buf = r.buf /\ v.dying
        /\ v.closing = {"send", "recv", "tcp"} /\ v.ref_count = 3
        /\ IsRemote(v)
    BY <1>2, <2>1 DEF Conn, IsRemote, remote_close_and_free
  <2>3. Handles(v) = 3
    BY <2>2 DEF Handles
  <2>4. RemoteOk(v)
    BY <2>1, <2>2, <2>3, Zenon DEF Conn, RemoteOk
  <2>5. Linked(u, v) /\ First(v, p) /\ Flow(u, v)
    BY <1>1, <1>2, <2>1, <2>2, Zenon DEF Conn, Linked, First, Flow
  <2>6. QED
    BY <1>1, <2>2, <2>4, <2>5, Zenon DEF Conn
<1>3. CASE ~l.remote
  <2>1. v = r /\ r.phase = "none"
    BY <1>3, Zenon DEF Conn, Linked, IsRemote
  <2>2. Linked(u, v) /\ Flow(u, v)
    BY <1>1, <1>3, <2>1, Zenon DEF Conn, Linked, Flow
  <2>3. QED
    BY <1>1, <2>1, <2>2, Zenon DEF Conn
<1>4. QED
  BY <1>2, <1>3, Zenon

(* remote_send_data adds a request and arms the send timer. *)
LEMMA SendKeeps ==
    ASSUME NEW r, IsRemote(r), RemoteOk(r), r.phase = "open", ~r.dying,
           NEW full \in BOOLEAN, NEW s, s = remote_send_data(r, full)
    PROVE  /\ IsRemote(s) /\ RemoteOk(s)
           /\ s.phase = r.phase /\ s.host = r.host /\ s.local = r.local
           /\ s.connect = r.connect /\ s.connected = r.connected
           /\ s.dying = r.dying /\ s.buf = r.buf
<1>1. r.wire \o r.buf \in Seq(Messages)
  BY JoinOfList, Zenon DEF IsRemote
<1>2. /\ s.phase = r.phase /\ s.host = r.host /\ s.local = r.local
      /\ s.connect = r.connect /\ s.connected = r.connected
      /\ s.dying = r.dying /\ s.buf = r.buf /\ s.reading = r.reading
      /\ s.closing = r.closing /\ s.ref_count = r.ref_count
  BY Zenon DEF IsRemote, remote_send_data
<1>3. IsRemote(s)
  BY <1>1 DEF IsRemote, remote_send_data, Timers
<1>4. RemoteOk(s)
  BY <1>2, Zenon DEF RemoteOk, Handles, Quiet
<1>5. QED
  BY <1>2, <1>3, <1>4, Zenon

(* What _tunnel_encrypt yields: all of the data, or none of it. *)
LEMMA EncodedKeeps ==
    ASSUME NEW m \in Seq(Messages), IsPlugin(plugin)
    PROVE  /\ Encoded(m).buf \in Seq(Messages)
           /\ IsPlugin(Encoded(m).plugin)
           /\ Encoded(m).plugin.stage = "plain" => Encoded(m).buf = m
<1>1. plugin.held \o m \in Seq(Messages) /\ <<>> \in Seq(Messages)
  BY JoinOfList DEF IsPlugin
<1>2. QED
  BY <1>1, Zenon DEF Encoded, IsPlugin

(* STAGE_STREAM on an open connection: with a remote that has nothing to   *)
(* send but the header, or one that is connected.                          *)
LEMMA StreamKeeps ==
    ASSUME NEW l, NEW r, NEW m \in Seq(Messages), Conn(l, r, plugin),
           l.phase = "open", ~l.dying, r.phase = "open",
           r.connected \/ (r.connect = "none" /\ Len(m) > 0 /\ Head(m) = 0),
           stream(l, r, m)
    PROVE  /\ Conn(local', remote', plugin') /\ Flow(local', remote')
           /\ local'.stage = l.stage
           /\ local'.methods = l.methods /\ local'.replies = l.replies
           /\ remote'.host = r.host /\ remote'.phase = "open"
<1> DEFINE e == Encoded(m)
           s == [r EXCEPT !.buf = e.buf]
           stopped == [l EXCEPT !.reading = FALSE]
<1>1. /\ e.buf \in Seq(Messages) /\ IsPlugin(e.plugin)
      /\ e.plugin.stage = "plain" => e.buf = m
  BY EncodedKeeps, Zenon DEF Conn
<1> HIDE DEF e
<1>2. /\ IsRemote(s) /\ s.phase = r.phase /\ s.host = r.host /\ s.local = r.local
      /\ s.connect = r.connect /\ s.connected = r.connected /\ s.reading = r.reading
      /\ s.dying = r.dying /\ s.timers = r.timers /\ s.closing = r.closing
      /\ s.queued = r.queued /\ s.written = r.written
      /\ s.ref_count = r.ref_count /\ s.buf = e.buf
  BY <1>1, Zenon DEF Conn, IsRemote
<1>3. l.remote /\ r.local /\ ~r.dying /\ r.dying = l.dying /\ l.stage = "STREAM"
  BY Zenon DEF Conn, Linked, IsLocal, IsRemote
<1>4. RemoteOk(s) /\ s.connect # "pending"
  BY <1>2, <1>3, Zenon DEF Conn, RemoteOk, Handles, Quiet
<1>5. Linked(l, s) /\ \A p : First(s, p)
  BY <1>2, <1>4, Zenon DEF Conn, Linked, First
<1>6. IsLocal(l) /\ LocalOk(l) /\ IsPlugin(plugin)
  BY Zenon DEF Conn
<1>7. /\ IsLocal(stopped) /\ LocalOk(stopped) /\ ~stopped.reading
      /\ stopped.phase = l.phase /\ stopped.dying = l.dying
      /\ stopped.remote = l.remote /\ stopped.stage = l.stage
      /\ stopped.methods = l.methods /\ stopped.replies = l.replies
  BY <1>6, Zenon DEF IsLocal, LocalOk
<1> HIDE DEF s, stopped
<1>8. CASE tunnel_close_and_free(l, s) /\ UNCHANGED plugin
  <2>1. Conn(l, s, plugin)
    BY <1>2, <1>4, <1>5, <1>6, Zenon DEF Conn
  <2>2. /\ Conn(local', remote', plugin) /\ Flow(local', remote')
        /\ local'.stage = l.stage
        /\ local'.methods = l.methods /\ local'.replies = l.replies
        /\ remote'.host = s.host /\ remote'.phase = s.phase
    BY <1>8, <2>1, CloseKeeps DEF tunnel_close_and_free
  <2>3. QED
    BY <1>2, <1>8, <2>2, Zenon
<1>9. CASE /\ plugin' = e.plugin
           /\ ~r.connected
           /\ local' = stopped
           /\ remote' = [s EXCEPT !.connect = "pending"]
  <2> DEFINE v == [s EXCEPT !.connect = "pending"]
  <2>1. /\ IsRemote(v) /\ v.phase = r.phase /\ v.host = r.host /\ v.local = r.local
        /\ v.connect = "pending" /\ v.connected = r.connected /\ v.reading = r.reading
        /\ v.dying = r.dying /\ v.timers = r.timers /\ v.closing = r.closing
        /\ v.ref_count = r.ref_count /\ v.buf = e.buf
    BY <1>2, Zenon DEF IsRemote
  <2> HIDE DEF v
  <2>2. RemoteOk(v)
    BY <1>2, <1>3, <1>4, <1>9, <2>1, Zenon DEF RemoteOk, Handles
  <2>3. Linked(stopped, v) /\ Flow(stopped, v)
    BY <1>3, <1>7, <2>1 DEF Linked, Flow
  <2>4. First(v, e.plugin)
    BY <1>1, <1>9, <2>1, Zenon DEF First
  <2>5. Conn(stopped, v, e.plugin)
    BY <1>1, <1>7, <2>1, <2>2, <2>3, <2>4, Zenon DEF Conn
  <2>6. QED
    BY <1>7, <1>9, <2>1, <2>3, <2>5, Zenon DEF v
<1>10. CASE /\ plugin' = e.plugin
            /\ r.connected
            /\ local' = stopped /\ remote' = s
  <2>1. Linked(stopped, s) /\ Flow(stopped, s)
    BY <1>2, <1>3, <1>7 DEF Linked, Flow
  <2>2. Conn(stopped, s, e.plugin)
    BY <1>1, <1>2, <1>4, <1>5, <1>7, <2>1, Zenon DEF Conn
  <2>3. QED
    BY <1>2, <1>7, <1>10, <2>1, <2>2, Zenon
<1>11. CASE /\ plugin' = e.plugin
            /\ r.connected
            /\ local' = l
            /\ \E full \in BOOLEAN : remote' = remote_send_data(s, full)
  <2>1. PICK full \in BOOLEAN : remote' = remote_send_data(s, full)
    BY <1>11, Zenon
  <2>2. s.phase = "open" /\ ~s.dying
    BY <1>2, <1>3, Zenon
  <2>3. /\ IsRemote(remote') /\ RemoteOk(remote')
        /\ remote'.phase = s.phase /\ remote'.host = s.host /\ remote'.local = s.local
        /\ remote'.connect = s.connect /\ remote'.connected = s.connected
        /\ remote'.dying = s.dying /\ remote'.buf = s.buf
    BY <1>2, <1>4, <2>1, <2>2, SendKeeps
  <2>4. Linked(l, remote') /\ First(remote', e.plugin) /\ Flow(l, remote')
    BY <1>2, <1>4, <1>5, <1>11, <2>3 DEF Linked, First, Flow
  <2>5. Conn(l, remote', e.plugin)
    BY <1>1, <1>6, <2>3, <2>4, Zenon DEF Conn
  <2>6. QED
    BY <1>2, <1>11, <2>3, <2>4, <2>5, Zenon
<1>12. QED
  BY <1>8, <1>9, <1>10, <1>11, Zenon DEF stream, e, s, stopped

(* A destination on the outbound block list has no route to the server. *)
LEMMA RouteBlocks ==
    ASSUME NEW q, NEW host, "server" \in Route(q, host), acl # NoAcl
    PROVE  host \notin acl.outbound
BY Zenon DEF Route, outbound_block_match_host

(* What a read of the client leaves behind. *)
Handled ==
    /\ Conn(local', remote', plugin') /\ Flow(local', remote')
    /\ process' \in Processes
    /\ remote'.phase # "none" /\ acl # NoAcl => remote'.host \notin acl.outbound

(* A connection without a remote is given one, or is closed.  (A crash     *)
(* leaves the state as it was before the read.)                            *)
LEMMA ConnectKeeps ==
    ASSUME LocalInv, remote.phase = "none",
           NEW l, Conn(l, remote, plugin), l.phase = "open", ~l.dying,
           NEW q, NEW host, NEW m \in Seq(Messages), Len(m) > 0,
           connect_to(l, q, host, m)
    PROVE  /\ Handled
           /\ process' = "run" => /\ local'.methods = l.methods
                                  /\ local'.replies = l.replies
                                  /\ local'.stage = "STREAM" \/
                                        (local'.dying /\ local'.stage = l.stage)
<1> USE DEF Processes
<1>0. /\ process \in Processes /\ ~l.remote /\ Conn(local, remote, plugin)
      /\ Flow(local, remote)
  BY Zenon DEF LocalInv, Conn, Linked
<1>1. PICK route \in Route(q, host) :
        \/ /\ route = "block"
           /\ tunnel_close_and_free(l, remote)
           /\ UNCHANGED <<plugin, process>>
        \/ route = "direct" /\ Crash("null_server_env")
        \/ /\ route = "server"
           /\ stream([l EXCEPT !.stage = "STREAM", !.remote = TRUE,
                               !.server_env = TRUE],
                     [NoRemote EXCEPT !.phase = "open", !.local = TRUE,
                                      !.host = host],
                     <<0>> \o Tail(m))
           /\ UNCHANGED process
  BY Zenon DEF connect_to
<1>2. CASE /\ tunnel_close_and_free(l, remote)
           /\ UNCHANGED <<plugin, process>>
  <2>1. /\ Conn(local', remote', plugin) /\ Flow(local', remote')
        /\ local'.dying /\ local'.stage = l.stage
        /\ local'.methods = l.methods /\ local'.replies = l.replies
        /\ remote'.phase = remote.phase
    BY <1>2, CloseKeeps DEF tunnel_close_and_free
  <2>2. QED
    BY <1>0, <1>2, <2>1, Zenon DEF Handled
<1>3. CASE Crash("null_server_env")
  BY <1>0, <1>3, Zenon DEF Crash, Handled
<1>4. CASE /\ route = "server"
           /\ stream([l EXCEPT !.stage = "STREAM", !.remote = TRUE,
                               !.server_env = TRUE],
                     [NoRemote EXCEPT !.phase = "open", !.local = TRUE,
                                      !.host = host],
                     <<0>> \o Tail(m))
           /\ UNCHANGED process
  <2> DEFINE u == [l EXCEPT !.stage = "STREAM", !.remote = TRUE, !.server_env = TRUE]
             r == [NoRemote EXCEPT !.phase = "open", !.local = TRUE, !.host = host]
             n == <<0>> \o Tail(m)
  <2>1. n \in Seq(Messages) /\ Len(n) > 0 /\ Head(n) = 0
    <3>1. Tail(m) \in Seq(Messages)
      BY HeadTailOfList, EmptyOfList
    <3>2. <<0>> \in Seq(Messages) /\ Len(<<0>>) = 1 /\ <<0>>[1] = 0
      BY LocalAssumption DEF Messages
    <3>3. n \in Seq(Messages) /\ Len(n) > 0 /\ n[1] = 0
      BY <3>1, <3>2, JoinOfList, LengthOfList
    <3>4. QED
      BY <3>3, HeadTailOfList, EmptyOfList
  <2>2. /\ IsLocal(u) /\ LocalOk(u) /\ u.stage = "STREAM" /\ u.remote
        /\ u.phase = l.phase /\ u.dying = l.dying
        /\ u.methods = l.methods /\ u.replies = l.replies
    BY Zenon DEF Conn, IsLocal, LocalOk
  <2>3. /\ r.phase = "open" /\ r.local /\ r.host = host /\ r.connect = "none"
        /\ ~r.dying /\ r.dying = FALSE /\ ~r.connected /\ ~r.reading /\ r.timers = {}
        /\ r.closing = {} /\ r.ref_count = 0 /\ IsRemote(r)
    BY DEF NoRemote, IsRemote
  <2> HIDE DEF u, r, n
  <2>4. RemoteOk(r)
    BY <2>3 DEF RemoteOk, Handles
  <2>5. u.dying = FALSE
    BY <2>2, Zenon DEF IsLocal
  <2>6. Linked(u, r) /\ First(r, plugin)
    BY <2>2, <2>3, <2>5, Zenon DEF Linked, First
  <2>7. Conn(u, r, plugin)
    BY <2>2, <2>3, <2>4, <2>6, Zenon DEF Conn
  <2>8. stream(u, r, n)
    BY <1>4, Zenon DEF u, r, n
  <2>9. /\ Conn(local', remote', plugin') /\ Flow(local', remote')
        /\ local'.stage = u.stage
        /\ local'.methods = u.methods /\ local'.replies = u.replies
        /\ remote'.host = r.host
    BY <2>1, <2>2, <2>3, <2>5, <2>7, <2>8, StreamKeeps
  <2>10. acl # NoAcl => host \notin acl.outbound
    BY <1>4, RouteBlocks, Zenon
  <2>11. QED
    BY <1>0, <1>4, <2>2, <2>3, <2>9, <2>10, Zenon DEF Handled
<1>5. QED
  BY <1>1, <1>2, <1>3, <1>4, Zenon

(* local_send_data and the changes of local_recv_cb to a local that has no *)
(* remote leave it able to take one.                                       *)
LEMMA BareKeeps ==
    ASSUME NEW l, Conn(l, remote, plugin), remote.phase = "none",
           l.phase = "open", ~l.dying,
           NEW u, DOMAIN u = DOMAIN l, u.stage \in {"INIT", "HANDSHAKE", "PARSE"},
           u.phase = l.phase, u.reading = l.reading, u.remote = l.remote,
           u.dying = l.dying, u.ref_count = l.ref_count, u.closing = l.closing,
           u.writes \in Nat, u.methods \in 0..1, u.replies \in 0..1
    PROVE  /\ Conn(u, remote, plugin) /\ Flow(u, remote)
           /\ u.phase = "open" /\ ~u.dying
<1>1. IsLocal(u)
  BY Zenon DEF Conn, IsLocal
<1>2. LocalOk(u)
  BY Zenon DEF Conn, LocalOk
<1>3. Linked(u, remote) /\ Flow(u, remote)
  BY Zenon DEF Conn, Linked, Flow
<1>4. QED
  BY <1>1, <1>2, <1>3, Zenon DEF Conn

(* STAGE_HANDSHAKE and STAGE_PARSE: n messages have come by now, and in    *)
(* STAGE_HANDSHAKE the request comes first among m.                        *)
LEMMA ParseKeeps ==
    ASSUME LocalInv, Running, remote.phase = "none",
           NEW l, Conn(l, remote, plugin), l.phase = "open", ~l.dying,
           l.stage \in {"HANDSHAKE", "PARSE"},
           NEW m \in Seq(Messages), Len(m) > 0, NEW n,
           l.stage = "HANDSHAKE" => l.replies = 0 /\ Head(m) = 2,
           l.stage = "HANDSHAKE" /\ request.cmd = "udp" => n = LastMessage,
           parse_request(l, m)
    PROVE  Handled /\ (process' = "run" => History(local', n))
<1>1. PICK q \in ReadAs(Head(m)) :
        LET x == [l EXCEPT !.misread = @ \/ Head(m) # 2]
            y == IF l.stage = "HANDSHAKE"
                 THEN [local_send_data(x) EXCEPT !.replies = @ + 1] ELSE x
        IN  \/ /\ q.cmd = "other"
               /\ tunnel_close_and_free(local_send_data(x), remote)
               /\ UNCHANGED <<plugin, process>>
            \/ /\ q.cmd = "udp" /\ l.stage = "HANDSHAKE"
               /\ local' = y
               /\ UNCHANGED <<remote, plugin, process>>
            \/ /\ q.cmd # "other" /\ (q.cmd = "udp" => l.stage = "PARSE")
               /\ CASE q.addr = "bad" -> /\ tunnel_close_and_free(y, remote)
                                         /\ UNCHANGED <<plugin, process>>
                    [] q.addr = "overlong" -> Crash("header_overrun")
                    [] OTHER -> \E sni \in Sni(q, m) :
                         IF sni = "incomplete"
                         THEN /\ local' = [y EXCEPT !.stage = "PARSE"]
                              /\ UNCHANGED <<remote, plugin, process>>
                         ELSE connect_to(y, q, Host(q, sni), m)
  BY Zenon DEF parse_request
<1> DEFINE x == [l EXCEPT !.misread = @ \/ Head(m) # 2]
           y == IF l.stage = "HANDSHAKE"
                THEN [local_send_data(x) EXCEPT !.replies = @ + 1] ELSE x
           z == local_send_data(x)
           w == [y EXCEPT !.stage = "PARSE"]
<1>2. /\ DOMAIN z = DOMAIN l /\ z.stage = l.stage /\ z.phase = l.phase
      /\ z.reading = l.reading /\ z.remote = l.remote /\ z.dying = l.dying
      /\ z.ref_count = l.ref_count /\ z.closing = l.closing
      /\ z.writes \in Nat /\ z.methods = l.methods /\ z.replies = l.replies
  BY DEF Conn, IsLocal, local_send_data
<1>3. /\ DOMAIN y = DOMAIN l /\ y.stage = l.stage /\ y.phase = l.phase
      /\ y.reading = l.reading /\ y.remote = l.remote /\ y.dying = l.dying
      /\ y.ref_count = l.ref_count /\ y.closing = l.closing
      /\ y.writes \in Nat /\ y.methods = l.methods /\ y.replies \in 0..1
  BY DEF Conn, IsLocal, local_send_data
<1> HIDE DEF y, z
<1>4. /\ DOMAIN w = DOMAIN l /\ w.stage = "PARSE" /\ w.phase = l.phase
      /\ w.reading = l.reading /\ w.remote = l.remote /\ w.dying = l.dying
      /\ w.ref_count = l.ref_count /\ w.closing = l.closing
      /\ w.writes \in Nat /\ w.methods = l.methods /\ w.replies \in 0..1
  BY <1>3, Zenon DEF Conn, IsLocal
<1> HIDE DEF w
<1>5. l.methods \in 0..1 /\ l.replies \in 0..1
  BY Zenon DEF Conn, IsLocal
<1>6. /\ Conn(z, remote, plugin) /\ z.phase = "open" /\ ~z.dying
  BY <1>2, <1>5, BareKeeps, Zenon
<1>7. /\ Conn(y, remote, plugin) /\ Flow(y, remote) /\ y.phase = "open" /\ ~y.dying
  BY <1>3, <1>5, BareKeeps, Zenon
<1>8. /\ Conn(w, remote, plugin) /\ Flow(w, remote)
  BY <1>4, <1>5, BareKeeps, Zenon
<1>9. /\ process \in Processes /\ Conn(local, remote, plugin) /\ Flow(local, remote)
  BY Zenon DEF LocalInv
<1>10. CASE /\ tunnel_close_and_free(z, remote)
            /\ UNCHANGED <<plugin, process>>
  <2>1. /\ Conn(local', remote', plugin) /\ Flow(local', remote')
        /\ local'.dying /\ local'.stage = z.stage /\ remote'.phase = remote.phase
    BY <1>6, <1>10, CloseKeeps DEF tunnel_close_and_free
  <2>2. QED
    BY <1>2, <1>9, <1>10, <2>1, Zenon DEF Handled, History
<1>11. CASE /\ q.cmd = "udp" /\ l.stage = "HANDSHAKE"
            /\ local' = y
            /\ UNCHANGED <<remote, plugin, process>>
  <2>1. q = request
    BY <1>11, Zenon DEF ReadAs
  <2>2. QED
    BY <1>3, <1>7, <1>9, <1>11, <2>1, Zenon DEF Handled, History
<1>12. CASE /\ tunnel_close_and_free(y, remote)
            /\ UNCHANGED <<plugin, process>>
  <2>1. /\ Conn(local', remote', plugin) /\ Flow(local', remote')
        /\ local'.dying /\ local'.stage = y.stage /\ remote'.phase = remote.phase
    BY <1>7, <1>12, CloseKeeps DEF tunnel_close_and_free
  <2>2. QED
    BY <1>3, <1>9, <1>12, <2>1, Zenon DEF Handled, History
<1>13. CASE Crash("header_overrun")
  BY <1>9, <1>13, Zenon DEF Crash, Handled, Processes
<1>14. CASE /\ local' = w
            /\ UNCHANGED <<remote, plugin, process>>
  BY <1>4, <1>8, <1>9, <1>14, Zenon DEF Handled, History
<1>15. ASSUME NEW host, connect_to(y, q, host, m)
       PROVE  Handled /\ (process' = "run" => History(local', n))
  <2>1. /\ Handled
        /\ process' = "run" => local'.stage = "STREAM" \/
                                  (local'.dying /\ local'.stage = y.stage)
    BY <1>7, <1>15, ConnectKeeps, Zenon
  <2>2. QED
    BY <1>3, <2>1, Zenon DEF History
<1>16. QED
  BY <1>1, <1>10, <1>11, <1>12, <1>13, <1>14, <1>15, Zenon DEF w, y, z

(* The messages of a read, and what is known when there is one. *)
LEMMA ReadFacts ==
    ASSUME LocalInv, NEW k \in 1..MaxMessage, sent + k <= LastMessage
    PROVE  /\ Received(k) \in Seq(Messages) /\ Len(Received(k)) = k
           /\ Head(Received(k)) = sent + 1
           /\ k > 1 => /\ Tail(Received(k)) \in Seq(Messages)
                       /\ Len(Tail(Received(k))) = k - 1
                       /\ Head(Tail(Received(k))) = sent + 2
<1> DEFINE m == Received(k)
<1>1. sent \in Nat /\ k \in Nat /\ k > 0 /\ MaxMessage \in Nat /\ LastMessage <= MaxMessage
  BY LocalAssumption DEF LocalInv, LastMessage
<1>2. \A i \in 1..k : sent + i \in Messages
  BY <1>1, LocalAssumption DEF LastMessage, Messages
<1>3. /\ m \in Seq(Messages) /\ Len(m) = k
      /\ m[1] = sent + 1 /\ (k > 1 => m[2] = sent + 2)
  BY <1>1, <1>2 DEF Received
<1> HIDE DEF m
<1>4. m # <<>>
  BY <1>1, <1>3, EmptyOfList
<1>5. Head(m) = m[1] /\ Tail(m) \in Seq(Messages) /\ Len(Tail(m)) = k - 1
      /\ \A i \in 1..Len(Tail(m)) : Tail(m)[i] = m[i + 1]
  BY <1>3, <1>4, HeadTailOfList
<1>6. ASSUME k > 1 PROVE Head(Tail(m)) = sent + 2
  <2>1. 1 \in 1..Len(Tail(m)) /\ Len(Tail(m)) # 0
    BY <1>1, <1>5, <1>6
  <2>2. Head(Tail(m)) = Tail(m)[1]
    BY <1>5, <2>1, HeadTailOfList, EmptyOfList
  <2>3. QED
    BY <1>3, <1>5, <1>6, <2>1, <2>2
<1>7. QED
  BY <1>3, <1>5, <1>6, Zenon DEF m

LEMMA RecvKeeps ==
    ASSUME LocalInv, NEW k \in 1..MaxMessage, local_recv_cb(k)
    PROVE  LocalInv'
<1> DEFINE m == Received(k)
<1>1. /\ Running /\ local.reading /\ sent + k <= LastMessage /\ sent' = sent + k
      /\ UNCHANGED <<acl, request, answers>>
      /\ CASE local.stage = "STREAM" -> /\ stream(local, remote, m)
                                        /\ UNCHANGED process
           [] local.stage = "INIT" /\ k = 1 ->
                  /\ local' = greeted(local)
                  /\ UNCHANGED <<remote, plugin, process>>
           [] local.stage = "INIT" /\ k > 1 -> parse_request(greeted(local), Tail(m))
           [] OTHER -> parse_request(local, m)
  BY Zenon DEF local_recv_cb
<1>2. /\ Conn(local, remote, plugin) /\ Flow(local, remote) /\ sent \in Nat
      /\ History(local, sent) /\ request \in Requests /\ process \in Processes
      /\ process = "run"
  BY <1>1, Zenon DEF LocalInv, Running
<1>3. local.phase = "open" /\ ~local.dying /\ local.stage \in {"INIT", "HANDSHAKE", "PARSE", "STREAM"}
  BY <1>1, <1>2, Zenon DEF Conn, IsLocal, LocalOk
<1>4. local.stage # "STREAM" => remote.phase = "none"
  BY <1>2, <1>3, Zenon DEF Conn, Linked, IsRemote
<1>5. /\ m \in Seq(Messages) /\ Len(m) = k /\ Head(m) = sent + 1
      /\ k > 1 => /\ Tail(m) \in Seq(Messages) /\ Len(Tail(m)) = k - 1
                  /\ Head(Tail(m)) = sent + 2
  BY <1>1, ReadFacts, Zenon
<1>6. k \in Nat /\ k > 0 /\ LastMessage \in Nat /\ sent' \in Nat /\ request' \in Requests
  BY <1>1, <1>2, LocalAssumption DEF LastMessage
<1>7. LastMessage' = LastMessage
  BY <1>1, Zenon DEF LastMessage
<1>8. remote.phase # "none" /\ acl # NoAcl => remote.host \notin acl.outbound
  BY Zenon DEF LocalInv, BlockedNotReached
<1> HIDE DEF m
<1>9. ASSUME Handled, process' = "run" => History(local', sent')
      PROVE  LocalInv'
  BY <1>1, <1>6, <1>7, <1>9, Zenon DEF Handled, LocalInv, BlockedNotReached, Running, History
<1>10. CASE local.stage = "STREAM"
  <2>1. stream(local, remote, m) /\ UNCHANGED process
    BY <1>1, <1>10, Zenon
  <2>2. remote.phase = "open" /\ remote.connected
    BY <1>1, <1>2, <1>3, <1>10 DEF Conn, Linked, Flow
  <2>3. /\ Conn(local', remote', plugin') /\ Flow(local', remote')
        /\ local'.stage = "STREAM" /\ remote'.host = remote.host
    BY <1>2, <1>3, <1>5, <1>10, <2>1, <2>2, StreamKeeps, Zenon
  <2>4. QED
    BY <1>2, <1>8, <1>9, <2>1, <2>2, <2>3, Zenon DEF Handled, History
<1>11. CASE local.stage = "INIT"
  <2> DEFINE g == greeted(local)
  <2>1. /\ DOMAIN g = DOMAIN local /\ g.stage = "HANDSHAKE" /\ g.phase = local.phase
        /\ g.reading = local.reading /\ g.remote = local.remote /\ g.dying = local.dying
        /\ g.ref_count = local.ref_count /\ g.closing = local.closing
        /\ g.writes \in Nat /\ g.methods = 1 /\ g.replies = 0
    BY <1>2, <1>11 DEF Conn, IsLocal, History, greeted, local_send_data
  <2> HIDE DEF g
  <2>2. sent = 0
    BY <1>2, <1>11, Zenon DEF History
  <2>3. Conn(g, remote, plugin) /\ Flow(g, remote) /\ g.phase = "open" /\ ~g.dying
    BY <1>2, <1>3, <1>4, <1>11, <2>1, BareKeeps
  <2>4. CASE k = 1
    <3>1. local' = g /\ UNCHANGED <<remote, plugin, process>>
      BY <1>1, <1>11, <2>4 DEF g
    <3>2. QED
      BY <1>1, <1>2, <1>4, <1>9, <1>11, <2>1, <2>2, <2>3, <2>4, <3>1 DEF Handled, History
  <2>5. CASE k > 1
    <3>1. parse_request(g, Tail(m))
      BY <1>1, <1>11, <2>5 DEF g
    <3>2. request.cmd = "udp" => sent' = LastMessage
      BY <1>1, <1>6, <2>2, <2>5 DEF LastMessage
    <3>3. Len(Tail(m)) > 0 /\ Head(Tail(m)) = 2
      BY <1>5, <1>6, <2>2, <2>5
    <3>4. Handled /\ (process' = "run" => History(local', sent'))
      BY <1>1, <1>4, <1>5, <1>11, <2>1, <2>3, <2>5, <3>1, <3>2, <3>3, ParseKeeps, Zenon
    <3>5. QED
      BY <1>9, <3>4, Zenon
  <2>6. QED
    BY <1>6, <2>4, <2>5
<1>12. CASE local.stage \in {"HANDSHAKE", "PARSE"}
  <2>1. parse_request(local, m)
    BY <1>1, <1>12, Zenon
  <2>2. local.stage = "HANDSHAKE" => local.replies = 0 /\ sent = 1
    BY <1>1, <1>2, <1>3, <1>6 DEF History
  <2>3. local.stage = "HANDSHAKE" /\ request.cmd = "udp" => sent' = LastMessage
    BY <1>1, <1>6, <2>2 DEF LastMessage
  <2>4. Len(m) > 0 /\ (local.stage = "HANDSHAKE" => Head(m) = 2)
    BY <1>5, <1>6, <2>2
  <2>5. remote.phase = "none"
    BY <1>4, <1>12, Zenon
  <2>6. Handled /\ (process' = "run" => History(local', sent'))
    BY <1>1, <1>2, <1>3, <1>5, <1>12, <2>1, <2>2, <2>3, <2>4, <2>5, ParseKeeps, Zenon
  <2>7. QED
    BY <1>9, <2>6, Zenon
<1>13. QED
  BY <1>3, <1>10, <1>11, <1>12, Zenon

(* A callback that leaves the client's history alone. *)
LEMMA FrameKeeps ==
    ASSUME LocalInv, UNCHANGED <<process, acl, request, sent>>,
           Conn(local', remote', plugin'), Flow(local', remote'),
           local'.stage = local.stage, local'.methods = local.methods,
           local'.replies = local.replies, local.dying => local'.dying,
           remote'.phase # "none" => remote.phase # "none",
           remote'.host = remote.host
    PROVE  LocalInv'
<1>1. LastMessage' = LastMessage /\ (Running' <=> Running)
  BY Zenon DEF LastMessage, Running
<1>2. Running => History(local', sent')
  BY <1>1, Zenon DEF LocalInv, History
<1>3. BlockedNotReached'
  BY Zenon DEF LocalInv, BlockedNotReached
<1>4. QED
  BY <1>1, <1>2, <1>3, Zenon DEF LocalInv, History

(* A callback that closes the connection after changing l and r a little. *)
LEMMA CloseStep ==
    ASSUME LocalInv, UNCHANGED <<plugin, process, acl, request, sent>>,
           NEW l, NEW r, Conn(l, r, plugin), l.phase = "open", ~l.dying,
           ~local.dying, l.stage = local.stage, l.methods = local.methods,
           l.replies = local.replies, r.host = remote.host, r.phase = remote.phase,
           tunnel_close_and_free(l, r)
    PROVE  LocalInv'
<1>1. /\ Conn(local', remote', plugin) /\ Flow(local', remote')
      /\ local'.stage = l.stage /\ local'.methods = l.methods
      /\ local'.replies = l.replies
      /\ remote'.host = r.host /\ remote'.phase = r.phase
  BY CloseKeeps DEF tunnel_close_and_free
<1>2. QED
  BY <1>1, FrameKeeps, Zenon

(* What a callback of either socket may count on: an object that has work  *)
(* to do is allocated, and if neither is dying both are open.              *)
LEMMA BothOpen ==
    ASSUME LocalInv, remote.phase = "open", ~remote.dying
    PROVE  /\ local.phase = "open" /\ ~local.dying /\ local.dying = FALSE
           /\ remote.dying = FALSE /\ local.remote /\ remote.local
           /\ local.stage = "STREAM"
BY Zenon DEF LocalInv, Conn, Linked, IsLocal, IsRemote, RemoteOk

LEMMA AcceptKeeps ==
    ASSUME LocalInv, NEW accepted \in BOOLEAN, accept_cb(accepted)
    PROVE  LocalInv'
<1>1. /\ UNCHANGED <<remote, plugin, process, acl, request, sent, answers>>
      /\ Running /\ local.phase = "none"
      /\ local' = IF accepted THEN [NoLocal EXCEPT !.phase = "open", !.reading = TRUE]
                  ELSE [NoLocal EXCEPT !.phase = "leaked"]
  BY Zenon DEF accept_cb
<1>2. /\ IsLocal(local') /\ LocalOk(local') /\ ~local'.dying /\ ~local'.remote
      /\ local'.stage = "INIT" /\ local'.methods = 0 /\ local'.replies = 0
  BY <1>1 DEF NoLocal, IsLocal, LocalOk
<1>3. remote.phase = "none"
  BY <1>1, Zenon DEF LocalInv, Conn, Linked, IsRemote
<1>4. Linked(local', remote) /\ Flow(local', remote)
  BY <1>2, <1>3, Zenon DEF Linked, Flow
<1>5. Conn(local', remote', plugin') /\ Flow(local', remote')
  BY <1>1, <1>2, <1>4, Zenon DEF LocalInv, Conn
<1>6. local.stage = "INIT" /\ History(local, sent)
  BY <1>1, Zenon DEF LocalInv, Conn, LocalOk
<1>7. sent = 0 /\ History(local', sent')
  BY <1>1, <1>2, <1>6, Zenon DEF History
<1>8. QED
  BY <1>1, <1>3, <1>5, <1>7, Zenon DEF LocalInv, BlockedNotReached, History, LastMessage

LEMMA ClientEndKeeps ==
    ASSUME LocalInv, ClientEnd
    PROVE  LocalInv'
<1>1. local.phase = "open" /\ ~local.dying /\ Conn(local, remote, plugin)
  BY Zenon DEF ClientEnd, LocalInv, Conn, LocalOk
<1>2. QED
  BY <1>1, CloseStep, Zenon DEF ClientEnd

LEMMA LocalSendKeeps ==
    ASSUME LocalInv, NEW status \in {0, -1}, local_send_cb(status)
    PROVE  LocalInv'
<1> DEFINE l == [local EXCEPT !.writes = @ - 1]
<1>1. /\ local.writes > 0 /\ UNCHANGED <<plugin, process, acl, request, sent>>
      /\ IF local.dying \/ (local.remote /\ remote.dying) \/ status = 0
         THEN local' = l /\ UNCHANGED remote
         ELSE tunnel_close_and_free(l, remote)
  BY Zenon DEF local_send_cb
<1>2. Conn(local, remote, plugin) /\ Flow(local, remote)
  BY Zenon DEF LocalInv
<1>3. local.phase = "open"
  BY <1>1, <1>2 DEF Conn, IsLocal, LocalOk
<1>4. /\ IsLocal(l) /\ l.phase = local.phase /\ l.stage = local.stage
      /\ l.reading = local.reading /\ l.remote = local.remote
      /\ l.dying = local.dying /\ l.ref_count = local.ref_count
      /\ l.closing = local.closing
      /\ l.methods = local.methods /\ l.replies = local.replies
  BY <1>1, <1>2 DEF Conn, IsLocal
<1> HIDE DEF l
<1>5. LocalOk(l) /\ Linked(l, remote) /\ Flow(l, remote)
  BY <1>2, <1>3, <1>4 DEF Conn, LocalOk, Linked, Flow
<1>6. Conn(l, remote, plugin)
  BY <1>2, <1>4, <1>5, Zenon DEF Conn
<1>7. CASE local' = l /\ UNCHANGED remote
  BY <1>1, <1>4, <1>5, <1>6, <1>7, FrameKeeps
<1>8. CASE ~local.dying /\ tunnel_close_and_free(l, remote)
  BY <1>1, <1>3, <1>4, <1>6, <1>8, CloseStep
<1>9. QED
  BY <1>1, <1>7, <1>8, Zenon

(* A remote whose socket has a request, a timer or data for it is open. *)
LEMMA RemoteBusy ==
    ASSUME LocalInv, \/ remote.connect = "pending" \/ remote.timers # {}
                     \/ remote.reading \/ remote.queued > 0 \/ remote.written > 0
    PROVE  remote.phase = "open"
BY DEF LocalInv, Conn, IsRemote, RemoteOk, Quiet

(* A change to a remote that is alive or dying that neither opens nor      *)
(* closes anything.                                                        *)
LEMMA RemoteStep ==
    ASSUME LocalInv, remote.phase = "open",
           NEW r, IsRemote(r), RemoteOk(r), First(r, plugin),
           r.phase = "open", r.local = remote.local, r.dying = remote.dying,
           r.host = remote.host, remote.connected => r.connected
    PROVE  Conn(local, r, plugin) /\ Flow(local, r)
<1>1. Linked(local, r) /\ Flow(local, r)
  BY Zenon DEF LocalInv, Conn, Linked, Flow
<1>2. QED
  BY <1>1, Zenon DEF LocalInv, Conn

LEMMA TimeoutKeeps ==
    ASSUME LocalInv, NEW t \in Timers, remote_timeout_cb(t)
    PROVE  LocalInv'
<1> DEFINE r == [remote EXCEPT !.timers = @ \ {t}]
<1>1. /\ t \in remote.timers /\ UNCHANGED <<plugin, process, acl, request, sent>>
      /\ IF ~remote.local \/ local.dying \/ remote.dying
         THEN remote' = r /\ UNCHANGED local
         ELSE tunnel_close_and_free(local, r)
  BY Zenon DEF remote_timeout_cb
<1>2. remote.phase = "open" /\ IsRemote(remote) /\ RemoteOk(remote) /\ First(remote, plugin)
  BY <1>1, RemoteBusy, Zenon DEF LocalInv, Conn
<1>3. /\ IsRemote(r) /\ r.phase = remote.phase /\ r.host = remote.host
      /\ r.local = remote.local /\ r.connect = remote.connect
      /\ r.connected = remote.connected /\ r.reading = remote.reading
      /\ r.dying = remote.dying /\ r.closing = remote.closing
      /\ r.ref_count = remote.ref_count /\ r.buf = remote.buf
      /\ r.queued = remote.queued /\ r.written = remote.written
      /\ r.timers \subseteq remote.timers
  BY <1>2, Zenon DEF IsRemote
<1> HIDE DEF r
<1>4. RemoteOk(r) /\ First(r, plugin)
  BY <1>2, <1>3 DEF RemoteOk, Handles, Quiet, First
<1>5. Conn(local, r, plugin) /\ Flow(local, r)
  BY <1>2, <1>3, <1>4, RemoteStep, Zenon
<1>6. CASE remote' = r /\ UNCHANGED local
  BY <1>1, <1>2, <1>3, <1>5, <1>6, FrameKeeps, Zenon
<1>7. CASE ~local.dying /\ ~remote.dying /\ tunnel_close_and_free(local, r)
  <2>1. local.phase = "open"
    BY <1>2, <1>7, BothOpen, Zenon
  <2>2. QED
    BY <1>1, <1>3, <1>5, <1>7, <2>1, CloseStep
<1>8. QED
  BY <1>1, <1>6, <1>7, Zenon

LEMMA ConnectedKeeps ==
    ASSUME LocalInv, NEW status \in {0, -1}, remote_connected_cb(status)
    PROVE  LocalInv'
<1> DEFINE r == [remote EXCEPT !.connect = IF status = 0 THEN "up" ELSE "none"]
           up == [r EXCEPT !.connected = TRUE, !.reading = TRUE,
                           !.timers = @ \cup {"recv"}]
           l == [local EXCEPT !.reading = TRUE]
<1>1. /\ remote.connect = "pending" /\ UNCHANGED <<plugin, process, acl, request, sent>>
      /\ IF ~remote.local \/ local.dying \/ remote.dying
         THEN remote' = r /\ UNCHANGED local
         ELSE IF status # 0 THEN tunnel_close_and_free(local, r)
         ELSE /\ \E full \in BOOLEAN : remote' = remote_send_data(up, full)
              /\ local' = l
  BY Zenon DEF remote_connected_cb
<1>2. remote.phase = "open" /\ IsRemote(remote) /\ RemoteOk(remote)
  BY <1>1, RemoteBusy, Zenon DEF LocalInv, Conn
<1>3. ~remote.connected /\ remote.connected = FALSE /\ ~remote.reading
  BY <1>1, <1>2, Zenon DEF RemoteOk, IsRemote
<1>4. /\ IsRemote(r) /\ r.phase = remote.phase /\ r.host = remote.host
      /\ r.local = remote.local /\ r.connect = IF status = 0 THEN "up" ELSE "none"
      /\ r.connected = FALSE /\ r.reading = remote.reading
      /\ r.dying = remote.dying /\ r.closing = remote.closing
      /\ r.ref_count = remote.ref_count /\ r.buf = remote.buf
      /\ r.queued = remote.queued /\ r.written = remote.written
      /\ r.timers = remote.timers
  BY <1>2, <1>3, Zenon DEF IsRemote
<1>5. RemoteOk(r) /\ First(r, plugin)
  BY <1>1, <1>2, <1>3, <1>4 DEF RemoteOk, Handles, Quiet, First
<1> HIDE DEF r
<1>6. Conn(local, r, plugin) /\ Flow(local, r)
  BY <1>2, <1>3, <1>4, <1>5, RemoteStep, Zenon
<1>7. CASE remote' = r /\ UNCHANGED local
  BY <1>1, <1>2, <1>4, <1>6, <1>7, FrameKeeps, Zenon
<1>8. CASE ~local.dying /\ ~remote.dying /\ tunnel_close_and_free(local, r)
  <2>1. local.phase = "open"
    BY <1>2, <1>8, BothOpen, Zenon
  <2>2. QED
    BY <1>1, <1>4, <1>6, <1>8, <2>1, CloseStep, Zenon
<1>9. CASE /\ ~remote.dying /\ status = 0
           /\ \E full \in BOOLEAN : remote' = remote_send_data(up, full)
           /\ local' = l
  <2>1. /\ local.phase = "open" /\ ~local.dying /\ local.dying = FALSE
        /\ local.stage = "STREAM" /\ local.remote /\ remote.local /\ remote.dying = FALSE
    BY <1>2, <1>9, BothOpen, Zenon
  <2>2. /\ IsRemote(up) /\ up.phase = "open" /\ up.host = r.host /\ up.local = r.local
        /\ up.connect = r.connect /\ up.connected /\ up.reading
        /\ up.dying = r.dying /\ up.closing = r.closing /\ up.ref_count = r.ref_count
        /\ up.buf = r.buf /\ up.queued = r.queued /\ up.written = r.written
    BY <1>2, <1>4 DEF IsRemote, Timers
  <2> HIDE DEF up
  <2>3. RemoteOk(up) /\ ~up.dying
    BY <1>4, <1>5, <1>9, <2>1, <2>2 DEF RemoteOk, Handles, Quiet
  <2>4. /\ IsLocal(l) /\ LocalOk(l) /\ l.phase = "open" /\ l.dying = FALSE
        /\ l.stage = local.stage /\ l.remote
        /\ l.methods = local.methods /\ l.replies = local.replies
    BY <2>1, Zenon DEF LocalInv, Conn, IsLocal, LocalOk
  <2> HIDE DEF l
  <2>5. PICK full \in BOOLEAN : remote' = remote_send_data(up, full)
    BY <1>9, Zenon
  <2>6. /\ IsRemote(remote') /\ RemoteOk(remote')
        /\ remote'.phase = up.phase /\ remote'.host = up.host /\ remote'.local = up.local
        /\ remote'.connect = up.connect /\ remote'.connected = up.connected
        /\ remote'.dying = up.dying
    BY <2>2, <2>3, <2>5, SendKeeps, ZenonT(30)
  <2>7. Linked(l, remote') /\ First(remote', plugin) /\ Flow(l, remote')
    BY <1>4, <1>9, <2>1, <2>2, <2>4, <2>6, ZenonT(30) DEF Linked, First, Flow
  <2>8. Conn(local', remote', plugin') /\ Flow(local', remote')
    BY <1>1, <1>9, <2>4, <2>6, <2>7 DEF LocalInv, Conn
  <2>9. QED
    BY <1>1, <1>2, <1>4, <1>9, <2>1, <2>2, <2>4, <2>6, <2>8, FrameKeeps
<1>10. QED
  BY <1>1, <1>7, <1>8, <1>9, Zenon

LEMMA FlushKeeps ==
    ASSUME LocalInv, Flush
    PROVE  LocalInv'
<1>1. /\ remote.queued > 0 /\ ~remote.dying
      /\ UNCHANGED <<local, plugin, process, acl, request, sent>>
      /\ remote' = [remote EXCEPT !.queued = @ - 1, !.written = @ + 1,
                                  !.wire = @ \o remote.buf]
  BY Zenon DEF Flush
<1>2. remote.phase = "open" /\ IsRemote(remote) /\ RemoteOk(remote) /\ First(remote, plugin)
  BY <1>1, RemoteBusy, Zenon DEF LocalInv, Conn
<1>3. remote.wire \o remote.buf \in Seq(Messages)
  BY <1>2, JoinOfList, Zenon DEF IsRemote
<1>4. /\ IsRemote(remote') /\ remote'.phase = remote.phase /\ remote'.host = remote.host
      /\ remote'.local = remote.local /\ remote'.connect = remote.connect
      /\ remote'.connected = remote.connected /\ remote'.reading = remote.reading
      /\ remote'.dying = remote.dying /\ remote'.closing = remote.closing
      /\ remote'.ref_count = remote.ref_count /\ remote'.buf = remote.buf
      /\ remote'.timers = remote.timers
  BY <1>1, <1>2, <1>3 DEF IsRemote
<1>5. RemoteOk(remote') /\ First(remote', plugin)
  BY <1>1, <1>2, <1>4 DEF RemoteOk, Handles, First
<1>6. Conn(local, remote', plugin) /\ Flow(local, remote')
  BY <1>2, <1>4, <1>5, RemoteStep, Zenon
<1>7. QED
  BY <1>1, <1>2, <1>4, <1>6, FrameKeeps, Zenon

LEMMA RemoteSendKeeps ==
    ASSUME LocalInv, NEW status \in {0, -1}, remote_send_cb(status)
    PROVE  LocalInv'
<1> DEFINE r == IF status = 0 THEN [remote EXCEPT !.written = @ - 1]
                ELSE [remote EXCEPT !.queued = @ - 1]
           s == [r EXCEPT !.timers = @ \ {"send"}]
<1>1. /\ UNCHANGED <<plugin, process, acl, request, sent>>
      /\ IF status = 0 THEN remote.written > 0 ELSE remote.queued > 0
      /\ IF ~remote.local \/ local.dying \/ remote.dying
         THEN remote' = r /\ UNCHANGED local
         ELSE IF status # 0 THEN tunnel_close_and_free(local, s)
         ELSE remote' = s /\ UNCHANGED local
  BY Zenon DEF remote_send_cb
<1>2. remote.phase = "open" /\ IsRemote(remote) /\ RemoteOk(remote) /\ First(remote, plugin)
  BY <1>1, RemoteBusy, Zenon DEF LocalInv, Conn
<1>3. /\ IsRemote(r) /\ r.phase = remote.phase /\ r.host = remote.host
      /\ r.local = remote.local /\ r.connect = remote.connect
      /\ r.connected = remote.connected /\ r.reading = remote.reading
      /\ r.dying = remote.dying /\ r.closing = remote.closing
      /\ r.ref_count = remote.ref_count /\ r.buf = remote.buf
      /\ r.timers = remote.timers
      /\ r.queued <= remote.queued /\ r.written <= remote.written
  BY <1>1, <1>2 DEF IsRemote
<1> HIDE DEF r
<1>4. /\ IsRemote(s) /\ s.phase = r.phase /\ s.host = r.host
      /\ s.local = r.local /\ s.connect = r.connect
      /\ s.connected = r.connected /\ s.reading = r.reading
      /\ s.dying = r.dying /\ s.closing = r.closing
      /\ s.ref_count = r.ref_count /\ s.buf = r.buf
      /\ s.queued = r.queued /\ s.written = r.written
      /\ s.timers \subseteq r.timers
  BY <1>3, Zenon DEF IsRemote
<1> HIDE DEF s
<1>5. /\ remote.queued = 0 => r.queued = 0
      /\ remote.written = 0 => r.written = 0
  BY <1>2, <1>3 DEF IsRemote
<1>6. RemoteOk(r) /\ First(r, plugin)
  BY <1>2, <1>3, <1>5, SMTT(30) DEF RemoteOk, Handles, Quiet, First
<1>7. RemoteOk(s) /\ First(s, plugin)
  BY <1>2, <1>3, <1>4, <1>6 DEF RemoteOk, Handles, Quiet, First
<1>8. Conn(local, r, plugin) /\ Flow(local, r)
  BY <1>2, <1>3, <1>6, RemoteStep, Zenon
<1>9. Conn(local, s, plugin) /\ Flow(local, s)
  BY <1>2, <1>3, <1>4, <1>7, RemoteStep, SMTT(30)
<1>10. CASE remote' = r /\ UNCHANGED local
  BY <1>1, <1>2, <1>3, <1>8, <1>10, FrameKeeps, SMTT(30)
<1>11. CASE remote' = s /\ UNCHANGED local
  BY <1>1, <1>2, <1>3, <1>4, <1>9, <1>11, FrameKeeps, SMTT(30)
<1>12. CASE ~local.dying /\ ~remote.dying /\ tunnel_close_and_free(local, s)
  <2>1. local.phase = "open"
    BY <1>2, <1>12, BothOpen, Zenon
  <2>2. QED
    BY <1>1, <1>3, <1>4, <1>9, <1>12, <2>1, CloseStep
<1>13. QED
  BY <1>1, <1>10, <1>11, <1>12, Zenon

LEMMA LocalClosedKeeps ==
    ASSUME LocalInv, local_close_done_cb, UNCHANGED <<plugin, process, acl, request, sent>>
    PROVE  LocalInv'
<1>1. /\ IsLocal(local) /\ LocalOk(local) /\ Linked(local, remote)
      /\ IsRemote(remote) /\ RemoteOk(remote)
  BY Zenon DEF LocalInv, Conn
<1>2. /\ local.phase = "open" /\ local.dying /\ local.ref_count = 1
      /\ local.writes = 0 /\ ~local.reading /\ local.closing = {"tcp"}
  BY <1>1, Zenon DEF local_close_done_cb, LocalOk
<1> DEFINE l == [local EXCEPT !.closing = {}, !.ref_count = @ - 1]
<1>3. /\ l.ref_count = 0 /\ l.remote = local.remote /\ l.phase = local.phase
  BY <1>1, <1>2 DEF IsLocal
<1>4. /\ local' = [l EXCEPT !.phase = "freed"]
      /\ remote' = IF local.remote THEN [remote EXCEPT !.local = FALSE] ELSE remote
  BY <1>3, Zenon DEF local_close_done_cb
<1>5. /\ IsLocal(local') /\ LocalOk(local') /\ local'.phase = "freed"
      /\ local'.stage = local.stage /\ local'.methods = local.methods
      /\ local'.replies = local.replies /\ local'.dying /\ ~local'.reading
      /\ local'.remote = local.remote
  BY <1>1, <1>2, <1>3, <1>4, Zenon DEF IsLocal, LocalOk
<1>6. CASE local.remote
  <2>1. remote.phase = "open" /\ remote.dying
    BY <1>1, <1>2, <1>6, Zenon DEF Linked, IsRemote
  <2>2. /\ IsRemote(remote') /\ remote'.phase = remote.phase /\ remote'.host = remote.host
        /\ remote'.local = FALSE /\ remote'.connect = remote.connect
        /\ remote'.connected = remote.connected /\ remote'.reading = remote.reading
        /\ remote'.dying = remote.dying /\ remote'.closing = remote.closing
        /\ remote'.ref_count = remote.ref_count /\ remote'.buf = remote.buf
        /\ remote'.timers = remote.timers
        /\ remote'.queued = remote.queued /\ remote'.written = remote.written
    BY <1>1, <1>4, <1>6, Zenon DEF IsRemote
  <2>3. RemoteOk(remote') /\ First(remote', plugin)
    BY <1>1, <2>2 DEF LocalInv, Conn, RemoteOk, Handles, Quiet, First
  <2>4. Linked(local', remote') /\ Flow(local', remote')
    BY <1>5, <2>1, <2>2, Zenon DEF Linked, Flow
  <2>5. Conn(local', remote', plugin')
    BY <1>5, <2>2, <2>3, <2>4, Zenon DEF LocalInv, Conn
  <2>6. QED
    BY <1>5, <2>1, <2>2, <2>4, <2>5, FrameKeeps, Zenon
<1>7. CASE ~local.remote
  <2>1. remote' = remote /\ remote.phase \in {"none", "freed"}
    BY <1>1, <1>2, <1>4, <1>7, Zenon DEF Linked, IsRemote
  <2>2. Linked(local', remote') /\ Flow(local', remote')
    BY <1>1, <1>5, <1>7, <2>1, Zenon DEF Linked, Flow
  <2>3. Conn(local', remote', plugin')
    BY <1>5, <2>1, <2>2, Zenon DEF LocalInv, Conn
  <2>4. QED
    BY <1>5, <2>1, <2>2, <2>3, FrameKeeps, Zenon
<1>8. QED
  BY <1>6, <1>7, Zenon

LEMMA RemoteClosedKeeps ==
    ASSUME LocalInv, NEW h \in remote.closing, remote_close_done_cb(h),
           UNCHANGED <<plugin, process, acl, request, sent>>
    PROVE  LocalInv'
<1> DEFINE r == [remote EXCEPT !.closing = @ \ {h}, !.ref_count = @ - 1]
           last == r.ref_count = 0
<1>1. /\ h = "tcp" => r.connect # "pending" /\ r.queued + r.written = 0
      /\ remote' = [r EXCEPT !.phase = IF last THEN "freed" ELSE @]
      /\ local' = IF last /\ r.local THEN [local EXCEPT !.remote = FALSE]
                  ELSE local
  BY Zenon DEF remote_close_done_cb
<1>2. /\ IsLocal(local) /\ LocalOk(local) /\ Linked(local, remote)
      /\ IsRemote(remote) /\ RemoteOk(remote) /\ First(remote, plugin)
  BY Zenon DEF LocalInv, Conn
<1>3. remote.phase = "open" /\ remote.dying /\ remote.dying = TRUE
      /\ ~remote.reading /\ remote.timers = {} /\ h \in {"send", "recv", "tcp"}
      /\ remote.ref_count = Handles(remote)
  BY <1>2, Zenon DEF RemoteOk, IsRemote
<1>4. remote.ref_count >= 1
  BY <1>3 DEF Handles
<1>5. /\ IsRemote(r) /\ r.phase = remote.phase /\ r.host = remote.host
      /\ r.local = remote.local /\ r.connect = remote.connect
      /\ r.connected = remote.connected /\ r.reading = remote.reading
      /\ r.dying = remote.dying /\ r.closing = remote.closing \ {h}
      /\ r.ref_count = remote.ref_count - 1 /\ r.buf = remote.buf
      /\ r.timers = remote.timers
      /\ r.queued = remote.queued /\ r.written = remote.written
  BY <1>2, <1>4 DEF IsRemote
<1> HIDE DEF r
<1>6. r.ref_count = Handles(r) /\ (last <=> r.closing = {})
  <2>1. r.ref_count = Handles(r)
    BY <1>3, <1>5 DEF Handles
  <2>2. Handles(r) = 0 <=> r.closing = {}
    BY <1>5 DEF Handles, IsRemote
  <2>3. QED
    BY <2>1, <2>2, Zenon
<1>7. "tcp" \notin r.closing => Quiet(r)
  <2>1. CASE h = "tcp"
    BY <1>1, <1>5, <2>1, SMTT(30) DEF Quiet, IsRemote
  <2>2. CASE h # "tcp" /\ "tcp" \notin r.closing
    BY <1>2, <1>3, <1>5, <2>2, Zenon DEF RemoteOk, Quiet
  <2>3. QED
    BY <1>5, <2>1, <2>2, Zenon
<1>8. /\ IsRemote(remote') /\ remote'.phase = (IF last THEN "freed" ELSE "open")
      /\ remote'.host = r.host /\ remote'.local = r.local
      /\ remote'.connect = r.connect /\ remote'.connected = r.connected
      /\ remote'.reading = r.reading /\ remote'.dying = r.dying
      /\ remote'.closing = r.closing /\ remote'.ref_count = r.ref_count
      /\ remote'.buf = r.buf /\ remote'.timers = r.timers
      /\ remote'.queued = r.queued /\ remote'.written = r.written
  BY <1>1, <1>3, <1>5, Zenon DEF IsRemote
<1>9. Handles(remote') = Handles(r) /\ (Quiet(remote') <=> Quiet(r))
  BY <1>8, Zenon DEF Handles, Quiet
<1>10. RemoteOk(remote') /\ First(remote', plugin)
  BY <1>2, <1>3, <1>5, <1>6, <1>7, <1>8, <1>9, ZenonT(30) DEF RemoteOk, First
<1>11. CASE ~last
  <2>1. local' = local /\ remote'.phase = "open"
    BY <1>1, <1>8, <1>11, Zenon
  <2>2. Conn(local, remote', plugin) /\ Flow(local, remote')
    BY <1>3, <1>5, <1>8, <1>10, <2>1, RemoteStep, Zenon
  <2>3. QED
    BY <1>3, <1>5, <1>8, <2>1, <2>2, FrameKeeps, Zenon
<1>12. CASE last
  <2>1. /\ IsLocal(local') /\ LocalOk(local') /\ local'.phase = local.phase
        /\ local'.stage = local.stage /\ local'.methods = local.methods
        /\ local'.replies = local.replies /\ local'.dying = local.dying
        /\ local'.reading = local.reading
        /\ local'.remote = IF remote.local THEN FALSE ELSE local.remote
    BY <1>1, <1>2, <1>5, <1>12, Zenon DEF IsLocal, LocalOk
  <2>2. local.phase \in {"open", "freed"} /\ local.dying
        /\ (local.phase = "open" => remote.local)
    BY <1>2, <1>3, ZenonT(30) DEF Linked, LocalOk
  <2>3. Linked(local', remote') /\ Flow(local', remote')
    BY <1>8, <1>12, <2>1, <2>2, Zenon DEF Linked, Flow
  <2>4. Conn(local', remote', plugin')
    BY <1>8, <1>10, <2>1, <2>3, Zenon DEF LocalInv, Conn
  <2>5. QED
    BY <1>3, <1>5, <1>8, <2>1, <2>3, <2>4, FrameKeeps
<1>13. QED
  BY <1>11, <1>12, Zenon

(* What the callbacks leave of a local whose client they answer or start   *)
(* to read.                                                                *)
LEMMA AnswerKeeps ==
    ASSUME LocalInv, remote.phase = "open", ~remote.dying, remote.connected,
           NEW r, IsRemote(r), RemoteOk(r), r.phase = "open", r.connect = "up",
           r.connected, r.local = remote.local, r.dying = remote.dying,
           r.host = remote.host,
           NEW l, l = local \/ l = [local EXCEPT !.reading = TRUE],
           local' = l \/ local' = local_send_data(l), remote' = r,
           IsPlugin(plugin'), UNCHANGED <<process, acl, request, sent>>
    PROVE  LocalInv'
<1>1. /\ local.phase = "open" /\ ~local.dying /\ local.dying = FALSE
      /\ local.stage = "STREAM" /\ local.remote /\ remote.local /\ remote.dying = FALSE
  BY BothOpen, Zenon
<1>2. IsLocal(local) /\ LocalOk(local)
  BY Zenon DEF LocalInv, Conn
<1>3. /\ IsLocal(l) /\ LocalOk(l) /\ l.phase = "open" /\ l.dying = FALSE
      /\ l.stage = local.stage /\ l.remote = local.remote
      /\ l.methods = local.methods /\ l.replies = local.replies
  BY <1>1, <1>2, ZenonT(30) DEF IsLocal, LocalOk
<1>4. /\ IsLocal(local') /\ LocalOk(local') /\ local'.phase = "open" /\ local'.dying = FALSE
      /\ local'.stage = local.stage /\ local'.remote = local.remote
      /\ local'.methods = local.methods /\ local'.replies = local.replies
  <2>1. CASE local' = l
    BY <1>3, <2>1, Zenon
  <2>2. CASE local' = local_send_data(l)
    BY <1>3, <2>2 DEF IsLocal, LocalOk, local_send_data
  <2>3. QED
    BY <2>1, <2>2, Zenon
<1>5. Linked(local', remote') /\ First(remote', plugin') /\ Flow(local', remote')
  BY <1>1, <1>4, Zenon DEF Linked, First, Flow
<1>6. Conn(local', remote', plugin')
  BY <1>4, <1>5, Zenon DEF Conn
<1>7. QED
  BY <1>1, <1>4, <1>5, <1>6, FrameKeeps, Zenon

LEMMA RemoteRecvKeeps ==
    ASSUME LocalInv,
           NEW result \in {"data", "empty", "partial", "undecodable", "eof", "error"},
           remote_recv_cb(result)
    PROVE  LocalInv'
<1> DEFINE r == [remote EXCEPT !.timers = @ \cup {"recv"}]
           fed == plugin.stage = "hello" /\ result \in {"data", "empty"}
           b == [r EXCEPT !.buf = plugin.held]
           l == IF fed THEN [local EXCEPT !.reading = TRUE] ELSE local
<1>1. /\ remote.reading /\ UNCHANGED <<process, acl, request, sent>>
      /\ plugin' = IF fed THEN [stage |-> "plain", held |-> <<>>] ELSE plugin
      /\ \E full \in BOOLEAN :
            CASE result \in {"eof", "error", "undecodable"} ->
                      tunnel_close_and_free(local, r)
              [] result = "data" ->
                      /\ local' = local_send_data(l)
                      /\ remote' = IF fed THEN remote_send_data(b, full) ELSE r
              [] result \in {"empty", "partial"} ->
                      /\ local' = l
                      /\ remote' = IF fed THEN remote_send_data(b, full) ELSE r
  BY Zenon DEF remote_recv_cb
<1>2. remote.phase = "open" /\ IsRemote(remote) /\ RemoteOk(remote) /\ IsPlugin(plugin)
  BY <1>1, RemoteBusy, Zenon DEF LocalInv, Conn
<1>3. ~remote.dying /\ remote.dying = FALSE /\ remote.connected /\ remote.connect = "up"
  BY <1>1, <1>2, Zenon DEF RemoteOk, IsRemote
<1>4. /\ IsRemote(r) /\ r.phase = remote.phase /\ r.host = remote.host
      /\ r.local = remote.local /\ r.connect = remote.connect
      /\ r.connected = remote.connected /\ r.reading = remote.reading
      /\ r.dying = remote.dying /\ r.closing = remote.closing
      /\ r.ref_count = remote.ref_count /\ r.buf = remote.buf
      /\ r.queued = remote.queued /\ r.written = remote.written
  BY <1>2, Zenon DEF IsRemote, Timers
<1> HIDE DEF r
<1>5. RemoteOk(r) /\ First(r, plugin)
  BY <1>2, <1>3, <1>4 DEF RemoteOk, Handles, Quiet, First
<1>6. CASE result \in {"eof", "error", "undecodable"}
  <2>1. tunnel_close_and_free(local, r) /\ UNCHANGED plugin
    BY <1>1, <1>6, Zenon
  <2>2. Conn(local, r, plugin)
    BY <1>2, <1>3, <1>4, <1>5, RemoteStep, Zenon
  <2>3. local.phase = "open" /\ ~local.dying
    BY <1>2, <1>3, BothOpen, Zenon
  <2>4. QED
    BY <1>1, <1>4, <2>1, <2>2, <2>3, CloseStep, Zenon
<1>7. CASE result \in {"data", "empty", "partial"}
  <2>1. PICK full \in BOOLEAN :
          /\ local' = l \/ local' = local_send_data(l)
          /\ remote' = IF fed THEN remote_send_data(b, full) ELSE r
    BY <1>1, <1>7, Zenon
  <2>2. IsPlugin(plugin')
    BY <1>1, <1>2, EmptyOfList DEF IsPlugin
  <2>3. CASE ~fed
    <3>1. l = local /\ remote' = r
      BY <2>1, <2>3, Zenon
    <3>2. QED
      BY <1>1, <1>2, <1>3, <1>4, <1>5, <2>1, <2>2, <3>1, AnswerKeeps, ZenonT(30)
  <2>4. CASE fed
    <3>1. /\ IsRemote(b) /\ b.phase = r.phase /\ b.host = r.host
          /\ b.local = r.local /\ b.connect = r.connect
          /\ b.connected = r.connected /\ b.reading = r.reading
          /\ b.dying = r.dying /\ b.closing = r.closing
          /\ b.ref_count = r.ref_count /\ b.timers = r.timers
          /\ b.queued = r.queued /\ b.written = r.written
      BY <1>2, <1>4 DEF IsRemote, IsPlugin
    <3> HIDE DEF b
    <3>2. RemoteOk(b) /\ b.phase = "open" /\ ~b.dying
      BY <1>2, <1>3, <1>4, <1>5, <3>1 DEF RemoteOk, Handles, Quiet
    <3>3. /\ IsRemote(remote') /\ RemoteOk(remote')
          /\ remote'.phase = b.phase /\ remote'.host = b.host
          /\ remote'.local = b.local /\ remote'.connect = b.connect
          /\ remote'.connected = b.connected /\ remote'.dying = b.dying
      BY <2>1, <2>4, <3>1, <3>2, SendKeeps
    <3>4. /\ remote'.phase = "open" /\ remote'.connect = "up" /\ remote'.connected
          /\ remote'.local = remote.local /\ remote'.dying = remote.dying
          /\ remote'.host = remote.host
      BY <1>2, <1>3, <1>4, <3>1, <3>3
    <3>5. l = [local EXCEPT !.reading = TRUE]
      BY <2>4, Zenon
    <3> HIDE DEF l, fed
    <3>6. QED
      BY <1>1, <1>2, <1>3, <2>1, <2>2, <3>3, <3>4, <3>5, AnswerKeeps
  <2>5. QED
    BY <2>3, <2>4, Zenon
<1>8. QED
  BY <1>6, <1>7, Zenon

LEMMA InitKeeps ==
    ASSUME Init
    PROVE  LocalInv
<1>1. /\ local = NoLocal /\ remote = NoRemote /\ process = "run"
      /\ plugin \in {[stage |-> s, held |-> <<>>] : s \in {"plain", "start"}}
      /\ request \in Requests /\ sent = 0
  BY Zenon DEF Init
<1>2. IsLocal(local) /\ LocalOk(local)
  BY <1>1, SMTT(30) DEF NoLocal, IsLocal, LocalOk
<1>3. IsRemote(remote) /\ remote.phase = "none" /\ remote.connect = "none"
  BY <1>1, SMTT(30) DEF NoRemote, IsRemote
<1>4. RemoteOk(remote)
  BY <1>1 DEF NoRemote, RemoteOk, Handles, Quiet
<1>5. IsPlugin(plugin)
  <2>1. PICK stage \in {"plain", "start"} : plugin = [stage |-> stage, held |-> <<>>]
    BY <1>1, Zenon
  <2>2. <<>> \in Seq(Messages)
    BY SMTT(30)
  <2>3. QED
    BY <2>1, <2>2, Zenon DEF IsPlugin
<1>6. /\ local.phase = "none" /\ ~local.remote /\ local.stage = "INIT"
      /\ local.methods = 0 /\ local.replies = 0
  BY <1>1, Zenon DEF NoLocal
<1>7. /\ Linked(local, remote) /\ First(remote, plugin) /\ Flow(local, remote)
      /\ History(local, sent)
  BY <1>1, <1>3, <1>6, Zenon DEF Linked, First, Flow, History
<1>8. sent \in Nat /\ process \in Processes
  BY <1>1, Zenon DEF Processes
<1>9. QED
  BY <1>1, <1>2, <1>3, <1>4, <1>5, <1>7, <1>8, Zenon
     DEF LocalInv, Conn, BlockedNotReached

LEMMA NextKeeps ==
    ASSUME LocalInv, [Next]_vars
    PROVE  LocalInv'
<1>1. ASSUME NEW accepted \in BOOLEAN, accept_cb(accepted) PROVE LocalInv'
  BY <1>1, AcceptKeeps, Zenon
<1>2. ASSUME NEW k \in 1..MaxMessage, local_recv_cb(k) PROVE LocalInv'
  BY <1>2, RecvKeeps, Zenon
<1>3. CASE ClientEnd
  BY <1>3, ClientEndKeeps, Zenon
<1>4. ASSUME NEW status \in {0, -1}, local_send_cb(status) PROVE LocalInv'
  BY <1>4, LocalSendKeeps, Zenon
<1>5. ASSUME NEW status \in {0, -1}, remote_connected_cb(status) PROVE LocalInv'
  BY <1>5, ConnectedKeeps
<1>6. ASSUME NEW status \in {0, -1}, remote_send_cb(status) PROVE LocalInv'
  BY <1>6, RemoteSendKeeps, Zenon
<1>7. ASSUME NEW t \in Timers, remote_timeout_cb(t) PROVE LocalInv'
  BY <1>7, TimeoutKeeps, Zenon
<1>8. ASSUME NEW result \in {"data", "empty", "partial", "undecodable", "eof", "error"},
             remote_recv_cb(result)
      PROVE  LocalInv'
  BY <1>8, RemoteRecvKeeps
<1>9. CASE Flush
  BY <1>9, FlushKeeps, Zenon
<1>10. CASE CloseDone
  BY <1>10, LocalClosedKeeps, RemoteClosedKeeps, SMTT(30) DEF CloseDone
<1>11. CASE signal_cb
  BY <1>11, Zenon DEF signal_cb, LocalInv, Processes, Running, BlockedNotReached
<1>12. CASE UNCHANGED vars
  BY <1>12, FrameKeeps, Zenon DEF vars, LocalInv
<1>13. QED
  BY <1>1, <1>2, <1>3, <1>4, <1>5, <1>6, <1>7, <1>8, <1>9, <1>10, <1>11, <1>12,
    SMTT(30) DEF Next, Over

LEMMA LocalInvariant == Spec => []LocalInv
<1>1. Init => LocalInv
  BY InitKeeps, Zenon
<1>2. LocalInv /\ [Next]_vars => LocalInv'
  BY NextKeeps, Zenon
<1>3. QED
  BY <1>1, <1>2, PTL DEF Spec

(* The two weak pointers of a connection never dangle, both ends close     *)
(* together, and an object is freed only when its handles and requests are *)
(* done: local_close_done_cb and remote_close_done_cb come in any order,   *)
(* for every client, server, plugin and access control list.               *)
THEOREM LifetimesNested == Spec => []LifetimesNest
<1>1. LocalInv => TypeOK
  <2> SUFFICES ASSUME LocalInv PROVE TypeOK
    BY Zenon
  <2>1. /\ IsLocal(local) /\ LocalOk(local) /\ IsRemote(remote) /\ RemoteOk(remote)
        /\ IsPlugin(plugin) /\ process \in Processes
    BY Zenon DEF LocalInv, Conn
  <2>2. local.ref_count \in 0..1 /\ remote.ref_count \in 0..3
    BY <2>1 DEF LocalOk, RemoteOk, Handles
  <2>3. \A i \in DOMAIN remote.wire : remote.wire[i] \in Messages
    BY <2>1, ElementOfList, LengthOfList DEF IsRemote
  <2>4. QED
    BY <2>1, <2>2, <2>3, Zenon DEF TypeOK, IsLocal, IsRemote, IsPlugin, Processes
<1>2. LocalInv => LifetimesNest
  <2> SUFFICES ASSUME LocalInv PROVE LifetimesNest
    BY Zenon
  <2>1. /\ IsLocal(local) /\ LocalOk(local) /\ IsRemote(remote) /\ RemoteOk(remote)
        /\ Linked(local, remote)
    BY Zenon DEF LocalInv, Conn
  <2>2. local.phase = "open" /\ local.remote => remote.phase = "open"
    BY <2>1, Zenon DEF Linked, IsRemote
  <2>3. remote.phase = "open" /\ remote.local => local.phase = "open"
    BY <2>1, Zenon DEF Linked
  <2>4. remote.phase = "open" /\ local.phase = "open" => remote.dying = local.dying
    BY <2>1, Zenon DEF Linked
  <2>5. local.phase = "freed" => local.closing = {} /\ local.writes = 0
    BY <2>1, Zenon DEF LocalOk
  <2>6. remote.phase = "freed" => /\ remote.closing = {}
                                  /\ remote.connect # "pending"
                                  /\ remote.queued + remote.written = 0
    BY <2>1 DEF RemoteOk, Quiet
  <2>7. QED
    BY <1>1, <2>2, <2>3, <2>4, <2>5, <2>6, Zenon DEF LifetimesNest
<1>3. QED
  BY <1>2, LocalInvariant, PTL

(* The address header is still at the head of remote->buf when             *)
(* remote_connected_cb sends it, whatever the client does while the        *)
(* connect is under way.                                                   *)
THEOREM FirstPackageKeeps == Spec => []FirstPackageKept
<1>1. LocalInv => FirstPackageKept
  BY Zenon DEF LocalInv, Conn, First, FirstPackageKept
<1>2. QED
  BY <1>1, LocalInvariant, PTL

(* The block list holds: local_recv_cb makes no connection for a name on   *)
(* it, for every set of access control lists.                              *)
THEOREM BlockedStayUnreached == Spec => []BlockedNotReached
<1>1. LocalInv => BlockedNotReached
  BY Zenon DEF LocalInv
<1>2. QED
  BY <1>1, LocalInvariant, PTL
=============================================================================
