------------------------------ MODULE ServerEv ------------------------------
(***************************************************************************)
(* The libev server of server.c with the resolver front end of resolv.c:   *)
(* one connection, from accept_cb to the free of both of its ends.  The    *)
(* client's stream is IvLen bytes of IV, HeaderLen bytes of header and     *)
(* then payload; decrypted bytes are numbered from 1, so that a buffer is  *)
(* a sequence of positions.  A callback is one step: libev runs them one   *)
(* at a time, and stopping a watcher also clears its pending event.        *)
(***************************************************************************)
EXTENDS Integers, Sequences

CONSTANTS
    IvLen,         \* enc_get_iv_len
    HeaderLen,     \* length of the address header the client sends
    MinHeader,     \* length of the shortest header there is
    BUF_SIZE,      \* bytes one recv may return
    MaxPayload,    \* bound: payload bytes the client sends
    MaxReply,      \* bound: bytes the destination sends
    MAX_TRIES,     \* count above which a listed address is refused
    Dests,         \* kinds of destination the header names
    FastOpenSends  \* what a fast open sendto takes: subset of "all", "part", "none"

ASSUME ServerEvAssumption ==
    /\ IvLen \in Nat /\ HeaderLen \in Nat /\ MinHeader \in 2..HeaderLen
    /\ BUF_SIZE > IvLen + 1
    /\ Dests \subseteq {"ip", "name", "literal", "badname", "blocked", "badtype"}
    /\ FastOpenSends \subseteq {"all", "part", "none"}

VARIABLES
    svConn,      \* server_t and remote_t of the connection
    svQuery,     \* the resolv_query
    svDest,      \* the kind of destination in the client's header
    svFast,      \* the global fast_open
    svRead,      \* bytes of the client's stream received
    svSent,      \* bytes handed to the destination's socket, in order
    svBack,      \* bytes of the destination's stream received
    svGot,       \* bytes handed to the client's socket, in order
    svListed,    \* the client's count in the block list, 0 when not listed
    svFreed      \* names of the callbacks that used a freed object

serverEvVars == <<svConn, svQuery, svDest, svFast, svRead, svSent, svBack,
                  svGot, svListed, svFreed>>

Wire == IvLen + HeaderLen + MaxPayload
Empty == [data |-> <<>>, idx |-> 0, len |-> 0]
Store(data) == [data |-> data, idx |-> 0, len |-> Len(data)]
Unsent(b) == SubSeq(b.data, b.idx + 1, b.idx + b.len)
Take(b, n) == [b EXCEPT !.idx = @ + n, !.len = @ - n]

NoConn == [server |-> FALSE, stage |-> "INIT", buf |-> Empty,
           header_buf |-> <<>>, recv |-> FALSE, send |-> FALSE,
           timer |-> FALSE, query |-> FALSE, remotep |-> FALSE,
           remote |-> FALSE, rbuf |-> Empty, rrecv |-> FALSE,
           rsend |-> FALSE, connected |-> FALSE, serverp |-> FALSE]
NoQuery == [live |-> FALSE, a4 |-> FALSE, a6 |-> FALSE, responses |-> <<>>]

-----------------------------------------------------------------------------
(* resolv.c *)

all_queries_are_null(q) == ~q.a4 /\ ~q.a6

choose_any(q) == IF q.responses = <<>> THEN "none" ELSE q.responses[1]
choose_ipv4_first(q) ==
    IF \E i \in DOMAIN q.responses : q.responses[i] = "v4" THEN "v4" ELSE choose_any(q)
choose_ipv6_first(q) ==
    IF \E i \in DOMAIN q.responses : q.responses[i] = "v6" THEN "v6" ELSE choose_any(q)

(* Both submissions may fail; then the query is freed and NULL returned. *)
resolv_query(a4, a6) ==
    IF a4 \/ a6 THEN [NoQuery EXCEPT !.live = TRUE, !.a4 = a4, !.a6 = a6]
    ELSE NoQuery

resolv_cancel(q) == NoQuery

-----------------------------------------------------------------------------
(* The life of the two ends *)

free_remote(c) ==
    [c EXCEPT !.remotep = IF c.serverp THEN FALSE ELSE @, !.remote = FALSE,
              !.rbuf = Empty, !.connected = FALSE, !.serverp = FALSE]

RemoteKeepsWatching(c, ptr) ==   \* mutant: the recv watcher is not stopped
    IF ptr THEN free_remote([c EXCEPT !.rsend = FALSE]) ELSE c

close_and_free_remote(c, ptr) ==
    IF ptr THEN free_remote([c EXCEPT !.rsend = FALSE, !.rrecv = FALSE]) ELSE c

free_server(c) ==
    [c EXCEPT !.serverp = IF c.remotep THEN FALSE ELSE @, !.server = FALSE,
              !.stage = "INIT", !.buf = Empty, !.header_buf = <<>>,
              !.remotep = FALSE]

close_and_free_server(c) ==
    free_server([c EXCEPT !.query = FALSE, !.send = FALSE, !.recv = FALSE,
                          !.timer = FALSE])

Cancelled(c) == IF c.query THEN resolv_cancel(svQuery) ELSE svQuery

Closed(c) == close_and_free_server(close_and_free_remote(c, c.remotep))

new_server == [NoConn EXCEPT !.server = TRUE]
new_remote(c) == [c EXCEPT !.remote = TRUE]

(* Both pointers are set once connect_to_remote has answered. *)
Joined(c) == [c EXCEPT !.remotep = TRUE, !.serverp = TRUE]

Drop(c) ==
    /\ svConn' = Closed(c) /\ svQuery' = Cancelled(c)

(* Listed with a count of 1 whatever the level, then raised by the level.  *)
report_addr(level) ==
    svListed' = IF svListed = 0 THEN 1
                ELSE IF svListed > MAX_TRIES THEN svListed ELSE svListed + level
reset_addr == svListed' = 0

ServerEvInit ==
    /\ svConn = NoConn /\ svQuery = NoQuery
    /\ svDest \in Dests
    /\ svFast = (FastOpenSends # {})
    /\ svRead = 0 /\ svSent = <<>> /\ svBack = 0 /\ svGot = <<>>
    /\ svListed = 0 /\ svFreed = {}

(* A new connection of the same client; access lists may refuse it. *)
accept_cb ==
    /\ ~svConn.server
    /\ svListed <= MAX_TRIES
    /\ svConn' = [new_server EXCEPT !.recv = TRUE, !.timer = TRUE]
    /\ svRead' = 0 /\ svSent' = <<>> /\ svBack' = 0 /\ svGot' = <<>>
    /\ svDest' \in Dests
    /\ UNCHANGED <<svQuery, svFast, svListed, svFreed>>

-----------------------------------------------------------------------------
(* connect_to_remote: the remote is made unless an access list, the socket *)
(* or the bind refuses; what fast open sends is taken off server->buf, and *)
(* without fast open connect may fail at once.                             *)

Refused == [ok |-> FALSE, taken |-> 0, fast |-> svFast]

(* A fast open send of some of the bytes, of none (the connection goes on   *)
(* without), or an answer that fast open is not supported: the plain       *)
(* connect follows.                                                        *)
FastSends(n) ==
    [ok : {TRUE}, fast : {TRUE},
     taken : {k \in 0..n : \/ k = 0 /\ "none" \in FastOpenSends
                           \/ k = n /\ "all" \in FastOpenSends
                           \/ k \in 1..(n - 1) /\ "part" \in FastOpenSends}]

connect_to_remote(b) ==
    {Refused} \cup
    (IF svFast THEN FastSends(b.len) \cup [ok : BOOLEAN, taken : {0}, fast : {FALSE}]
     ELSE {[ok |-> TRUE, taken |-> 0, fast |-> FALSE]})

(* The bytes left after the fast open send go to remote->buf: server_recv  *)
(* copies them from the start of the buffer, server_resolve_cb from idx.   *)
Handed(c, b, left) ==
    IF b.len > 0 THEN [c EXCEPT !.rbuf = Store(left), !.buf = Empty]
    ELSE [c EXCEPT !.buf = b]

Connect(c, r, b, left) ==
    IF ~r.ok THEN close_and_free_server(c)
    ELSE [Handed(Joined(new_remote(c)), b, left) EXCEPT !.rsend = TRUE, !.recv = FALSE]

-----------------------------------------------------------------------------
(* server_recv_cb *)

(* is_header_complete looks at the type in the first byte it is given: the *)
(* first byte of the header, or whatever a later chunk begins with.        *)
is_header_complete(data) ==
    IF data[1] = 1
    THEN {IF svDest = "badtype" THEN -1 ELSE IF Len(data) >= HeaderLen THEN 1 ELSE 0}
    ELSE {r \in {-1, 0, 1} : r = 1 => Len(data) >= MinHeader}

(* Stage PARSE: server->buf begins with the header. *)
ParseHeader(c, data) ==
    LET payload == SubSeq(data, HeaderLen + 1, Len(data))
        b == Store(payload)
        p == [c EXCEPT !.stage = "PARSE", !.header_buf = <<>>]
    IN  IF Len(data) < HeaderLen \/ svDest \in {"badname", "badtype"}
        THEN /\ report_addr(1) /\ svConn' = close_and_free_server(p)
             /\ UNCHANGED <<svQuery, svFast, svSent>>
        ELSE IF svDest = "blocked"
        THEN /\ svConn' = close_and_free_server(p)
             /\ UNCHANGED <<svQuery, svFast, svSent, svListed>>
        ELSE IF svDest = "name"
        THEN \E a4, a6 \in BOOLEAN :
                /\ svQuery' = resolv_query(a4, a6)
                /\ svConn' = [p EXCEPT !.stage = "RESOLVE", !.buf = b,
                                       !.query = a4 \/ a6, !.recv = FALSE]
                /\ UNCHANGED <<svFast, svSent, svListed>>
        ELSE \E r \in connect_to_remote(b) :
                /\ svConn' = LET rest == Take(b, r.taken)
                             IN  Connect(p, r, rest, SubSeq(payload, 1, rest.len))
                /\ svSent' = svSent \o SubSeq(payload, 1, r.taken)
                /\ svFast' = r.fast
                /\ UNCHANGED <<svQuery, svListed>>

Wait(c) == /\ svConn' = c
           /\ UNCHANGED <<svQuery, svFast, svSent, svListed>>

HandshakeForgets(c, data) ==   \* mutant: the earlier chunks are overwritten
    \E r \in is_header_complete(data) :
        IF r = 1 THEN ParseHeader(c, data \o data)
        ELSE Wait([c EXCEPT !.header_buf = data, !.buf = Empty,
                            !.stage = IF r = -1 THEN "ERROR" ELSE "HANDSHAKE"])

(* Stage HANDSHAKE: the chunk is appended to header_buf, and the chunk is  *)
(* what is_header_complete is asked about.                                 *)
Handshake(c, data) ==
    LET all == c.header_buf \o data
    IN  \E r \in is_header_complete(data) :
            IF r = 1 THEN ParseHeader(c, all)
            ELSE Wait([c EXCEPT !.header_buf = all, !.buf = Empty,
                                !.stage = IF r = -1 THEN "ERROR" ELSE "HANDSHAKE"])

FirstBytes(c, data) ==
    \E r \in is_header_complete(data) :
        IF r = 1 THEN ParseHeader(c, data)
        ELSE IF r = -1
        THEN /\ report_addr(1)
             /\ svConn' = [c EXCEPT !.stage = "ERROR", !.buf = Empty]
             /\ UNCHANGED <<svQuery, svFast, svSent>>
        ELSE Handshake([c EXCEPT !.stage = "HANDSHAKE"], data)

(* Stage STREAM: decrypted data goes to the remote at once if it can.      *)
Forward(c, data) ==
    \/ /\ Drop(c)                                       \* send failed
       /\ UNCHANGED <<svFast, svSent, svListed>>
    \/ \E n \in 0..Len(data) :
        /\ svSent' = svSent \o SubSeq(data, 1, n)
        /\ svConn' = IF n = Len(data) THEN [c EXCEPT !.rbuf = Store(data)]
                     ELSE [c EXCEPT !.rbuf = Take(Store(data), n),
                                    !.recv = FALSE, !.rsend = TRUE]
        /\ UNCHANGED <<svQuery, svFast, svListed>>

Received(n) == [i \in 1..n |-> svRead + i - IvLen]

server_recv_cb ==
    /\ svConn.recv
    /\ \/ /\ Drop(svConn)                                \* closed, or an error
          /\ UNCHANGED <<svRead, svFast, svSent, svListed>>
       \/ \E n \in 1..(BUF_SIZE - IF svConn.stage = "STREAM" THEN 0 ELSE svConn.buf.len) :
            /\ svRead + n <= Wire
            /\ svRead' = svRead + n
            /\ CASE svConn.stage = "ERROR" -> Wait([svConn EXCEPT !.buf = Empty])
                 [] svConn.stage = "INIT" ->
                      LET all == svConn.buf.data \o Received(n)
                      IN  IF Len(all) <= IvLen + 1
                          THEN Wait([svConn EXCEPT !.buf = Store(all)])
                          ELSE \/ FirstBytes([svConn EXCEPT !.buf = Empty],
                                             SubSeq(all, IvLen + 1, Len(all)))
                               \/ /\ report_addr(8) /\ Drop(svConn)   \* ss_decrypt fails
                                  /\ UNCHANGED <<svFast, svSent>>
                 [] svConn.stage = "HANDSHAKE" -> Handshake(svConn, Received(n))
                 [] svConn.stage = "STREAM" -> Forward(svConn, Received(n))
    /\ UNCHANGED <<svDest, svBack, svGot, svFreed>>

-----------------------------------------------------------------------------
(* The other callbacks *)

(* The A or the AAAA query has an answer; the last one runs the client's   *)
(* callback, server_resolve_cb, and then the query is freed.  Which family *)
(* goes first is a setting.                                                *)
process_client_callback(q, first) ==
    IF first = "v4" THEN choose_ipv4_first(q) ELSE choose_ipv6_first(q)

server_resolve_cb(addr) ==
    LET c == [svConn EXCEPT !.query = FALSE] IN
    IF addr = "none"
    THEN svConn' = close_and_free_server(c) /\ UNCHANGED <<svFast, svSent>>
    ELSE \E r \in connect_to_remote(c.buf) :
            /\ svConn' = LET rest == Take(c.buf, r.taken)
                         IN  Connect(c, r, rest, Unsent(rest))
            /\ svSent' = svSent \o SubSeq(Unsent(c.buf), 1, r.taken)
            /\ svFast' = r.fast

Answered(q) ==
    /\ IF all_queries_are_null(q)
       THEN \E first \in {"v4", "v6"} :
                /\ server_resolve_cb(process_client_callback(q, first))
                /\ svQuery' = NoQuery
       ELSE svQuery' = q /\ UNCHANGED <<svConn, svFast, svSent>>
    /\ UNCHANGED <<svDest, svRead, svBack, svGot, svListed, svFreed>>

dns_query_v4_cb ==
    /\ svQuery.live /\ svQuery.a4
    /\ \E found \in {<<>>, <<"v4">>} :
        Answered([svQuery EXCEPT !.a4 = FALSE, !.responses = @ \o found])

dns_query_v6_cb ==
    /\ svQuery.live /\ svQuery.a6
    /\ \E found \in {<<>>, <<"v6">>} :
        Answered([svQuery EXCEPT !.a6 = FALSE, !.responses = @ \o found])

server_timeout_cb ==
    /\ svConn.timer
    /\ IF svConn.stage \in {"ERROR", "INIT", "HANDSHAKE"}
       THEN report_addr(4) ELSE UNCHANGED svListed
    /\ Drop(svConn)
    /\ UNCHANGED <<svDest, svFast, svRead, svSent, svBack, svGot, svFreed>>

(* The send of an already buffered rest: all of it or a part (or EAGAIN),  *)
(* or an error that ends the connection.                                   *)
server_send_cb ==
    /\ svConn.send
    /\ \/ /\ Drop(svConn) /\ UNCHANGED svGot
       \/ \E n \in 0..svConn.buf.len :
            /\ svConn.remotep /\ svConn.buf.len > 0
            /\ svGot' = svGot \o SubSeq(Unsent(svConn.buf), 1, n)
            /\ svConn' = IF n < svConn.buf.len
                         THEN [svConn EXCEPT !.buf = Take(@, n)]
                         ELSE [svConn EXCEPT !.buf = Empty, !.send = FALSE,
                                             !.rrecv = TRUE]
            /\ UNCHANGED svQuery
    /\ UNCHANGED <<svDest, svFast, svRead, svSent, svBack, svListed, svFreed>>

(* After a failed send both ends are freed, and the setsockopt calls that  *)
(* follow still read them.                                                 *)
remote_recv_cb ==
    /\ svConn.rrecv
    /\ \/ Drop(svConn) /\ UNCHANGED <<svBack, svGot, svFreed>>
       \/ \E n \in 1..BUF_SIZE :
            LET data == [i \in 1..n |-> svBack + i] IN
            /\ svBack + n <= MaxReply
            /\ svBack' = svBack + n
            /\ \/ /\ Drop(svConn)
                  /\ svFreed' = svFreed \cup {"remote_recv_cb"}
                  /\ UNCHANGED svGot
               \/ \E k \in 0..n :
                    /\ svGot' = svGot \o SubSeq(data, 1, k)
                    /\ svConn' =
                         IF k = n THEN [svConn EXCEPT !.buf = Store(data)]
                         ELSE [svConn EXCEPT !.buf = Take(Store(data), k),
                                             !.rrecv = FALSE, !.send = TRUE]
                    /\ UNCHANGED <<svQuery, svFreed>>
    /\ UNCHANGED <<svDest, svFast, svRead, svSent, svListed>>

(* The first event says whether the connection was made. *)
remote_send_cb ==
    /\ svConn.rsend
    /\ IF ~svConn.connected /\ svConn.rbuf.len = 0
       THEN \/ /\ svConn' = [svConn EXCEPT !.connected = TRUE, !.stage = "STREAM",
                                !.rsend = FALSE, !.recv = TRUE, !.rrecv = TRUE]
               /\ reset_addr /\ UNCHANGED <<svQuery, svSent>>
            \/ Drop(svConn) /\ UNCHANGED <<svSent, svListed>>
       ELSE \/ /\ Drop(svConn) /\ UNCHANGED svSent
               /\ \/ UNCHANGED svListed
                  \/ ~svConn.connected /\ reset_addr
            \/ \E n \in 0..svConn.rbuf.len :
                /\ IF svConn.connected THEN UNCHANGED svListed ELSE reset_addr
                /\ svSent' = svSent \o SubSeq(Unsent(svConn.rbuf), 1, n)
                /\ svConn' =
                     IF n < svConn.rbuf.len
                     THEN [svConn EXCEPT !.rbuf = Take(@, n), !.connected = TRUE]
                     ELSE [svConn EXCEPT !.rbuf = Empty, !.connected = TRUE,
                              !.rsend = FALSE, !.recv = TRUE, !.stage = "STREAM",
                              !.rrecv = @ \/ svConn.stage # "STREAM"]
                /\ UNCHANGED svQuery
    /\ UNCHANGED <<svDest, svFast, svRead, svBack, svGot, svFreed>>

block_list_clear_cb ==
    /\ svListed > 0 /\ svListed' = 0
    /\ UNCHANGED <<svConn, svQuery, svDest, svFast, svRead, svSent, svBack,
                   svGot, svFreed>>

(* SIGINT or SIGTERM ends the loop and main closes what is left. *)
free_connections ==
    /\ svConn.server
    /\ svConn' = close_and_free_remote(close_and_free_server(svConn), svConn.remotep)
    /\ svQuery' = Cancelled(svConn)
    /\ UNCHANGED <<svDest, svFast, svRead, svSent, svBack, svGot, svListed, svFreed>>

ServerEvNext ==
    \/ accept_cb \/ server_recv_cb \/ server_send_cb \/ server_timeout_cb
    \/ remote_recv_cb \/ remote_send_cb \/ free_connections \/ block_list_clear_cb
    \/ dns_query_v4_cb \/ dns_query_v6_cb

-----------------------------------------------------------------------------
(* No watcher, timer, query or pointer outlives the object it belongs to,  *)
(* no end of a connection is left without the other, and while a           *)
(* connection lives its timer runs: free_remote, free_server, the two      *)
(* close functions and resolv_cancel together, from every callback.        *)
EndsOwned ==
    LET c == svConn IN
    /\ (c.recv \/ c.send \/ c.timer \/ c.query \/ c.remotep) => c.server
    /\ (c.rrecv \/ c.rsend \/ c.serverp) => c.remote
    /\ c.remote = c.remotep /\ c.remotep = c.serverp
    /\ c.query = svQuery.live
    /\ c.query => c.stage = "RESOLVE" /\ ~c.recv /\ ~c.remote
    /\ c.server => c.timer

(* What the destination gets is the client's payload and what the client   *)
(* gets is the destination's stream, in order and without a gap, through   *)
(* header splits, fast open, partial sends and the wait for the resolver;  *)
(* and received data that is not yet sent has a send watcher to finish it. *)
StreamKept ==
    /\ \A i \in DOMAIN svSent : svSent[i] = HeaderLen + i
    /\ \A i \in DOMAIN svGot : svGot[i] = i
    /\ svConn.server /\ svConn.stage = "STREAM" =>
         /\ Len(svSent) < svRead - IvLen - HeaderLen => svConn.rsend
         /\ Len(svGot) < svBack => svConn.send

(* A client whose header is well formed is never put in STAGE_ERROR.       *)
SplitHeaderServed == svConn.stage = "ERROR" => svDest = "badtype"

(* No callback uses an object it has freed. *)
NoUseAfterFree == svFreed = {}
=============================================================================
