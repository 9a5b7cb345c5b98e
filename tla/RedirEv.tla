------------------------------ MODULE RedirEv -------------------------------
(***************************************************************************)
(* The two libev forwarders: redir.c (transparent proxy) and               *)
(* tunnel-back.c (fixed destination).  Each takes one client connection,   *)
(* opens one to the server, sends the address header in front of the       *)
(* client's data, and passes everything through the obfuscation plugin,    *)
(* which may hold data back until its own handshake is answered.  Header   *)
(* is item 0, the client's bytes are 1, 2, ...; the plugin's own records   *)
(* are negative.                                                           *)
(***************************************************************************)
EXTENDS Integers, Sequences

CONSTANTS
    MaxUp,         \* bound: bytes the client sends
    MaxDown,       \* bound: bytes the server sends
    RdBufSize,     \* BUF_SIZE
    PartialSends   \* where a send may take less than it is given:
                   \* "first" after the connect, "back" in the sendback

ASSUME RedirAssumption ==
    /\ MaxUp \in Nat /\ MaxDown \in Nat /\ RdBufSize \in Nat \ {0}
    /\ PartialSends \subseteq {"first", "back"}

VARIABLES
    rdKind,      \* "redir" or "tunnel": which program this is
    rdConn,      \* server_t and remote_t of the connection
    rdObfs,      \* the obfs plugin's state
    rdRead,      \* client bytes received
    rdSent,      \* items handed to the server's socket
    rdBack,      \* server bytes received
    rdGot,       \* bytes handed to the client's socket
    rdLeft       \* an accepted socket was left open by an early return

redirVars == <<rdKind, rdConn, rdObfs, rdRead, rdSent, rdBack, rdGot, rdLeft>>

RdEmpty == [data |-> <<>>, idx |-> 0, len |-> 0]
RdStore(data) == [data |-> data, idx |-> 0, len |-> Len(data)]
Pending(b) == SubSeq(b.data, b.idx + 1, b.idx + b.len)
Past(b, n) == [b EXCEPT !.idx = @ + n, !.len = @ - n]

Gone == [live |-> FALSE, buf |-> RdEmpty, recv |-> FALSE, send |-> FALSE,
         rbuf |-> RdEmpty, rrecv |-> FALSE, rsend |-> FALSE,
         connected |-> FALSE, ctimer |-> FALSE, rtimer |-> FALSE]

-----------------------------------------------------------------------------
(* The plugin, as the two programs use it: "plain" passes data through;    *)
(* "ticket" sends a hello, holds data until the answer, and then sends its *)
(* last record and what it held when it is called with nothing.            *)

Encoded(out, o) == [out |-> out, obfs |-> o]

client_encode(o, data) ==
    CASE o.kind = "plain" \/ o.state = 2 -> Encoded(data, o)
      [] o.kind = "ticket" /\ o.state = 0 ->
           Encoded(<<-1>>, [o EXCEPT !.state = 1, !.held = data])
      [] o.kind = "ticket" /\ o.state = 1 /\ data # <<>> ->
           Encoded(<<>>, [o EXCEPT !.held = @ \o data])
      [] OTHER -> Encoded(<<-2>> \o o.held, [o EXCEPT !.state = 2, !.held = <<>>])

(* The answer to the hello yields no data and asks for a sendback. *)
Answering(o) == o.kind = "ticket" /\ o.state = 1

-----------------------------------------------------------------------------
(* The life of a connection.  Both programs close the remote end and then  *)
(* the server end in every path.                                           *)

redir_close_and_free_remote(c) ==
    [c EXCEPT !.ctimer = FALSE, !.rtimer = FALSE, !.rsend = FALSE,
              !.rrecv = FALSE, !.rbuf = RdEmpty, !.connected = FALSE]

redir_close_and_free_server(c) ==
    [c EXCEPT !.send = FALSE, !.recv = FALSE, !.buf = RdEmpty, !.live = FALSE]

tunnel_close_and_free_remote(c) ==
    [c EXCEPT !.ctimer = FALSE, !.rsend = FALSE, !.rrecv = FALSE,
              !.rbuf = RdEmpty, !.connected = FALSE]

tunnel_close_and_free_server(c) ==
    [c EXCEPT !.send = FALSE, !.recv = FALSE, !.buf = RdEmpty, !.live = FALSE]

ShutBoth(c) ==
    IF rdKind = "redir"
    THEN redir_close_and_free_server(redir_close_and_free_remote(c))
    ELSE tunnel_close_and_free_server(tunnel_close_and_free_remote(c))

(* free_server disposes of the plugin state with the connection. *)
End == /\ rdConn' = ShutBoth(rdConn)
       /\ rdObfs' = [rdObfs EXCEPT !.state = 0, !.held = <<>>]

RedirInit ==
    /\ rdKind \in {"redir", "tunnel"}
    /\ rdConn = Gone
    /\ rdObfs \in [kind : {"plain", "ticket"}, state : {0}, held : {<<>>}]
    /\ rdRead = 0 /\ rdSent = <<>> /\ rdBack = 0 /\ rdGot = <<>>
    /\ rdLeft = FALSE

(* An error before the two ends are made returns with the client's socket  *)
(* open; a failing connect closes both.                                    *)
AcceptFails ==
    /\ rdLeft' = TRUE
    /\ UNCHANGED <<rdKind, rdConn, rdObfs, rdRead, rdSent, rdBack, rdGot>>

Accepted(recv) ==
    /\ rdConn' = [Gone EXCEPT !.live = TRUE, !.rsend = TRUE, !.ctimer = TRUE,
                              !.recv = recv]
    /\ rdRead' = 0 /\ rdSent' = <<>> /\ rdBack' = 0 /\ rdGot' = <<>>
    /\ UNCHANGED <<rdKind, rdObfs, rdLeft>>

redir_accept_cb ==
    /\ rdKind = "redir" /\ ~rdConn.live
    /\ AcceptFails \/ Accepted(TRUE)

tunnel_accept_cb ==
    /\ rdKind = "tunnel" /\ ~rdConn.live
    /\ AcceptFails \/ Accepted(FALSE)

-----------------------------------------------------------------------------
(* From the client to the server *)

(* What is in remote->buf is sent at once; a rest waits for the send       *)
(* watcher with the client's side stopped.                                 *)
SendUp(c, data) ==
    \E n \in 0..Len(data) :
        /\ rdSent' = rdSent \o SubSeq(data, 1, n)
        /\ rdConn' = IF n = Len(data) THEN [c EXCEPT !.rbuf = RdEmpty]
                     ELSE [c EXCEPT !.rbuf = Past(RdStore(data), n),
                                    !.recv = FALSE, !.rsend = TRUE]

Upload(c, data) ==
    LET e == client_encode(rdObfs, data) IN
    /\ rdObfs' = e.obfs
    /\ IF e.out = <<>>                                     \* SSR pause recv
       THEN /\ rdConn' = [c EXCEPT !.rbuf = RdEmpty, !.recv = FALSE]
            /\ UNCHANGED rdSent
       ELSE SendUp(c, e.out)

Bytes(n) == [i \in 1..n |-> rdRead + i]

(* Before the connection is made the data stays in remote->buf. *)
redir_server_recv_cb ==
    /\ rdKind = "redir" /\ rdConn.recv
    /\ \/ End /\ UNCHANGED <<rdRead, rdSent>>
       \/ \E n \in 1..(RdBufSize - rdConn.rbuf.len) :
            LET data == SubSeq(rdConn.rbuf.data, 1, rdConn.rbuf.len) \o Bytes(n) IN
            /\ rdRead + n <= MaxUp
            /\ rdRead' = rdRead + n
            /\ IF ~rdConn.connected
               THEN /\ rdConn' = [rdConn EXCEPT !.rbuf = RdStore(data),
                                    !.recv = FALSE, !.rsend = TRUE]
                    /\ UNCHANGED <<rdObfs, rdSent>>
               ELSE Upload(rdConn, data)
    /\ UNCHANGED <<rdKind, rdBack, rdGot, rdLeft>>

tunnel_server_recv_cb ==
    /\ rdKind = "tunnel" /\ rdConn.recv
    /\ \/ End /\ UNCHANGED <<rdRead, rdSent>>
       \/ \E n \in 1..RdBufSize :
            /\ rdRead + n <= MaxUp
            /\ rdRead' = rdRead + n
            /\ Upload(rdConn, Bytes(n))
    /\ UNCHANGED <<rdKind, rdBack, rdGot, rdLeft>>

(* A rest in remote->buf, with the send watcher on. *)
SendRest(c) ==
    \E n \in 0..c.rbuf.len :
        /\ rdSent' = rdSent \o SubSeq(Pending(c.rbuf), 1, n)
        /\ rdConn' = IF n < c.rbuf.len THEN [c EXCEPT !.rbuf = Past(@, n)]
                     ELSE [c EXCEPT !.rbuf = RdEmpty, !.rsend = FALSE, !.recv = TRUE]

FirstSends(len) == IF "first" \in PartialSends THEN 0..len ELSE {len}

HeadFirst(b) == <<0>> \o SubSeq(b.data, 1, b.len)

(* The connection is made: the send watcher stops, the header goes in      *)
(* front of what was read so far, and the encoded whole is sent.  A rest   *)
(* stays in remote->buf and the watcher stays stopped.                     *)
RedirConnected ==
    LET e == client_encode(rdObfs, HeadFirst(rdConn.rbuf))
        c == [rdConn EXCEPT !.connected = TRUE, !.rsend = FALSE,
                !.ctimer = FALSE, !.rtimer = TRUE, !.rrecv = TRUE]
    IN  /\ rdObfs' = e.obfs
        /\ \E n \in FirstSends(Len(e.out)) :
            /\ rdSent' = rdSent \o SubSeq(e.out, 1, n)
            /\ rdConn' = IF n = Len(e.out)
                         THEN [c EXCEPT !.rbuf = RdEmpty, !.recv = TRUE]
                         ELSE [c EXCEPT !.rbuf = Past(RdStore(e.out), n)]

redir_remote_send_cb ==
    /\ rdKind = "redir" /\ rdConn.rsend
    /\ \/ End /\ UNCHANGED rdSent
       \/ ~rdConn.connected /\ RedirConnected
       \/ /\ rdConn.connected /\ rdConn.rbuf.len > 0
          /\ SendRest(rdConn) /\ UNCHANGED rdObfs
    /\ UNCHANGED <<rdKind, rdRead, rdBack, rdGot, rdLeft>>

(* A short first send closes the connection; an error is taken for         *)
(* success, the -1 being compared as an unsigned length.                   *)
TunnelConnected ==
    LET e == client_encode(rdObfs, HeadFirst(rdConn.rbuf)) IN
    /\ rdObfs' = e.obfs
    /\ rdSent' \in {rdSent \o e.out} \cup
                   (IF "first" \in PartialSends THEN {rdSent} ELSE {})
    /\ rdConn' = [rdConn EXCEPT !.connected = TRUE, !.rsend = FALSE,
                    !.ctimer = FALSE, !.rbuf = RdEmpty, !.rrecv = TRUE, !.recv = TRUE]

tunnel_remote_send_cb ==
    /\ rdKind = "tunnel" /\ rdConn.rsend
    /\ \/ End /\ UNCHANGED rdSent
       \/ ~rdConn.connected /\ TunnelConnected
       \/ /\ rdConn.connected /\ rdConn.rbuf.len > 0
          /\ SendRest(rdConn) /\ UNCHANGED rdObfs
    /\ UNCHANGED <<rdKind, rdRead, rdBack, rdGot, rdLeft>>

TimedOut ==
    /\ rdConn.ctimer \/ rdConn.rtimer
    /\ End
    /\ UNCHANGED <<rdKind, rdRead, rdSent, rdBack, rdGot, rdLeft>>

redir_remote_timeout_cb == rdKind = "redir" /\ TimedOut
tunnel_remote_timeout_cb == rdKind = "tunnel" /\ TimedOut

-----------------------------------------------------------------------------
(* From the server to the client *)

(* The plugin's handshake is answered: what it held goes out.  A rest is   *)
(* left in remote->buf, and no watcher is started for it.                  *)
BackSends(len) == IF "back" \in PartialSends THEN 0..len ELSE {len}

SendBackUnwatched(c) ==   \* mutant: the client's side is not started again
    LET e == client_encode(rdObfs, <<>>) IN
    /\ rdObfs' = e.obfs
    /\ rdSent' = rdSent \o e.out
    /\ rdConn' = [c EXCEPT !.rbuf = RdEmpty, !.rsend = FALSE]

SendBack(c) ==
    LET e == client_encode(rdObfs, <<>>) IN
    /\ rdObfs' = e.obfs
    /\ \E n \in BackSends(Len(e.out)) :
        /\ rdSent' = rdSent \o SubSeq(e.out, 1, n)
        /\ rdConn' = IF n < Len(e.out) THEN [c EXCEPT !.rbuf = Past(RdStore(e.out), n)]
                     ELSE [c EXCEPT !.rbuf = RdEmpty, !.rsend = FALSE, !.recv = TRUE]

Download(c, n) ==
    LET data == [i \in 1..n |-> rdBack + i] IN
    /\ rdBack' = rdBack + n
    /\ \E k \in 0..n :
        /\ rdGot' = rdGot \o SubSeq(data, 1, k)
        /\ rdConn' = IF k = n THEN [c EXCEPT !.buf = RdStore(data)]
                     ELSE [c EXCEPT !.buf = Past(RdStore(data), k),
                                    !.rrecv = FALSE, !.send = TRUE]
    /\ UNCHANGED <<rdObfs, rdSent>>

ReceiveDown ==
    /\ rdConn.rrecv
    /\ \/ End /\ UNCHANGED <<rdSent, rdBack, rdGot>>
       \/ Answering(rdObfs) /\ SendBack(rdConn) /\ UNCHANGED <<rdBack, rdGot>>
       \/ /\ ~Answering(rdObfs)
          /\ \E n \in 1..RdBufSize : rdBack + n <= MaxDown /\ Download(rdConn, n)
    /\ UNCHANGED <<rdKind, rdRead, rdLeft>>

redir_remote_recv_cb == rdKind = "redir" /\ ReceiveDown
tunnel_remote_recv_cb == rdKind = "tunnel" /\ ReceiveDown

SendDown ==
    /\ rdConn.send
    /\ \/ End /\ UNCHANGED rdGot
       \/ \E n \in 0..rdConn.buf.len :
            /\ rdConn.buf.len > 0
            /\ rdGot' = rdGot \o SubSeq(Pending(rdConn.buf), 1, n)
            /\ rdConn' = IF n < rdConn.buf.len
                         THEN [rdConn EXCEPT !.buf = Past(@, n)]
                         ELSE [rdConn EXCEPT !.buf = RdEmpty, !.send = FALSE,
                                             !.rrecv = TRUE]
            /\ UNCHANGED rdObfs
    /\ UNCHANGED <<rdKind, rdRead, rdSent, rdBack, rdLeft>>

redir_server_send_cb == rdKind = "redir" /\ SendDown
tunnel_server_send_cb == rdKind = "tunnel" /\ SendDown

RedirNext ==
    \/ redir_accept_cb \/ redir_server_recv_cb \/ redir_remote_send_cb
    \/ redir_remote_recv_cb \/ redir_server_send_cb
    \/ tunnel_accept_cb \/ tunnel_server_recv_cb \/ tunnel_remote_send_cb
    \/ tunnel_remote_recv_cb \/ tunnel_server_send_cb
    \/ redir_remote_timeout_cb \/ tunnel_remote_timeout_cb

-----------------------------------------------------------------------------
(* The records the plugin sends before the data. *)
Records == IF rdObfs.kind = "ticket" THEN 2 ELSE 0

(* The server gets the plugin's records, the header and then the client's  *)
(* bytes, in order and without a gap, whatever the plugin holds back; the  *)
(* client gets the server's bytes; a rest of either direction has a send   *)
(* watcher; and a client side that is stopped will be started again, by    *)
(* the send watcher or by the answer the plugin waits for.                 *)
ForwardKept ==
    LET c == rdConn
        up == IF Len(rdSent) > Records THEN Len(rdSent) - Records ELSE 0
    IN  /\ \A i \in DOMAIN rdSent :
             rdSent[i] = IF i <= Records THEN -i ELSE i - Records - 1
        /\ \A i \in DOMAIN rdGot : rdGot[i] = i
        /\ c.live /\ c.connected =>
             /\ up + Len(rdObfs.held) < rdRead + 1 => c.rsend
             /\ Len(rdGot) < rdBack => c.send
             /\ ~c.recv => c.rsend \/ Answering(rdObfs)
             /\ ~c.rrecv => c.send
        /\ c.live => c.connected \/ (c.ctimer /\ c.rsend)
        /\ c.live /\ rdKind = "redir" => c.ctimer \/ c.rtimer
        /\ ~c.live => ~(c.recv \/ c.send \/ c.rrecv \/ c.rsend \/ c.ctimer \/ c.rtimer)
=============================================================================
