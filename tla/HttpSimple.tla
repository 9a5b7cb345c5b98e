----------------------------- MODULE HttpSimple -----------------------------
(***************************************************************************)
(* The http_simple, http_post and http_mix plugins (obfs/http_simple.c) at *)
(* both ends of a connection.  The first bytes of the client's stream are  *)
(* written in hexadecimal into the path of a request, and the rest follows *)
(* the blank line; the server's stream follows the head of a reply.        *)
(*                                                                         *)
(* The bytes of a stream are numbered.  A head on the wire is four pieces, *)
(* the stretches the decoders tell apart: its first ten bytes, the text up *)
(* to the blank line, and the two halves of that line, since strstr finds  *)
(* it only when one buffer holds both.  The method, the host and the other *)
(* fields of a head are not read back and are left out.                    *)
(***************************************************************************)
EXTENDS Integers, Sequences

LOCAL INSTANCE SequencesExt

CONSTANTS
    HeadLens,     \* the values of head_len + (xorshift128plus() & 0x3F)
    MinRequest,   \* the fewest bytes server_decode takes for a request (13)
    Chunks,       \* the lengths of the chunks given to the encoders
    MaxBytes      \* bytes sent in each direction

ASSUME HttpAssumption ==
    /\ HeadLens \subseteq Nat /\ Chunks \subseteq Nat \ {0}
    /\ MinRequest \in Nat /\ MaxBytes \in Nat

VARIABLES
    htClient, htServer,   \* http_simple_local_data at each end
    toServer, toClient,   \* pieces on their way
    htGiven,                \* bytes given to the encoders: [up, down]
    htYielded,              \* what the decoders returned: [up, down]
    shortRead             \* the ends that read too little of a head at once

httpVars == <<htClient, htServer, toServer, toClient, htGiven, htYielded,
              shortRead>>

NoByte == 0   \* a byte that is none of the other end's stream

HttpLocal == [has_sent_header |-> FALSE, has_recv_header |-> FALSE]

HttpInit ==
    /\ htClient = HttpLocal /\ htServer = HttpLocal
    /\ toServer = <<>> /\ toClient = <<>>
    /\ htGiven = [up |-> 0, down |-> 0]
    /\ htYielded = [up |-> <<>>, down |-> <<>>]
    /\ shortRead = {}

Body(from, n) == [i \in 1..n |-> [part |-> 0, bytes |-> <<from + i>>]]

(* A head whose path holds the first n bytes of the stream (http_simple_   *)
(* encode_head, fake_request_data).                                        *)
HttpHead(n) ==
    [p \in 1..4 |-> [part |-> p,
                     bytes |-> IF p = 2 THEN [i \in 1..n |-> i] ELSE <<>>]]

(* The bytes of the stream that pieces hold, in order. *)
StreamOf(pieces) == FlattenSeq([i \in DOMAIN pieces |-> pieces[i].bytes])

(* Pieces passed on as they are: those of a head are no bytes of a stream. *)
AsData(pieces) ==
    [i \in DOMAIN pieces |-> IF pieces[i].part = 0 THEN pieces[i].bytes[1] ELSE NoByte]

(***************************************************************************)
(* The four functions of the plugin: the local data after the call and     *)
(* what it returns.  A chunk is the n bytes of a stream that follow from.  *)
(***************************************************************************)
client_encode_head_kept(d, from, n, head) ==   \* mutant: the body has all n
    IF d.has_sent_header THEN [d |-> d, out |-> Body(from, n)]
    ELSE [d |-> [d EXCEPT !.has_sent_header = TRUE],
          out |-> HttpHead(IF head > n THEN n ELSE head) \o Body(from, n)]

http_simple_client_encode(d, from, n, head) ==
    LET head_size == IF head > n THEN n ELSE head
    IN  IF d.has_sent_header THEN [d |-> d, out |-> Body(from, n)]
        ELSE [d |-> [d EXCEPT !.has_sent_header = TRUE],
              out |-> HttpHead(head_size) \o Body(from + head_size, n - head_size)]

http_simple_client_decode(d, buf) ==
    LET blank == {i \in DOMAIN buf : buf[i].part = 3 /\ i < Len(buf)}
        data_begin == (CHOOSE i \in blank : TRUE) + 2
    IN  IF d.has_recv_header THEN [d |-> d, out |-> AsData(buf)]
        ELSE IF blank = {} THEN [d |-> d, out |-> <<>>]
        ELSE [d |-> [d EXCEPT !.has_recv_header = TRUE],
              out |-> AsData(SubSeq(buf, data_begin, Len(buf)))]

http_simple_server_encode(d, from, n) ==
    IF d.has_sent_header THEN [d |-> d, out |-> Body(from, n)]
    ELSE [d |-> [d EXCEPT !.has_sent_header = TRUE], out |-> HttpHead(0) \o Body(from, n)]

(***************************************************************************)
(* has_recv_header is set before the head is looked at: what the first     *)
(* read lacks of it is later passed on as data.  recv_buffer therefore     *)
(* never holds more than that read, which begins with a method and is at   *)
(* most 65536 bytes long, so that match_http_header succeeds and the test  *)
(* for an oversized request fails.  A request of fewer than MinRequest     *)
(* bytes is taken for no request and returned as it came.                  *)
(***************************************************************************)
http_simple_server_decode(d, buf) ==
    LET whole == \E i \in DOMAIN buf : buf[i].part = 4
        ret == buf[2].bytes \o AsData(SubSeq(buf, 5, Len(buf)))
    IN  IF d.has_recv_header THEN [d |-> d, out |-> AsData(buf)]
        ELSE [d |-> [d EXCEPT !.has_recv_header = TRUE],
              out |-> IF ~whole THEN <<>>
                      ELSE IF Len(ret) < MinRequest THEN AsData(buf) ELSE ret]
-----------------------------------------------------------------------------
HttpClientSend(n, head) ==
    LET e == http_simple_client_encode(htClient, htGiven.up, n, head)
    IN  /\ htGiven.up + n <= MaxBytes
        /\ htGiven' = [htGiven EXCEPT !.up = @ + n]
        /\ htClient' = e.d /\ toServer' = toServer \o e.out
        /\ UNCHANGED <<htServer, toClient, htYielded, shortRead>>

(* The server answers once it has read something. *)
HttpServerSend(n) ==
    LET e == http_simple_server_encode(htServer, htGiven.down, n)
    IN  /\ htGiven.down + n <= MaxBytes /\ htServer.has_recv_header
        /\ htGiven' = [htGiven EXCEPT !.down = @ + n]
        /\ htServer' = e.d /\ toClient' = toClient \o e.out
        /\ UNCHANGED <<htClient, toServer, htYielded, shortRead>>

(* A read takes any run of pieces, one or more. *)
HttpServerRead(n) ==
    LET x == http_simple_server_decode(htServer, SubSeq(toServer, 1, n))
        short == \/ toServer[n].part \in 1..3
                 \/ Len(StreamOf(SubSeq(toServer, 1, n))) < MinRequest
    IN  /\ toServer' = SubSeq(toServer, n + 1, Len(toServer))
        /\ htServer' = x.d
        /\ htYielded' = [htYielded EXCEPT !.up = @ \o x.out]
        /\ shortRead' = IF ~htServer.has_recv_header /\ short
                        THEN shortRead \cup {"server"} ELSE shortRead
        /\ UNCHANGED <<htClient, toClient, htGiven>>

HttpClientRead(n) ==
    LET x == http_simple_client_decode(htClient, SubSeq(toClient, 1, n))
    IN  /\ toClient' = SubSeq(toClient, n + 1, Len(toClient))
        /\ htClient' = x.d
        /\ htYielded' = [htYielded EXCEPT !.down = @ \o x.out]
        /\ shortRead' = IF toClient[n].part = 3 THEN shortRead \cup {"client"}
                       ELSE shortRead
        /\ UNCHANGED <<htServer, toServer, htGiven>>

HttpDone ==
    /\ toServer = <<>> /\ toClient = <<>>
    /\ \A n \in Chunks : htGiven.up + n > MaxBytes
    /\ UNCHANGED httpVars

HttpNext ==
    \/ \E n \in Chunks, head \in HeadLens : HttpClientSend(n, head)
    \/ \E n \in Chunks : HttpServerSend(n)
    \/ \E n \in 1..Len(toServer) : HttpServerRead(n)
    \/ \E n \in 1..Len(toClient) : HttpClientRead(n)
    \/ HttpDone

HttpSpec == HttpInit /\ [][HttpNext]_httpVars
-----------------------------------------------------------------------------
(* What the decoders of http_simple.c returned, followed by what is on its *)
(* way, is exactly the stream given to the encoder at the other end: no    *)
(* byte is lost, repeated or invented, and none of a head's own bytes is   *)
(* taken for data.  For the client this is so however the reply is cut,    *)
(* but inside its blank line; for the server when its first read holds the *)
(* whole head and 13 bytes of the stream.                                  *)
HttpIntact ==
    /\ "server" \notin shortRead =>
           htYielded.up \o StreamOf(toServer) = [i \in 1..htGiven.up |-> i]
    /\ "client" \notin shortRead =>
           htYielded.down \o StreamOf(toClient) = [i \in 1..htGiven.down |-> i]
=============================================================================
