----------------------------- MODULE TlsTicket ------------------------------
(***************************************************************************)
(* The tls1.2_ticket_auth plugin (obfs/tls1.2_ticket.c) at both ends of a  *)
(* connection, driven as ssr_executive.c drives it: what is given to       *)
(* client_encode before the handshake ends is kept and sent behind the     *)
(* Finished message, and what is read is put together from the pieces in   *)
(* which TCP delivers it.                                                  *)
(*                                                                         *)
(* A message on the wire is a run of pieces [kind, id, part].  Its parts   *)
(* are the stretches the decoders tell apart: a client hello that is whole *)
(* or not; a server flight shorter than 76 bytes, longer but cut, whole; a *)
(* Finished shorter than 11 bytes, longer but cut, whole; a data record    *)
(* that is whole or not.  Both ends are honest, so that signatures match.  *)
(***************************************************************************)
EXTENDS Integers, Sequences, FiniteSets

CONSTANTS
    MaxUp,      \* chunks the client sends
    MaxDown,    \* chunks the server sends
    Cuts,       \* <<kind, part>> inside a message after which a read may end
    FastAuth    \* tls1.2_ticket_fastauth

ASSUME TlsTicketAssumption ==
    MaxUp \in Nat /\ MaxDown \in Nat /\ FastAuth \in BOOLEAN

VARIABLES
    client,   \* tls12_ticket_auth_local_data at the client
    server,   \* the same at the server
    up, down, \* pieces on their way to the server, to the client
    sent,     \* chunks given to the encoders: [up, down]
    got,      \* what the decoders yielded: [up, down]
    refused   \* the ends whose decoder returned NULL

ticketVars == <<client, server, up, down, sent, got, refused>>

Parts == [hello |-> 2, flight |-> 3, finished |-> 3, data |-> 2]

Message(kind, id) ==
    [p \in 1..Parts[kind] |-> [kind |-> kind, id |-> id, part |-> p]]

RawBytes == 0   \* what is no chunk of the other end

Ends(piece) == piece.part = Parts[piece.kind]

(* handshake_status is kept as the set of its bits. *)
LocalData == [status |-> {}, recv_buffer |-> <<>>, data_sent_buffer |-> <<>>]

TicketInit ==
    /\ client = LocalData /\ server = LocalData
    /\ up = <<>> /\ down = <<>>
    /\ sent = [up |-> 0, down |-> 0]
    /\ got = [up |-> <<>>, down |-> <<>>]
    /\ refused = {}

(***************************************************************************)
(* The decoding loop of the data phase: whole records come out, a cut one  *)
(* waits.  Anything but a data record is an error.                         *)
(***************************************************************************)
Records(d) ==
    LET all == d.recv_buffer
        whole == SelectSeq(all, Ends)
        rest == IF all # <<>> /\ ~Ends(all[Len(all)]) THEN <<all[Len(all)]>> ELSE <<>>
    IN  [ok |-> \A i \in DOMAIN all : all[i].kind = "data",
         out |-> [i \in DOMAIN whole |-> whole[i].id],
         d |-> [d EXCEPT !.recv_buffer = rest]]

Null(d) == [ok |-> FALSE, out |-> <<>>, d |-> d]

Nothing(d) == [ok |-> TRUE, out |-> <<>>, d |-> d]

(* How many parts of a message of this kind stand at the head of buffer. *)
HeadParts(buffer, kind) ==
    Cardinality({i \in DOMAIN buffer : \A j \in 1..i : buffer[j].kind = kind})

After(d, kind) ==
    [d EXCEPT !.recv_buffer = SubSeq(@, Parts[kind] + 1, Len(@))]

(***************************************************************************)
(* tls12_ticket_auth_client_encode of chunk (a sequence of data messages,  *)
(* empty for the feedback): the local data after it, and what it returns.  *)
(***************************************************************************)
client_encode_overwrite(d, chunk) ==   \* mutant: keeps the last chunk only
    LET kept == chunk
        list == IF 2 \in d.status THEN kept ELSE Message("finished", 0) \o kept
        flush == chunk = <<>> \/ FastAuth
    IN  IF 4 \in d.status THEN [d |-> d, out |-> chunk]
        ELSE IF d.status \cap {1, 2} # {}
        THEN [d |-> [d EXCEPT !.data_sent_buffer = IF flush THEN <<>> ELSE list,
                 !.status = @ \cup {2} \cup IF chunk = <<>> THEN {4} ELSE {}],
              out |-> IF flush THEN list ELSE <<>>]
        ELSE [d |-> [d EXCEPT !.data_sent_buffer = chunk, !.status = @ \cup {1}],
              out |-> Message("hello", 0)]

client_encode_uncleared(d, chunk) ==   \* mutant: the list is not cleared
    LET kept == d.data_sent_buffer \o chunk
        list == IF 2 \in d.status THEN kept ELSE Message("finished", 0) \o kept
        flush == chunk = <<>> \/ FastAuth
    IN  IF 4 \in d.status THEN [d |-> d, out |-> chunk]
        ELSE IF d.status \cap {1, 2} # {}
        THEN [d |-> [d EXCEPT !.data_sent_buffer = list,
                 !.status = @ \cup {2} \cup IF chunk = <<>> THEN {4} ELSE {}],
              out |-> IF flush THEN list ELSE <<>>]
        ELSE [d |-> [d EXCEPT !.data_sent_buffer = kept, !.status = @ \cup {1}],
              out |-> Message("hello", 0)]

client_encode(d, chunk) ==
    LET kept == d.data_sent_buffer \o chunk
        list == IF 2 \in d.status THEN kept ELSE Message("finished", 0) \o kept
        flush == chunk = <<>> \/ FastAuth
    IN  IF 4 \in d.status THEN [d |-> d, out |-> chunk]
        ELSE IF d.status \cap {1, 2} # {}
        THEN [d |-> [d EXCEPT !.data_sent_buffer = IF flush THEN <<>> ELSE list,
                 !.status = @ \cup {2} \cup IF chunk = <<>> THEN {4} ELSE {}],
              out |-> IF flush THEN list ELSE <<>>]
        ELSE [d |-> [d EXCEPT !.data_sent_buffer = kept, !.status = @ \cup {1}],
              out |-> Message("hello", 0)]

(***************************************************************************)
(* tls12_ticket_auth_client_decode.  A flight that is cut after 76 bytes   *)
(* returns the bytes just read, as if they were data, or NULL when the cut *)
(* falls between two of its records (boundary).                            *)
(***************************************************************************)
client_decode_silent(d0, buf, boundary) ==   \* mutant: no feedback
    LET d == [d0 EXCEPT !.recv_buffer = @ \o buf]
        n == HeadParts(d.recv_buffer, "flight")
        done == [After(d, "flight") EXCEPT !.status = @ \cup {8}]
    IN  CASE 8 \in d.status -> [r |-> Records(d), needsendback |-> FALSE]
          [] 8 \notin d.status /\ n < 2 -> [r |-> Nothing(d), needsendback |-> FALSE]
          [] 8 \notin d.status /\ n = 2 ->
                [r |-> IF boundary THEN Null(d)
                       ELSE [ok |-> TRUE, out |-> <<RawBytes>>, d |-> d],
                 needsendback |-> FALSE]
          [] OTHER -> [r |-> Records(done), needsendback |-> FALSE]

client_decode(d0, buf, boundary) ==
    LET d == [d0 EXCEPT !.recv_buffer = @ \o buf]
        n == HeadParts(d.recv_buffer, "flight")
        done == [After(d, "flight") EXCEPT !.status = @ \cup {8}]
    IN  CASE 8 \in d.status -> [r |-> Records(d), needsendback |-> FALSE]
          [] 8 \notin d.status /\ n < 2 -> [r |-> Nothing(d), needsendback |-> FALSE]
          [] 8 \notin d.status /\ n = 2 ->
                [r |-> IF boundary THEN Null(d)
                       ELSE [ok |-> TRUE, out |-> <<RawBytes>>, d |-> d],
                 needsendback |-> FALSE]
          [] OTHER -> [r |-> Records(done), needsendback |-> TRUE]

server_encode(d, chunk) ==
    IF 8 \in d.status THEN [d |-> d, out |-> chunk]
    ELSE [d |-> [d EXCEPT !.status = @ \cup {8}],
          out |-> Message("flight", 0) \o chunk]

(* The branch (handshake_status & 1) == 1 of server_decode. *)
server_decode_finished(d) ==
    LET n == HeadParts(d.recv_buffer, "finished")
    IN  CASE n < 2 -> Null(d)
          [] n = 2 -> Nothing(d)
          [] OTHER -> Records([After(d, "finished") EXCEPT !.status = @ \cup {4}])

(***************************************************************************)
(* tls12_ticket_auth_server_decode.  What follows the hello in the same    *)
(* read is decoded at once when it is at least 11 bytes long.              *)
(***************************************************************************)
server_decode(d0, buf) ==
    LET d == [d0 EXCEPT !.recv_buffer = @ \o buf]
        n == HeadParts(d.recv_buffer, "hello")
        greeted == [After(d, "hello") EXCEPT !.status = {1}]
    IN  CASE 4 \in d.status -> [r |-> Records(d), need_feedback |-> FALSE]
          [] 4 \notin d.status /\ 1 \in d.status ->
                [r |-> server_decode_finished(d), need_feedback |-> FALSE]
          [] d.status = {} /\ n < 2 -> [r |-> Nothing(d), need_feedback |-> FALSE]
          [] OTHER ->
                [r |-> IF Len(greeted.recv_buffer) < 2 THEN Nothing(greeted)
                       ELSE server_decode_finished(greeted),
                 need_feedback |-> TRUE]

(***************************************************************************)
(* The users: the application's chunks, and reads of what TCP delivers.  A *)
(* read takes any run of pieces that ends a message or at an allowed cut.  *)
(***************************************************************************)
Open == refused = {}

ReadsOf(wire) ==
    {n \in 1..Len(wire) : \/ Ends(wire[n])
                          \/ <<wire[n].kind, wire[n].part>> \in Cuts}

ClientSend ==
    LET e == client_encode(client, Message("data", sent.up + 1))
    IN  /\ Open /\ sent.up < MaxUp
        /\ sent' = [sent EXCEPT !.up = @ + 1]
        /\ client' = e.d /\ up' = up \o e.out
        /\ UNCHANGED <<server, down, got, refused>>

(* The server answers once it has seen the request. *)
ServerSend ==
    LET e == server_encode(server, Message("data", sent.down + 1))
    IN  /\ Open /\ sent.down < MaxDown /\ got.up # <<>>
        /\ sent' = [sent EXCEPT !.down = @ + 1]
        /\ server' = e.d /\ down' = down \o e.out
        /\ UNCHANGED <<client, up, got, refused>>

(* tunnel_cipher_server_decrypt: with need_feedback the receipt is sent    *)
(* and what was decoded is reset.                                          *)
ServerRead(n) ==
    LET x == server_decode(server, SubSeq(up, 1, n))
        e == server_encode(x.r.d, <<>>)
        receipt == x.r.ok /\ x.need_feedback
    IN  /\ Open /\ n \in ReadsOf(up)
        /\ up' = SubSeq(up, n + 1, Len(up))
        /\ server' = IF receipt THEN e.d ELSE x.r.d
        /\ down' = IF receipt THEN down \o e.out ELSE down
        /\ got' = IF x.r.ok /\ ~x.need_feedback THEN [got EXCEPT !.up = @ \o x.r.out]
                  ELSE got
        /\ refused' = IF x.r.ok THEN refused ELSE refused \cup {"server"}
        /\ UNCHANGED <<client, sent>>

(* tunnel_cipher_client_decrypt: the feedback is what encoding nothing     *)
(* yields.                                                                 *)
ClientRead(n, boundary) ==
    LET x == client_decode(client, SubSeq(down, 1, n), boundary)
        e == client_encode(x.r.d, <<>>)
        feedback == x.r.ok /\ x.needsendback
    IN  /\ Open /\ n \in ReadsOf(down)
        /\ down' = SubSeq(down, n + 1, Len(down))
        /\ client' = IF feedback THEN e.d ELSE x.r.d
        /\ up' = IF feedback THEN up \o e.out ELSE up
        /\ got' = IF x.r.ok THEN [got EXCEPT !.down = @ \o x.r.out] ELSE got
        /\ refused' = IF x.r.ok THEN refused ELSE refused \cup {"client"}
        /\ UNCHANGED <<server, sent>>

Done ==
    /\ ~Open \/ (up = <<>> /\ down = <<>> /\ sent.up = MaxUp)
    /\ UNCHANGED ticketVars

TicketNext ==
    \/ ClientSend
    \/ ServerSend
    \/ \E n \in 1..Len(up) : ServerRead(n)
    \/ \E n \in 1..Len(down), boundary \in BOOLEAN : ClientRead(n, boundary)
    \/ Done

TicketSpec == TicketInit /\ [][TicketNext]_ticketVars

(* TCP delivers what was sent, and the loop reads it. *)
TicketFairness ==
    /\ WF_ticketVars(\E n \in 1..Len(up) : ServerRead(n))
    /\ WF_ticketVars(\E n \in 1..Len(down), boundary \in BOOLEAN :
                         ClientRead(n, boundary))
-----------------------------------------------------------------------------
Numbered(s) == \A i \in DOMAIN s : s[i] = i

(* The bits of handshake_status each end uses; with bit 4 set nothing is   *)
(* left in data_sent_buffer.                                               *)
TicketTypeOK ==
    /\ client.status \subseteq {1, 2, 4, 8} /\ server.status \subseteq {1, 4, 8}
    /\ sent \in [up : 0..MaxUp, down : 0..MaxDown]
    /\ \A i \in DOMAIN got.down : got.down[i] \in RawBytes..MaxDown
    /\ refused \subseteq {"client", "server"}
    /\ 4 \in client.status => client.data_sent_buffer = <<>>

(* server_decode yields the client's chunks, in order, each once, whether  *)
(* they were kept for the handshake or sent after it, and however the      *)
(* records are cut; client_decode yields the server's and none of the      *)
(* handshake's own bytes as data; and neither refuses a read.              *)
StreamsIntact == Numbered(got.up) /\ Numbered(got.down) /\ refused = {}

(* What client_encode keeps back in data_sent_buffer during the handshake  *)
(* reaches the server in the end.                                          *)
AllDelivered == \A n \in 1..MaxUp : sent.up = n ~> Len(got.up) >= n

(* "ASSERT(buf->len == 0)": while the handshake lasts the client's decoder *)
(* yields no data.                                                         *)
HandshakeYieldsNoData == 8 \notin client.status => got.down = <<>>
=============================================================================
