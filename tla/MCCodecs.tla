------------------------------ MODULE MCCodecs ------------------------------
(***************************************************************************)
(* The code that puts messages together from reads, for TLC: the SOCKS5    *)
(* parser (Socks5), the handshake of the TLS ticket plugin (TlsTicket),    *)
(* the packets of the protocol plugins (Protocol) and the heads of the     *)
(* HTTP plugins (HttpSimple).  They do not share state; codec says which   *)
(* one a behaviour is about, and the state of the others is fixed.         *)
(***************************************************************************)
EXTENDS Socks5, TlsTicket, Protocol, HttpSimple

VARIABLE codec

(* Every kind of greeting and request, legal and not. *)
MCGreetings ==
    {<<5, 1, 0>>, <<5, 2, 2, 0>>, <<5, 3, 1, 9, 2>>, <<4, 1, 0>>}

Addr4 == <<10, 0, 0, 7>>

Addr6 == [i \in 1..16 |-> 15 + i]

Destinations ==
    {<<1>> \o Addr4, <<4>> \o Addr6, <<3, 1, 97>>, <<3, 3, 97, 46, 98>>}

MCRequests ==
    {<<5, cmd, 0>> \o d \o p : cmd \in {1, 2, 3}, d \in Destinations,
                               p \in {<<1, 187>>, <<0, 80>>, <<255, 255>>}}
    \cup {<<5, 9, 0, 1>> \o Addr4 \o <<0, 80>>, <<5, 1, 0, 2>> \o Addr4 \o <<0, 80>>,
          <<4, 1, 0, 1>> \o Addr4 \o <<0, 80>>}

MCPayload == <<3, 1, 97>>

(* All cuts but the two inside the handshake that the decoders do not      *)
(* provide for.                                                            *)
GoodCuts ==
    {c \in (DOMAIN Parts) \X (1..2) : c[2] < Parts[c[1]]}
        \ {<<"finished", 1>>, <<"flight", 2>>}

Init ==
    /\ S5Init /\ TicketInit /\ ProtocolInit /\ HttpInit
    /\ codec \in {"socks5", "ticket", "protocol", "http"}
    /\ codec = "socks5" \/ msg = <<5, 1, 0>>
    /\ codec = "protocol" \/ (plugin = "auth_chain" /\ ~skewed)

Next ==
    /\ UNCHANGED codec
    /\ \/ codec = "socks5" /\ S5Next /\ UNCHANGED <<ticketVars, protocolVars, httpVars>>
       \/ codec = "ticket" /\ TicketNext /\ UNCHANGED <<s5Vars, protocolVars, httpVars>>
       \/ codec = "protocol" /\ ProtocolNext /\ UNCHANGED <<s5Vars, ticketVars, httpVars>>
       \/ codec = "http" /\ HttpNext /\ UNCHANGED <<s5Vars, ticketVars, protocolVars>>

Spec == Init /\ [][Next]_<<codec, s5Vars, ticketVars, protocolVars, httpVars>>

FairSpec == Spec /\ (codec = "ticket" => TicketFairness)

(* What one end of a plugin is given the other end yields, in order and    *)
(* once, however the bytes between them are cut: the streams of the TLS    *)
(* ticket plugin (tls1.2_ticket.c) and of the HTTP plugins                 *)
(* (http_simple.c), and the packets of the protocol plugins (auth.c,       *)
(* auth_chain.c).  The plugins' own state keeps its types.                 *)
PluginsIntact ==
    /\ S5TypeOK /\ TicketTypeOK /\ ProtocolTypeOK
    /\ StreamsIntact /\ PacketsIntact /\ HttpIntact
=============================================================================
