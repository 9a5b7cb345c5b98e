------------------------------ MODULE Protocol ------------------------------
(***************************************************************************)
(* The protocol plugins that have a client and a server end in this        *)
(* repository: auth_sha1_v4 and auth_aes128_md5/sha1 (obfs/auth.c) and     *)
(* auth_chain_a to f (obfs/auth_chain.c), driven as ssr_executive.c drives *)
(* them.  A plugin cuts the stream into packets; its peer puts the stream  *)
(* together again from reads that end anywhere.                            *)
(*                                                                         *)
(* The stream is a sequence of units of data, numbered from 1.  A packet   *)
(* is a run of pieces, the stretches of bytes the decoders tell apart: of  *)
(* the authentication packet ("head") a part and the rest, of a data       *)
(* packet the first byte, the rest of what must be there before its length *)
(* is looked at, and the rest.  The padding, the checksums and, with       *)
(* honest ends, what they compare are left out; the packet number that     *)
(* enters the HMAC key (and in auth_chain the chain of hashes) is the id.  *)
(* A read adds at most one buffer to less than one packet of 8192 bytes,   *)
(* so that the 16384 bytes of the client's recv_buffer are never passed.   *)
(* There is no protocol_param: the key of a packet is the server's key.    *)
(***************************************************************************)
EXTENDS Integers, SequencesExt

CONSTANTS
    Plugins,    \* the plugins in use
    HeadSize,   \* units of the first chunk that go into the head
    UnitLen,    \* units a data packet holds
    MaxSent     \* units each end sends in all

ASSUME ProtocolAssumption ==
    /\ Plugins \subseteq {"auth_sha1_v4", "auth_aes128", "auth_chain"}
    /\ HeadSize \in Nat \ {0} /\ UnitLen \in Nat \ {0, 1}
    /\ MaxSent \in Nat

VARIABLES
    plugin,     \* the plugin both ends are configured with
    skewed,     \* the clocks differ by more than max_time_dif
    l_data,     \* obfs->l_data of the client and of the server
    wire,       \* pieces on their way, by the end that will read them
    given,      \* units given to an end to send
    taken,      \* units an end has decoded
    verdict     \* of an end's decoder: "ok", "error", "oversize" or "junk"

protocolVars == <<plugin, skewed, l_data, wire, given, taken, verdict>>

Mss == 0    \* auth_chain: the server's tcp_mss, ahead of its first data

Pieces == [head |-> 2, data |-> 3]

Packet(kind, id, units) ==
    [p \in 1..Pieces[kind] |->
        [kind |-> kind, id |-> id, part |-> p,
         units |-> IF p = Pieces[kind] THEN units ELSE <<>>]]

Closes(piece) == piece.part = Pieces[piece.kind]

auth_simple_local_data ==
    [has_sent_header |-> FALSE, has_recv_header |-> FALSE,
     recv_buffer |-> <<>>, recv_id |-> 1, pack_id |-> 1]

ProtocolInit ==
    /\ plugin \in Plugins
    /\ skewed \in BOOLEAN
    /\ l_data = [e \in {"client", "server"} |-> auth_simple_local_data]
    /\ wire = [e \in {"client", "server"} |-> <<>>]
    /\ given = [e \in {"client", "server"} |-> 0]
    /\ taken = [e \in {"client", "server"} |-> <<>>]
    /\ verdict = [e \in {"client", "server"} |-> "ok"]
-----------------------------------------------------------------------------
(* Packing: each operator returns the plugin's data and the pieces made.   *)
auth_sha1_v4_pack_data(d, units) ==
    [d |-> d, out |-> Packet("data", 0, units)]

auth_aes128_sha1_pack_data(d, units) ==
    [d |-> [d EXCEPT !.pack_id = @ + 1],
     out |-> Packet("data", d.pack_id, units)]

auth_chain_a_pack_client_data(d, units) ==
    [d |-> [d EXCEPT !.pack_id = @ + 1],
     out |-> Packet("data", d.pack_id, units)]

auth_chain_a_pack_server_data(d, units) ==
    [d |-> [d EXCEPT !.pack_id = @ + 1],
     out |-> Packet("data", d.pack_id, units)]

(* The loop that packs UnitLen units at a time, and what is left. *)
Split(units) ==
    [i \in 1..((Len(units) + UnitLen - 1) \div UnitLen) |->
        SubSeq(units, (i - 1) * UnitLen + 1,
               IF i * UnitLen < Len(units) THEN i * UnitLen ELSE Len(units))]

Pack(d, Op(_, _), chunks) ==
    FoldLeft(LAMBDA s, c : [d |-> Op(s.d, c).d, out |-> s.out \o Op(s.d, c).out],
             [d |-> d, out |-> <<>>], chunks)

auth_sha1_v4_pack_auth_data(d, units) ==
    [d |-> d, out |-> Packet("head", 0, units)]

auth_aes128_sha1_pack_auth_data(d, units) ==
    [d |-> d, out |-> Packet("head", 0, units)]

(* The head of auth_chain is followed by its data in a packet of its own. *)
auth_chain_a_pack_auth_data(d, units) ==
    LET p == auth_chain_a_pack_client_data(d, units)
    IN  [d |-> p.d, out |-> Packet("head", 0, <<>>) \o p.out]

ClientPreEncrypt(d, units, PackAuthData(_, _), PackData(_, _)) ==
    LET first == units # <<>> /\ ~d.has_sent_header
        n == IF ~first THEN 0 ELSE IF HeadSize < Len(units) THEN HeadSize ELSE Len(units)
        head == IF first THEN PackAuthData(d, SubSeq(units, 1, n))
                ELSE [d |-> d, out |-> <<>>]
        body == Pack(head.d, PackData, Split(SubSeq(units, n + 1, Len(units))))
    IN  [d |-> [body.d EXCEPT !.has_sent_header = @ \/ first],
         out |-> head.out \o body.out]

auth_sha1_v4_client_pre_encrypt(d, units) ==
    ClientPreEncrypt(d, units, auth_sha1_v4_pack_auth_data, auth_sha1_v4_pack_data)

auth_aes128_sha1_client_pre_encrypt(d, units) ==
    ClientPreEncrypt(d, units, auth_aes128_sha1_pack_auth_data,
                     auth_aes128_sha1_pack_data)

auth_chain_a_client_pre_encrypt(d, units) ==
    ClientPreEncrypt(d, units, auth_chain_a_pack_auth_data,
                     auth_chain_a_pack_client_data)

client_pre_encrypt(d, units) ==
    CASE plugin = "auth_sha1_v4" -> auth_sha1_v4_client_pre_encrypt(d, units)
      [] plugin = "auth_aes128" -> auth_aes128_sha1_client_pre_encrypt(d, units)
      [] plugin = "auth_chain" -> auth_chain_a_client_pre_encrypt(d, units)

(* Two of the three make a packet also of nothing: it confirms the head. *)
auth_sha1_v4_server_pre_encrypt(d, units) ==
    Pack(d, auth_sha1_v4_pack_data, IF units = <<>> THEN <<units>> ELSE Split(units))

auth_aes128_sha1_server_pre_encrypt(d, units) ==
    Pack(d, auth_aes128_sha1_pack_data, Split(units))

auth_chain_a_server_pre_encrypt(d, units) ==
    LET all == IF d.pack_id = 1 THEN <<Mss>> \o units ELSE units
    IN  Pack(d, auth_chain_a_pack_server_data,
             IF all = <<>> THEN <<all>> ELSE Split(all))

server_pre_encrypt(d, units) ==
    CASE plugin = "auth_sha1_v4" -> auth_sha1_v4_server_pre_encrypt(d, units)
      [] plugin = "auth_aes128" -> auth_aes128_sha1_server_pre_encrypt(d, units)
      [] plugin = "auth_chain" -> auth_chain_a_server_pre_encrypt(d, units)
-----------------------------------------------------------------------------
(***************************************************************************)
(* Unpacking: the loop over the complete packets in recv_buffer.  Those    *)
(* whose number is not recv_id fail their HMAC.  numbered says whether the *)
(* plugin counts packets; empty, whether a packet without data was met.    *)
(***************************************************************************)
Unpack(d, numbered) ==
    LET all == d.recv_buffer
        whole == SelectSeq(all, Closes)
        n == SelectLastInSeq(all, Closes)
    IN  [ok |-> \A i \in DOMAIN whole :
                   /\ whole[i].kind = "data"
                   /\ numbered => whole[i].id = d.recv_id + i - 1,
         d |-> [d EXCEPT !.recv_buffer = SubSeq(all, n + 1, Len(all)),
                         !.recv_id = IF numbered THEN @ + Len(whole) ELSE @],
         empty |-> \E i \in DOMAIN whole : whole[i].units = <<>>,
         out |-> FlattenSeq([i \in DOMAIN whole |-> whole[i].units])]

Read(d, pieces) == [d EXCEPT !.recv_buffer = @ \o pieces]

auth_sha1_v4_client_post_decrypt(d, pieces) == Unpack(Read(d, pieces), FALSE)

auth_aes128_sha1_client_post_decrypt(d, pieces) == Unpack(Read(d, pieces), TRUE)

auth_chain_a_client_post_decrypt_mss(d, pieces) ==   \* mutant: tcp_mss is left in
    Unpack(Read(d, pieces), TRUE)

(* The first packet of the server begins with its tcp_mss. *)
auth_chain_a_client_post_decrypt(d, pieces) ==
    LET u == Unpack(Read(d, pieces), TRUE)
    IN  IF d.recv_id = 1 /\ u.d.recv_id > 1 THEN [u EXCEPT !.out = Tail(@)] ELSE u

client_post_decrypt(d, pieces) ==
    CASE plugin = "auth_sha1_v4" -> auth_sha1_v4_client_post_decrypt(d, pieces)
      [] plugin = "auth_aes128" -> auth_aes128_sha1_client_post_decrypt(d, pieces)
      [] plugin = "auth_chain" -> auth_chain_a_client_post_decrypt(d, pieces)

(* NULL and not_match_return hand on nothing of what was decoded. *)
Answer(verd, d, out, feedback) ==
    [verdict |-> verd, d |-> d, out |-> IF verd = "ok" THEN out ELSE <<>>,
     feedback |-> verd = "ok" /\ feedback]

HeadIsWhole(d) == \E i \in DOMAIN d.recv_buffer : i = Pieces["head"]

(* The head taken off recv_buffer: what it carries, and what follows it. *)
Headed(d) ==
    [d EXCEPT !.has_recv_header = TRUE,
              !.recv_buffer = SubSeq(@, Pieces["head"] + 1, Len(@))]

HeadUnits(d) == d.recv_buffer[Pieces["head"]].units

auth_sha1_v4_server_post_decrypt(d0, pieces) ==
    LET d == Read(d0, pieces)
        u == Unpack(Headed(d), FALSE)
        v == Unpack(d, FALSE)
    IN  IF d.has_recv_header
        THEN Answer(IF v.ok THEN "ok" ELSE "error", v.d, v.out, v.empty)
        ELSE IF ~HeadIsWhole(d) THEN Answer("ok", d, <<>>, FALSE)
        ELSE IF skewed THEN Answer("error", d, <<>>, FALSE)
        ELSE Answer(IF u.ok THEN "ok" ELSE "error", u.d, HeadUnits(d) \o u.out, TRUE)

(* A packet that does not match is answered with a buffer of 'E' bytes. *)
auth_aes128_not_match_return(d) == Answer("junk", d, <<>>, FALSE)

auth_aes128_sha1_server_post_decrypt(d0, pieces) ==
    LET d == Read(d0, pieces)
        u == Unpack(Headed(d), TRUE)
        v == Unpack(d, TRUE)
    IN  IF d.has_recv_header
        THEN IF v.ok THEN Answer("ok", v.d, v.out, v.empty)
             ELSE auth_aes128_not_match_return(d)
        ELSE IF ~HeadIsWhole(d) THEN Answer("ok", d, <<>>, FALSE)
        ELSE IF skewed \/ ~u.ok THEN auth_aes128_not_match_return(d)
        ELSE Answer("ok", u.d, HeadUnits(d) \o u.out, TRUE)

(* Its loop runs while anything is left, so that it takes a length from    *)
(* the first byte of a packet and whatever lies behind it: more than a     *)
(* packet can hold is an error, else it waits.                             *)
Misread(d) ==
    LET b == d.recv_buffer
    IN  b # <<>> /\ b[Len(b)].kind = "data" /\ b[Len(b)].part = 1

(* With a clock that differs nothing is taken off recv_buffer: every read  *)
(* looks at the head again.                                                *)
auth_chain_a_server_post_decrypt(d0, pieces, oversize) ==
    LET d == Read(d0, pieces)
        u == Unpack(Headed(d), TRUE)
        v == Unpack(d, TRUE)
        Verdict(x) == IF ~x.ok THEN "error"
                      ELSE IF Misread(x.d) /\ oversize THEN "oversize" ELSE "ok"
    IN  IF d.has_recv_header THEN Answer(Verdict(v), v.d, v.out, v.empty)
        ELSE IF ~HeadIsWhole(d) \/ skewed THEN Answer("ok", d, <<>>, FALSE)
        ELSE Answer(Verdict(u), u.d, u.out, TRUE)

server_post_decrypt(d, pieces, oversize) ==
    CASE plugin = "auth_sha1_v4" -> auth_sha1_v4_server_post_decrypt(d, pieces)
      [] plugin = "auth_aes128" -> auth_aes128_sha1_server_post_decrypt(d, pieces)
      [] plugin = "auth_chain" -> auth_chain_a_server_post_decrypt(d, pieces, oversize)
-----------------------------------------------------------------------------
(* The next n units an end is given to send. *)
NextUnits(e, n) == [i \in 1..n |-> given[e] + i]

(* tunnel_cipher_client_encrypt *)
ClientGives(n) ==
    LET p == client_pre_encrypt(l_data["client"], NextUnits("client", n))
    IN  /\ verdict["client"] = "ok" /\ given["client"] + n <= MaxSent
        /\ l_data' = [l_data EXCEPT !["client"] = p.d]
        /\ wire' = [wire EXCEPT !["server"] = @ \o p.out]
        /\ given' = [given EXCEPT !["client"] = @ + n]
        /\ UNCHANGED <<plugin, skewed, taken, verdict>>

(* tunnel_cipher_server_decrypt, which answers feedback with a confirm. *)
ServerTakes(n, oversize) ==
    LET a == server_post_decrypt(l_data["server"], SubSeq(wire["server"], 1, n), oversize)
        c == IF a.feedback THEN server_pre_encrypt(a.d, <<>>) ELSE [d |-> a.d, out |-> <<>>]
    IN  /\ verdict["server"] = "ok" /\ n <= Len(wire["server"])
        /\ l_data' = [l_data EXCEPT !["server"] = c.d]
        /\ wire' = [server |-> SubSeq(wire["server"], n + 1, Len(wire["server"])),
                    client |-> wire["client"] \o c.out]
        /\ taken' = [taken EXCEPT !["server"] = @ \o a.out]
        /\ verdict' = [verdict EXCEPT !["server"] = a.verdict]
        /\ UNCHANGED <<plugin, skewed, given>>

(* tunnel_cipher_server_encrypt: the server has connected for its client. *)
ServerGives(n) ==
    LET p == server_pre_encrypt(l_data["server"], NextUnits("server", n))
    IN  /\ verdict["server"] = "ok" /\ l_data["server"].has_recv_header
        /\ given["server"] + n <= MaxSent
        /\ l_data' = [l_data EXCEPT !["server"] = p.d]
        /\ wire' = [wire EXCEPT !["client"] = @ \o p.out]
        /\ given' = [given EXCEPT !["server"] = @ + n]
        /\ UNCHANGED <<plugin, skewed, taken, verdict>>

(* tunnel_cipher_client_decrypt *)
ClientTakes(n) ==
    LET a == client_post_decrypt(l_data["client"], SubSeq(wire["client"], 1, n))
    IN  /\ verdict["client"] = "ok" /\ n <= Len(wire["client"])
        /\ l_data' = [l_data EXCEPT !["client"] = a.d]
        /\ wire' = [wire EXCEPT !["client"] = SubSeq(@, n + 1, Len(@))]
        /\ taken' = [taken EXCEPT !["client"] = @ \o a.out]
        /\ verdict' = [verdict EXCEPT !["client"] = IF a.ok THEN "ok" ELSE "error"]
        /\ UNCHANGED <<plugin, skewed, given>>

(* Nothing left to send, nothing on its way, or an end that gave up. *)
Settled ==
    /\ \A e \in {"client", "server"} : verdict[e] # "ok" \/ wire[e] = <<>>
    /\ UNCHANGED protocolVars

ProtocolNext ==
    \/ \E n \in 1..MaxSent : ClientGives(n) \/ ServerGives(n)
    \/ \E n \in 1..Len(wire["server"]) : \E o \in BOOLEAN : ServerTakes(n, o)
    \/ \E n \in 1..Len(wire["client"]) : ClientTakes(n)
    \/ Settled

ProtocolSpec == ProtocolInit /\ [][ProtocolNext]_protocolVars
-----------------------------------------------------------------------------
(* The ends keep count of packets and of units within what was sent.       *)
ProtocolTypeOK ==
    /\ plugin \in Plugins /\ skewed \in BOOLEAN
    /\ \A e \in {"client", "server"} :
          /\ given[e] \in 0..MaxSent
          /\ verdict[e] \in {"ok", "error", "oversize", "junk"}
          /\ l_data[e].recv_id >= 1 /\ l_data[e].pack_id >= 1
          /\ \A i \in DOMAIN taken[e] : taken[e][i] \in 0..MaxSent
          /\ l_data[e].has_sent_header => e = "client"
          /\ l_data[e].has_recv_header => e = "server"

(***************************************************************************)
(* However an end cuts its stream into packets and TCP the packets into    *)
(* reads, the other end decodes the stream and nothing else (no tcp_mss,   *)
(* no confirming packet): a beginning of it, and all of it once nothing is *)
(* on its way.  Only auth_chain's server may refuse a read, as too large:  *)
(* see AnyCutDecodes.  With clocks too far apart nothing is decoded.       *)
(***************************************************************************)
PacketsIntact ==
    \A e \in {"client", "server"} :
        LET other == IF e = "client" THEN "server" ELSE "client"
        IN  /\ skewed => taken[e] = <<>>
            /\ ~skewed => /\ taken[e] = [i \in 1..Len(taken[e]) |-> i]
                          /\ verdict[e] = "ok" /\ wire[e] = <<>> =>
                                Len(taken[e]) = given[other]
                          /\ verdict[e] # "ok" => /\ verdict[e] = "oversize"
                                                  /\ e = "server" /\ plugin = "auth_chain"

(* A read may end anywhere: no decoder refuses what an honest end sent.    *)
(* The loop of auth_chain_a_server_post_decrypt (while recv_buffer->len)   *)
(* looks at two bytes when one has come, so that this does not hold of it. *)
AnyCutDecodes == ~skewed => \A e \in {"client", "server"} : verdict[e] = "ok"
=============================================================================
