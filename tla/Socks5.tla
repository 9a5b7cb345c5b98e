------------------------------- MODULE Socks5 -------------------------------
(***************************************************************************)
(* The SOCKS5 side of ssr-client and the address header it makes of a      *)
(* request: the incremental parser s5_parse (client/s5.c) under every way  *)
(* a message can be cut into reads, initial_package_create (client.c), and *)
(* what ssr-server reads back from that package (socks5_address_parse and  *)
(* socks5_address_size of sockaddr_universal.c, get_s5_head_size).         *)
(*                                                                         *)
(* Bytes are numbers in 0..255 and messages are sequences of them.         *)
(***************************************************************************)
EXTENDS Naturals, SequencesExt

CONSTANTS
    Greetings,   \* method selection messages a SOCKS client may send
    Requests,    \* requests
    Payload      \* what the client sends behind the first package

ASSUME MessagesAssumption ==
    /\ Greetings \cup Requests \cup {Payload} \subseteq Seq(0..255)
    /\ \A m \in Greetings \cup Requests : Len(m) >= 3

VARIABLES
    cx,      \* the s5_ctx
    phase,   \* "greeting", "request", "parsed" or "refused"
    msg,     \* the message being sent
    rest,    \* the part of msg not read yet
    whole    \* both port bytes of a request came in one read

s5Vars == <<cx, phase, msg, rest, whole>>

ParserStates ==
    {"version", "nmethods", "methods", "req_version", "req_cmd", "req_reserved",
     "req_atyp", "req_atyp_host", "req_daddr", "req_dport0", "req_dport1", "dead"}

(* s5_init *)
NewParser ==
    [state |-> "version", arg0 |-> 0, arg1 |-> 0, methods |-> {},
     cmd |-> 0, atyp |-> 0, dport |-> 0, daddr |-> <<>>]

Method(c) == CASE c = 0 -> {"none"} [] c = 1 -> {"gssapi"} [] c = 2 -> {"passwd"} [] OTHER -> {}

(***************************************************************************)
(* One turn of the loop of s5_parse.  a holds the parser, the local port   *)
(* bytes, the result so far and the number of bytes consumed.  The states  *)
(* of the username/password exchange are left out: client.c never selects  *)
(* it (can_auth_passwd is false).                                          *)
(***************************************************************************)
Fill_short(x, c) ==   \* mutant: the address ends one byte early
    IF x.arg0 + 1 < x.arg1 THEN [x EXCEPT !.daddr = Append(@, c), !.arg0 = @ + 1]
    ELSE [x EXCEPT !.arg0 = x.arg1]

Fill(x, c) ==
    IF x.arg0 < x.arg1 THEN [x EXCEPT !.daddr = Append(@, c), !.arg0 = @ + 1] ELSE x

Full(x) == x.arg0 = x.arg1

Count(x, c, state) == [x EXCEPT !.arg0 = 0, !.arg1 = c, !.state = state]

parse_byte(a, c) ==
    LET x == a.cx
        to(y)      == [a EXCEPT !.cx = y, !.used = @ + 1]
        go(s)      == to([x EXCEPT !.state = s])
        end(y, e)  == [to(y) EXCEPT !.err = e]
    IN CASE x.state = "version" ->
              IF c # 5 THEN end(x, "bad_version") ELSE go("nmethods")
         [] x.state = "nmethods" -> to(Count(x, c, "methods"))
         [] x.state = "methods" ->
              LET y == IF x.arg0 < x.arg1
                       THEN [x EXCEPT !.methods = @ \cup Method(c), !.arg0 = @ + 1]
                       ELSE x
              IN  IF Full(y) THEN end(y, "auth_select") ELSE to(y)
         [] x.state = "req_version" ->
              IF c # 5 THEN end(x, "bad_version") ELSE go("req_cmd")
         [] x.state = "req_cmd" ->
              IF c \notin 1..3 THEN end(x, "bad_cmd")
              ELSE to([x EXCEPT !.cmd = c, !.state = "req_reserved"])
         [] x.state = "req_reserved" -> go("req_atyp")
         [] x.state = "req_atyp" ->
              CASE c = 1 -> to([Count(x, 4, "req_daddr") EXCEPT !.atyp = c])
                [] c = 3 -> to([Count(x, 0, "req_atyp_host") EXCEPT !.atyp = c])
                [] c = 4 -> to([Count(x, 16, "req_daddr") EXCEPT !.atyp = c])
                [] OTHER -> end([x EXCEPT !.arg0 = 0], "bad_atyp")
         [] x.state = "req_atyp_host" -> to([x EXCEPT !.arg1 = c, !.state = "req_daddr"])
         [] x.state = "req_daddr" ->
              LET y == Fill(x, c)
              IN  to(IF Full(y) THEN [y EXCEPT !.state = "req_dport0"] ELSE y)
         [] x.state = "req_dport0" -> [go("req_dport1") EXCEPT !.port0 = c]
         [] x.state = "req_dport1" ->
              end([x EXCEPT !.dport = 256 * a.port0 + c, !.state = "dead"], "exec_cmd")
         [] x.state = "dead" -> to(x)

(* The loop: port[2] is a local of the call and starts as zero. *)
s5_parse(x, data) ==
    FoldLeft(LAMBDA a, c : IF a.err = "ok" THEN parse_byte(a, c) ELSE a,
             [cx |-> x, port0 |-> 0, err |-> "ok", used |-> 0], data)

s5_select_auth_none(x) == [x EXCEPT !.state = "req_version"]

-----------------------------------------------------------------------------
(* strlen: what comes before the first NUL byte. *)
CString(s) == SelectInSeq(Append(s, 0), LAMBDA b : b = 0) - 1

PortBytes(p) == <<p \div 256, p % 256>>

initial_package_create(x) ==
    LET len == CString(x.daddr)
    IN  <<x.atyp>>
        \o (CASE x.atyp = 1 -> SubSeq(x.daddr, 1, 4)
              [] x.atyp = 4 -> SubSeq(x.daddr, 1, 16)
              [] x.atyp = 3 -> <<len>> \o SubSeq(x.daddr, 1, len))
        \o PortBytes(x.dport)

get_s5_head_size(m, default) ==
    IF Len(m) < 2 THEN default
    ELSE CASE m[1] % 8 = 1 -> 7
           [] m[1] % 8 = 4 -> 19
           [] m[1] % 8 = 3 -> 4 + m[2]
           [] OTHER -> default

Invalid == [atyp |-> 0, addr |-> <<>>, port |-> 0]

socks5_address_parse(m) ==
    LET host == m[1] = 3
        at   == IF host THEN 2 ELSE 1
        n    == IF host THEN m[2] ELSE IF m[1] = 1 THEN 4 ELSE 16
    IN  IF m = <<>> \/ m[1] \notin {1, 3, 4} \/ Len(m) < at + n + 2 THEN Invalid
        ELSE [atyp |-> m[1], addr |-> SubSeq(m, at + 1, at + n),
              port |-> 256 * m[at + n + 1] + m[at + n + 2]]

socks5_address_size(a) ==
    CASE a.atyp = 1 -> 7
      [] a.atyp = 4 -> 19
      [] a.atyp = 3 -> 4 + CString(a.addr)
      [] OTHER -> 0

-----------------------------------------------------------------------------
S5Init ==
    /\ cx = NewParser
    /\ phase = "greeting"
    /\ msg \in Greetings
    /\ rest = msg
    /\ whole = TRUE

(* The next n bytes of the message come in one read. *)
Arrived(n) == SubSeq(rest, 1, n)

Left(n) == SubSeq(rest, n + 1, Len(rest))

(* do_handshake; the client sends its request when it has the reply. *)
Handshake(n) ==
    LET r == s5_parse(cx, Arrived(n))
        granted == r.err = "auth_select" /\ r.used = n /\ "none" \in r.cx.methods
    IN  /\ phase = "greeting" /\ n \in 1..Len(rest)
        /\ IF granted
           THEN /\ cx' = s5_select_auth_none(r.cx)
                /\ phase' = "request"
                /\ msg' \in Requests
                /\ rest' = msg'
           ELSE /\ cx' = r.cx
                /\ phase' = IF r.err = "ok" THEN phase ELSE "refused"
                /\ rest' = Left(n)
                /\ UNCHANGED msg
        /\ UNCHANGED whole

(* do_parse_s5_request; a BIND is refused, a UDP association is answered. *)
Request(n) ==
    LET r == s5_parse(cx, Arrived(n))
        served == r.err = "exec_cmd" /\ r.used = n /\ r.cx.cmd # 2
    IN  /\ phase = "request" /\ n \in 1..Len(rest)
        /\ cx' = r.cx
        /\ rest' = Left(n)
        /\ whole' = (n > 1)
        /\ phase' = IF r.err = "ok" THEN phase
                    ELSE IF served THEN "parsed" ELSE "refused"
        /\ UNCHANGED msg

(* The tunnel goes on to the server, or is shut down. *)
Decided == phase \in {"parsed", "refused"} /\ UNCHANGED s5Vars

MaxMessage == Max({Len(m) : m \in Greetings \cup Requests})

S5Next ==
    \/ \E n \in 1..MaxMessage : Handshake(n)
    \/ \E n \in 1..MaxMessage : Request(n)
    \/ Decided

S5Spec == S5Init /\ [][S5Next]_s5Vars

-----------------------------------------------------------------------------
(* The reference: what a whole message says, by position. *)
Offers(m, method) == \E i \in 3..Len(m) : m[i] = method

AskedHost(m) == IF m[4] = 3 THEN SubSeq(m, 6, Len(m) - 2) ELSE SubSeq(m, 5, Len(m) - 2)

AskedPort(m) == 256 * m[Len(m) - 1] + m[Len(m)]

Accepted(m) ==
    IF phase = "greeting" \/ Len(m) < 7 THEN m[1] = 5 /\ Offers(m, 0)
    ELSE m[1] = 5 /\ m[2] \in {1, 3} /\ m[4] \in {1, 3, 4}

(* The parser's counters and port fit their C types, and it is in a state  *)
(* of the enumeration that client.c can reach.                             *)
S5TypeOK ==
    /\ phase \in {"greeting", "request", "parsed", "refused"}
    /\ msg \in Greetings \cup Requests
    /\ \E n \in 0..Len(msg) : rest = SubSeq(msg, n + 1, Len(msg))
    /\ whole \in BOOLEAN
    /\ cx.state \in ParserStates
    /\ cx.dport \in 0..65535 /\ cx.arg0 <= 256 /\ cx.arg1 <= 255

(***************************************************************************)
(* However a legal request is cut into reads, the package made of it says  *)
(* what the request said, and the server finds in it the host and the port *)
(* that were asked for and the payload behind it, byte for byte; both ends *)
(* agree on the length of the header (s5_parse, initial_package_create,    *)
(* get_s5_head_size, socks5_address_parse, socks5_address_size).  The port *)
(* must have come in one read: see PortSurvivesSplit.                      *)
(***************************************************************************)
PackageSaysRequest ==
    phase = "parsed" /\ cx.cmd = 1 /\ whole =>
        LET p == initial_package_create(cx)
            s == p \o Payload
            a == socks5_address_parse(s)
        IN  /\ p = SubSeq(msg, 4, Len(msg))
            /\ get_s5_head_size(p, 30) = Len(p)
            /\ a.addr = AskedHost(msg) /\ a.port = AskedPort(msg)
            /\ SubSeq(s, socks5_address_size(a) + 1, Len(s)) = Payload

(***************************************************************************)
(* A message that has arrived completely is decided: the parser never      *)
(* waits for more than the message, and it lets pass what the protocol     *)
(* allows and nothing else, however the reads cut it.                      *)
(***************************************************************************)
CompleteIsDecided ==
    /\ rest = <<>> => phase \in {"parsed", "refused"}
    /\ phase = "parsed" => Accepted(msg)
    /\ phase = "refused" => ~Accepted(msg)

(* A client's request is understood: decided, and carried on as it was.    *)
RequestUnderstood == CompleteIsDecided /\ PackageSaysRequest

(***************************************************************************)
(* client.c:381 (do_parse_s5_request reads on when it must: "Need more     *)
(* data."): the port is the one asked for also when its two bytes come in  *)
(* two reads.                                                              *)
(***************************************************************************)
PortSurvivesSplit ==
    phase = "parsed" => cx.dport = AskedPort(msg)
=============================================================================
