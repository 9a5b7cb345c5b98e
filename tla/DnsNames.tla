------------------------------ MODULE DnsNames ------------------------------
(***************************************************************************)
(* Domain names and answers in libudns: names to text and back             *)
(* (udns_dn.c), names out of packets with compression (udns_parse.c) and   *)
(* the two passes over the records of an answer (udns_rr_a.c).  A name is  *)
(* a sequence of labels.  Of the characters, "." and "\" must be escaped,  *)
(* "^" stands for the unprintable byte with the code 007, and "7" is a     *)
(* digit that an escape before it must not swallow.                        *)
(***************************************************************************)
EXTENDS Integers, Sequences
LOCAL INSTANCE SequencesExt
LOCAL INSTANCE FiniteSetsExt

CONSTANTS
    DNS_MAXLABEL, DNS_MAXDN, DNS_MAXNAME,
    DNS_HSIZE,    \* bytes of the packet header
    MaxLabels,    \* bound: labels of a name
    MaxPkt,       \* bound: bytes of a packet after the header
    MaxJumps,     \* jumps dns_getdn follows after the first
    MaxRecords    \* bound: records of an answer

ASSUME DnsNamesAssumption ==
    /\ DNS_MAXLABEL \in 1..63 /\ DNS_MAXDN \in Nat /\ DNS_MAXNAME \in Nat
    /\ DNS_HSIZE \in Nat /\ MaxJumps \in Nat

VARIABLE nm      \* the input: a name, a packet or the records of an answer

Chars == {"a", "7", ".", "^"}

-----------------------------------------------------------------------------
(* Names and their text *)

dns_dnlen(dn) == FoldLeft(LAMBDA n, l : n + 1 + Len(l), 1, dn)

Escaped(c) ==
    CASE c \in {".", "\\"} -> <<"\\", c>>
      [] c = "^" -> <<"\\", "0", "0", "7">>
      [] OTHER -> <<c>>

dns_dntop_size(dn) ==
    LET chars == FoldLeft(LAMBDA n, l :
                     FoldLeft(LAMBDA k, c : k + Len(Escaped(c)), n, l), 0, dn)
        size == chars + (IF dn = <<>> THEN 0 ELSE Len(dn) - 1) + 1
    IN  IF size > DNS_MAXNAME THEN 0 ELSE size

(* One piece of text, if there is room: an escaped code wants one byte     *)
(* more than it fills, the zero at the end counts as a piece.              *)
Fits(np, piece, ne) ==
    IF Len(piece) = 4 THEN np + 4 < ne ELSE np + Len(piece) <= ne

Written(acc, piece, ne) ==
    [out |-> acc.out \o piece, ok |-> acc.ok /\ Fits(Len(acc.out), piece, ne)]

dns_dntop(dn, namesiz) ==
    LET Label(acc, i) ==
            FoldLeft(LAMBDA a, c : Written(a, Escaped(c), namesiz),
                     IF i = 1 THEN acc ELSE Written(acc, <<".">>, namesiz), dn[i])
        all == FoldLeft(Label, [out |-> <<>>, ok |-> TRUE], [i \in DOMAIN dn |-> i])
    IN  [all EXCEPT !.ok = @ /\ Len(all.out) < namesiz]

Digit(c) == CASE c = "0" -> 0 [] c = "7" -> 7 [] OTHER -> -1
DigitsUnbounded(s) ==   \* mutant: an escape takes every digit that follows
    Max({n \in 0..Len(s) : \A i \in 1..n : Digit(s[i]) >= 0})
DigitsAt(s) == Max({n \in 0..3 : n <= Len(s) /\ \A i \in 1..n : Digit(s[i]) >= 0})
Code(s) == FoldLeft(LAMBDA n, c : 10 * n + Digit(c), 0, s)
Byte(code) == IF code = 7 THEN "^" ELSE "a"

Failed(st) == [st |-> st, labels |-> <<>>, isabs |-> FALSE]
Label1(done, cur) == IF cur = <<>> THEN done ELSE Append(done, cur)

RECURSIVE PtoDn(_, _, _, _, _)
PtoDn(text, done, cur, first, dnsiz) ==
    LET de == (IF dnsiz >= DNS_MAXDN THEN DNS_MAXDN ELSE dnsiz) - 1
        dp == dns_dnlen(done) + Len(cur)
        rest == Tail(text)
        Put(c, left) == PtoDn(left, done, Append(cur, c), FALSE, dnsiz)
    IN  IF text = <<>>
        THEN IF Len(cur) > DNS_MAXLABEL THEN Failed("bad")
             ELSE [st |-> "ok", labels |-> Label1(done, cur), isabs |-> cur = <<>>]
        ELSE IF text[1] = "."
        THEN IF cur = <<>>
             THEN IF first /\ rest = <<>> THEN PtoDn(<<>>, done, cur, FALSE, dnsiz)
                  ELSE Failed("bad")
             ELSE IF Len(cur) > DNS_MAXLABEL THEN Failed("bad")
             ELSE PtoDn(rest, Append(done, cur), <<>>, FALSE, dnsiz)
        ELSE IF dp >= de THEN Failed(IF dnsiz >= DNS_MAXDN THEN "bad" ELSE "room")
        ELSE IF text[1] # "\\" THEN Put(text[1], rest)
        ELSE IF rest = <<>> THEN Failed("bad")
        ELSE LET n == DigitsAt(rest) IN
             IF n = 0 THEN Put(rest[1], Tail(rest))
             ELSE IF n = 3 /\ Code(SubSeq(rest, 1, 3)) > 255 THEN Failed("bad")
             ELSE Put(Byte(Code(SubSeq(rest, 1, n))), SubSeq(rest, n + 1, Len(rest)))

dns_ptodn(text, dnsiz) ==
    IF dnsiz = 0 THEN Failed("room") ELSE PtoDn(text, <<>>, <<>>, TRUE, dnsiz)

-----------------------------------------------------------------------------
(* Names in packets.  Positions count from 0, the header's bytes included; *)
(* the two high bits of a length mark a jump to the position in the byte   *)
(* that follows.                                                           *)

Jump == 192
PktEnd(pkt) == DNS_HSIZE + Len(pkt)
At(pkt, pos) == pkt[pos - DNS_HSIZE + 1]
Slice(pkt, pos, n) == SubSeq(pkt, pos - DNS_HSIZE + 1, pos - DNS_HSIZE + n)

RECURSIVE dns_skipdn(_, _)
dns_skipdn(pkt, cur) ==
    IF cur >= PktEnd(pkt) THEN -1
    ELSE IF At(pkt, cur) = 0 THEN cur + 1
    ELSE IF At(pkt, cur) = Jump THEN IF cur + 2 >= PktEnd(pkt) THEN -1 ELSE cur + 2
    ELSE dns_skipdn(pkt, cur + 1 + At(pkt, cur))

NoName(st) == [st |-> st, labels |-> <<>>, next |-> -1]

(* The room for the zero at the end is asked of dn, where the name begins, *)
(* so that a name may fill all of dnsiz and its zero follow it.            *)
RECURSIVE GetDn(_, _, _, _, _, _)
GetDn(pkt, pp, out, jump, loop, dnsiz) ==
    LET de == Min({dnsiz, DNS_MAXDN})
        c == At(pkt, pp)
        noroom == NoName(IF dnsiz < DNS_MAXDN THEN "room" ELSE "bad")
        dp == dns_dnlen(out) - 1
    IN  IF pp >= PktEnd(pkt) THEN NoName("bad")
        ELSE IF c = 0
        THEN IF 0 >= de THEN noroom
             ELSE [st |-> "ok", labels |-> out, next |-> IF jump >= 0 THEN jump ELSE pp + 1]
        ELSE IF c = Jump
        THEN IF pp + 1 >= PktEnd(pkt) \/ (jump >= 0 /\ loop = 1)
                \/ At(pkt, pp + 1) < DNS_HSIZE
             THEN NoName("bad")
             ELSE GetDn(pkt, At(pkt, pp + 1), out,
                        IF jump >= 0 THEN jump ELSE pp + 2,
                        IF jump >= 0 THEN loop - 1 ELSE loop, dnsiz)
        ELSE IF c > DNS_MAXLABEL \/ pp + 1 + c > PktEnd(pkt) THEN NoName("bad")
        ELSE IF dp + c + 1 > de THEN noroom
        ELSE GetDn(pkt, pp + 1 + c, Append(out, Slice(pkt, pp + 1, c)), jump, loop, dnsiz)

dns_getdn(pkt, cur, dnsiz) == GetDn(pkt, cur, <<>>, -1, MaxJumps, dnsiz)

-----------------------------------------------------------------------------
(* The records of an answer: address records of the name asked for or of   *)
(* the name its CNAME records lead to.                                     *)

RewindKeeps(p, qdn) == [p EXCEPT !.i = 1, !.ttl = 3]   \* mutant: name and count are kept

dns_rewind(p, qdn) == [i |-> 1, qdn |-> qdn, nrr |-> 0, ttl |-> 3]

dns_initparse(qdn) == [i |-> 1, qdn |-> qdn, nrr |-> 0, ttl |-> 3]

RECURSIVE dns_nextrr(_, _)
dns_nextrr(rrs, p) ==
    LET rr == rrs[p.i]
        q == [p EXCEPT !.i = @ + 1]
        lower == Min({p.ttl, rr.ttl})
    IN  IF p.i > Len(rrs) THEN [r |-> 0, p |-> p]
        ELSE IF rr.typ = "bad" THEN [r |-> -1, p |-> q]
        ELSE IF rr.dn # p.qdn THEN dns_nextrr(rrs, q)
        ELSE IF rr.typ = "A" THEN [r |-> 1, p |-> [q EXCEPT !.nrr = @ + 1, !.ttl = lower]]
        ELSE IF rr.typ = "CNAME" /\ p.nrr = 0
        THEN dns_nextrr(rrs, [q EXCEPT !.qdn = rr.to, !.ttl = lower])
        ELSE dns_nextrr(rrs, q)

(* The first pass counts and checks the sizes. *)
RECURSIVE CountedRecords(_, _)
CountedRecords(rrs, p) ==
    LET s == dns_nextrr(rrs, p) IN
    IF s.r = 0 THEN [st |-> IF s.p.nrr = 0 THEN "nodata" ELSE "ok", p |-> s.p]
    ELSE IF s.r < 0 \/ rrs[s.p.i - 1].dsz # "right" THEN [st |-> "protocol", p |-> s.p]
    ELSE CountedRecords(rrs, s.p)

(* The second copies into the memory that the count has paid for.          *)
RECURSIVE CopiedRecords(_, _, _)
CopiedRecords(rrs, p, out) ==
    LET s == dns_nextrr(rrs, p) IN
    IF s.r = 0 THEN [out |-> out, p |-> s.p]
    ELSE CopiedRecords(rrs, s.p, Append(out, s.p.i - 1))

dns_parse_a(rrs, qdn) ==
    LET first == CountedRecords(rrs, dns_initparse(qdn))
        second == CopiedRecords(rrs, dns_rewind(first.p, qdn), <<>>)
    IN  IF first.st # "ok" THEN [st |-> first.st, nrr |-> 0, out |-> <<>>, p |-> first.p]
        ELSE [st |-> "ok", nrr |-> first.p.nrr, out |-> second.out, p |-> second.p]

-----------------------------------------------------------------------------
(* The inputs *)

Names ==
    {dn \in UNION {[1..n -> UNION {[1..k -> Chars] : k \in 1..DNS_MAXLABEL}]
                     : n \in 0..MaxLabels} : dns_dnlen(dn) <= DNS_MAXDN}

Packets == UNION {[1..n -> (0..DNS_MAXLABEL) \cup
                           (DNS_HSIZE..(DNS_HSIZE + MaxPkt - 1)) \cup {Jump}]
                    : n \in 0..MaxPkt}

Record == [dn : {"q", "c"}, typ : {"A"}, to : {"none"}, dsz : {"right", "wrong"}, ttl : {1, 2}]
          \cup [dn : {"q", "c"}, typ : {"CNAME"}, to : {"q", "c"}, dsz : {"right"}, ttl : {1, 2}]
          \cup [dn : {"q"}, typ : {"X", "bad"}, to : {"none"}, dsz : {"right"}, ttl : {1}]

Answers == UNION {[1..n -> Record] : n \in 0..MaxRecords}

NothingRead == [kind |-> "none", name |-> <<>>, pkt |-> <<>>, rrs |-> <<>>]

NamesInit ==
    \/ nm \in [kind : {"name"}, name : Names, pkt : {<<>>}, rrs : {<<>>}]
    \/ nm \in [kind : {"pkt"}, name : {<<>>}, pkt : Packets, rrs : {<<>>}]
    \/ nm \in [kind : {"rrs"}, name : {<<>>}, pkt : {<<>>}, rrs : Answers]

-----------------------------------------------------------------------------
(* A name written as text and read again is the same name, for every size  *)
(* of either buffer: dns_dntop needs exactly the bytes dns_dntop_size      *)
(* promises, dns_ptodn exactly those of the name.                          *)
NamesAgree ==
    nm.kind = "name" =>
        LET dn == nm.name
            size == dns_dntop_size(dn)
            text == dns_dntop(dn, size).out
        IN  /\ size = Len(text) + 1
            /\ \A room \in 0..(size + 1) : dns_dntop(dn, room).ok = (room >= size)
            /\ \A dnsiz \in 0..DNS_MAXDN :
                LET p == dns_ptodn(text, dnsiz) IN
                IF dnsiz < dns_dnlen(dn) THEN p.st = "room"
                ELSE p = [st |-> "ok", labels |-> dn, isabs |-> dn = <<>>]

(* Whatever the packet, dns_getdn ends, and where it finds a name, it goes *)
(* on where dns_skipdn would.                                              *)
PacketNames ==
    nm.kind = "pkt" =>
        \A dnsiz \in {1, DNS_MAXDN} :
            LET g == dns_getdn(nm.pkt, DNS_HSIZE, dnsiz) IN
            g.st = "ok" =>
                \/ dns_skipdn(nm.pkt, DNS_HSIZE) = g.next
                \/ g.next = PktEnd(nm.pkt)

(* The name that dns_getdn returns fits the buffer it was given.           *)
NameFits ==
    nm.kind = "pkt" =>
        \A dnsiz \in 1..DNS_MAXDN :
            LET g == dns_getdn(nm.pkt, DNS_HSIZE, dnsiz) IN
            g.st = "ok" => dns_dnlen(g.labels) <= dnsiz

(* The second pass copies as many addresses as the first one counted, all  *)
(* of the right size and all of the one name the answer led to.            *)
PassesAgree ==
    nm.kind = "rrs" =>
        LET a == dns_parse_a(nm.rrs, "q") IN
        a.st = "ok" =>
            /\ Len(a.out) = a.nrr /\ a.nrr > 0
            /\ \A k \in DOMAIN a.out :
                LET rr == nm.rrs[a.out[k]] IN
                rr.typ = "A" /\ rr.dsz = "right" /\ rr.dn = a.p.qdn
=============================================================================
