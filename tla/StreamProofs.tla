---------------------------- MODULE StreamProofs ----------------------------
(***************************************************************************)
(* The streams of the event-driven relays, for any amount of data.  First  *)
(* ss-redir and ss-tunnel: what is sent up and back is what was read, in its *)
(* order and without a gap, and a watcher runs for whatever is still to be *)
(* sent.  Then the connection of the event-driven server: the stream from  *)
(* the client to its target and back, and the life of the two ends, of the *)
(* query between them and of their watchers.  The first lemmas are about   *)
(* sequences of consecutive numbers, which stand for such streams.         *)
(***************************************************************************)
EXTENDS RedirEv, ServerEv, TLAPS

(* Facts about sequences. *)
LEMMA LengthOfStream ==
    ASSUME NEW S, NEW s \in Seq(S)
    PROVE  Len(s) \in Nat /\ DOMAIN s = 1..Len(s) /\ s \in [1..Len(s) -> S]
  OBVIOUS

LEMMA ElementOfStream ==
    ASSUME NEW S, NEW s \in Seq(S), NEW n \in 1..Len(s)
    PROVE  s[n] \in S
  OBVIOUS

LEMMA JoinOfStream ==
    ASSUME NEW S, NEW s \in Seq(S), NEW t \in Seq(S)
    PROVE  /\ s \o t \in Seq(S) /\ Len(s \o t) = Len(s) + Len(t)
           /\ \A i \in 1..(Len(s) + Len(t)) :
                 (s \o t)[i] = IF i <= Len(s) THEN s[i] ELSE t[i - Len(s)]
  OBVIOUS

LEMMA JoinEmptyOfStream ==
    ASSUME NEW S, NEW s \in Seq(S)
    PROVE  s \o <<>> = s /\ <<>> \o s = s
  OBVIOUS

LEMMA PartOfStream ==
    ASSUME NEW S, NEW s \in Seq(S), NEW m \in 1..(Len(s) + 1), NEW n \in (m - 1)..Len(s)
    PROVE  /\ SubSeq(s, m, n) \in Seq(S)
           /\ Len(SubSeq(s, m, n)) = IF m <= n THEN (n - m) + 1 ELSE 0
           /\ \A i \in 1..((n - m) + 1) : SubSeq(s, m, n)[i] = s[(m + i) - 1]
  OBVIOUS

LEMMA WholeOfStream ==
    ASSUME NEW S, NEW s \in Seq(S)
    PROVE  SubSeq(s, 1, Len(s)) = s
  OBVIOUS

LEMMA NoPartOfStream ==
    ASSUME NEW s, NEW m \in Int, NEW n \in Int, n < m
    PROVE  SubSeq(s, m, n) = <<>>
  OBVIOUS

LEMMA EmptyOfStream ==
    ASSUME NEW S
    PROVE  <<>> \in Seq(S) /\ \A s \in Seq(S) : s = <<>> <=> Len(s) = 0
  OBVIOUS


(* Consecutive numbers, beginning after a. *)
Run(s, a) == s \in Seq(Int) /\ \A i \in 1..Len(s) : s[i] = a + i

IsBuffer(b) ==
    /\ DOMAIN b = {"data", "idx", "len"}
    /\ b.data \in Seq(Int) /\ b.idx \in Nat /\ b.len \in Nat
    /\ b.idx + b.len <= Len(b.data)

Rest(b) == SubSeq(b.data, b.idx + 1, b.idx + b.len)

(* A part of a sequence. *)
LEMMA Slice ==
    ASSUME NEW s \in Seq(Int), NEW i \in Nat, NEW n \in Nat, i + n <= Len(s)
    PROVE  /\ SubSeq(s, i + 1, i + n) \in Seq(Int)
           /\ Len(SubSeq(s, i + 1, i + n)) = n
           /\ \A k \in 1..n : SubSeq(s, i + 1, i + n)[k] = s[i + k]
<1>1. Len(s) \in Nat
  BY LengthOfStream, Zenon
<1>2. \A k \in (i + 1)..(i + n) : s[k] \in Int
  BY <1>1, ElementOfStream
<1> QED
  BY <1>1, <1>2, PartOfStream

(* A part of a run is a run. *)
LEMMA RunPart ==
    ASSUME NEW s, NEW a \in Int, Run(s, a), NEW i \in Nat, NEW n \in Nat,
           i + n <= Len(s)
    PROVE  Run(SubSeq(s, i + 1, i + n), a + i) /\ Len(SubSeq(s, i + 1, i + n)) = n
<1>1. s \in Seq(Int) /\ Len(s) \in Nat
  BY LengthOfStream, Zenon DEF Run
<1>2. \A k \in 1..n : i + k \in 1..Len(s)
  BY <1>1
<1> QED
  BY <1>1, <1>2, Slice DEF Run

LEMMA RunTake ==
    ASSUME NEW s, NEW a \in Int, Run(s, a), NEW n \in Nat, n <= Len(s)
    PROVE  Run(SubSeq(s, 1, n), a) /\ Len(SubSeq(s, 1, n)) = n
<1>1. s \in Seq(Int) /\ Len(s) \in Nat
  BY LengthOfStream, Zenon DEF Run
<1>2. \A k \in 1..n : s[k] \in Int
  BY <1>1, ElementOfStream
<1>3. /\ SubSeq(s, 1, n) \in Seq(Int) /\ Len(SubSeq(s, 1, n)) = n
      /\ \A k \in 1..n : SubSeq(s, 1, n)[k] = s[k]
  BY <1>2, PartOfStream
<1> QED
  BY <1>1, <1>3 DEF Run

(* A run after a run is a run. *)
LEMMA RunJoin ==
    ASSUME NEW s, NEW t, NEW a \in Int, Run(s, a), Run(t, a + Len(s))
    PROVE  Run(s \o t, a) /\ Len(s \o t) = Len(s) + Len(t)
<1>1. s \in Seq(Int) /\ t \in Seq(Int) /\ Len(s) \in Nat /\ Len(t) \in Nat
  BY LengthOfStream, Zenon DEF Run
<1>2. /\ s \o t \in Seq(Int) /\ Len(s \o t) = Len(s) + Len(t)
      /\ \A i \in 1..(Len(s) + Len(t)) :
           (s \o t)[i] = IF i <= Len(s) THEN s[i] ELSE t[i - Len(s)]
  BY <1>1, JoinOfStream, Zenon
<1> QED
  BY <1>1, <1>2 DEF Run

(* The bytes of one read. *)
LEMMA RunMade ==
    ASSUME NEW a \in Int, NEW n \in Nat
    PROVE  Run([i \in 1..n |-> a + i], a) /\ Len([i \in 1..n |-> a + i]) = n
BY DEF Run

LEMMA RunEmpty ==
    ASSUME NEW a \in Int
    PROVE  Run(<<>>, a)
BY DEF Run

(* n items of a buffer are sent: they and what is left are runs. *)
LEMMA RunSplit ==
    ASSUME NEW b, IsBuffer(b), NEW a \in Int, Run(Rest(b), a),
           NEW n \in 0..b.len
    PROVE  /\ IsBuffer(Past(b, n)) /\ Past(b, n).len = b.len - n
           /\ Run(SubSeq(Rest(b), 1, n), a) /\ Len(SubSeq(Rest(b), 1, n)) = n
           /\ Run(Rest(Past(b, n)), a + n)
<1> DEFINE c == Past(b, n)
<1>1. /\ IsBuffer(c) /\ c.len = b.len - n /\ c.idx = b.idx + n
      /\ c.data = b.data
  BY DEF IsBuffer, Past
<1> HIDE DEF c
<1>2. /\ b.idx \in Nat /\ b.len \in Nat /\ n \in Nat /\ n <= b.len
      /\ b.data \in Seq(Int) /\ b.idx + b.len <= Len(b.data)
  BY DEF IsBuffer
<1>3. /\ Len(Rest(b)) = b.len /\ Rest(b) \in Seq(Int)
      /\ \A k \in 1..b.len : Rest(b)[k] = b.data[b.idx + k]
  BY <1>2, Slice, ZenonT(30) DEF Rest
<1>4. Run(SubSeq(Rest(b), 1, n), a) /\ Len(SubSeq(Rest(b), 1, n)) = n
  BY <1>2, <1>3, RunTake, Zenon
<1>5. /\ Len(Rest(c)) = b.len - n /\ Rest(c) \in Seq(Int)
      /\ \A k \in 1..(b.len - n) : Rest(c)[k] = b.data[b.idx + n + k]
  <2> DEFINE i == b.idx + n
             m == b.len - n
  <2>1. i \in Nat /\ m \in Nat /\ i + m <= Len(b.data)
    <3>1. Len(b.data) \in Nat
      BY <1>2, LengthOfStream, Zenon
    <3> QED
      BY <1>2, <3>1
  <2>2. Rest(c) = SubSeq(b.data, i + 1, i + m)
    BY <1>1, Zenon DEF Rest
  <2> HIDE DEF i, m
  <2>3. /\ SubSeq(b.data, i + 1, i + m) \in Seq(Int)
        /\ Len(SubSeq(b.data, i + 1, i + m)) = m
        /\ \A k \in 1..m : SubSeq(b.data, i + 1, i + m)[k] = b.data[i + k]
    BY <1>2, <2>1, Slice, Zenon
  <2> QED
    BY <2>2, <2>3, Zenon DEF i, m
<1>6. \A k \in 1..(b.len - n) : Rest(c)[k] = (a + n) + k
  <2> TAKE k \in 1..(b.len - n)
  <2>1. n + k \in 1..b.len /\ k \in Int
    BY <1>2
  <2>2. Rest(b)[n + k] = a + (n + k)
    BY <2>1, <1>3, Zenon DEF Run
  <2>3. Rest(c)[k] = b.data[(b.idx + n) + k]
    BY <1>5, Zenon
  <2>4. Rest(b)[n + k] = b.data[b.idx + (n + k)]
    BY <1>3, <2>1, Zenon
  <2>5. (b.idx + n) + k = b.idx + (n + k) /\ a + (n + k) = (a + n) + k
    BY <2>1, <1>2
  <2> QED
    BY <2>2, <2>3, <2>4, <2>5, Zenon
<1> QED
  BY <1>1, <1>4, <1>5, <1>6, <1>2, Zenon DEF Run, c

(* A buffer that was just filled holds what it was given. *)
LEMMA RunStored ==
    ASSUME NEW s \in Seq(Int), NEW b, b = [data |-> s, idx |-> 0, len |-> Len(s)]
    PROVE  IsBuffer(b) /\ Rest(b) = s /\ b.len = Len(s)
<1>1. IsBuffer(b) /\ b.len = Len(s) /\ b.idx = 0 /\ b.data = s /\ Len(s) \in Nat
  BY LengthOfStream DEF IsBuffer
<1>2. Rest(b) = SubSeq(s, 1, Len(s))
  BY <1>1 DEF Rest
<1> QED
  BY <1>1, <1>2, WholeOfStream, Zenon
-----------------------------------------------------------------------------
IsForward(c) ==
    /\ DOMAIN c = {"live", "buf", "recv", "send", "rbuf", "rrecv", "rsend",
                   "connected", "ctimer", "rtimer"}
    /\ c.live \in BOOLEAN /\ c.recv \in BOOLEAN /\ c.send \in BOOLEAN
    /\ c.rrecv \in BOOLEAN /\ c.rsend \in BOOLEAN /\ c.connected \in BOOLEAN
    /\ c.ctimer \in BOOLEAN /\ c.rtimer \in BOOLEAN
    /\ IsBuffer(c.buf) /\ IsBuffer(c.rbuf)

IsObfs(o) ==
    /\ DOMAIN o = {"kind", "state", "held"}
    /\ o.kind \in {"plain", "ticket"} /\ o.state \in 0..2
    /\ o.held \in Seq(Int)
    /\ o.kind = "plain" => o.state = 0
    /\ o.state # 1 => o.held = <<>>

(* The items so far are those of the plugin and then those of the client. *)
UpInOrder(sent, r) ==
    /\ sent \in Seq(Int)
    /\ \A i \in 1..Len(sent) : sent[i] = IF i <= r THEN -i ELSE i - r - 1

RecordsOf(o) == IF o.kind = "ticket" THEN 2 ELSE 0

Watchers(c, kind) ==
    /\ ~c.live => ~c.connected /\ ~c.recv /\ ~c.send /\ ~c.rrecv /\ ~c.rsend
                    /\ ~c.ctimer /\ ~c.rtimer
    /\ c.live /\ ~c.connected => c.ctimer /\ c.rsend /\ ~c.send /\ ~c.rrecv
    /\ kind = "tunnel" => ~c.rtimer /\ (~c.connected => ~c.recv)
    /\ c.live /\ c.connected /\ kind = "redir" => c.rtimer
    /\ c.live /\ c.connected => (c.rrecv <=> ~c.send)

(* What the plugin or remote->buf holds is what the server lacks. *)
UpKept(c, o, read, sent) ==
    /\ c.live => o.state # 0 \/ o.kind = "plain" \/ ~c.connected
    /\ ~c.live \/ ~c.connected => o.state = 0
    /\ c.live /\ ~c.connected =>
         /\ sent = <<>> /\ c.rbuf.idx = 0 /\ c.rbuf.len = read
         /\ Len(c.rbuf.data) = read /\ Run(c.rbuf.data, 0)
    /\ c.live /\ c.connected /\ o.state = 1 =>
         /\ Len(sent) = 1 /\ c.rbuf.len = 0
         /\ Run(o.held, -1) /\ Len(o.held) = read + 1
    /\ c.live /\ c.connected /\ o.state # 1 =>
         /\ Len(sent) >= RecordsOf(o)
         /\ Len(sent) - RecordsOf(o) + c.rbuf.len = read + 1
         /\ Run(Rest(c.rbuf), Len(sent) - RecordsOf(o) - 1)
         /\ c.rbuf.len > 0 => c.rsend
         /\ c.recv <=> ~c.rsend

DownKept(c, back, got) ==
    /\ Run(got, 0)
    /\ c.live /\ ~c.connected => back = 0 /\ got = <<>>
    /\ c.live /\ c.connected /\ c.send =>
         Run(Rest(c.buf), Len(got)) /\ Len(got) + c.buf.len = back
    /\ c.live /\ c.connected /\ ~c.send => Len(got) = back

ForwardOk(kind, c, o, read, sent, back, got) ==
    /\ kind \in {"redir", "tunnel"} /\ read \in Nat /\ back \in Nat
    /\ IsForward(c) /\ IsObfs(o) /\ Watchers(c, kind)
    /\ UpInOrder(sent, RecordsOf(o)) /\ UpKept(c, o, read, sent)
    /\ DownKept(c, back, got)

RedirInv == ForwardOk(rdKind, rdConn, rdObfs, rdRead, rdSent, rdBack, rdGot)

(* More of the client's items follow. *)
LEMMA UpMore ==
    ASSUME NEW sent, NEW r \in {0, 2}, UpInOrder(sent, r), Len(sent) >= r,
           NEW t, Run(t, Len(sent) - r - 1)
    PROVE  UpInOrder(sent \o t, r) /\ Len(sent \o t) = Len(sent) + Len(t)
<1>1. sent \in Seq(Int) /\ t \in Seq(Int) /\ Len(sent) \in Nat /\ Len(t) \in Nat
  BY LengthOfStream, Zenon DEF Run, UpInOrder
<1>2. /\ sent \o t \in Seq(Int) /\ Len(sent \o t) = Len(sent) + Len(t)
      /\ \A i \in 1..(Len(sent) + Len(t)) :
           (sent \o t)[i] = IF i <= Len(sent) THEN sent[i] ELSE t[i - Len(sent)]
  BY <1>1, JoinOfStream, Zenon
<1>3. ASSUME NEW i \in 1..Len(sent \o t)
      PROVE  (sent \o t)[i] = IF i <= r THEN -i ELSE i - r - 1
  <2>1. CASE i <= Len(sent)
    BY <1>1, <1>2, <2>1 DEF UpInOrder
  <2>2. CASE i > Len(sent)
    <3>1. i - Len(sent) \in 1..Len(t)
      BY <1>1, <1>2, <2>2
    <3>2. t[i - Len(sent)] = (Len(sent) - r - 1) + (i - Len(sent))
      BY <3>1, Zenon DEF Run
    <3> QED
      BY <1>1, <1>2, <2>2, <3>2
  <2> QED
    BY <1>1, <1>2, <2>1, <2>2, SMTT(30)
<1> QED
  BY <1>2, <1>3, Zenon DEF UpInOrder

(* The hello of the plugin, and its last record with what it held. *)
LEMMA UpHello ==
    UpInOrder(<<-1>>, 2) /\ Len(<<-1>>) = 1
BY DEF UpInOrder

LEMMA UpAnswer ==
    ASSUME NEW sent, UpInOrder(sent, 2), Len(sent) = 1, NEW held, Run(held, -1)
    PROVE  /\ UpInOrder(sent \o (<<-2>> \o held), 2)
           /\ Len(sent \o (<<-2>> \o held)) = 2 + Len(held)
           /\ <<-2>> \o held \in Seq(Int) /\ Len(<<-2>> \o held) = 1 + Len(held)
<1>1. sent \in Seq(Int) /\ held \in Seq(Int) /\ Len(held) \in Nat /\ <<-2>> \in Seq(Int)
  BY LengthOfStream DEF Run, UpInOrder
<1> DEFINE t == <<-2>> \o held
<1>2. /\ t \in Seq(Int) /\ Len(t) = 1 + Len(held)
      /\ \A i \in 1..(1 + Len(held)) : t[i] = IF i <= 1 THEN -2 ELSE held[i - 1]
  <2>1. Len(<<-2>>) = 1 /\ <<-2>>[1] = -2
    BY Zenon
  <2> QED
    BY <1>1, <2>1, JoinOfStream
<1>3. \A i \in 1..Len(held) : held[i] = i - 1
  BY <1>1 DEF Run
<1> HIDE DEF t
<1>4. /\ sent \o t \in Seq(Int) /\ Len(sent \o t) = Len(sent) + Len(t)
      /\ \A i \in 1..(Len(sent) + Len(t)) :
           (sent \o t)[i] = IF i <= Len(sent) THEN sent[i] ELSE t[i - Len(sent)]
  <2>1. sent \in Seq(Int) /\ t \in Seq(Int)
    BY <1>1, <1>2, Zenon
  <2> QED
    BY <2>1, JoinOfStream, Zenon
<1>5. Len(sent \o t) = 2 + Len(held) /\ Len(t) \in Nat
  <2>1. Len(sent) + Len(t) = 1 + (1 + Len(held))
    BY <1>2, Zenon
  <2> QED
    BY <1>1, <1>2, <1>4, <2>1
<1>6. ASSUME NEW i \in 1..Len(sent \o t)
      PROVE  (sent \o t)[i] = IF i <= 2 THEN -i ELSE i - 2 - 1
  <2>1. CASE i = 1
    BY <1>1, <1>4, <2>1 DEF UpInOrder
  <2>2. CASE i = 2
    BY <1>1, <1>2, <1>4, <2>2, SMTT(30)
  <2>3. CASE i > 2
    <3>1. (sent \o t)[i] = t[i - 1] /\ i - 1 \in 1..(1 + Len(held))
      <4>1. i \in 1..(Len(sent) + Len(t)) /\ i > Len(sent)
        BY <1>4, <1>5, <2>3
      <4>2. (sent \o t)[i] = t[i - Len(sent)]
        BY <4>1, <1>4
      <4> QED
        BY <1>1, <1>5, <4>1, <4>2, <2>3
    <3>2. t[i - 1] = held[i - 2] /\ i - 2 \in 1..Len(held)
      <4>1. (i - 1) - 1 = i - 2 /\ ~(i - 1 <= 1) /\ i - 2 \in 1..Len(held)
        BY <1>1, <1>5, <2>3
      <4>2. t[i - 1] = IF i - 1 <= 1 THEN -2 ELSE held[(i - 1) - 1]
        BY <1>2, <3>1, Zenon
      <4> QED
        BY <4>1, <4>2, Zenon
    <3> QED
      BY <1>1, <1>3, <1>5, <3>1, <3>2, <2>3
  <2>4. i = 1 \/ i = 2 \/ i > 2
    BY <1>1, <1>5
  <2> QED
    BY <2>1, <2>2, <2>3, <2>4, Zenon
<1>7. UpInOrder(sent \o t, 2)
  BY <1>4, <1>6, Zenon DEF UpInOrder
<1> QED
  BY <1>2, <1>5, <1>7, Zenon DEF t
-----------------------------------------------------------------------------
(* Every end of a connection. *)
LEMMA EndKeeps ==
    ASSUME RedirInv, End,
           UNCHANGED <<rdKind, rdRead, rdSent, rdBack, rdGot>>
    PROVE  RedirInv'
<1>1. /\ IsForward(rdConn') /\ rdConn'.live = FALSE
      /\ rdConn'.connected = FALSE /\ rdConn'.recv = FALSE /\ rdConn'.send = FALSE
      /\ rdConn'.rrecv = FALSE /\ rdConn'.rsend = FALSE /\ rdConn'.ctimer = FALSE
      /\ rdConn'.rtimer = FALSE
  <2>1. IsBuffer(RdEmpty)
    BY DEF IsBuffer, RdEmpty
  <2>2. CASE rdKind = "redir"
    BY <2>1, <2>2, Zenon DEF RedirInv, ForwardOk, End, ShutBoth, IsForward,
       redir_close_and_free_server, redir_close_and_free_remote
  <2>3. CASE rdKind = "tunnel"
    BY <2>1, <2>3, Zenon DEF RedirInv, ForwardOk, End, ShutBoth, IsForward, Watchers,
       tunnel_close_and_free_server, tunnel_close_and_free_remote
  <2> QED
    BY <2>2, <2>3, Zenon DEF RedirInv, ForwardOk
<1>2. /\ IsObfs(rdObfs') /\ rdObfs'.state = 0 /\ RecordsOf(rdObfs') = RecordsOf(rdObfs)
  BY SMTT(30) DEF RedirInv, ForwardOk, End, IsObfs, RecordsOf
<1>3. Watchers(rdConn', rdKind) /\ UpKept(rdConn', rdObfs', rdRead, rdSent)
      /\ DownKept(rdConn', rdBack, rdGot)
  BY <1>1, <1>2, Zenon DEF RedirInv, ForwardOk, Watchers, UpKept, DownKept
<1> QED
  BY <1>1, <1>2, <1>3, Zenon DEF RedirInv, ForwardOk

(* A new connection starts over. *)
LEMMA ForwardAccepts ==
    ASSUME RedirInv, NEW b \in BOOLEAN, b = (rdKind = "redir"), ~rdConn.live,
           Accepted(b)
    PROVE  RedirInv'
<1>1. /\ rdConn'.live = TRUE /\ rdConn'.connected = FALSE /\ rdConn'.recv = b
      /\ rdConn'.send = FALSE /\ rdConn'.rrecv = FALSE /\ rdConn'.rsend = TRUE
      /\ rdConn'.ctimer = TRUE /\ rdConn'.rtimer = FALSE /\ rdConn'.buf = RdEmpty
      /\ rdConn'.rbuf = RdEmpty
      /\ DOMAIN rdConn' = {"live", "buf", "recv", "send", "rbuf", "rrecv", "rsend",
                           "connected", "ctimer", "rtimer"}
  BY Zenon DEF Accepted, Gone
<1>2. /\ IsBuffer(RdEmpty) /\ RdEmpty.len = 0 /\ RdEmpty.idx = 0
      /\ RdEmpty.data = <<>> /\ Run(<<>>, 0)
  BY RunEmpty DEF IsBuffer, RdEmpty
<1>3. IsForward(rdConn')
  BY <1>1, <1>2, Zenon DEF IsForward
<1>4. /\ rdRead' = 0 /\ rdSent' = <<>> /\ rdBack' = 0 /\ rdGot' = <<>>
      /\ rdObfs' = rdObfs /\ rdKind' = rdKind /\ rdObfs.state = 0
  BY Zenon DEF Accepted, RedirInv, ForwardOk, UpKept
<1>5. UpInOrder(<<>>, RecordsOf(rdObfs))
  BY DEF UpInOrder
<1>6. Watchers(rdConn', rdKind)
  BY <1>1, Zenon DEF Watchers, RedirInv, ForwardOk
<1>7. UpKept(rdConn', rdObfs, 0, <<>>)
  BY <1>1, <1>2, <1>4 DEF UpKept
<1>8. DownKept(rdConn', 0, <<>>)
  BY <1>1, <1>2, Zenon DEF DownKept
<1> QED
  BY <1>3, <1>4, <1>5, <1>6, <1>7, <1>8, Zenon DEF RedirInv, ForwardOk

(* What a fresh store of a run, partly sent, leaves. *)
LEMMA StoreSplit ==
    ASSUME NEW data, NEW a \in Int, Run(data, a), NEW n \in 0..Len(data)
    PROVE  /\ IsBuffer(Past(RdStore(data), n))
           /\ Past(RdStore(data), n).len = Len(data) - n
           /\ Run(Rest(Past(RdStore(data), n)), a + n)
           /\ Run(SubSeq(data, 1, n), a) /\ Len(SubSeq(data, 1, n)) = n
<1> DEFINE b == RdStore(data)
<1>1. data \in Seq(Int)
  BY Zenon DEF Run
<1>2. IsBuffer(b) /\ Rest(b) = data /\ b.len = Len(data)
  BY <1>1, RunStored, Zenon DEF RdStore
<1>3. Run(Rest(b), a) /\ n \in 0..b.len
  BY <1>2, Zenon
<1> HIDE DEF b
<1>4. /\ IsBuffer(Past(b, n)) /\ Past(b, n).len = b.len - n
      /\ Run(SubSeq(Rest(b), 1, n), a) /\ Len(SubSeq(Rest(b), 1, n)) = n
      /\ Run(Rest(Past(b, n)), a + n)
  BY <1>2, <1>3, RunSplit, Zenon
<1> QED
  BY <1>2, <1>4, Zenon DEF b

(* UpKept, for a connection whose plugin is not waiting. *)
LEMMA Flowing ==
    ASSUME NEW c, NEW o, NEW read, NEW sent, c.live, c.connected,
           o.state # 1, o.state # 0 \/ o.kind = "plain",
           Len(sent) >= RecordsOf(o),
           Len(sent) - RecordsOf(o) + c.rbuf.len = read + 1,
           Run(Rest(c.rbuf), Len(sent) - RecordsOf(o) - 1),
           c.rbuf.len > 0 => c.rsend, c.recv <=> ~c.rsend
    PROVE  UpKept(c, o, read, sent)
BY Zenon DEF UpKept

LEMMA EmptyRest ==
    IsBuffer(RdEmpty) /\ RdEmpty.len = 0 /\ Rest(RdEmpty) = <<>>
BY NoPartOfStream DEF IsBuffer, RdEmpty, Rest

LEMMA SendUpKeeps ==
    ASSUME RedirInv, rdConn.live, rdConn.connected, rdConn.recv, rdObfs.state # 1,
           NEW data, Run(data, Len(rdSent) - RecordsOf(rdObfs) - 1),
           rdRead' \in Nat,
           Len(rdSent) - RecordsOf(rdObfs) + Len(data) = rdRead' + 1,
           SendUp(rdConn, data),
           UNCHANGED <<rdKind, rdObfs, rdBack, rdGot>>
    PROVE  RedirInv'
<1> DEFINE r == RecordsOf(rdObfs)
           a == Len(rdSent) - r - 1
<1>1. PICK n \in 0..Len(data) :
        /\ rdSent' = rdSent \o SubSeq(data, 1, n)
        /\ rdConn' = IF n = Len(data) THEN [rdConn EXCEPT !.rbuf = RdEmpty]
                     ELSE [rdConn EXCEPT !.rbuf = Past(RdStore(data), n),
                                         !.recv = FALSE, !.rsend = TRUE]
  BY Zenon DEF SendUp
<1>2. /\ Len(rdSent) \in Nat /\ r \in {0, 2} /\ a \in Int /\ Len(data) \in Nat
      /\ Len(rdSent) >= r
  <2>1. rdSent \in Seq(Int) /\ data \in Seq(Int) /\ Len(rdSent) >= r
    BY Zenon DEF RedirInv, ForwardOk, UpInOrder, UpKept, Run
  <2>2. r \in {0, 2}
    BY Zenon DEF RecordsOf
  <2> QED
    BY <2>1, <2>2, LengthOfStream
<1>3. /\ IsBuffer(Past(RdStore(data), n))
      /\ Past(RdStore(data), n).len = Len(data) - n
      /\ Run(Rest(Past(RdStore(data), n)), a + n)
      /\ Run(SubSeq(data, 1, n), a) /\ Len(SubSeq(data, 1, n)) = n
  BY <1>2, StoreSplit, Zenon
<1>4. UpInOrder(rdSent', r) /\ Len(rdSent') = Len(rdSent) + n
  <2> DEFINE t == SubSeq(data, 1, n)
  <2>1. UpInOrder(rdSent, r)
    BY Zenon DEF RedirInv, ForwardOk
  <2>2. UpInOrder(rdSent \o t, r) /\ Len(rdSent \o t) = Len(rdSent) + Len(t)
    BY <1>2, <1>3, <2>1, UpMore, Zenon
  <2> QED
    BY <1>1, <1>3, <2>2, Zenon
<1>5. IsBuffer(RdEmpty) /\ RdEmpty.len = 0 /\ Rest(RdEmpty) = <<>>
  BY EmptyRest, Zenon
<1>6. /\ rdConn.rsend = FALSE /\ IsForward(rdConn) /\ rdConn.recv = TRUE
      /\ rdConn.live = TRUE /\ rdConn.connected = TRUE
      /\ rdObfs.state # 0 \/ rdObfs.kind = "plain"
  BY Zenon DEF RedirInv, ForwardOk, UpKept, IsForward
<1>7. CASE n = Len(data)
  <2>1. /\ IsForward(rdConn') /\ rdConn'.rbuf = RdEmpty /\ rdConn'.buf = rdConn.buf
        /\ rdConn'.live = TRUE /\ rdConn'.connected = TRUE /\ rdConn'.recv = TRUE
        /\ rdConn'.rsend = FALSE /\ rdConn'.send = rdConn.send
        /\ rdConn'.rrecv = rdConn.rrecv /\ rdConn'.ctimer = rdConn.ctimer
        /\ rdConn'.rtimer = rdConn.rtimer
    BY <1>1, <1>5, <1>6, <1>7, Zenon DEF IsForward
  <2>2. Watchers(rdConn', rdKind) /\ DownKept(rdConn', rdBack, rdGot)
    BY <2>1, <1>6, Zenon DEF RedirInv, ForwardOk, Watchers, DownKept
  <2>3. UpKept(rdConn', rdObfs, rdRead', rdSent')
    <3>1. Run(Rest(rdConn'.rbuf), Len(rdSent') - r - 1)
      <4>1. Rest(rdConn'.rbuf) = <<>> /\ Len(rdSent') - r - 1 \in Int
        BY <1>2, <1>4, <1>5, <2>1
      <4> QED
        BY <4>1, RunEmpty, Zenon
    <3>2. Len(rdSent') >= r /\ Len(rdSent') - r + rdConn'.rbuf.len = rdRead' + 1
      <4>1. rdConn'.rbuf.len = 0
        BY <1>5, <2>1, Zenon
      <4> QED
        BY <1>2, <1>4, <1>7, <4>1
    <3>3. rdConn'.rbuf.len = 0 /\ (rdConn'.recv <=> ~rdConn'.rsend)
      BY <1>5, <2>1, Zenon
    <3>4. rdConn'.rbuf.len > 0 => rdConn'.rsend
      BY <3>3
    <3> QED
      BY <3>1, <3>2, <3>3, <3>4, <2>1, <1>6, Flowing, Zenon
  <2> QED
    BY <2>1, <2>2, <2>3, <1>4, Zenon DEF RedirInv, ForwardOk
<1>8. CASE n < Len(data)
  <2>1. /\ IsForward(rdConn') /\ rdConn'.rbuf = Past(RdStore(data), n)
        /\ rdConn'.buf = rdConn.buf
        /\ rdConn'.live = TRUE /\ rdConn'.connected = TRUE /\ rdConn'.recv = FALSE
        /\ rdConn'.rsend = TRUE /\ rdConn'.send = rdConn.send
        /\ rdConn'.rrecv = rdConn.rrecv /\ rdConn'.ctimer = rdConn.ctimer
        /\ rdConn'.rtimer = rdConn.rtimer
    <3>1. rdConn' = [rdConn EXCEPT !.rbuf = Past(RdStore(data), n),
                                   !.recv = FALSE, !.rsend = TRUE]
      BY <1>1, <1>2, <1>8, SMTT(30)
    <3> QED
      BY <3>1, <1>3, <1>6, Zenon DEF IsForward
  <2>2. Watchers(rdConn', rdKind) /\ DownKept(rdConn', rdBack, rdGot)
    BY <2>1, <1>6, Zenon DEF RedirInv, ForwardOk, Watchers, DownKept
  <2>3. UpKept(rdConn', rdObfs, rdRead', rdSent')
    <3>1. Run(Rest(rdConn'.rbuf), Len(rdSent') - r - 1)
      <4>1. a + n = Len(rdSent') - r - 1
        BY <1>2, <1>4
      <4> QED
        BY <4>1, <1>3, <2>1, Zenon
    <3>2. Len(rdSent') >= r /\ Len(rdSent') - r + rdConn'.rbuf.len = rdRead' + 1
      BY <1>2, <1>3, <1>4, <2>1, SMTT(30)
    <3>3. /\ rdConn'.rbuf.len > 0 => rdConn'.rsend
          /\ (rdConn'.recv <=> ~rdConn'.rsend)
      BY <2>1, Zenon
    <3> QED
      BY <3>1, <3>2, <3>3, <2>1, <1>6, Flowing, Zenon
  <2> QED
    BY <2>1, <2>2, <2>3, <1>4, Zenon DEF RedirInv, ForwardOk
<1> QED
  BY <1>2, <1>7, <1>8

(* The three answers of the plugin to data. *)
LEMMA EncodeFlows ==
    ASSUME NEW o, o.kind = "plain" \/ o.state = 2, NEW data
    PROVE  client_encode(o, data).out = data /\ client_encode(o, data).obfs = o
BY DEF client_encode, Encoded

LEMMA EncodeHello ==
    ASSUME NEW o, IsObfs(o), o.kind = "ticket", o.state = 0, NEW data \in Seq(Int)
    PROVE  LET e == client_encode(o, data) IN
           /\ e.out = <<-1>> /\ IsObfs(e.obfs) /\ e.obfs.kind = "ticket"
           /\ e.obfs.state = 1 /\ e.obfs.held = data
<1> DEFINE p == [o EXCEPT !.state = 1, !.held = data]
<1>1. IsObfs(p) /\ p.kind = "ticket" /\ p.state = 1 /\ p.held = data
  BY DEF IsObfs
<1>2. client_encode(o, data) = Encoded(<<-1>>, p)
  BY DEF client_encode
<1> HIDE DEF p
<1> QED
  BY <1>1, <1>2 DEF Encoded

LEMMA EncodeHolds ==
    ASSUME NEW o, IsObfs(o), o.state = 1, NEW data \in Seq(Int), data # <<>>
    PROVE  LET e == client_encode(o, data) IN
           /\ e.out = <<>> /\ IsObfs(e.obfs) /\ e.obfs.kind = "ticket"
           /\ e.obfs.state = 1 /\ e.obfs.held = o.held \o data
<1>1. o.kind = "ticket" /\ o.held \in Seq(Int) /\ o.held \o data \in Seq(Int)
  BY JoinOfStream DEF IsObfs
<1> DEFINE p == [o EXCEPT !.held = @ \o data]
<1>2. IsObfs(p) /\ p.kind = "ticket" /\ p.state = 1 /\ p.held = o.held \o data
  BY <1>1, Zenon DEF IsObfs
<1>3. client_encode(o, data) = Encoded(<<>>, p)
  BY <1>1 DEF client_encode
<1> HIDE DEF p
<1> QED
  BY <1>2, <1>3 DEF Encoded

LEMMA EncodeReleases ==
    ASSUME NEW o, IsObfs(o), o.state = 1
    PROVE  LET e == client_encode(o, <<>>) IN
           /\ e.out = <<-2>> \o o.held /\ IsObfs(e.obfs) /\ e.obfs.kind = "ticket"
           /\ e.obfs.state = 2 /\ e.obfs.held = <<>>
<1>1. o.kind = "ticket"
  BY DEF IsObfs
<1> DEFINE p == [o EXCEPT !.state = 2, !.held = <<>>]
<1>2. IsObfs(p) /\ p.kind = "ticket" /\ p.state = 2 /\ p.held = <<>>
  BY <1>1 DEF IsObfs
<1>3. client_encode(o, <<>>) = Encoded(<<-2>> \o o.held, p)
  BY <1>1 DEF client_encode
<1> HIDE DEF p
<1> QED
  BY <1>2, <1>3 DEF Encoded

(* Bytes of the client on a connection that is made. *)
LEMMA UploadKeeps ==
    ASSUME RedirInv, rdConn.live, rdConn.connected, rdConn.recv,
           NEW n \in Nat, n > 0, rdRead' = rdRead + n,
           Upload(rdConn, Bytes(n)),
           UNCHANGED <<rdKind, rdBack, rdGot>>
    PROVE  RedirInv'
<1> DEFINE data == Bytes(n)
           e == client_encode(rdObfs, data)
<1>1. Run(data, rdRead) /\ Len(data) = n /\ data \in Seq(Int) /\ data # <<>>
  <2>1. rdRead \in Int
    BY DEF RedirInv, ForwardOk
  <2>2. Run([i \in 1..n |-> rdRead + i], rdRead) /\ Len([i \in 1..n |-> rdRead + i]) = n
    BY <2>1, RunMade, Zenon
  <2>3. data = [i \in 1..n |-> rdRead + i]
    BY Zenon DEF Bytes
  <2>4. Run(data, rdRead) /\ Len(data) = n
    BY <2>2, <2>3, Zenon
  <2> QED
    BY <2>4 DEF Run
<1>2. rdRead \in Nat /\ rdRead' \in Nat /\ IsObfs(rdObfs) /\ IsForward(rdConn)
  BY DEF RedirInv, ForwardOk
<1>3. rdObfs' = e.obfs /\ (IF e.out = <<>>
        THEN rdConn' = [rdConn EXCEPT !.rbuf = RdEmpty, !.recv = FALSE]
             /\ UNCHANGED rdSent
        ELSE SendUp(rdConn, e.out))
  BY Zenon DEF Upload
<1> HIDE DEF data, e
<1>4. CASE rdObfs.state # 1
  <2>1. /\ rdObfs.kind = "plain" \/ rdObfs.state = 2
        /\ Len(rdSent) - RecordsOf(rdObfs) + rdConn.rbuf.len = rdRead + 1
        /\ rdConn.rbuf.len = 0
    <3>1. /\ Len(rdSent) - RecordsOf(rdObfs) + rdConn.rbuf.len = rdRead + 1
          /\ rdConn.rbuf.len > 0 => rdConn.rsend
          /\ ~rdConn.rsend
          /\ rdObfs.state # 0 \/ rdObfs.kind = "plain"
      BY <1>4, <1>2, Zenon DEF RedirInv, ForwardOk, UpKept, IsForward
    <3>2. rdConn.rbuf.len \in Nat
      BY <1>2, Zenon DEF IsForward, IsBuffer
    <3>3. rdObfs.state \in 0..2
      BY <1>2, Zenon DEF IsObfs
    <3>4. rdConn.rbuf.len = 0
      BY <3>1, <3>2
    <3>5. rdObfs.kind = "plain" \/ rdObfs.state = 2
      BY <3>1, <3>3, <1>4
    <3> QED
      BY <3>1, <3>4, <3>5, Zenon
  <2>2. e.out = data /\ e.obfs = rdObfs
    BY <2>1, EncodeFlows, Zenon DEF e
  <2>3. SendUp(rdConn, data) /\ rdObfs' = rdObfs
    BY <2>2, <1>3, <1>1, Zenon
  <2>4. Len(rdSent) \in Nat /\ RecordsOf(rdObfs) \in {0, 2}
    BY LengthOfStream, Zenon DEF RedirInv, ForwardOk, UpInOrder, RecordsOf
  <2>5. /\ Len(rdSent) - RecordsOf(rdObfs) - 1 = rdRead
        /\ Len(rdSent) - RecordsOf(rdObfs) + Len(data) = rdRead' + 1
    <3>1. Len(rdSent) - RecordsOf(rdObfs) + 0 = rdRead + 1
      BY <2>1, Zenon
    <3> QED
      <4>1. rdRead' = rdRead + Len(data) /\ rdRead \in Nat /\ Len(data) \in Nat
        BY <1>1, <1>2, Zenon
      <4> QED
        BY <3>1, <2>4, <4>1
  <2>6. Run(data, Len(rdSent) - RecordsOf(rdObfs) - 1)
    BY <2>5, <1>1, Zenon
  <2> QED
    BY <2>3, <2>5, <2>6, <1>2, <1>4, SendUpKeeps, Zenon
<1>5. CASE rdObfs.state = 1
  <2>1. /\ e.out = <<>> /\ IsObfs(e.obfs) /\ e.obfs.kind = "ticket"
        /\ e.obfs.state = 1 /\ e.obfs.held = rdObfs.held \o data
    BY <1>1, <1>2, <1>5, EncodeHolds, Zenon DEF e
  <2>2. rdConn' = [rdConn EXCEPT !.rbuf = RdEmpty, !.recv = FALSE]
        /\ rdSent' = rdSent /\ rdObfs' = e.obfs
    BY <1>3, <2>1, Zenon
  <2>3. /\ IsForward(rdConn') /\ rdConn'.rbuf = RdEmpty /\ rdConn'.buf = rdConn.buf
        /\ rdConn'.live = TRUE /\ rdConn'.connected = TRUE /\ rdConn'.recv = FALSE
        /\ rdConn'.rsend = rdConn.rsend /\ rdConn'.send = rdConn.send
        /\ rdConn'.rrecv = rdConn.rrecv /\ rdConn'.ctimer = rdConn.ctimer
        /\ rdConn'.rtimer = rdConn.rtimer
    BY <2>2, <1>2, EmptyRest, Zenon DEF IsForward
  <2>4. Watchers(rdConn', rdKind) /\ DownKept(rdConn', rdBack, rdGot)
    BY <2>3, Zenon DEF RedirInv, ForwardOk, Watchers, DownKept
  <2>5. /\ Run(rdObfs.held, -1) /\ Len(rdObfs.held) = rdRead + 1 /\ Len(rdSent) = 1
        /\ rdObfs.kind = "ticket"
    BY <1>5 DEF RedirInv, ForwardOk, UpKept, IsObfs
  <2>6. -1 + Len(rdObfs.held) = rdRead
    BY <2>5, <1>2
  <2>7. /\ Run(rdObfs.held \o data, -1)
        /\ Len(rdObfs.held \o data) = Len(rdObfs.held) + Len(data)
    BY <2>5, <2>6, <1>1, RunJoin
  <2>8. UpKept(rdConn', rdObfs', rdRead', rdSent')
    <3>1. /\ rdObfs'.state = 1 /\ Run(rdObfs'.held, -1) /\ Len(rdObfs'.held) = rdRead' + 1
      <4>1. rdObfs'.held = rdObfs.held \o data /\ rdObfs'.state = 1
        BY <2>1, <2>2, Zenon
      <4>2. Len(rdObfs'.held) = (rdRead + 1) + n
        BY <4>1, <2>5, <2>7, <1>1, Zenon
      <4> QED
        BY <4>1, <4>2, <2>7, <1>2
    <3> QED
      BY <3>1, <2>3, <2>5, <2>2, EmptyRest DEF UpKept
  <2>9. UpInOrder(rdSent', RecordsOf(rdObfs')) /\ IsObfs(rdObfs')
    BY <2>1, <2>2, <2>5, Zenon DEF RedirInv, ForwardOk, RecordsOf
  <2> QED
    BY <2>3, <2>4, <2>8, <2>9, <1>2, Zenon DEF RedirInv, ForwardOk
<1> QED
  BY <1>4, <1>5, Zenon

(* What RedirInv says of the types, for the arithmetic. *)
LEMMA ForwardTypes ==
    ASSUME RedirInv
    PROVE  /\ rdRead \in Nat /\ rdBack \in Nat /\ IsForward(rdConn) /\ IsObfs(rdObfs)
           /\ rdSent \in Seq(Int) /\ Len(rdSent) \in Nat
           /\ rdGot \in Seq(Int) /\ Len(rdGot) \in Nat /\ Run(rdGot, 0)
           /\ RecordsOf(rdObfs) \in {0, 2}
           /\ IsBuffer(rdConn.rbuf) /\ rdConn.rbuf.len \in Nat
           /\ IsBuffer(rdConn.buf) /\ rdConn.buf.len \in Nat
           /\ UpInOrder(rdSent, RecordsOf(rdObfs))
<1>1. /\ rdRead \in Nat /\ rdBack \in Nat /\ IsForward(rdConn) /\ IsObfs(rdObfs)
      /\ rdSent \in Seq(Int) /\ Run(rdGot, 0) /\ UpInOrder(rdSent, RecordsOf(rdObfs))
  BY Zenon DEF RedirInv, ForwardOk, UpInOrder, DownKept
<1>2. rdGot \in Seq(Int)
  BY <1>1, Zenon DEF Run
<1>3. IsBuffer(rdConn.rbuf) /\ IsBuffer(rdConn.buf)
  BY <1>1, Zenon DEF IsForward
<1>4. rdConn.rbuf.len \in Nat /\ rdConn.buf.len \in Nat
  BY <1>3, Zenon DEF IsBuffer
<1>5. RecordsOf(rdObfs) \in {0, 2}
  BY Zenon DEF RecordsOf
<1>6. Len(rdSent) \in Nat /\ Len(rdGot) \in Nat
  BY <1>1, <1>2, LengthOfStream, Zenon
<1> QED
  BY <1>1, <1>2, <1>3, <1>4, <1>5, <1>6, Zenon

(* Before the connection is made, remote->buf holds all that was read. *)
LEMMA BeforeConnect ==
    ASSUME RedirInv, rdConn.live, ~rdConn.connected
    PROVE  /\ SubSeq(rdConn.rbuf.data, 1, rdConn.rbuf.len) = rdConn.rbuf.data
           /\ Run(rdConn.rbuf.data, 0) /\ Len(rdConn.rbuf.data) = rdRead
           /\ rdSent = <<>> /\ rdObfs.state = 0
<1>1. /\ Run(rdConn.rbuf.data, 0) /\ Len(rdConn.rbuf.data) = rdRead
      /\ rdConn.rbuf.len = rdRead /\ rdSent = <<>> /\ rdObfs.state = 0
  BY Zenon DEF RedirInv, ForwardOk, UpKept
<1>2. rdConn.rbuf.data \in Seq(Int)
  BY <1>1, Zenon DEF Run
<1>3. SubSeq(rdConn.rbuf.data, 1, Len(rdConn.rbuf.data)) = rdConn.rbuf.data
  BY <1>2, WholeOfStream, Zenon
<1> QED
  BY <1>1, <1>3, Zenon

LEMMA RedirReceives ==
    ASSUME RedirInv, redir_server_recv_cb
    PROVE  RedirInv'
<1>1. /\ rdConn.recv /\ rdKind = "redir" /\ UNCHANGED <<rdKind, rdBack, rdGot>>
      /\ rdConn.live
  BY Zenon DEF redir_server_recv_cb, RedirInv, ForwardOk, Watchers
<1>2. CASE End /\ UNCHANGED <<rdRead, rdSent>>
  BY <1>1, <1>2, EndKeeps, Zenon
<1>3. CASE \E n \in 1..(RdBufSize - rdConn.rbuf.len) :
            LET data == SubSeq(rdConn.rbuf.data, 1, rdConn.rbuf.len) \o Bytes(n) IN
            /\ rdRead' = rdRead + n
            /\ IF ~rdConn.connected
               THEN /\ rdConn' = [rdConn EXCEPT !.rbuf = RdStore(data),
                                    !.recv = FALSE, !.rsend = TRUE]
                    /\ UNCHANGED <<rdObfs, rdSent>>
               ELSE Upload(rdConn, data)
  <2> DEFINE data(n) == SubSeq(rdConn.rbuf.data, 1, rdConn.rbuf.len) \o Bytes(n)
  <2>1. PICK n \in 1..(RdBufSize - rdConn.rbuf.len) :
            /\ rdRead' = rdRead + n
            /\ IF ~rdConn.connected
               THEN /\ rdConn' = [rdConn EXCEPT !.rbuf = RdStore(data(n)),
                                    !.recv = FALSE, !.rsend = TRUE]
                    /\ UNCHANGED <<rdObfs, rdSent>>
               ELSE Upload(rdConn, data(n))
    BY <1>3, Zenon
  <2> HIDE DEF data
  <2>2. n \in Nat /\ n > 0
    OBVIOUS
  <2>3. rdRead \in Nat
    BY ForwardTypes, Zenon
  <2>4. Run(Bytes(n), rdRead) /\ Len(Bytes(n)) = n
    <3>1. Bytes(n) = [i \in 1..n |-> rdRead + i]
      BY Zenon DEF Bytes
    <3>2. /\ Run([i \in 1..n |-> rdRead + i], rdRead)
          /\ Len([i \in 1..n |-> rdRead + i]) = n
      BY <2>2, <2>3, RunMade, SMTT(30)
    <3> QED
      BY <3>1, <3>2, Zenon
  <2>5. CASE ~rdConn.connected
    <3>1. data(n) = rdConn.rbuf.data \o Bytes(n)
      BY <2>5, <1>1, BeforeConnect, Zenon DEF data
    <3>2. Run(rdConn.rbuf.data, 0) /\ Len(rdConn.rbuf.data) = rdRead
      BY <2>5, <1>1, BeforeConnect, Zenon
    <3>3. 0 + Len(rdConn.rbuf.data) = rdRead
      BY <3>2, <2>3
    <3>4. /\ Run(rdConn.rbuf.data \o Bytes(n), 0)
          /\ Len(rdConn.rbuf.data \o Bytes(n)) = Len(rdConn.rbuf.data) + Len(Bytes(n))
      BY <3>2, <3>3, <2>4, RunJoin
    <3>5. Run(data(n), 0) /\ Len(data(n)) = rdRead'
      BY <3>1, <3>2, <3>4, <2>1, <2>4, Zenon
    <3>6. data(n) \in Seq(Int)
      BY <3>5, Zenon DEF Run
    <3>7. /\ IsBuffer(RdStore(data(n))) /\ RdStore(data(n)).len = rdRead'
          /\ RdStore(data(n)).idx = 0 /\ RdStore(data(n)).data = data(n)
      BY <3>5, <3>6, RunStored, Zenon DEF RdStore
    <3>8. /\ rdConn' = [rdConn EXCEPT !.rbuf = RdStore(data(n)),
                                      !.recv = FALSE, !.rsend = TRUE]
          /\ rdObfs' = rdObfs /\ rdSent' = rdSent
      BY <2>1, <2>5, Zenon
    <3>9. IsForward(rdConn) /\ rdConn.live = TRUE /\ rdConn.connected = FALSE
      BY ForwardTypes, <1>1, <2>5, Zenon DEF IsForward
    <3>10. /\ IsForward(rdConn') /\ rdConn'.rbuf = RdStore(data(n))
           /\ rdConn'.buf = rdConn.buf /\ rdConn'.live = TRUE
           /\ rdConn'.connected = FALSE /\ rdConn'.recv = FALSE
           /\ rdConn'.rsend = TRUE /\ rdConn'.send = rdConn.send
           /\ rdConn'.rrecv = rdConn.rrecv /\ rdConn'.ctimer = rdConn.ctimer
           /\ rdConn'.rtimer = rdConn.rtimer
      BY <3>7, <3>8, <3>9, SMTT(30) DEF IsForward
    <3>11. Watchers(rdConn', rdKind) /\ DownKept(rdConn', rdBack, rdGot)
      BY <3>9, <3>10, ZenonT(30) DEF RedirInv, ForwardOk, Watchers, DownKept
    <3>12. UpKept(rdConn', rdObfs', rdRead', rdSent')
      <4>1. /\ rdConn'.rbuf.idx = 0 /\ rdConn'.rbuf.len = rdRead'
            /\ Len(rdConn'.rbuf.data) = rdRead' /\ Run(rdConn'.rbuf.data, 0)
        BY <3>5, <3>7, <3>10, Zenon
      <4>2. rdSent' = <<>> /\ rdObfs'.state = 0
        BY <3>8, <2>5, <1>1, BeforeConnect
      <4> QED
        BY <4>1, <4>2, <3>10, Zenon DEF UpKept
    <3>13. rdRead' \in Nat /\ UpInOrder(rdSent', RecordsOf(rdObfs')) /\ IsObfs(rdObfs')
      BY <3>8, <2>1, <2>2, <2>3, ForwardTypes
    <3> QED
      BY <3>10, <3>11, <3>12, <3>13, <1>1, Zenon DEF RedirInv, ForwardOk
  <2>6. CASE rdConn.connected
    <3>1. rdConn.rbuf.len = 0
      BY <2>6, <1>1, ForwardTypes, SMTT(30) DEF RedirInv, ForwardOk, UpKept
    <3>2. SubSeq(rdConn.rbuf.data, 1, rdConn.rbuf.len) = <<>>
      BY <3>1, NoPartOfStream
    <3>3. Bytes(n) \in Seq(Int)
      BY <2>4, Zenon DEF Run
    <3>4. data(n) = Bytes(n)
      BY <3>2, <3>3, JoinEmptyOfStream, Zenon DEF data
    <3>5. Upload(rdConn, Bytes(n)) /\ rdRead' = rdRead + n
      BY <2>1, <2>6, <3>4, Zenon
    <3>6. rdConn.live /\ rdConn.recv /\ UNCHANGED <<rdKind, rdBack, rdGot>>
      BY <1>1, Zenon
    <3> QED
      BY <3>5, <3>6, <2>2, <2>6, UploadKeeps, Zenon
  <2> QED
    BY <2>5, <2>6, Zenon
<1> QED
  BY <1>2, <1>3, ZenonT(30) DEF redir_server_recv_cb

LEMMA TunnelReceives ==
    ASSUME RedirInv, tunnel_server_recv_cb
    PROVE  RedirInv'
<1>1. /\ rdConn.recv /\ rdKind = "tunnel" /\ UNCHANGED <<rdKind, rdBack, rdGot>>
      /\ rdConn.live /\ rdConn.connected
  BY Zenon DEF tunnel_server_recv_cb, RedirInv, ForwardOk, Watchers
<1>2. CASE End /\ UNCHANGED <<rdRead, rdSent>>
  BY <1>1, <1>2, EndKeeps, Zenon
<1>3. CASE \E n \in 1..RdBufSize : rdRead' = rdRead + n /\ Upload(rdConn, Bytes(n))
  <2>1. PICK n \in 1..RdBufSize : rdRead' = rdRead + n /\ Upload(rdConn, Bytes(n))
    BY <1>3, Zenon
  <2>2. n \in Nat /\ n > 0
    OBVIOUS
  <2> QED
    BY <1>1, <2>1, <2>2, UploadKeeps, Zenon
<1> QED
  BY <1>2, <1>3, Zenon DEF tunnel_server_recv_cb

(* A rest of remote->buf, whole or in part. *)
LEMMA SendRestKeeps ==
    ASSUME RedirInv, rdConn.connected, rdConn.rsend, rdConn.rbuf.len > 0,
           SendRest(rdConn),
           UNCHANGED <<rdKind, rdObfs, rdRead, rdBack, rdGot>>
    PROVE  RedirInv'
<1> DEFINE r == RecordsOf(rdObfs)
           a == Len(rdSent) - r - 1
           b == rdConn.rbuf
<1>1. PICK n \in 0..b.len :
        /\ rdSent' = rdSent \o SubSeq(Pending(b), 1, n)
        /\ rdConn' = IF n < b.len THEN [rdConn EXCEPT !.rbuf = Past(b, n)]
                     ELSE [rdConn EXCEPT !.rbuf = RdEmpty, !.rsend = FALSE, !.recv = TRUE]
  BY Zenon DEF SendRest
<1>2. /\ IsForward(rdConn) /\ rdConn.live = TRUE /\ rdConn.connected = TRUE
      /\ rdConn.rsend = TRUE /\ rdConn.rbuf.len # 0 /\ rdObfs.state # 1
      /\ rdConn.recv = FALSE
  <2>1. IsForward(rdConn) /\ rdConn.live
    BY ForwardTypes, Zenon DEF RedirInv, ForwardOk, Watchers
  <2>2. rdConn.rbuf.len # 0
    BY ForwardTypes
  <2>3. rdObfs.state # 1 /\ ~rdConn.recv
    BY <2>1, <2>2, Zenon DEF RedirInv, ForwardOk, UpKept
  <2> QED
    BY <2>1, <2>2, <2>3, Zenon DEF IsForward
<1>3. /\ Len(rdSent) >= r /\ Len(rdSent) - r + b.len = rdRead + 1 /\ Run(Rest(b), a)
      /\ rdObfs.state # 0 \/ rdObfs.kind = "plain"
  BY <1>2, Zenon DEF RedirInv, ForwardOk, UpKept
<1>4. /\ r \in {0, 2} /\ Len(rdSent) \in Nat /\ rdRead \in Nat /\ IsBuffer(b)
      /\ b.len \in Nat /\ UpInOrder(rdSent, r) /\ a \in Int
  BY ForwardTypes
<1>5. Pending(b) = Rest(b)
  BY Zenon DEF Pending, Rest
<1> HIDE DEF r, a, b
<1>6. /\ IsBuffer(Past(b, n)) /\ Past(b, n).len = b.len - n
      /\ Run(SubSeq(Rest(b), 1, n), a) /\ Len(SubSeq(Rest(b), 1, n)) = n
      /\ Run(Rest(Past(b, n)), a + n)
  BY <1>3, <1>4, RunSplit, Zenon
<1>7. UpInOrder(rdSent', r) /\ Len(rdSent') = Len(rdSent) + n
  <2>1. Run(SubSeq(Rest(b), 1, n), Len(rdSent) - r - 1)
    BY <1>6, Zenon DEF a
  <2> QED
    <3> DEFINE t == SubSeq(Rest(b), 1, n)
    <3>1. UpInOrder(rdSent \o t, r) /\ Len(rdSent \o t) = Len(rdSent) + Len(t)
      BY <1>3, <1>4, <2>1, UpMore, Zenon
    <3> QED
      BY <1>1, <1>5, <1>6, <3>1, Zenon
<1>8. CASE n = b.len
  <2>1. rdConn' = [rdConn EXCEPT !.rbuf = RdEmpty, !.rsend = FALSE, !.recv = TRUE]
    BY <1>1, <1>4, <1>8
  <2>2. /\ IsForward(rdConn') /\ rdConn'.rbuf = RdEmpty /\ rdConn'.buf = rdConn.buf
        /\ rdConn'.live = TRUE /\ rdConn'.connected = TRUE /\ rdConn'.recv = TRUE
        /\ rdConn'.rsend = FALSE /\ rdConn'.send = rdConn.send
        /\ rdConn'.rrecv = rdConn.rrecv /\ rdConn'.ctimer = rdConn.ctimer
        /\ rdConn'.rtimer = rdConn.rtimer
    BY <2>1, <1>2, EmptyRest, Zenon DEF IsForward
  <2>3. Watchers(rdConn', rdKind) /\ DownKept(rdConn', rdBack, rdGot)
    BY <2>2, <1>2, Zenon DEF RedirInv, ForwardOk, Watchers, DownKept
  <2>4. UpKept(rdConn', rdObfs, rdRead, rdSent')
    <3>1. Rest(rdConn'.rbuf) = <<>> /\ rdConn'.rbuf.len = 0
      BY <2>2, EmptyRest, Zenon
    <3>2. Len(rdSent') - r - 1 \in Int
      BY <1>4, <1>7
    <3>3. Run(Rest(rdConn'.rbuf), Len(rdSent') - r - 1)
      BY <3>1, <3>2, RunEmpty, Zenon
    <3>4. Len(rdSent') >= r /\ Len(rdSent') - r + rdConn'.rbuf.len = rdRead + 1
      BY <1>3, <1>4, <1>7, <1>8, <3>1, SMTT(30)
    <3>5. rdConn'.rbuf.len > 0 => rdConn'.rsend
      BY <3>1, SMTT(30)
    <3> QED
      BY <3>3, <3>4, <3>5, <2>2, <1>2, <1>3, Flowing, Zenon DEF r
  <2> QED
    BY <2>2, <2>3, <2>4, <1>7, Zenon DEF RedirInv, ForwardOk, r
<1>9. CASE n < b.len
  <2>1. rdConn' = [rdConn EXCEPT !.rbuf = Past(b, n)]
    BY <1>1, <1>9, Zenon
  <2>2. /\ IsForward(rdConn') /\ rdConn'.rbuf = Past(b, n) /\ rdConn'.buf = rdConn.buf
        /\ rdConn'.live = TRUE /\ rdConn'.connected = TRUE /\ rdConn'.recv = FALSE
        /\ rdConn'.rsend = TRUE /\ rdConn'.send = rdConn.send
        /\ rdConn'.rrecv = rdConn.rrecv /\ rdConn'.ctimer = rdConn.ctimer
        /\ rdConn'.rtimer = rdConn.rtimer
    BY <2>1, <1>2, <1>6, Zenon DEF IsForward
  <2>3. Watchers(rdConn', rdKind) /\ DownKept(rdConn', rdBack, rdGot)
    BY <2>2, <1>2, Zenon DEF RedirInv, ForwardOk, Watchers, DownKept
  <2>4. UpKept(rdConn', rdObfs, rdRead, rdSent')
    <3>1. a + n = Len(rdSent') - r - 1
      BY <1>4, <1>7 DEF a
    <3>2. Run(Rest(rdConn'.rbuf), Len(rdSent') - r - 1)
      BY <3>1, <2>2, <1>6, Zenon
    <3>3. Len(rdSent') >= r /\ Len(rdSent') - r + rdConn'.rbuf.len = rdRead + 1
      <4>1. rdConn'.rbuf.len = b.len - n
        BY <2>2, <1>6, Zenon
      <4> QED
        BY <4>1, <1>3, <1>4, <1>7, SMTT(30)
    <3> QED
      BY <3>2, <3>3, <2>2, <1>2, <1>3, Flowing, Zenon DEF r
  <2> QED
    BY <2>2, <2>3, <2>4, <1>7, Zenon DEF RedirInv, ForwardOk, r
<1> QED
  BY <1>4, <1>8, <1>9

(* The header goes before what was read. *)
LEMMA HeadRun ==
    ASSUME RedirInv, rdConn.live, ~rdConn.connected
    PROVE  Run(HeadFirst(rdConn.rbuf), -1) /\ Len(HeadFirst(rdConn.rbuf)) = rdRead + 1
<1>1. /\ HeadFirst(rdConn.rbuf) = <<0>> \o rdConn.rbuf.data
      /\ Run(rdConn.rbuf.data, 0) /\ Len(rdConn.rbuf.data) = rdRead
  BY BeforeConnect, Zenon DEF HeadFirst
<1> DEFINE s == <<0>>
           a == -1
<1>2. Run(s, a) /\ Len(s) = 1 /\ a \in Int
  BY DEF Run
<1>3. Run(rdConn.rbuf.data, a + Len(s))
  BY <1>1, <1>2
<1> HIDE DEF s, a
<1>4. /\ Run(s \o rdConn.rbuf.data, a)
      /\ Len(s \o rdConn.rbuf.data) = Len(s) + Len(rdConn.rbuf.data)
  BY <1>1, <1>2, <1>3, RunJoin, Zenon
<1>5. rdRead \in Nat
  BY ForwardTypes, Zenon
<1> QED
  BY <1>1, <1>2, <1>4, <1>5 DEF s, a

(* The first send: the plugin's hello, or the header and what was read. *)
LEMMA FirstUp ==
    ASSUME RedirInv, rdConn.live, ~rdConn.connected,
           rdObfs' = client_encode(rdObfs, HeadFirst(rdConn.rbuf)).obfs,
           rdSent' = client_encode(rdObfs, HeadFirst(rdConn.rbuf)).out,
           rdConn'.live, rdConn'.connected, rdConn'.recv, ~rdConn'.rsend,
           rdConn'.rbuf = RdEmpty
    PROVE  /\ IsObfs(rdObfs') /\ UpInOrder(rdSent', RecordsOf(rdObfs'))
           /\ UpKept(rdConn', rdObfs', rdRead, rdSent')
<1> DEFINE h == HeadFirst(rdConn.rbuf)
           e == client_encode(rdObfs, h)
<1>1. Run(h, -1) /\ Len(h) = rdRead + 1 /\ rdRead \in Nat
  BY HeadRun, ForwardTypes, Zenon
<1>2. h \in Seq(Int)
  BY <1>1, Zenon DEF Run
<1>3. IsObfs(rdObfs) /\ rdObfs.state = 0
  BY ForwardTypes, BeforeConnect, Zenon
<1>4. rdObfs' = e.obfs /\ rdSent' = e.out
  BY Zenon
<1>5. Rest(rdConn'.rbuf) = <<>> /\ rdConn'.rbuf.len = 0
  BY EmptyRest, Zenon
<1> HIDE DEF h, e
<1>6. CASE rdObfs.kind = "plain"
  <2>1. rdSent' = h /\ rdObfs' = rdObfs
    BY <1>4, <1>6, EncodeFlows DEF e
  <2>2. RecordsOf(rdObfs') = 0
    BY <1>6, <2>1, Zenon DEF RecordsOf
  <2>3. UpInOrder(h, 0)
    BY <1>1, <1>2 DEF UpInOrder, Run
  <2>4. Len(rdSent') - 0 - 1 \in Int
    BY <1>1, <2>1
  <2>5. Run(Rest(rdConn'.rbuf), Len(rdSent') - RecordsOf(rdObfs') - 1)
    BY <1>5, <2>2, <2>4, RunEmpty, Zenon
  <2>6. /\ Len(rdSent') >= RecordsOf(rdObfs')
        /\ Len(rdSent') - RecordsOf(rdObfs') + rdConn'.rbuf.len = rdRead + 1
    BY <1>1, <1>5, <2>1, <2>2
  <2>7. rdConn'.rbuf.len > 0 => rdConn'.rsend
    BY <1>5
  <2>8. rdObfs'.state # 1 /\ rdObfs'.kind = "plain"
    BY <1>3, <1>6, <2>1, SMTT(30)
  <2>9. UpKept(rdConn', rdObfs', rdRead, rdSent')
    BY <2>5, <2>6, <2>7, <2>8, Flowing, Zenon
  <2> QED
    BY <2>1, <2>2, <2>3, <2>9, <1>3, Zenon
<1>7. CASE rdObfs.kind = "ticket"
  <2>1. /\ e.out = <<-1>> /\ IsObfs(e.obfs) /\ e.obfs.kind = "ticket"
        /\ e.obfs.state = 1 /\ e.obfs.held = h
    BY <1>2, <1>3, <1>7, EncodeHello DEF e
  <2>2. RecordsOf(rdObfs') = 2
    BY <1>4, <2>1, Zenon DEF RecordsOf
  <2>3. UpKept(rdConn', rdObfs', rdRead, rdSent')
    <3>1. rdObfs'.state = 1 /\ Len(rdSent') = 1
      BY <1>4, <2>1, UpHello, Zenon
    <3>2. Run(rdObfs'.held, -1) /\ Len(rdObfs'.held) = rdRead + 1
      BY <1>1, <1>4, <2>1, Zenon
    <3> QED
      BY <3>1, <3>2, <1>5 DEF UpKept
  <2> QED
    BY <1>4, <2>1, <2>2, <2>3, UpHello, Zenon
<1> QED
  BY <1>3, <1>6, <1>7, Zenon DEF IsObfs

(* What the plugin yields is a sequence. *)
LEMMA FirstOut ==
    ASSUME RedirInv, rdConn.live, ~rdConn.connected
    PROVE  client_encode(rdObfs, HeadFirst(rdConn.rbuf)).out \in Seq(Int)
<1>1. IsObfs(rdObfs) /\ rdObfs.state = 0
  BY ForwardTypes, BeforeConnect, Zenon
<1>2. HeadFirst(rdConn.rbuf) \in Seq(Int)
  BY HeadRun, Zenon DEF Run
<1>3. CASE rdObfs.kind = "plain"
  BY <1>2, <1>3, EncodeFlows
<1>4. CASE rdObfs.kind = "ticket"
  <2>1. client_encode(rdObfs, HeadFirst(rdConn.rbuf)).out = <<-1>>
    BY <1>1, <1>2, <1>4, EncodeHello
  <2> QED
    BY <2>1
<1> QED
  BY <1>1, <1>3, <1>4, SMTT(30) DEF IsObfs

LEMMA RedirConnects ==
    ASSUME PartialSends = {}, RedirInv, rdKind = "redir", rdConn.rsend,
           ~rdConn.connected, RedirConnected,
           UNCHANGED <<rdKind, rdRead, rdBack, rdGot>>
    PROVE  RedirInv'
<1> DEFINE e == client_encode(rdObfs, HeadFirst(rdConn.rbuf))
           c == [rdConn EXCEPT !.connected = TRUE, !.rsend = FALSE,
                   !.ctimer = FALSE, !.rtimer = TRUE, !.rrecv = TRUE]
<1>1. /\ IsForward(rdConn) /\ rdConn.live = TRUE /\ rdConn.connected = FALSE
      /\ rdConn.send = FALSE
  BY ForwardTypes, Zenon DEF RedirInv, ForwardOk, Watchers, IsForward
<1>2. e.out \in Seq(Int) /\ Len(e.out) \in Nat /\ rdSent = <<>>
  <2>1. e.out \in Seq(Int) /\ rdSent = <<>>
    BY <1>1, FirstOut, BeforeConnect, Zenon
  <2> QED
    BY <2>1, LengthOfStream, Zenon
<1>3. /\ rdObfs' = e.obfs
      /\ rdSent' = rdSent \o SubSeq(e.out, 1, Len(e.out))
      /\ rdConn' = [c EXCEPT !.rbuf = RdEmpty, !.recv = TRUE]
  BY Zenon DEF RedirConnected, FirstSends
<1>4. rdSent' = e.out
  BY <1>2, <1>3, WholeOfStream, JoinEmptyOfStream
<1>5. /\ IsForward(c) /\ c.live = TRUE /\ c.connected = TRUE
      /\ c.rsend = FALSE /\ c.send = FALSE /\ c.rrecv = TRUE /\ c.ctimer = FALSE
      /\ c.rtimer = TRUE
  BY <1>1, Zenon DEF IsForward
<1> HIDE DEF e, c
<1>6. /\ IsForward(rdConn') /\ rdConn'.rbuf = RdEmpty
      /\ rdConn'.live = TRUE /\ rdConn'.connected = TRUE /\ rdConn'.recv = TRUE
      /\ rdConn'.rsend = FALSE /\ rdConn'.send = FALSE
      /\ rdConn'.rrecv = TRUE /\ rdConn'.ctimer = FALSE
      /\ rdConn'.rtimer = TRUE
  BY <1>3, <1>5, EmptyRest, Zenon DEF IsForward
<1>7. /\ IsObfs(rdObfs') /\ UpInOrder(rdSent', RecordsOf(rdObfs'))
      /\ UpKept(rdConn', rdObfs', rdRead, rdSent')
  BY <1>1, <1>3, <1>4, <1>6, FirstUp, Zenon DEF e
<1>8. Watchers(rdConn', rdKind)
  BY <1>6, Zenon DEF Watchers
<1>9. DownKept(rdConn', rdBack, rdGot)
  <2>1. rdBack = 0 /\ rdGot = <<>> /\ Run(rdGot, 0)
    BY <1>1, Zenon DEF RedirInv, ForwardOk, DownKept
  <2> QED
    BY <1>6, <2>1, Zenon DEF DownKept
<1> QED
  BY <1>6, <1>7, <1>8, <1>9, Zenon DEF RedirInv, ForwardOk

LEMMA TunnelConnects ==
    ASSUME PartialSends = {}, RedirInv, rdKind = "tunnel", rdConn.rsend,
           ~rdConn.connected, TunnelConnected,
           UNCHANGED <<rdKind, rdRead, rdBack, rdGot>>
    PROVE  RedirInv'
<1> DEFINE e == client_encode(rdObfs, HeadFirst(rdConn.rbuf))
<1>1. /\ IsForward(rdConn) /\ rdConn.live = TRUE /\ rdConn.connected = FALSE
      /\ rdConn.send = FALSE /\ rdConn.rtimer = FALSE
  BY ForwardTypes, Zenon DEF RedirInv, ForwardOk, Watchers, IsForward
<1>2. e.out \in Seq(Int) /\ rdSent = <<>>
  BY <1>1, FirstOut, BeforeConnect, Zenon
<1>3. /\ rdObfs' = e.obfs /\ rdSent' = rdSent \o e.out
      /\ rdConn' = [rdConn EXCEPT !.connected = TRUE, !.rsend = FALSE,
                      !.ctimer = FALSE, !.rbuf = RdEmpty, !.rrecv = TRUE, !.recv = TRUE]
  BY Zenon DEF TunnelConnected
<1> HIDE DEF e
<1>4. rdSent' = e.out
  BY <1>2, <1>3, JoinEmptyOfStream, Zenon
<1>5. /\ IsForward(rdConn') /\ rdConn'.rbuf = RdEmpty
      /\ rdConn'.live = TRUE /\ rdConn'.connected = TRUE /\ rdConn'.recv = TRUE
      /\ rdConn'.rsend = FALSE /\ rdConn'.send = FALSE
      /\ rdConn'.rrecv = TRUE /\ rdConn'.ctimer = FALSE
      /\ rdConn'.rtimer = FALSE
  BY <1>1, <1>3, EmptyRest, Zenon DEF IsForward
<1>6. /\ IsObfs(rdObfs') /\ UpInOrder(rdSent', RecordsOf(rdObfs'))
      /\ UpKept(rdConn', rdObfs', rdRead, rdSent')
  BY <1>1, <1>3, <1>4, <1>5, FirstUp DEF e
<1>7. Watchers(rdConn', rdKind)
  BY <1>5, SMTT(30) DEF Watchers
<1>8. DownKept(rdConn', rdBack, rdGot)
  <2>1. rdBack = 0 /\ rdGot = <<>> /\ Run(rdGot, 0)
    BY <1>1, Zenon DEF RedirInv, ForwardOk, DownKept
  <2> QED
    BY <1>5, <2>1, Zenon DEF DownKept
<1> QED
  BY <1>5, <1>6, <1>7, <1>8, Zenon DEF RedirInv, ForwardOk

(* The plugin's handshake is answered. *)
LEMMA SendBackKeeps ==
    ASSUME PartialSends = {}, RedirInv, rdConn.rrecv, Answering(rdObfs),
           SendBack(rdConn), UNCHANGED <<rdKind, rdRead, rdBack, rdGot>>
    PROVE  RedirInv'
<1> DEFINE e == client_encode(rdObfs, <<>>)
<1>1. /\ IsForward(rdConn) /\ rdConn.live = TRUE /\ rdConn.connected = TRUE
  BY ForwardTypes, ZenonT(30) DEF RedirInv, ForwardOk, Watchers, IsForward
<1>2. IsObfs(rdObfs) /\ rdObfs.state = 1 /\ rdObfs.kind = "ticket"
  BY ForwardTypes, Zenon DEF Answering
<1>3. /\ Len(rdSent) = 1 /\ Run(rdObfs.held, -1) /\ Len(rdObfs.held) = rdRead + 1
      /\ UpInOrder(rdSent, 2) /\ rdRead \in Nat
  BY <1>1, <1>2, Zenon DEF RedirInv, ForwardOk, UpKept, RecordsOf
<1>4. /\ e.out = <<-2>> \o rdObfs.held /\ IsObfs(e.obfs) /\ e.obfs.kind = "ticket"
      /\ e.obfs.state = 2
  BY <1>2, EncodeReleases, Zenon
<1>5. /\ UpInOrder(rdSent \o e.out, 2) /\ Len(rdSent \o e.out) = rdRead + 3
      /\ e.out \in Seq(Int)
  <2>1. /\ UpInOrder(rdSent \o (<<-2>> \o rdObfs.held), 2)
        /\ Len(rdSent \o (<<-2>> \o rdObfs.held)) = 2 + Len(rdObfs.held)
        /\ <<-2>> \o rdObfs.held \in Seq(Int)
    BY <1>3, UpAnswer
  <2>2. 2 + Len(rdObfs.held) = rdRead + 3
    BY <1>3
  <2> QED
    BY <1>4, <2>1, <2>2, Zenon
<1>6. /\ rdObfs' = e.obfs
      /\ rdSent' = rdSent \o SubSeq(e.out, 1, Len(e.out))
      /\ rdConn' = IF Len(e.out) < Len(e.out)
                   THEN [rdConn EXCEPT !.rbuf = Past(RdStore(e.out), Len(e.out))]
                   ELSE [rdConn EXCEPT !.rbuf = RdEmpty, !.rsend = FALSE, !.recv = TRUE]
  BY Zenon DEF SendBack, BackSends
<1> HIDE DEF e
<1>7. rdSent' = rdSent \o e.out
  BY <1>5, <1>6, WholeOfStream, Zenon
<1>8. rdConn' = [rdConn EXCEPT !.rbuf = RdEmpty, !.rsend = FALSE, !.recv = TRUE]
  <2>1. Len(e.out) \in Nat
    BY <1>5, LengthOfStream
  <2> QED
    BY <2>1, <1>6
<1>9. /\ IsForward(rdConn') /\ rdConn'.rbuf = RdEmpty /\ rdConn'.buf = rdConn.buf
      /\ rdConn'.live = TRUE /\ rdConn'.connected = TRUE /\ rdConn'.recv = TRUE
      /\ rdConn'.rsend = FALSE /\ rdConn'.send = rdConn.send
      /\ rdConn'.rrecv = rdConn.rrecv /\ rdConn'.ctimer = rdConn.ctimer
      /\ rdConn'.rtimer = rdConn.rtimer
  BY <1>1, <1>8, EmptyRest, Zenon DEF IsForward
<1>10. Watchers(rdConn', rdKind) /\ DownKept(rdConn', rdBack, rdGot)
  BY <1>1, <1>9, Zenon DEF RedirInv, ForwardOk, Watchers, DownKept
<1>11. RecordsOf(rdObfs') = 2 /\ IsObfs(rdObfs') /\ rdObfs'.state = 2
  BY <1>4, <1>6, Zenon DEF RecordsOf
<1>12. UpKept(rdConn', rdObfs', rdRead, rdSent')
  <2>1. Rest(rdConn'.rbuf) = <<>> /\ rdConn'.rbuf.len = 0
    BY <1>9, EmptyRest, Zenon
  <2>2. Len(rdSent') = rdRead + 3
    BY <1>5, <1>7
  <2>3. Len(rdSent') - 2 - 1 \in Int
    BY <2>2, <1>3
  <2>4. Run(Rest(rdConn'.rbuf), Len(rdSent') - RecordsOf(rdObfs') - 1)
    BY <2>1, <2>3, <1>11, RunEmpty, Zenon
  <2>5. /\ Len(rdSent') >= RecordsOf(rdObfs')
        /\ Len(rdSent') - RecordsOf(rdObfs') + rdConn'.rbuf.len = rdRead + 1
    BY <2>1, <2>2, <1>3, <1>11
  <2>6. rdConn'.rbuf.len > 0 => rdConn'.rsend
    BY <2>1
  <2>7. rdObfs'.state # 1 /\ rdObfs'.state # 0
    BY <1>11
  <2>8. rdConn'.live /\ rdConn'.connected /\ (rdConn'.recv <=> ~rdConn'.rsend)
    BY <1>9, Zenon
  <2> QED
    BY <2>4, <2>5, <2>6, <2>7, <2>8, Flowing, Zenon
<1>13. UpInOrder(rdSent', RecordsOf(rdObfs'))
  BY <1>5, <1>7, <1>11
<1> QED
  BY <1>9, <1>10, <1>11, <1>12, <1>13, Zenon DEF RedirInv, ForwardOk

(* Bytes of the server, and the rest of an earlier read. *)
LEMMA DownloadKeeps ==
    ASSUME RedirInv, rdConn.rrecv, NEW n \in Nat, n > 0, Download(rdConn, n),
           UNCHANGED <<rdKind, rdRead>>
    PROVE  RedirInv'
<1> DEFINE data == [i \in 1..n |-> rdBack + i]
<1>1. PICK k \in 0..n :
        /\ rdGot' = rdGot \o SubSeq(data, 1, k)
        /\ rdConn' = IF k = n THEN [rdConn EXCEPT !.buf = RdStore(data)]
                     ELSE [rdConn EXCEPT !.buf = Past(RdStore(data), k),
                                         !.rrecv = FALSE, !.send = TRUE]
  BY Zenon DEF Download
<1>2. rdBack' = rdBack + n /\ UNCHANGED <<rdObfs, rdSent>>
  BY Zenon DEF Download
<1>3. /\ IsForward(rdConn) /\ rdConn.live = TRUE /\ rdConn.connected = TRUE
      /\ rdConn.send = FALSE /\ rdConn.rrecv = TRUE
  BY ForwardTypes, ZenonT(30) DEF RedirInv, ForwardOk, Watchers, IsForward
<1>4. /\ rdBack \in Nat /\ Run(rdGot, 0) /\ Len(rdGot) = rdBack
  BY <1>3, Zenon DEF RedirInv, ForwardOk, DownKept
<1>5. Run(data, rdBack) /\ Len(data) = n
  BY <1>4, RunMade
<1> HIDE DEF data
<1>6. /\ IsBuffer(Past(RdStore(data), k)) /\ Past(RdStore(data), k).len = n - k
      /\ Run(Rest(Past(RdStore(data), k)), rdBack + k)
      /\ Run(SubSeq(data, 1, k), rdBack) /\ Len(SubSeq(data, 1, k)) = k
  BY <1>4, <1>5, StoreSplit
<1>7. IsBuffer(RdStore(data))
  <2>1. data \in Seq(Int)
    BY <1>5, Zenon DEF Run
  <2> QED
    BY <2>1, RunStored, Zenon DEF RdStore
<1>8. Run(rdGot', 0) /\ Len(rdGot') = rdBack + k
  <2>1. Run(SubSeq(data, 1, k), 0 + Len(rdGot))
    BY <1>4, <1>6
  <2> QED
    BY <2>1, <1>1, <1>4, <1>6, RunJoin
<1>9. CASE k = n
  <2>1. rdConn' = [rdConn EXCEPT !.buf = RdStore(data)]
    BY <1>1, <1>9, Zenon
  <2>2. /\ IsForward(rdConn') /\ rdConn'.rbuf = rdConn.rbuf
        /\ rdConn'.live = TRUE /\ rdConn'.connected = TRUE /\ rdConn'.recv = rdConn.recv
        /\ rdConn'.rsend = rdConn.rsend /\ rdConn'.send = FALSE
        /\ rdConn'.rrecv = TRUE /\ rdConn'.ctimer = rdConn.ctimer
        /\ rdConn'.rtimer = rdConn.rtimer
    BY <2>1, <1>3, <1>7, Zenon DEF IsForward
  <2>3. Watchers(rdConn', rdKind) /\ UpKept(rdConn', rdObfs, rdRead, rdSent)
    BY <2>2, <1>3, ZenonT(30) DEF RedirInv, ForwardOk, Watchers, UpKept
  <2>4. DownKept(rdConn', rdBack', rdGot')
    BY <2>2, <1>2, <1>8, <1>9, Zenon DEF DownKept
  <2> QED
    BY <2>2, <2>3, <2>4, <1>2, <1>4 DEF RedirInv, ForwardOk
<1>10. CASE k # n
  <2>1. rdConn' = [rdConn EXCEPT !.buf = Past(RdStore(data), k),
                                 !.rrecv = FALSE, !.send = TRUE]
    BY <1>1, <1>10
  <2>2. /\ IsForward(rdConn') /\ rdConn'.rbuf = rdConn.rbuf
        /\ rdConn'.buf = Past(RdStore(data), k)
        /\ rdConn'.live = TRUE /\ rdConn'.connected = TRUE /\ rdConn'.recv = rdConn.recv
        /\ rdConn'.rsend = rdConn.rsend /\ rdConn'.send = TRUE
        /\ rdConn'.rrecv = FALSE /\ rdConn'.ctimer = rdConn.ctimer
        /\ rdConn'.rtimer = rdConn.rtimer
    BY <2>1, <1>3, <1>6, Zenon DEF IsForward
  <2>3. Watchers(rdConn', rdKind) /\ UpKept(rdConn', rdObfs, rdRead, rdSent)
    BY <2>2, <1>3, ZenonT(30) DEF RedirInv, ForwardOk, Watchers, UpKept
  <2>4. DownKept(rdConn', rdBack', rdGot')
    <3>1. Run(Rest(rdConn'.buf), Len(rdGot'))
      BY <2>2, <1>6, <1>8, SMTT(30)
    <3>2. rdConn'.buf.len = n - k
      BY <2>2, <1>6
    <3>3. Len(rdGot') + rdConn'.buf.len = rdBack'
      BY <3>2, <1>2, <1>4, <1>8
    <3> QED
      BY <3>1, <3>3, <2>2, <1>8, Zenon DEF DownKept
  <2> QED
    BY <2>2, <2>3, <2>4, <1>2, <1>4 DEF RedirInv, ForwardOk
<1> QED
  BY <1>9, <1>10, Zenon

LEMMA SendDownKeeps ==
    ASSUME RedirInv, SendDown
    PROVE  RedirInv'
<1>1. /\ IsForward(rdConn) /\ rdConn.live = TRUE /\ rdConn.connected = TRUE
      /\ rdConn.send = TRUE /\ rdConn.rrecv = FALSE
  BY ForwardTypes, Zenon DEF SendDown, RedirInv, ForwardOk, Watchers, IsForward
<1>2. UNCHANGED <<rdKind, rdRead, rdSent, rdBack>>
  BY Zenon DEF SendDown
<1>3. CASE End /\ UNCHANGED rdGot
  BY <1>2, <1>3, EndKeeps
<1>4. CASE \E n \in 0..rdConn.buf.len :
            /\ rdGot' = rdGot \o SubSeq(Pending(rdConn.buf), 1, n)
            /\ rdConn' = IF n < rdConn.buf.len
                         THEN [rdConn EXCEPT !.buf = Past(rdConn.buf, n)]
                         ELSE [rdConn EXCEPT !.buf = RdEmpty, !.send = FALSE,
                                             !.rrecv = TRUE]
            /\ UNCHANGED rdObfs
  <2> DEFINE b == rdConn.buf
  <2>1. PICK n \in 0..b.len :
            /\ rdGot' = rdGot \o SubSeq(Pending(b), 1, n)
            /\ rdConn' = IF n < b.len
                         THEN [rdConn EXCEPT !.buf = Past(b, n)]
                         ELSE [rdConn EXCEPT !.buf = RdEmpty, !.send = FALSE,
                                             !.rrecv = TRUE]
            /\ UNCHANGED rdObfs
    BY <1>4, Zenon
  <2>2. /\ IsBuffer(b) /\ b.len \in Nat /\ Run(Rest(b), Len(rdGot)) /\ Run(rdGot, 0)
        /\ Len(rdGot) + b.len = rdBack /\ Len(rdGot) \in Nat /\ rdBack \in Nat
    BY <1>1, ForwardTypes, Zenon DEF RedirInv, ForwardOk, DownKept
  <2>3. Pending(b) = Rest(b)
    BY Zenon DEF Pending, Rest
  <2> HIDE DEF b
  <2>4. /\ IsBuffer(Past(b, n)) /\ Past(b, n).len = b.len - n
        /\ Run(SubSeq(Rest(b), 1, n), Len(rdGot)) /\ Len(SubSeq(Rest(b), 1, n)) = n
        /\ Run(Rest(Past(b, n)), Len(rdGot) + n)
    BY <2>2, RunSplit
  <2>5. Run(rdGot', 0) /\ Len(rdGot') = Len(rdGot) + n
    <3>1. Run(SubSeq(Rest(b), 1, n), 0 + Len(rdGot))
      BY <2>2, <2>4
    <3> QED
      BY <3>1, <2>1, <2>2, <2>3, <2>4, RunJoin
  <2>6. CASE n = b.len
    <3>1. rdConn' = [rdConn EXCEPT !.buf = RdEmpty, !.send = FALSE, !.rrecv = TRUE]
      BY <2>1, <2>2, <2>6
    <3>2. /\ IsForward(rdConn') /\ rdConn'.rbuf = rdConn.rbuf
          /\ rdConn'.live = TRUE /\ rdConn'.connected = TRUE
          /\ rdConn'.recv = rdConn.recv /\ rdConn'.rsend = rdConn.rsend
          /\ rdConn'.send = FALSE /\ rdConn'.rrecv = TRUE
          /\ rdConn'.ctimer = rdConn.ctimer /\ rdConn'.rtimer = rdConn.rtimer
      BY <3>1, <1>1, EmptyRest, SMTT(30) DEF IsForward
    <3>3. Watchers(rdConn', rdKind) /\ UpKept(rdConn', rdObfs, rdRead, rdSent)
      BY <3>2, <1>1, ZenonT(30) DEF RedirInv, ForwardOk, Watchers, UpKept
    <3>4. DownKept(rdConn', rdBack, rdGot')
      BY <3>2, <2>2, <2>5, <2>6, Zenon DEF DownKept
    <3> QED
      BY <3>2, <3>3, <3>4, <1>2, <2>1 DEF RedirInv, ForwardOk
  <2>7. CASE n < b.len
    <3>1. rdConn' = [rdConn EXCEPT !.buf = Past(b, n)]
      BY <2>1, <2>7
    <3>2. /\ IsForward(rdConn') /\ rdConn'.rbuf = rdConn.rbuf
          /\ rdConn'.buf = Past(b, n)
          /\ rdConn'.live = TRUE /\ rdConn'.connected = TRUE
          /\ rdConn'.recv = rdConn.recv /\ rdConn'.rsend = rdConn.rsend
          /\ rdConn'.send = TRUE /\ rdConn'.rrecv = FALSE
          /\ rdConn'.ctimer = rdConn.ctimer /\ rdConn'.rtimer = rdConn.rtimer
      BY <3>1, <1>1, <2>4, SMTT(30) DEF IsForward
    <3>3. Watchers(rdConn', rdKind) /\ UpKept(rdConn', rdObfs, rdRead, rdSent)
      BY <3>2, <1>1, ZenonT(30) DEF RedirInv, ForwardOk, Watchers, UpKept
    <3>4. DownKept(rdConn', rdBack, rdGot')
      <4>1. Run(Rest(rdConn'.buf), Len(rdGot')) /\ rdConn'.buf.len = b.len - n
        BY <3>2, <2>4, <2>5, Zenon
      <4>2. Len(rdGot') + rdConn'.buf.len = rdBack
        BY <4>1, <2>2, <2>5
      <4> QED
        BY <4>1, <4>2, <3>2, <2>5, Zenon DEF DownKept
    <3> QED
      BY <3>2, <3>3, <3>4, <1>2, <2>1, Zenon DEF RedirInv, ForwardOk
  <2> QED
    BY <2>2, <2>6, <2>7
<1> QED
  BY <1>3, <1>4, Zenon DEF SendDown

LEMMA ReceiveDownKeeps ==
    ASSUME PartialSends = {}, RedirInv, ReceiveDown
    PROVE  RedirInv'
<1>1. rdConn.rrecv /\ UNCHANGED <<rdKind, rdRead>>
  BY Zenon DEF ReceiveDown
<1>2. CASE End /\ UNCHANGED <<rdSent, rdBack, rdGot>>
  BY <1>1, <1>2, EndKeeps, Zenon
<1>3. CASE Answering(rdObfs) /\ SendBack(rdConn) /\ UNCHANGED <<rdBack, rdGot>>
  BY <1>1, <1>3, SendBackKeeps, Zenon
<1>4. CASE \E n \in 1..RdBufSize : Download(rdConn, n)
  <2>1. PICK n \in 1..RdBufSize : Download(rdConn, n)
    BY <1>4, Zenon
  <2>2. n \in Nat /\ n > 0
    OBVIOUS
  <2> QED
    BY <1>1, <2>1, <2>2, DownloadKeeps, Zenon
<1> QED
  BY <1>2, <1>3, <1>4, Zenon DEF ReceiveDown

LEMMA RedirSends ==
    ASSUME PartialSends = {}, RedirInv, redir_remote_send_cb
    PROVE  RedirInv'
<1>1. rdKind = "redir" /\ rdConn.rsend /\ UNCHANGED <<rdKind, rdRead, rdBack, rdGot>>
  BY Zenon DEF redir_remote_send_cb
<1>2. CASE End /\ UNCHANGED rdSent
  BY <1>1, <1>2, EndKeeps, Zenon
<1>3. CASE ~rdConn.connected /\ RedirConnected
  BY <1>1, <1>3, RedirConnects, Zenon
<1>4. CASE rdConn.connected /\ rdConn.rbuf.len > 0 /\ SendRest(rdConn) /\ UNCHANGED rdObfs
  BY <1>1, <1>4, SendRestKeeps, Zenon
<1> QED
  BY <1>2, <1>3, <1>4, Zenon DEF redir_remote_send_cb

LEMMA TunnelSends ==
    ASSUME PartialSends = {}, RedirInv, tunnel_remote_send_cb
    PROVE  RedirInv'
<1>1. rdKind = "tunnel" /\ rdConn.rsend /\ UNCHANGED <<rdKind, rdRead, rdBack, rdGot>>
  BY Zenon DEF tunnel_remote_send_cb
<1>2. CASE End /\ UNCHANGED rdSent
  BY <1>1, <1>2, EndKeeps, Zenon
<1>3. CASE ~rdConn.connected /\ TunnelConnected
  BY <1>1, <1>3, TunnelConnects
<1>4. CASE rdConn.connected /\ rdConn.rbuf.len > 0 /\ SendRest(rdConn) /\ UNCHANGED rdObfs
  BY <1>1, <1>4, SendRestKeeps
<1> QED
  BY <1>2, <1>3, <1>4, Zenon DEF tunnel_remote_send_cb

LEMMA RedirStarts ==
    ASSUME RedirInit
    PROVE  RedirInv
<1>1. /\ IsForward(Gone) /\ Gone.live = FALSE /\ Gone.connected = FALSE
      /\ Gone.recv = FALSE /\ Gone.send = FALSE /\ Gone.rrecv = FALSE
      /\ Gone.rsend = FALSE /\ Gone.ctimer = FALSE /\ Gone.rtimer = FALSE
  BY EmptyRest, Zenon DEF IsForward, Gone
<1>2. /\ IsObfs(rdObfs) /\ rdObfs.state = 0
  <2>1. /\ DOMAIN rdObfs = {"kind", "state", "held"} /\ rdObfs.kind \in {"plain", "ticket"}
        /\ rdObfs.state = 0 /\ rdObfs.held = <<>>
    BY Zenon DEF RedirInit
  <2>2. <<>> \in Seq(Int)
    OBVIOUS
  <2> QED
    BY <2>1, <2>2 DEF IsObfs
<1>3. UpInOrder(<<>>, RecordsOf(rdObfs)) /\ Run(<<>>, 0)
  BY RunEmpty, SMTT(30) DEF UpInOrder
<1>4. /\ Watchers(Gone, rdKind) /\ UpKept(Gone, rdObfs, 0, <<>>)
      /\ DownKept(Gone, 0, <<>>)
  BY <1>1, <1>2, <1>3, Zenon DEF Watchers, UpKept, DownKept
<1> QED
  BY <1>1, <1>2, <1>3, <1>4, Zenon DEF RedirInit, RedirInv, ForwardOk

LEMMA RedirKeeps ==
    ASSUME PartialSends = {}, RedirInv, RedirNext \/ UNCHANGED redirVars
    PROVE  RedirInv'
<1>1. CASE AcceptFails
  BY <1>1 DEF AcceptFails, RedirInv
<1>2. CASE redir_accept_cb
  <2>1. rdKind = "redir" /\ ~rdConn.live /\ (AcceptFails \/ Accepted(TRUE))
    BY <1>2, Zenon DEF redir_accept_cb
  <2>2. TRUE = (rdKind = "redir")
    BY <2>1, Zenon
  <2> QED
    BY <1>1, <2>1, <2>2, ForwardAccepts, Zenon
<1>3. CASE tunnel_accept_cb
  <2>1. rdKind = "tunnel" /\ ~rdConn.live /\ (AcceptFails \/ Accepted(FALSE))
    BY <1>3, Zenon DEF tunnel_accept_cb
  <2>2. FALSE = (rdKind = "redir")
    BY <2>1, Zenon
  <2> QED
    BY <1>1, <2>1, <2>2, ForwardAccepts, Zenon
<1>4. CASE redir_server_recv_cb \/ tunnel_server_recv_cb
  BY <1>4, RedirReceives, TunnelReceives, Zenon
<1>5. CASE redir_remote_send_cb \/ tunnel_remote_send_cb
  BY <1>5, RedirSends, TunnelSends, Zenon
<1>6. CASE redir_remote_recv_cb \/ tunnel_remote_recv_cb
  BY <1>6, ReceiveDownKeeps DEF redir_remote_recv_cb, tunnel_remote_recv_cb
<1>7. CASE redir_server_send_cb \/ tunnel_server_send_cb
  BY <1>7, SendDownKeeps, Zenon DEF redir_server_send_cb, tunnel_server_send_cb
<1>8. CASE redir_remote_timeout_cb \/ tunnel_remote_timeout_cb
  BY <1>8, EndKeeps, Zenon DEF redir_remote_timeout_cb, tunnel_remote_timeout_cb, TimedOut
<1>9. CASE UNCHANGED redirVars
  BY <1>9, Zenon DEF redirVars, RedirInv
<1> QED
  BY <1>2, <1>3, <1>4, <1>5, <1>6, <1>7, <1>8, <1>9, Zenon DEF RedirNext

(* The inductive invariant says what the run checks. *)
LEMMA ForwardFollows ==
    ASSUME RedirInv
    PROVE  ForwardKept
<1>1. Records = RecordsOf(rdObfs)
  BY Zenon DEF Records, RecordsOf
<1> DEFINE up == IF Len(rdSent) > Records THEN Len(rdSent) - Records ELSE 0
<1>2. /\ \A i \in DOMAIN rdSent :
           rdSent[i] = IF i <= Records THEN -i ELSE i - Records - 1
      /\ \A i \in DOMAIN rdGot : rdGot[i] = i
  <2>1. /\ rdSent \in Seq(Int) /\ rdGot \in Seq(Int) /\ UpInOrder(rdSent, Records)
        /\ Run(rdGot, 0)
    BY <1>1, ForwardTypes, Zenon
  <2>2. DOMAIN rdSent = 1..Len(rdSent) /\ DOMAIN rdGot = 1..Len(rdGot)
    BY <2>1, LengthOfStream, Zenon
  <2> QED
    BY <2>1, <2>2 DEF UpInOrder, Run
<1>3. ASSUME rdConn.live, rdConn.connected
      PROVE  /\ up + Len(rdObfs.held) < rdRead + 1 => rdConn.rsend
             /\ Len(rdGot) < rdBack => rdConn.send
             /\ ~rdConn.recv => rdConn.rsend \/ Answering(rdObfs)
             /\ ~rdConn.rrecv => rdConn.send
  <2>1. /\ rdRead \in Nat /\ Len(rdSent) \in Nat /\ Records \in {0, 2}
        /\ rdConn.rbuf.len \in Nat /\ rdBack \in Nat /\ Len(rdGot) \in Nat
        /\ IsObfs(rdObfs)
    BY <1>1, ForwardTypes, Zenon
  <2>2. Len(rdGot) < rdBack => rdConn.send
    BY <1>3, <2>1 DEF RedirInv, ForwardOk, DownKept
  <2>3. ~rdConn.rrecv => rdConn.send
    BY <1>3 DEF RedirInv, ForwardOk, Watchers
  <2>4. CASE rdObfs.state = 1
    <3>1. /\ Len(rdSent) = 1 /\ Len(rdObfs.held) = rdRead + 1
          /\ rdObfs.kind = "ticket"
      BY <1>3, <2>1, <2>4, SMTT(30) DEF RedirInv, ForwardOk, UpKept, IsObfs
    <3>2. Records = 2 /\ Answering(rdObfs)
      BY <3>1, <2>4, Zenon DEF Records, Answering
    <3>3. up = 0
      BY <3>1, <3>2
    <3>4. ~(up + Len(rdObfs.held) < rdRead + 1)
      BY <3>1, <3>3, <2>1
    <3> QED
      BY <3>2, <3>4, <2>2, <2>3, Zenon
  <2>5. CASE rdObfs.state # 1
    <3>1. /\ Len(rdSent) >= Records /\ Len(rdSent) - Records + rdConn.rbuf.len = rdRead + 1
          /\ rdConn.rbuf.len > 0 => rdConn.rsend
          /\ ~rdConn.recv => rdConn.rsend
      BY <1>1, <1>3, <2>5, Zenon DEF RedirInv, ForwardOk, UpKept
    <3>2. Len(rdObfs.held) = 0
      <4>1. rdObfs.held = <<>>
        BY <2>1, <2>5, Zenon DEF IsObfs
      <4> QED
        BY <4>1
    <3>3. up = Len(rdSent) - Records
      BY <3>1, <2>1
    <3>4. up + Len(rdObfs.held) < rdRead + 1 => rdConn.rsend
      BY <3>1, <3>2, <3>3, <2>1, SMTT(30)
    <3> QED
      BY <3>1, <3>4, <2>2, <2>3, Zenon
  <2> QED
    BY <2>4, <2>5, Zenon
<1>4. /\ rdConn.live => rdConn.connected \/ (rdConn.ctimer /\ rdConn.rsend)
      /\ rdConn.live /\ rdKind = "redir" => rdConn.ctimer \/ rdConn.rtimer
      /\ ~rdConn.live => ~(rdConn.recv \/ rdConn.send \/ rdConn.rrecv
                             \/ rdConn.rsend \/ rdConn.ctimer \/ rdConn.rtimer)
  BY Zenon DEF RedirInv, ForwardOk, Watchers
<1> QED
  BY <1>2, <1>3, <1>4, Zenon DEF ForwardKept

-----------------------------------------------------------------------------
(* The connection of the event-driven server. *)

EvStages == {"INIT", "HANDSHAKE", "ERROR", "PARSE", "RESOLVE", "STREAM"}

IsEnds(c) ==
    /\ DOMAIN c = {"server", "stage", "buf", "header_buf", "recv", "send", "timer",
                   "query", "remotep", "remote", "rbuf", "rrecv", "rsend",
                   "connected", "serverp"}
    /\ c.server \in BOOLEAN /\ c.recv \in BOOLEAN /\ c.send \in BOOLEAN
    /\ c.timer \in BOOLEAN /\ c.query \in BOOLEAN /\ c.remotep \in BOOLEAN
    /\ c.remote \in BOOLEAN /\ c.rrecv \in BOOLEAN /\ c.rsend \in BOOLEAN
    /\ c.connected \in BOOLEAN /\ c.serverp \in BOOLEAN
    /\ c.stage \in EvStages
    /\ IsBuffer(c.buf) /\ IsBuffer(c.rbuf) /\ c.header_buf \in Seq(Int)

Owned(c, live) ==
    /\ (c.remote <=> c.remotep) /\ (c.remotep <=> c.serverp) /\ (c.query <=> live)
    /\ ~c.server => /\ ~c.recv /\ ~c.send /\ ~c.timer /\ ~c.query /\ ~c.remote
    /\ c.server => c.timer
    /\ ~c.remote => /\ ~c.rrecv /\ ~c.rsend /\ ~c.send /\ ~c.connected
                    /\ c.rbuf = Empty
    /\ c.query => c.stage = "RESOLVE" /\ ~c.recv /\ ~c.remote
    /\ c.server /\ c.remote => c.stage \in {"PARSE", "RESOLVE", "STREAM"}
    /\ c.server /\ ~c.remote => c.stage \in {"INIT", "HANDSHAKE", "ERROR", "RESOLVE"}

(* The payload bytes received so far. *)
Payload(read) == read - IvLen - HeaderLen

(* Before the remote end is made. *)
Reading(c, read, sent) ==
    /\ sent = <<>>
    /\ c.stage = "INIT" =>
         /\ c.buf.idx = 0 /\ c.buf.len = read /\ Len(c.buf.data) = read
         /\ Run(c.buf.data, -IvLen) /\ c.header_buf = <<>>
    /\ c.stage = "HANDSHAKE" =>
         Run(c.header_buf, 0) /\ Len(c.header_buf) = read - IvLen
    /\ c.stage = "RESOLVE" =>
         /\ c.buf.idx = 0 /\ c.buf.len = Payload(read)
         /\ Len(c.buf.data) = Payload(read)
         /\ Run(c.buf.data, HeaderLen) /\ ~c.recv

(* With the remote end, until all is sent that was read before. *)
Relaying(c, read, sent) ==
    /\ c.rsend => /\ Run(Rest(c.rbuf), HeaderLen + Len(sent))
                  /\ Len(sent) + c.rbuf.len = Payload(read)
    /\ ~c.rsend => Len(sent) = Payload(read)
    /\ c.recv <=> ~c.rsend
    /\ c.stage # "STREAM" => c.rsend /\ ~c.rrecv /\ ~c.send
    /\ c.stage = "STREAM" => c.connected /\ (c.rrecv <=> ~c.send)

Returning(c, back, got) ==
    /\ c.send => Run(Rest(c.buf), Len(got)) /\ Len(got) + c.buf.len = back
    /\ ~c.send => Len(got) = back

EndsOk(c, live, read, sent, back, got) ==
    /\ IsEnds(c) /\ Owned(c, live) /\ read \in Nat /\ back \in Nat
    /\ Run(sent, HeaderLen) /\ Run(got, 0)
    /\ c.server /\ ~c.remote => Reading(c, read, sent)
    /\ c.server /\ c.remote => Relaying(c, read, sent)
    /\ c.server => Returning(c, back, got)

IsQuery(q) == DOMAIN q = {"live", "a4", "a6", "responses"} /\ q.live \in BOOLEAN

ServerEvInv ==
    /\ IsQuery(svQuery)
    /\ EndsOk(svConn, svQuery.live, svRead, svSent, svBack, svGot)


(* Both ends are gone. *)
AtEnd(d) ==
    /\ IsEnds(d) /\ d.server = FALSE /\ d.recv = FALSE /\ d.send = FALSE
    /\ d.timer = FALSE /\ d.query = FALSE /\ d.remotep = FALSE /\ d.remote = FALSE
    /\ d.serverp = FALSE /\ d.rrecv = FALSE /\ d.rsend = FALSE
    /\ d.connected = FALSE /\ d.rbuf = Empty

(* The server end, without a remote end or a query. *)
Alone(c) ==
    /\ IsEnds(c) /\ c.server = TRUE /\ c.timer = TRUE /\ c.send = FALSE
    /\ c.query = FALSE /\ c.remotep = FALSE /\ c.remote = FALSE
    /\ c.serverp = FALSE /\ c.rrecv = FALSE /\ c.rsend = FALSE
    /\ c.connected = FALSE /\ c.rbuf = Empty

LEMMA EmptyBuffer ==
    IsBuffer(Empty) /\ Empty.len = 0 /\ Empty.idx = 0 /\ Rest(Empty) = <<>>
BY NoPartOfStream, SMTT(30) DEF IsBuffer, Empty, Rest

(* close_and_free_server, by itself and before or after the remote's. *)
LEMMA ServerEndCloses ==
    ASSUME NEW c, IsEnds(c)
    PROVE  LET d == close_and_free_server(c) IN
           /\ IsEnds(d) /\ d.server = FALSE /\ d.recv = FALSE /\ d.send = FALSE
           /\ d.timer = FALSE /\ d.query = FALSE /\ d.remotep = FALSE
           /\ d.remote = c.remote /\ d.rrecv = c.rrecv /\ d.rsend = c.rsend
           /\ d.connected = c.connected /\ d.rbuf = c.rbuf
           /\ d.serverp = IF c.remotep THEN FALSE ELSE c.serverp
<1> DEFINE e == [c EXCEPT !.query = FALSE, !.send = FALSE, !.recv = FALSE, !.timer = FALSE]
           d == free_server(e)
<1>1. /\ IsEnds(e) /\ e.recv = FALSE /\ e.send = FALSE /\ e.timer = FALSE
      /\ e.query = FALSE /\ e.remote = c.remote /\ e.rrecv = c.rrecv
      /\ e.rsend = c.rsend /\ e.connected = c.connected /\ e.rbuf = c.rbuf
      /\ e.serverp = c.serverp /\ e.remotep = c.remotep
  BY Zenon DEF IsEnds
<1> HIDE DEF e
<1>2. "INIT" \in EvStages /\ <<>> \in Seq(Int) /\ IsBuffer(Empty)
  BY EmptyBuffer DEF EvStages
<1>3. /\ IsEnds(d) /\ d.server = FALSE /\ d.recv = e.recv /\ d.send = e.send
      /\ d.timer = e.timer /\ d.query = e.query /\ d.remotep = FALSE
      /\ d.remote = e.remote /\ d.rrecv = e.rrecv /\ d.rsend = e.rsend
      /\ d.connected = e.connected /\ d.rbuf = e.rbuf
      /\ d.serverp = IF e.remotep THEN FALSE ELSE e.serverp
  BY <1>1, <1>2, Zenon DEF IsEnds, free_server
<1>4. close_and_free_server(c) = d
  BY Zenon DEF close_and_free_server, e
<1> HIDE DEF d
<1> QED
  BY <1>1, <1>3, <1>4, Zenon

LEMMA RemoteEndCloses ==
    ASSUME NEW c, IsEnds(c)
    PROVE  LET d == close_and_free_remote(c, TRUE) IN
           /\ IsEnds(d) /\ d.remote = FALSE /\ d.rrecv = FALSE /\ d.rsend = FALSE
           /\ d.connected = FALSE /\ d.rbuf = Empty /\ d.serverp = FALSE
           /\ d.remotep = IF c.serverp THEN FALSE ELSE c.remotep
           /\ d.server = c.server /\ d.recv = c.recv /\ d.send = c.send
           /\ d.timer = c.timer /\ d.query = c.query
<1> DEFINE e == [c EXCEPT !.rsend = FALSE, !.rrecv = FALSE]
           d == free_remote(e)
<1>1. /\ IsEnds(e) /\ e.rsend = FALSE /\ e.rrecv = FALSE /\ e.server = c.server
      /\ e.recv = c.recv /\ e.send = c.send /\ e.timer = c.timer /\ e.query = c.query
      /\ e.remotep = c.remotep /\ e.serverp = c.serverp
  BY Zenon DEF IsEnds
<1> HIDE DEF e
<1>2. IsBuffer(Empty)
  BY EmptyBuffer, Zenon
<1>3. /\ IsEnds(d) /\ d.remote = FALSE /\ d.rrecv = e.rrecv /\ d.rsend = e.rsend
      /\ d.connected = FALSE /\ d.rbuf = Empty /\ d.serverp = FALSE
      /\ d.remotep = IF e.serverp THEN FALSE ELSE e.remotep
      /\ d.server = e.server /\ d.recv = e.recv /\ d.send = e.send
      /\ d.timer = e.timer /\ d.query = e.query
  BY <1>1, <1>2, Zenon DEF IsEnds, free_remote
<1>4. close_and_free_remote(c, TRUE) = d
  BY Zenon DEF close_and_free_remote, e
<1> HIDE DEF d
<1> QED
  BY <1>1, <1>3, <1>4, Zenon

(* Either order of the two leaves nothing behind. *)
LEMMA BothEndsClose ==
    ASSUME NEW c, NEW live, IsEnds(c), Owned(c, live)
    PROVE  /\ AtEnd(Closed(c))
           /\ AtEnd(close_and_free_remote(close_and_free_server(c), c.remotep))
<1> DEFINE d == close_and_free_remote(c, TRUE)
           e == close_and_free_server(c)
<1>1. CASE c.remotep = TRUE
  <2>1. c.serverp = TRUE
    BY <1>1, Zenon DEF Owned, IsEnds
  <2>2. /\ IsEnds(d) /\ d.remote = FALSE /\ d.rrecv = FALSE /\ d.rsend = FALSE
        /\ d.connected = FALSE /\ d.rbuf = Empty /\ d.serverp = FALSE
        /\ d.remotep = FALSE
    BY <2>1, RemoteEndCloses, Zenon
  <2>3. AtEnd(close_and_free_server(d))
    <3> HIDE DEF d
    <3> QED
      BY <2>2, ServerEndCloses, Zenon DEF AtEnd
  <2>4. AtEnd(Closed(c))
    BY <1>1, <2>3, Zenon DEF Closed
  <2>5. /\ IsEnds(e) /\ e.server = FALSE /\ e.recv = FALSE /\ e.send = FALSE
        /\ e.timer = FALSE /\ e.query = FALSE /\ e.remotep = FALSE
        /\ e.serverp = FALSE
    BY <1>1, ServerEndCloses, Zenon
  <2>6. AtEnd(close_and_free_remote(e, TRUE))
    <3> HIDE DEF e
    <3> QED
      BY <2>5, RemoteEndCloses, Zenon DEF AtEnd
  <2> QED
    BY <1>1, <2>4, <2>6, Zenon
<1>2. CASE c.remotep = FALSE
  <2>1. /\ c.serverp = FALSE /\ c.remote = FALSE /\ c.rrecv = FALSE /\ c.rsend = FALSE
        /\ c.connected = FALSE /\ c.rbuf = Empty
    BY <1>2, Zenon DEF Owned, IsEnds
  <2>2. AtEnd(e)
    <3>1. /\ IsEnds(e) /\ e.server = FALSE /\ e.recv = FALSE /\ e.send = FALSE
          /\ e.timer = FALSE /\ e.query = FALSE /\ e.remotep = FALSE
          /\ e.remote = c.remote /\ e.rrecv = c.rrecv /\ e.rsend = c.rsend
          /\ e.connected = c.connected /\ e.rbuf = c.rbuf
          /\ e.serverp = IF c.remotep THEN FALSE ELSE c.serverp
      BY ServerEndCloses, Zenon
    <3> HIDE DEF e
    <3> QED
      BY <3>1, <2>1, <1>2, Zenon DEF AtEnd
  <2>3. /\ close_and_free_remote(c, c.remotep) = c
        /\ close_and_free_remote(e, c.remotep) = e
    BY <1>2, Zenon DEF close_and_free_remote
  <2> QED
    BY <2>2, <2>3, Zenon DEF Closed
<1> QED
  BY <1>1, <1>2, Zenon DEF IsEnds

(* Nothing is owed once both ends are gone. *)
LEMMA EndIsOk ==
    ASSUME NEW d, AtEnd(d), NEW live, live = FALSE, NEW read \in Nat, NEW back \in Nat,
           NEW sent, Run(sent, HeaderLen), NEW got, Run(got, 0)
    PROVE  EndsOk(d, live, read, sent, back, got)
BY Zenon DEF AtEnd, EndsOk, Owned

LEMMA ServerEvTypes ==
    ASSUME ServerEvInv
    PROVE  /\ IsEnds(svConn) /\ Owned(svConn, svQuery.live) /\ IsQuery(svQuery)
           /\ svRead \in Nat /\ svBack \in Nat /\ Run(svSent, HeaderLen)
           /\ Run(svGot, 0) /\ svSent \in Seq(Int) /\ Len(svSent) \in Nat
           /\ svGot \in Seq(Int) /\ Len(svGot) \in Nat
           /\ IvLen \in Nat /\ HeaderLen \in Nat /\ HeaderLen >= 2
<1>1. /\ IsEnds(svConn) /\ Owned(svConn, svQuery.live) /\ IsQuery(svQuery)
      /\ svRead \in Nat /\ svBack \in Nat /\ Run(svSent, HeaderLen) /\ Run(svGot, 0)
  BY Zenon DEF ServerEvInv, EndsOk
<1>2. svSent \in Seq(Int) /\ svGot \in Seq(Int)
  BY <1>1, Zenon DEF Run
<1>3. Len(svSent) \in Nat /\ Len(svGot) \in Nat
  BY <1>2, LengthOfStream, Zenon
<1>4. IvLen \in Nat /\ HeaderLen \in Nat /\ HeaderLen >= 2
  BY ServerEvAssumption
<1> QED
  BY <1>1, <1>2, <1>3, <1>4, Zenon

(* close_and_free_server cancels the query. *)
LEMMA CancelledEnds ==
    ASSUME ServerEvInv
    PROVE  IsQuery(Cancelled(svConn)) /\ Cancelled(svConn).live = FALSE
<1>1. IsQuery(NoQuery) /\ NoQuery.live = FALSE
  BY Zenon DEF IsQuery, NoQuery
<1>2. CASE svConn.query
  BY <1>1, <1>2, Zenon DEF Cancelled, resolv_cancel
<1>3. CASE ~svConn.query
  <2>1. Cancelled(svConn) = svQuery
    BY <1>3, Zenon DEF Cancelled
  <2>2. ~svQuery.live /\ IsQuery(svQuery)
    BY <1>3, ServerEvTypes, Zenon DEF Owned
  <2> QED
    BY <2>1, <2>2, Zenon DEF IsQuery
<1> QED
  BY <1>2, <1>3, Zenon

(* Every callback that gives up. *)
LEMMA DropKeeps ==
    ASSUME ServerEvInv, Drop(svConn), svRead' \in Nat, svBack' \in Nat,
           UNCHANGED svSent, UNCHANGED svGot
    PROVE  ServerEvInv'
<1>1. AtEnd(svConn')
  BY ServerEvTypes, BothEndsClose, Zenon DEF Drop
<1>2. IsQuery(svQuery') /\ svQuery'.live = FALSE
  BY CancelledEnds, Zenon DEF Drop
<1>3. EndsOk(svConn', svQuery'.live, svRead', svSent', svBack', svGot')
  BY <1>1, <1>2, ServerEvTypes, EndIsOk, Zenon
<1> QED
  BY <1>2, <1>3, Zenon DEF ServerEvInv

(* A server end that gives up before it has a remote end. *)
LEMMA LoneEndCloses ==
    ASSUME NEW c, Alone(c)
    PROVE  AtEnd(close_and_free_server(c))
<1> DEFINE e == close_and_free_server(c)
<1>1. /\ IsEnds(e) /\ e.server = FALSE /\ e.recv = FALSE /\ e.send = FALSE
      /\ e.timer = FALSE /\ e.query = FALSE /\ e.remotep = FALSE
      /\ e.remote = c.remote /\ e.rrecv = c.rrecv /\ e.rsend = c.rsend
      /\ e.connected = c.connected /\ e.rbuf = c.rbuf
      /\ e.serverp = IF c.remotep THEN FALSE ELSE c.serverp
  BY ServerEndCloses, Zenon DEF Alone
<1> HIDE DEF e
<1>2. e.serverp = FALSE
  BY <1>1, Zenon DEF Alone
<1> QED
  BY <1>1, <1>2, Zenon DEF AtEnd, Alone, e

(* What connect_to_remote may answer when fast open takes all or nothing. *)
LEMMA ConnectAnswers ==
    ASSUME NEW b, IsBuffer(b), NEW r \in connect_to_remote(b)
    PROVE  /\ r.ok \in BOOLEAN /\ r.taken \in 0..b.len
           /\ ~r.ok => r.taken = 0
           /\ "part" \notin FastOpenSends => r.taken \in {0, b.len}
<1>1. b.len \in Nat
  BY Zenon DEF IsBuffer
<1>2. CASE r = Refused
  BY <1>1, <1>2 DEF Refused
<1>3. CASE r \in FastSends(b.len)
  BY <1>1, <1>3, Zenon DEF FastSends
<1>4. CASE r \in [ok : BOOLEAN, taken : {0}, fast : {FALSE}]
  BY <1>1, <1>4
<1>5. CASE r = [ok |-> TRUE, taken |-> 0, fast |-> FALSE]
  BY <1>1, <1>5
<1> QED
  BY <1>2, <1>3, <1>4, <1>5, Zenon DEF connect_to_remote

(* The remote end is made, with what fast open has not taken. *)
LEMMA ConnectJoins ==
    ASSUME NEW c, Alone(c), c.stage \in {"PARSE", "RESOLVE"}, NEW r, r.ok,
           NEW b, IsBuffer(b), NEW left \in Seq(Int), Len(left) = b.len,
           NEW read \in Nat, NEW sent, Run(sent, HeaderLen),
           Run(left, HeaderLen + Len(sent)), Len(sent) + b.len = Payload(read),
           NEW got, Run(got, 0), NEW back \in Nat, Len(got) = back
    PROVE  EndsOk(Connect(c, r, b, left), FALSE, read, sent, back, got)
<1> DEFINE j == Joined(new_remote(c))
           h == Handed(j, b, left)
           d == [h EXCEPT !.rsend = TRUE, !.recv = FALSE]
<1>1. /\ IsEnds(j) /\ j.server = TRUE /\ j.timer = TRUE /\ j.send = FALSE
      /\ j.query = FALSE /\ j.remotep = TRUE /\ j.remote = TRUE
      /\ j.serverp = TRUE /\ j.rrecv = FALSE
      /\ j.connected = FALSE /\ j.rbuf = Empty /\ j.stage = c.stage
  BY Zenon DEF Alone, IsEnds, Joined, new_remote
<1> HIDE DEF j
<1>2. b.len \in Nat /\ IsBuffer(Store(left)) /\ Rest(Store(left)) = left
      /\ Store(left).len = b.len
  <2>1. IsBuffer(Store(left)) /\ Rest(Store(left)) = left /\ Store(left).len = Len(left)
    BY RunStored, Zenon DEF Store
  <2> QED
    BY <2>1, Zenon DEF IsBuffer
<1>3. /\ IsEnds(h) /\ h.server = TRUE /\ h.timer = TRUE /\ h.send = FALSE
      /\ h.query = FALSE /\ h.remotep = TRUE /\ h.remote = TRUE
      /\ h.serverp = TRUE /\ h.rrecv = FALSE
      /\ h.connected = FALSE /\ h.stage = c.stage
      /\ Rest(h.rbuf) = left /\ h.rbuf.len = b.len
  <2>1. CASE b.len > 0
    <3>1. h = [j EXCEPT !.rbuf = Store(left), !.buf = Empty]
      BY <2>1, Zenon DEF Handed
    <3>2. /\ IsEnds(h) /\ h.server = TRUE /\ h.timer = TRUE /\ h.send = FALSE
          /\ h.query = FALSE /\ h.remotep = TRUE /\ h.remote = TRUE
          /\ h.serverp = TRUE /\ h.rrecv = FALSE
          /\ h.connected = FALSE /\ h.stage = c.stage /\ h.rbuf = Store(left)
      BY <3>1, <1>1, <1>2, EmptyBuffer, ZenonT(30) DEF IsEnds
    <3> HIDE DEF h
    <3> QED
      BY <3>2, <1>2, Zenon
  <2>2. CASE b.len = 0
    <3>1. h = [j EXCEPT !.buf = b]
      BY <2>2 DEF Handed
    <3>2. /\ IsEnds(h) /\ h.server = TRUE /\ h.timer = TRUE /\ h.send = FALSE
          /\ h.query = FALSE /\ h.remotep = TRUE /\ h.remote = TRUE
          /\ h.serverp = TRUE /\ h.rrecv = FALSE
          /\ h.connected = FALSE /\ h.stage = c.stage /\ h.rbuf = Empty
      BY <3>1, <1>1, Zenon DEF IsEnds
    <3>3. left = <<>>
      BY <2>2, EmptyOfStream, Zenon
    <3> HIDE DEF h
    <3> QED
      BY <3>2, <3>3, <2>2, EmptyBuffer, Zenon
  <2>3. b.len > 0 \/ b.len = 0
    BY <1>2
  <2> QED
    BY <2>1, <2>2, <2>3, Zenon
<1> HIDE DEF h
<1>4. /\ IsEnds(d) /\ d.server = TRUE /\ d.timer = TRUE /\ d.send = FALSE
      /\ d.query = FALSE /\ d.remotep = TRUE /\ d.remote = TRUE
      /\ d.serverp = TRUE /\ d.rrecv = FALSE /\ d.rsend = TRUE /\ d.recv = FALSE
      /\ d.connected = FALSE /\ d.stage = c.stage
      /\ Rest(d.rbuf) = left /\ d.rbuf.len = b.len
  BY <1>3, Zenon DEF IsEnds
<1>5. Connect(c, r, b, left) = d
  BY Zenon DEF Connect, h, j
<1> HIDE DEF d
<1>6. Owned(d, FALSE)
  BY <1>4, ZenonT(30) DEF Owned
<1>7. Relaying(d, read, sent)
  BY <1>4, ZenonT(30) DEF Relaying
<1>8. Returning(d, back, got)
  BY <1>4, Zenon DEF Returning
<1> QED
  BY <1>4, <1>5, <1>6, <1>7, <1>8, Zenon DEF EndsOk

(* n bytes of a buffer follow what was sent. *)
LEMMA SentMore ==
    ASSUME NEW a \in Int, NEW sent, Run(sent, a), NEW b, IsBuffer(b),
           Run(Rest(b), a + Len(sent)), NEW n \in 0..b.len
    PROVE  /\ Run(sent \o SubSeq(Rest(b), 1, n), a)
           /\ Len(sent \o SubSeq(Rest(b), 1, n)) = Len(sent) + n
           /\ IsBuffer(Past(b, n)) /\ Past(b, n).len = b.len - n
           /\ Run(Rest(Past(b, n)), a + Len(sent \o SubSeq(Rest(b), 1, n)))
<1>1. Len(sent) \in Nat /\ a + Len(sent) \in Int
  BY LengthOfStream DEF Run
<1>2. /\ IsBuffer(Past(b, n)) /\ Past(b, n).len = b.len - n
      /\ Run(SubSeq(Rest(b), 1, n), a + Len(sent)) /\ Len(SubSeq(Rest(b), 1, n)) = n
      /\ Run(Rest(Past(b, n)), (a + Len(sent)) + n)
  BY <1>1, RunSplit, Zenon
<1>3. /\ Run(sent \o SubSeq(Rest(b), 1, n), a)
      /\ Len(sent \o SubSeq(Rest(b), 1, n)) = Len(sent) + n
  BY <1>2, RunJoin, Zenon
<1>4. (a + Len(sent)) + n = a + Len(sent \o SubSeq(Rest(b), 1, n))
  BY <1>1, <1>3, SMTT(30)
<1> QED
  BY <1>2, <1>3, <1>4, Zenon

LEMMA AloneOk ==
    ASSUME NEW d, Alone(d), d.stage \in {"INIT", "HANDSHAKE", "ERROR", "RESOLVE"},
           NEW read \in Nat, NEW sent, sent = <<>>, Reading(d, read, sent),
           NEW back \in Nat, NEW got, Run(got, 0), Len(got) = back
    PROVE  EndsOk(d, FALSE, read, sent, back, got)
<1>1. Owned(d, FALSE)
  BY Zenon DEF Alone, Owned
<1>2. Run(sent, HeaderLen)
  BY RunEmpty, ServerEvAssumption
<1>3. Returning(d, back, got)
  BY Zenon DEF Returning, Alone
<1>4. IsEnds(d) /\ d.remote = FALSE
  BY Zenon DEF Alone
<1> QED
  BY <1>1, <1>2, <1>3, <1>4, ZenonT(30) DEF EndsOk

(* A server end that reads, as the invariant describes it. *)
LEMMA LoneFacts ==
    ASSUME ServerEvInv, svConn.server, ~svConn.remote, ~svConn.query
    PROVE  /\ Alone(svConn) /\ svQuery.live = FALSE /\ svSent = <<>>
           /\ Reading(svConn, svRead, svSent) /\ Len(svGot) = svBack
<1>1. /\ IsEnds(svConn) /\ Owned(svConn, svQuery.live) /\ svQuery.live \in BOOLEAN
  BY ServerEvTypes, Zenon DEF IsQuery
<1>2. /\ svConn.timer /\ ~svConn.remotep /\ ~svConn.serverp /\ ~svConn.rrecv
      /\ ~svConn.rsend /\ ~svConn.send /\ ~svConn.connected /\ svConn.rbuf = Empty
      /\ ~svQuery.live
  BY <1>1, Zenon DEF Owned
<1>3. Alone(svConn) /\ svQuery.live = FALSE
  BY <1>1, <1>2, Zenon DEF Alone, IsEnds
<1>4. Reading(svConn, svRead, svSent) /\ Returning(svConn, svBack, svGot)
  BY Zenon DEF ServerEvInv, EndsOk
<1> QED
  BY <1>2, <1>3, <1>4, Zenon DEF Reading, Returning

(* Nothing has gone to the destination, and all it sent has been passed on. *)
Unanswered == svSent = <<>> /\ Len(svGot) = svBack /\ svQuery.live = FALSE

(* The bytes read so far, after the IV. *)
AfterIv(data, read) == read \in Nat /\ Run(data, 0) /\ Len(data) = read - IvLen

(* The connection ends before there is a remote end. *)
LEMMA LoneEnds ==
    ASSUME ServerEvInv, svQuery.live = FALSE,
           UNCHANGED svQuery, UNCHANGED svBack, UNCHANGED svGot,
           svRead' \in Nat, Run(svSent', HeaderLen), NEW c, Alone(c),
           svConn' = close_and_free_server(c)
    PROVE  ServerEvInv'
<1>1. AtEnd(svConn')
  BY LoneEndCloses, Zenon
<1>2. svQuery'.live = FALSE /\ IsQuery(svQuery') /\ svBack' \in Nat /\ Run(svGot', 0)
  BY ServerEvTypes, Zenon
<1>3. EndsOk(svConn', svQuery'.live, svRead', svSent', svBack', svGot')
  BY <1>1, <1>2, EndIsOk, Zenon
<1> QED
  BY <1>2, <1>3, Zenon DEF ServerEvInv

(* The query of the name in the header; the payload waits in the buffer. *)
Resolving(p, b, a) ==
    [p EXCEPT !.stage = "RESOLVE", !.buf = b, !.query = a, !.recv = FALSE]
HoldsPayload(b, read) ==
    /\ IsBuffer(b) /\ b.idx = 0 /\ b.len = Payload(read)
    /\ Len(b.data) = Payload(read) /\ Run(b.data, HeaderLen)

LEMMA QueryKeeps ==
    ASSUME ServerEvInv, Unanswered,
           UNCHANGED svSent, UNCHANGED svBack, UNCHANGED svGot, svRead' \in Nat,
           NEW p, Alone(p), NEW b, HoldsPayload(b, svRead'),
           NEW a4 \in BOOLEAN, NEW a6 \in BOOLEAN,
           svQuery' = resolv_query(a4, a6), svConn' = Resolving(p, b, a4 \/ a6)
    PROVE  ServerEvInv'
<1> DEFINE d == svConn'
<1>1. /\ IsEnds(d) /\ d.server = TRUE /\ d.timer = TRUE /\ d.send = FALSE
      /\ d.remotep = FALSE /\ d.remote = FALSE /\ d.serverp = FALSE
      /\ d.rrecv = FALSE /\ d.rsend = FALSE /\ d.connected = FALSE
      /\ d.rbuf = Empty /\ d.stage = "RESOLVE" /\ d.recv = FALSE /\ d.buf = b
      /\ d.query = (a4 \/ a6)
  <2>1. "RESOLVE" \in EvStages /\ (a4 \/ a6) \in BOOLEAN
    BY Zenon DEF EvStages
  <2> QED
    BY <2>1, Zenon DEF IsEnds, Alone, Resolving, HoldsPayload
<1>2. IsQuery(svQuery') /\ svQuery'.live = (a4 \/ a6)
  BY ZenonT(30) DEF IsQuery, resolv_query, NoQuery
<1> HIDE DEF d
<1>3. Owned(d, svQuery'.live)
  BY <1>1, <1>2, Zenon DEF Owned
<1>4. Reading(d, svRead', svSent')
  BY <1>1, Zenon DEF Reading, Unanswered, HoldsPayload
<1>5. Returning(d, svBack', svGot')
  BY <1>1, Zenon DEF Returning, Unanswered
<1>6. svBack' \in Nat /\ Run(svSent', HeaderLen) /\ Run(svGot', 0)
  BY ServerEvTypes, Zenon
<1>7. EndsOk(d, svQuery'.live, svRead', svSent', svBack', svGot')
  BY <1>1, <1>3, <1>4, <1>5, <1>6, Zenon DEF EndsOk
<1> QED
  BY <1>2, <1>7, Zenon DEF ServerEvInv, d

LEMMA FirstSent ==
    ASSUME NEW load, Run(load, HeaderLen), NEW t \in 0..Len(load)
    PROVE  /\ Run(<<>> \o SubSeq(load, 1, t), HeaderLen)
           /\ Len(<<>> \o SubSeq(load, 1, t)) = t
           /\ IsBuffer(Past(Store(load), t))
           /\ Past(Store(load), t).len = Len(load) - t
<1>1. load \in Seq(Int) /\ Len(load) \in Nat /\ HeaderLen \in Int /\ t \in Nat /\ t <= Len(load)
  BY LengthOfStream, ServerEvAssumption DEF Run
<1>2. Run(SubSeq(load, 1, t), HeaderLen) /\ Len(SubSeq(load, 1, t)) = t
  BY <1>1, RunTake, Zenon
<1>3. <<>> \o SubSeq(load, 1, t) = SubSeq(load, 1, t)
  BY <1>2, JoinEmptyOfStream, Zenon DEF Run
<1>4. IsBuffer(Past(Store(load), t)) /\ Past(Store(load), t).len = Len(load) - t
  BY <1>1 DEF IsBuffer, Past, Store
<1> QED
  BY <1>2, <1>3, <1>4, Zenon

(* connect_to_remote, with the payload that came with the header. *)
LEMMA ParseConnects ==
    ASSUME ServerEvInv, "part" \notin FastOpenSends, Unanswered,
           UNCHANGED svQuery, UNCHANGED svBack, UNCHANGED svGot, svRead' \in Nat,
           NEW p, Alone(p), p.stage = "PARSE",
           NEW load, Run(load, HeaderLen), Len(load) = Payload(svRead'),
           NEW r \in connect_to_remote(Store(load)),
           svConn' = Connect(p, r, Take(Store(load), r.taken),
                             SubSeq(load, 1, Take(Store(load), r.taken).len)),
           svSent' = <<>> \o SubSeq(load, 1, r.taken)
    PROVE  ServerEvInv'
<1> DEFINE b == Store(load)
           rest == Take(b, r.taken)
<1>1. load \in Seq(Int) /\ Len(load) \in Nat
  BY LengthOfStream, Zenon DEF Run
<1>2. IsBuffer(b) /\ Rest(b) = load /\ b.len = Len(load)
  BY <1>1, RunStored, Zenon DEF Store
<1>3. /\ r.ok \in BOOLEAN /\ r.taken \in 0..Len(load)
      /\ r.taken \in {0, Len(load)}
  BY <1>2, ConnectAnswers, Zenon
<1>4. HeaderLen \in Int /\ svBack' \in Nat /\ Run(svGot', 0)
  BY ServerEvTypes
<1> HIDE DEF b
<1>5. /\ Run(svSent', HeaderLen) /\ Len(svSent') = r.taken
      /\ IsBuffer(Past(b, r.taken)) /\ Past(b, r.taken).len = Len(load) - r.taken
  BY <1>3, FirstSent, Zenon DEF b
<1>6. rest = Past(b, r.taken)
  BY Zenon DEF Take, Past
<1> HIDE DEF rest
<1>7. CASE ~r.ok
  <2>1. svConn' = close_and_free_server(p)
    BY <1>7, Zenon DEF Connect
  <2> QED
    BY <2>1, <1>5, LoneEnds, Zenon DEF Unanswered
<1>8. CASE r.ok
  <2> DEFINE left == SubSeq(load, 1, rest.len)
  <2>1. rest.len \in Nat /\ rest.len <= Len(load) /\ IsBuffer(rest)
    BY <1>1, <1>3, <1>5, <1>6
  <2>2. Run(left, HeaderLen) /\ Len(left) = rest.len
    BY <2>1, <1>4, RunTake, Zenon
  <2>3. Run(left, HeaderLen + Len(svSent')) /\ left \in Seq(Int)
    <3> HIDE DEF left
    <3>1. CASE r.taken = 0
      <4>1. HeaderLen + Len(svSent') = HeaderLen
        BY <3>1, <1>4, <1>5
      <4> QED
        BY <4>1, <2>2, Zenon DEF Run
    <3>2. CASE r.taken = Len(load)
      <4>1. Len(left) = 0 /\ left \in Seq(Int)
        BY <3>2, <2>2, <1>1, <1>5, <1>6 DEF Run
      <4>2. left = <<>> /\ HeaderLen + Len(svSent') \in Int
        BY <4>1, <3>2, <1>1, <1>4, <1>5, EmptyOfStream, SMTT(30)
      <4> QED
        BY <4>1, <4>2, RunEmpty, Zenon
    <3> QED
      BY <1>3, <3>1, <3>2, Zenon
  <2>4. Len(svSent') + rest.len = Payload(svRead')
    BY <1>1, <1>3, <1>5, <1>6, SMTT(30)
  <2>5. svConn' = Connect(p, r, rest, left)
    BY Zenon DEF rest, b
  <2>6. p.stage \in {"PARSE", "RESOLVE"} /\ Len(svGot') = svBack'
    BY Zenon DEF Unanswered
  <2> HIDE DEF left
  <2>7. EndsOk(svConn', FALSE, svRead', svSent', svBack', svGot')
    BY <1>8, <1>4, <1>5, <2>1, <2>2, <2>3, <2>4, <2>5, <2>6, ConnectJoins, Zenon
  <2> QED
    BY <2>7, ServerEvTypes, Zenon DEF ServerEvInv, Unanswered
<1> QED
  BY <1>3, <1>7, <1>8, Zenon

(* What follows the first k items. *)
LEMMA RunAfter ==
    ASSUME NEW s, NEW a \in Int, Run(s, a), NEW k \in Nat, k <= Len(s)
    PROVE  /\ Run(SubSeq(s, k + 1, Len(s)), a + k)
           /\ Len(SubSeq(s, k + 1, Len(s))) = Len(s) - k
<1> DEFINE n == Len(s) - k
<1>1. Len(s) \in Nat
  BY LengthOfStream, Zenon DEF Run
<1>2. n \in Nat /\ k + n <= Len(s) /\ k + n = Len(s)
  BY <1>1
<1> HIDE DEF n
<1>3. Run(SubSeq(s, k + 1, k + n), a + k) /\ Len(SubSeq(s, k + 1, k + n)) = n
  BY <1>2, RunPart, ZenonT(30)
<1> QED
  BY <1>2, <1>3, Zenon DEF n

(* The header is complete: stage PARSE and what follows it. *)
LEMMA ParseKeeps ==
    ASSUME ServerEvInv, "part" \notin FastOpenSends, Unanswered,
           UNCHANGED svBack, UNCHANGED svGot, NEW c, Alone(c),
           NEW data, AfterIv(data, svRead'), ParseHeader(c, data)
    PROVE  ServerEvInv'
<1> DEFINE load == SubSeq(data, HeaderLen + 1, Len(data))
           p == [c EXCEPT !.stage = "PARSE", !.header_buf = <<>>]
<1>1. Alone(p) /\ p.stage = "PARSE"
  <2>1. "PARSE" \in EvStages /\ <<>> \in Seq(Int)
    BY DEF EvStages
  <2> QED
    BY <2>1, Zenon DEF Alone, IsEnds
<1>2. Run(svSent, HeaderLen)
  BY ServerEvTypes, Zenon
<1> HIDE DEF p
<1>3. CASE \/ Len(data) < HeaderLen \/ svDest \in {"badname", "badtype"}
           \/ svDest = "blocked"
  <2>1. svConn' = close_and_free_server(p) /\ UNCHANGED <<svQuery, svSent>>
    BY <1>3, Zenon DEF ParseHeader, p
  <2> QED
    BY <2>1, <1>1, <1>2, LoneEnds, Zenon DEF Unanswered, AfterIv
<1>4. CASE /\ ~(Len(data) < HeaderLen) /\ svDest \notin {"badname", "badtype"}
           /\ svDest # "blocked"
  <2>1. Run(load, HeaderLen) /\ Len(load) = Payload(svRead')
    <3>1. Len(data) \in Nat /\ HeaderLen \in Nat /\ IvLen \in Nat /\ 0 \in Int
          /\ Run(data, 0) /\ svRead' \in Nat
      <4>1. Run(data, 0) /\ svRead' \in Nat
        BY Zenon DEF AfterIv
      <4>2. Len(data) \in Nat
        BY <4>1, LengthOfStream, Zenon DEF Run
      <4> QED
        BY <4>1, <4>2, ServerEvAssumption
    <3>2. HeaderLen <= Len(data)
      BY <1>4, <3>1
    <3>3. Run(load, 0 + HeaderLen) /\ Len(load) = Len(data) - HeaderLen
      BY <3>1, <3>2, RunAfter, Zenon
    <3>4. 0 + HeaderLen = HeaderLen
      BY <3>1
    <3>5. Len(load) = Payload(svRead')
      BY <3>1, <3>3, ZenonT(30) DEF Payload, AfterIv
    <3> QED
      BY <3>3, <3>4, <3>5, Zenon
  <2> HIDE DEF load
  <2>2. load \in Seq(Int)
    BY <2>1, Zenon DEF Run
  <2>3. CASE svDest = "name"
    <3>1. PICK a4 \in BOOLEAN, a6 \in BOOLEAN :
             /\ svQuery' = resolv_query(a4, a6)
             /\ svConn' = [p EXCEPT !.stage = "RESOLVE", !.buf = Store(load),
                                    !.query = a4 \/ a6, !.recv = FALSE]
             /\ UNCHANGED svSent
      BY <1>4, <2>3, ZenonT(30) DEF ParseHeader, p, load
    <3>2. /\ IsBuffer(Store(load)) /\ Store(load).idx = 0
          /\ Store(load).len = Payload(svRead') /\ Store(load).data = load
      BY <2>1, <2>2, RunStored, Zenon DEF Store
    <3> DEFINE b == Store(load)
    <3>3. HoldsPayload(b, svRead')
      BY <3>2, <2>1, Zenon DEF HoldsPayload
    <3> HIDE DEF b
    <3>4. svConn' = Resolving(p, b, a4 \/ a6)
      BY <3>1, Zenon DEF b, Resolving
    <3>5. svRead' \in Nat
      BY Zenon DEF AfterIv
    <3> QED
      BY <3>1, <3>3, <3>4, <3>5, <1>1, QueryKeeps, Zenon
  <2>4. CASE svDest # "name"
    <3>1. PICK r \in connect_to_remote(Store(load)) :
             /\ svConn' = Connect(p, r, Take(Store(load), r.taken),
                                  SubSeq(load, 1, Take(Store(load), r.taken).len))
             /\ svSent' = svSent \o SubSeq(load, 1, r.taken)
             /\ UNCHANGED svQuery
      BY <1>4, <2>4, Zenon DEF ParseHeader, p, load
    <3>2. svSent' = <<>> \o SubSeq(load, 1, r.taken)
      BY <3>1, Zenon DEF Unanswered
    <3> QED
      BY <3>1, <3>2, <2>1, <1>1, ParseConnects, Zenon DEF AfterIv
  <2> QED
    BY <2>3, <2>4, Zenon
<1> QED
  BY <1>3, <1>4, Zenon

(* A server end that goes on reading. *)
LEMMA WaitKeeps ==
    ASSUME ServerEvInv, Unanswered, UNCHANGED svQuery, UNCHANGED svSent,
           UNCHANGED svBack, UNCHANGED svGot, svRead' \in Nat,
           Alone(svConn'), svConn'.stage \in {"INIT", "HANDSHAKE", "ERROR"},
           Reading(svConn', svRead', svSent')
    PROVE  ServerEvInv'
<1>1. svBack' \in Nat /\ Run(svGot', 0) /\ IsQuery(svQuery')
  BY ServerEvTypes, Zenon
<1>2. svConn'.stage \in {"INIT", "HANDSHAKE", "ERROR", "RESOLVE"} /\ svSent' = <<>>
      /\ Len(svGot') = svBack' /\ svQuery'.live = FALSE
  BY Zenon DEF Unanswered
<1>3. EndsOk(svConn', FALSE, svRead', svSent', svBack', svGot')
  BY <1>1, <1>2, AloneOk, Zenon
<1> QED
  BY <1>1, <1>2, <1>3, Zenon DEF ServerEvInv

(* Stage HANDSHAKE: a chunk is appended to what header_buf holds. *)
LEMMA HandshakeKeeps ==
    ASSUME ServerEvInv, "part" \notin FastOpenSends, Unanswered,
           UNCHANGED svBack, UNCHANGED svGot, NEW c, Alone(c),
           NEW data, AfterIv(c.header_buf \o data, svRead'), Handshake(c, data)
    PROVE  ServerEvInv'
<1> DEFINE all == c.header_buf \o data
<1>1. PICK r \in is_header_complete(data) :
         IF r = 1 THEN ParseHeader(c, all)
         ELSE Wait([c EXCEPT !.header_buf = all, !.buf = Empty,
                             !.stage = IF r = -1 THEN "ERROR" ELSE "HANDSHAKE"])
  BY Zenon DEF Handshake
<1>2. AfterIv(all, svRead') /\ all \in Seq(Int) /\ svRead' \in Nat
  BY Zenon DEF Run, AfterIv
<1> HIDE DEF all
<1>3. CASE r = 1
  BY <1>1, <1>2, <1>3, ParseKeeps, Zenon
<1>4. CASE r # 1
  <2> DEFINE st == IF r = -1 THEN "ERROR" ELSE "HANDSHAKE"
  <2>1. /\ svConn' = [c EXCEPT !.header_buf = all, !.buf = Empty, !.stage = st]
        /\ UNCHANGED <<svQuery, svSent>>
    BY <1>1, <1>4, Zenon DEF Wait
  <2>2. st \in {"ERROR", "HANDSHAKE"} /\ st \in EvStages
    BY Zenon DEF EvStages
  <2> HIDE DEF st
  <2>3. Alone(svConn') /\ svConn'.stage = st /\ svConn'.header_buf = all
    BY <2>1, <2>2, <1>2, EmptyBuffer, Zenon DEF Alone, IsEnds
  <2>4. Reading(svConn', svRead', svSent')
    BY <2>1, <2>2, <2>3, <1>2, Zenon DEF Reading, AfterIv, Unanswered
  <2>5. svConn'.stage \in {"INIT", "HANDSHAKE", "ERROR"}
    BY <2>2, <2>3, Zenon
  <2> QED
    BY <2>1, <2>3, <2>4, <2>5, <1>2, WaitKeeps, Zenon
<1> QED
  BY <1>3, <1>4, Zenon

(* Stage INIT, once the IV and two bytes are there. *)
LEMMA FirstBytesKeeps ==
    ASSUME ServerEvInv, "part" \notin FastOpenSends, Unanswered,
           UNCHANGED svBack, UNCHANGED svGot, NEW c, Alone(c), c.header_buf = <<>>,
           NEW data, AfterIv(data, svRead'), FirstBytes(c, data)
    PROVE  ServerEvInv'
<1>1. PICK r \in is_header_complete(data) :
        IF r = 1 THEN ParseHeader(c, data)
        ELSE IF r = -1
        THEN /\ report_addr(1)
             /\ svConn' = [c EXCEPT !.stage = "ERROR", !.buf = Empty]
             /\ UNCHANGED <<svQuery, svFast, svSent>>
        ELSE Handshake([c EXCEPT !.stage = "HANDSHAKE"], data)
  BY Zenon DEF FirstBytes
<1>2. svRead' \in Nat
  BY Zenon DEF AfterIv
<1>3. CASE r = 1
  BY <1>1, <1>3, ParseKeeps, Zenon
<1>4. CASE r # 1 /\ r = -1
  <2>1. svConn' = [c EXCEPT !.stage = "ERROR", !.buf = Empty] /\ UNCHANGED <<svQuery, svSent>>
    BY <1>1, <1>4, Zenon
  <2>2. "ERROR" \in EvStages
    BY Zenon DEF EvStages
  <2>3. Alone(svConn') /\ svConn'.stage = "ERROR"
    BY <2>1, <2>2, EmptyBuffer, Zenon DEF Alone, IsEnds
  <2>4. Reading(svConn', svRead', svSent')
    BY <2>1, <2>3, Zenon DEF Reading, Unanswered
  <2>5. svConn'.stage \in {"INIT", "HANDSHAKE", "ERROR"}
    BY <2>3, Zenon
  <2> QED
    BY <2>1, <2>3, <2>4, <2>5, <1>2, WaitKeeps, Zenon
<1>5. CASE r # 1 /\ r # -1
  <2> DEFINE d == [c EXCEPT !.stage = "HANDSHAKE"]
  <2>1. Handshake(d, data)
    BY <1>1, <1>5, Zenon
  <2>2. "HANDSHAKE" \in EvStages
    BY Zenon DEF EvStages
  <2>3. Alone(d) /\ d.header_buf = <<>>
    BY <2>2, Zenon DEF Alone, IsEnds
  <2> HIDE DEF d
  <2>4. d.header_buf \o data = data
    BY <2>3, JoinEmptyOfStream, Zenon DEF AfterIv, Run
  <2>5. AfterIv(d.header_buf \o data, svRead')
    BY <2>4, Zenon
  <2> QED
    BY <2>1, <2>3, <2>5, HandshakeKeeps, Zenon
<1> QED
  BY <1>3, <1>4, <1>5, Zenon

(* The bytes of one recv follow those read before. *)
LEMMA ReceivedRun ==
    ASSUME svRead \in Nat, NEW n \in Nat
    PROVE  /\ Run(Received(n), svRead - IvLen) /\ Len(Received(n)) = n
           /\ Received(n) \in Seq(Int) /\ svRead - IvLen \in Int
<1> DEFINE a == svRead - IvLen
<1>1. a \in Int /\ IvLen \in Int
  BY ServerEvAssumption
<1>2. Received(n) = [i \in 1..n |-> a + i]
  BY <1>1 DEF Received
<1> HIDE DEF a
<1>3. Run(Received(n), a) /\ Len(Received(n)) = n
  BY <1>1, <1>2, RunMade, Zenon
<1> QED
  BY <1>1, <1>3, Zenon DEF Run, a

(* Joined to what was kept of the earlier reads. *)
LEMMA ReadMore ==
    ASSUME svRead \in Nat, NEW n \in Nat, NEW a \in Int, NEW s, Run(s, a),
           a + Len(s) = svRead - IvLen
    PROVE  Run(s \o Received(n), a) /\ Len(s \o Received(n)) = Len(s) + n
<1>1. Run(Received(n), a + Len(s)) /\ Len(Received(n)) = n
  BY ReceivedRun, Zenon
<1> QED
  BY <1>1, RunJoin, Zenon

LEMMA RecvFacts ==
    ASSUME ServerEvInv, svConn.recv
    PROVE  /\ svConn.stage \in {"INIT", "HANDSHAKE", "ERROR"} =>
                /\ Alone(svConn) /\ Unanswered /\ Reading(svConn, svRead, svSent)
           /\ svConn.stage \in {"INIT", "HANDSHAKE", "ERROR", "STREAM"}
           /\ svConn.server /\ ~svConn.query
<1>1. /\ IsEnds(svConn) /\ Owned(svConn, svQuery.live)
  BY ServerEvTypes, Zenon
<1>2. svConn.server /\ ~svConn.query
  BY <1>1, Zenon DEF Owned
<1>3. CASE svConn.remote
  <2>1. Relaying(svConn, svRead, svSent)
    BY <1>2, <1>3, Zenon DEF ServerEvInv, EndsOk
  <2>2. svConn.stage = "STREAM"
    BY <2>1, Zenon DEF Relaying
  <2> QED
    BY <2>2, <1>2, Zenon
<1>4. CASE ~svConn.remote
  <2>1. Alone(svConn) /\ Unanswered /\ Reading(svConn, svRead, svSent)
    BY <1>2, <1>4, LoneFacts, Zenon DEF Unanswered
  <2>2. svConn.stage \in {"INIT", "HANDSHAKE", "ERROR", "RESOLVE"}
    BY <1>1, <1>2, <1>4, Zenon DEF Owned
  <2>3. svConn.stage # "RESOLVE"
    BY <2>1, Zenon DEF Reading
  <2> QED
    BY <1>2, <2>1, <2>2, <2>3, Zenon
<1> QED
  BY <1>3, <1>4, Zenon

LEMMA InitReads ==
    ASSUME ServerEvInv, "part" \notin FastOpenSends, svConn.recv,
           svConn.stage = "INIT", NEW n \in Nat, svRead' = svRead + n,
           UNCHANGED svBack, UNCHANGED svGot, NEW all,
           all = svConn.buf.data \o Received(n),
           IF Len(all) <= IvLen + 1
           THEN Wait([svConn EXCEPT !.buf = Store(all)])
           ELSE \/ FirstBytes([svConn EXCEPT !.buf = Empty],
                              SubSeq(all, IvLen + 1, Len(all)))
                \/ Drop(svConn) /\ UNCHANGED svSent
    PROVE  ServerEvInv'
<1>1. Alone(svConn) /\ Unanswered /\ Reading(svConn, svRead, svSent)
  BY RecvFacts, Zenon
<1>2. /\ Run(svConn.buf.data, -IvLen) /\ Len(svConn.buf.data) = svRead
      /\ svConn.header_buf = <<>>
  BY <1>1, Zenon DEF Reading
<1>3. svRead \in Nat /\ svBack \in Nat /\ IvLen \in Nat /\ -IvLen \in Int /\ svRead' \in Nat
  BY ServerEvTypes, SMTT(30)
<1>4. Run(all, -IvLen) /\ Len(all) = svRead' /\ all \in Seq(Int)
  <2>1. -IvLen + Len(svConn.buf.data) = svRead - IvLen
    BY <1>2, <1>3
  <2>2. /\ Run(svConn.buf.data \o Received(n), -IvLen)
        /\ Len(svConn.buf.data \o Received(n)) = Len(svConn.buf.data) + n
    BY <1>2, <1>3, <2>1, ReadMore, Zenon
  <2> QED
    BY <1>2, <2>2, Zenon DEF Run
<1>5. CASE Wait([svConn EXCEPT !.buf = Store(all)])
  <2> DEFINE b == Store(all)
  <2>1. svConn' = [svConn EXCEPT !.buf = b] /\ UNCHANGED <<svQuery, svSent>>
    BY <1>5, Zenon DEF Wait
  <2>2. IsBuffer(b) /\ b.idx = 0 /\ b.len = svRead' /\ b.data = all
    BY <1>4, RunStored, Zenon DEF Store
  <2> HIDE DEF b
  <2>3. Alone(svConn') /\ svConn'.stage = "INIT" /\ svConn'.buf = b
        /\ svConn'.header_buf = <<>>
    BY <2>1, <2>2, <1>1, <1>2, Zenon DEF Alone, IsEnds
  <2>4. Reading(svConn', svRead', svSent')
    BY <2>1, <2>2, <2>3, <1>1, <1>4, Zenon DEF Reading, Unanswered
  <2>5. svConn'.stage \in {"INIT", "HANDSHAKE", "ERROR"}
    BY <2>3, Zenon
  <2> QED
    BY <2>1, <2>3, <2>4, <2>5, <1>1, <1>3, WaitKeeps
<1>6. CASE /\ ~(Len(all) <= IvLen + 1)
           /\ FirstBytes([svConn EXCEPT !.buf = Empty], SubSeq(all, IvLen + 1, Len(all)))
  <2> DEFINE c == [svConn EXCEPT !.buf = Empty]
             data == SubSeq(all, IvLen + 1, Len(all))
  <2>1. Alone(c) /\ c.header_buf = <<>>
    BY <1>1, <1>2, EmptyBuffer, Zenon DEF Alone, IsEnds
  <2>2. AfterIv(data, svRead')
    <3>1. Len(all) \in Nat
      BY <1>3, <1>4, Zenon
    <3>2. IvLen <= Len(all)
      BY <1>6, <1>3, <3>1, SMTT(30)
    <3>3. Run(data, -IvLen + IvLen) /\ Len(data) = Len(all) - IvLen
      BY <1>3, <1>4, <3>1, <3>2, RunAfter, Zenon
    <3>4. -IvLen + IvLen = 0
      BY <1>3
    <3> QED
      BY <1>3, <1>4, <3>3, <3>4, Zenon DEF AfterIv
  <2>3. FirstBytes(c, data)
    BY <1>6, Zenon
  <2> HIDE DEF c, data
  <2> QED
    BY <1>1, <2>1, <2>2, <2>3, FirstBytesKeeps, SMTT(30)
<1>7. CASE Drop(svConn) /\ UNCHANGED svSent
  BY <1>7, <1>3, DropKeeps, Zenon
<1> QED
  BY <1>5, <1>6, <1>7, Zenon

LEMMA HandshakeReads ==
    ASSUME ServerEvInv, "part" \notin FastOpenSends, svConn.recv,
           svConn.stage = "HANDSHAKE", NEW n \in Nat, svRead' = svRead + n,
           UNCHANGED svBack, UNCHANGED svGot, Handshake(svConn, Received(n))
    PROVE  ServerEvInv'
<1>1. Alone(svConn) /\ Unanswered /\ Reading(svConn, svRead, svSent)
  BY RecvFacts, Zenon
<1>2. Run(svConn.header_buf, 0) /\ Len(svConn.header_buf) = svRead - IvLen
  BY <1>1, Zenon DEF Reading
<1>3. svRead \in Nat /\ IvLen \in Nat /\ 0 \in Int /\ svRead' \in Nat
  BY ServerEvTypes
<1>4. AfterIv(svConn.header_buf \o Received(n), svRead')
  <2>1. 0 + Len(svConn.header_buf) = svRead - IvLen
    BY <1>2, <1>3
  <2>2. /\ Run(svConn.header_buf \o Received(n), 0)
        /\ Len(svConn.header_buf \o Received(n)) = Len(svConn.header_buf) + n
    BY <1>2, <1>3, <2>1, ReadMore, Zenon
  <2> QED
    BY <1>2, <1>3, <2>2 DEF AfterIv
<1> QED
  BY <1>1, <1>4, HandshakeKeeps, Zenon

LEMMA ErrorReads ==
    ASSUME ServerEvInv, svConn.recv, svConn.stage = "ERROR", svRead' \in Nat,
           UNCHANGED svBack, UNCHANGED svGot, Wait([svConn EXCEPT !.buf = Empty])
    PROVE  ServerEvInv'
<1>1. Alone(svConn) /\ Unanswered
  BY RecvFacts, Zenon
<1>2. svConn' = [svConn EXCEPT !.buf = Empty] /\ UNCHANGED <<svQuery, svSent>>
  BY Zenon DEF Wait
<1>3. Alone(svConn') /\ svConn'.stage = "ERROR"
  BY <1>1, <1>2, EmptyBuffer, Zenon DEF Alone, IsEnds
<1>4. Reading(svConn', svRead', svSent')
  BY <1>1, <1>2, <1>3, Zenon DEF Reading, Unanswered
<1>5. svConn'.stage \in {"INIT", "HANDSHAKE", "ERROR"}
  BY <1>3, Zenon
<1> QED
  BY <1>1, <1>2, <1>3, <1>4, <1>5, WaitKeeps

(* Both ends, while they live. *)
Paired(c) ==
    /\ IsEnds(c) /\ c.server = TRUE /\ c.timer = TRUE /\ c.query = FALSE
    /\ c.remotep = TRUE /\ c.remote = TRUE /\ c.serverp = TRUE
    /\ c.stage \in {"PARSE", "RESOLVE", "STREAM"}

LEMMA PairedFacts ==
    ASSUME ServerEvInv, svConn.server, svConn.remote
    PROVE  /\ Paired(svConn) /\ svQuery.live = FALSE
           /\ Relaying(svConn, svRead, svSent) /\ Returning(svConn, svBack, svGot)
<1>1. IsEnds(svConn) /\ Owned(svConn, svQuery.live) /\ svQuery.live \in BOOLEAN
  BY ServerEvTypes, Zenon DEF IsQuery
<1>2. /\ svConn.timer /\ ~svConn.query /\ svConn.remotep /\ svConn.serverp
      /\ ~svQuery.live /\ svConn.stage \in {"PARSE", "RESOLVE", "STREAM"}
  BY <1>1, Zenon DEF Owned
<1>3. Paired(svConn) /\ svQuery.live = FALSE
  BY <1>1, <1>2, Zenon DEF Paired, IsEnds
<1> QED
  BY <1>3, Zenon DEF ServerEvInv, EndsOk

(* A step after which both ends live. *)
LEMMA PairedKeeps ==
    ASSUME ServerEvInv, svQuery.live = FALSE, UNCHANGED svQuery, Paired(svConn'),
           svRead' \in Nat, svBack' \in Nat, Run(svSent', HeaderLen), Run(svGot', 0),
           Relaying(svConn', svRead', svSent'), Returning(svConn', svBack', svGot')
    PROVE  ServerEvInv'
<1>1. IsEnds(svConn') /\ svConn'.remote = TRUE
  BY Zenon DEF Paired
<1>2. Owned(svConn', FALSE)
  BY Zenon DEF Owned, Paired
<1>3. EndsOk(svConn', FALSE, svRead', svSent', svBack', svGot')
  BY <1>1, <1>2, Zenon DEF EndsOk
<1> QED
  BY <1>3, ServerEvTypes, Zenon DEF ServerEvInv

(* Stage STREAM: what is read is sent on, or kept for remote_send_cb. *)
LEMMA ForwardKeeps ==
    ASSUME ServerEvInv, svConn.recv, svConn.stage = "STREAM",
           NEW n \in Nat, svRead' = svRead + n,
           UNCHANGED svBack, UNCHANGED svGot, Forward(svConn, Received(n))
    PROVE  ServerEvInv'
<1> DEFINE data == Received(n)
           b == Store(data)
<1>1. /\ svRead \in Nat /\ svBack \in Nat /\ svRead' \in Nat /\ HeaderLen \in Int
      /\ IvLen \in Int /\ Run(svSent, HeaderLen) /\ Len(svSent) \in Nat /\ Run(svGot, 0)
  BY ServerEvTypes
<1>2. svConn.server /\ svConn.remote
  BY ServerEvTypes, RecvFacts, Zenon DEF Owned
<1>3. /\ Paired(svConn) /\ svQuery.live = FALSE
      /\ Relaying(svConn, svRead, svSent) /\ Returning(svConn, svBack, svGot)
  BY <1>2, PairedFacts, ZenonT(30)
<1>4. /\ svConn.rsend = FALSE /\ svConn.recv = TRUE /\ Len(svSent) = Payload(svRead)
      /\ svConn.connected = TRUE
  <2>1. svConn.rsend \in BOOLEAN /\ svConn.recv \in BOOLEAN /\ svConn.connected \in BOOLEAN
    BY <1>3, Zenon DEF Paired, IsEnds
  <2> QED
    BY <2>1, <1>3, Zenon DEF Relaying
<1>5. data \in Seq(Int) /\ Len(data) = n /\ Run(data, svRead - IvLen)
  BY <1>1, ReceivedRun, Zenon
<1> HIDE DEF data
<1>6. IsBuffer(b) /\ Rest(b) = data /\ b.len = n
  BY <1>5, RunStored, Zenon DEF Store
<1> HIDE DEF b
<1>7. CASE Drop(svConn) /\ UNCHANGED svSent
  BY <1>1, <1>7, DropKeeps, Zenon
<1>8. CASE \E k \in 0..Len(data) :
             /\ svSent' = svSent \o SubSeq(data, 1, k)
             /\ svConn' = IF k = Len(data) THEN [svConn EXCEPT !.rbuf = Store(data)]
                          ELSE [svConn EXCEPT !.rbuf = Take(Store(data), k),
                                              !.recv = FALSE, !.rsend = TRUE]
             /\ UNCHANGED svQuery
  <2>1. PICK k \in 0..n :
             /\ svSent' = svSent \o SubSeq(Rest(b), 1, k)
             /\ svConn' = IF k = n THEN [svConn EXCEPT !.rbuf = b]
                          ELSE [svConn EXCEPT !.rbuf = Past(b, k),
                                              !.recv = FALSE, !.rsend = TRUE]
             /\ UNCHANGED svQuery
    BY <1>8, <1>5, <1>6, Zenon DEF b, Take, Past
  <2>2. Run(Rest(b), HeaderLen + Len(svSent)) /\ k \in 0..b.len
    <3>1. HeaderLen + Len(svSent) = svRead - IvLen
      BY <1>1, <1>4 DEF Payload
    <3> QED
      BY <1>5, <1>6, <3>1, Zenon
  <2>3. /\ Run(svSent', HeaderLen) /\ Len(svSent') = Len(svSent) + k
        /\ IsBuffer(Past(b, k)) /\ Past(b, k).len = b.len - k
        /\ Run(Rest(Past(b, k)), HeaderLen + Len(svSent'))
    <3>1. /\ Run(svSent \o SubSeq(Rest(b), 1, k), HeaderLen)
          /\ Len(svSent \o SubSeq(Rest(b), 1, k)) = Len(svSent) + k
          /\ IsBuffer(Past(b, k)) /\ Past(b, k).len = b.len - k
          /\ Run(Rest(Past(b, k)), HeaderLen + Len(svSent \o SubSeq(Rest(b), 1, k)))
      BY <1>1, <1>6, <2>2, SentMore, Zenon
    <3> QED
      BY <2>1, <3>1, Zenon
  <2>4. Returning(svConn', svBack', svGot')
    <3>1. svConn'.send = svConn.send /\ svConn'.buf = svConn.buf
      BY <2>1, <1>3, Zenon DEF Paired, IsEnds
    <3> QED
      BY <3>1, <1>3, Zenon DEF Returning
  <2>5. CASE k = n
    <3>1. svConn' = [svConn EXCEPT !.rbuf = b]
      BY <2>1, <2>5, Zenon
    <3>2. /\ Paired(svConn') /\ svConn'.rsend = FALSE /\ svConn'.recv = TRUE
          /\ svConn'.stage = "STREAM" /\ svConn'.connected = TRUE
          /\ svConn'.rrecv = svConn.rrecv /\ svConn'.send = svConn.send
      BY <3>1, <1>3, <1>4, <1>6, Zenon DEF Paired, IsEnds
    <3>3. Len(svSent') = Payload(svRead')
      BY <2>3, <2>5, <1>1, <1>4, SMTT(30) DEF Payload
    <3>4. Relaying(svConn', svRead', svSent')
      BY <3>2, <3>3, <1>3, Zenon DEF Relaying
    <3> QED
      BY <2>1, <2>3, <2>4, <3>2, <3>4, <1>1, <1>3, PairedKeeps, Zenon
  <2>6. CASE k # n
    <3>1. svConn' = [svConn EXCEPT !.rbuf = Past(b, k), !.recv = FALSE, !.rsend = TRUE]
      BY <2>1, <2>6, Zenon
    <3>2. /\ Paired(svConn') /\ svConn'.rsend = TRUE /\ svConn'.recv = FALSE
          /\ svConn'.stage = "STREAM" /\ svConn'.connected = TRUE
          /\ svConn'.rrecv = svConn.rrecv /\ svConn'.send = svConn.send
          /\ svConn'.rbuf = Past(b, k)
      BY <3>1, <1>3, <1>4, <2>3, Zenon DEF Paired, IsEnds
    <3>3. Len(svSent') + Past(b, k).len = Payload(svRead')
      BY <2>3, <1>1, <1>4, <1>6, SMTT(30) DEF Payload
    <3>4. Relaying(svConn', svRead', svSent')
      BY <3>2, <3>3, <2>3, <1>3, Zenon DEF Relaying
    <3> QED
      BY <2>1, <2>3, <2>4, <3>2, <3>4, <1>1, <1>3, PairedKeeps, Zenon
  <2> QED
    BY <2>5, <2>6, Zenon
<1> QED
  BY <1>7, <1>8, Zenon DEF Forward, data

LEMMA ServerRecvKeeps ==
    ASSUME ServerEvInv, "part" \notin FastOpenSends, server_recv_cb
    PROVE  ServerEvInv'
<1>1. svConn.recv /\ UNCHANGED svBack /\ UNCHANGED svGot
  BY Zenon DEF server_recv_cb
<1>2. /\ svRead \in Nat /\ svBack \in Nat
      /\ svConn.stage \in {"INIT", "HANDSHAKE", "ERROR", "STREAM"}
  BY <1>1, ServerEvTypes, RecvFacts
<1>3. CASE Drop(svConn) /\ UNCHANGED <<svRead, svSent>>
  BY <1>1, <1>2, <1>3, DropKeeps, SMTT(30)
<1>4. ASSUME NEW n \in 1..(BUF_SIZE - IF svConn.stage = "STREAM" THEN 0 ELSE svConn.buf.len),
             svRead' = svRead + n,
             CASE svConn.stage = "ERROR" -> Wait([svConn EXCEPT !.buf = Empty])
                 [] svConn.stage = "INIT" ->
                      LET all == svConn.buf.data \o Received(n)
                      IN  IF Len(all) <= IvLen + 1
                          THEN Wait([svConn EXCEPT !.buf = Store(all)])
                          ELSE \/ FirstBytes([svConn EXCEPT !.buf = Empty],
                                             SubSeq(all, IvLen + 1, Len(all)))
                               \/ /\ report_addr(8) /\ Drop(svConn)
                                  /\ UNCHANGED <<svFast, svSent>>
                 [] svConn.stage = "HANDSHAKE" -> Handshake(svConn, Received(n))
                 [] svConn.stage = "STREAM" -> Forward(svConn, Received(n))
      PROVE  ServerEvInv'
  <2>1. n \in Nat /\ svRead' \in Nat
    <3>1. n \in Nat
      <4> DEFINE m == BUF_SIZE - IF svConn.stage = "STREAM" THEN 0 ELSE svConn.buf.len
      <4>1. n \in 1..m
        BY Zenon
      <4> HIDE DEF m
      <4> QED
        BY <4>1
    <3> QED
      BY <3>1, <1>2, <1>4, SMTT(30)
  <2>2. CASE svConn.stage = "ERROR"
    <3>1. Wait([svConn EXCEPT !.buf = Empty])
      BY <1>4, <2>2
    <3> QED
      BY <1>1, <2>1, <2>2, <3>1, ErrorReads, SMTT(30)
  <2>3. CASE svConn.stage = "INIT"
    <3> DEFINE all == svConn.buf.data \o Received(n)
    <3>1. IF Len(all) <= IvLen + 1
          THEN Wait([svConn EXCEPT !.buf = Store(all)])
          ELSE \/ FirstBytes([svConn EXCEPT !.buf = Empty],
                             SubSeq(all, IvLen + 1, Len(all)))
               \/ Drop(svConn) /\ UNCHANGED svSent
      BY <1>4, <2>3
    <3>2. all = svConn.buf.data \o Received(n)
      BY Zenon
    <3> HIDE DEF all
    <3> QED
      BY <1>1, <1>4, <2>1, <2>3, <3>1, <3>2, InitReads, Zenon
  <2>4. CASE svConn.stage = "HANDSHAKE"
    <3>1. Handshake(svConn, Received(n))
      BY <1>4, <2>4
    <3> QED
      BY <1>1, <1>4, <2>1, <2>4, <3>1, HandshakeReads, SMTT(30)
  <2>5. CASE svConn.stage = "STREAM"
    <3>1. Forward(svConn, Received(n))
      BY <1>4, <2>5
    <3> QED
      BY <1>1, <1>4, <2>1, <2>5, <3>1, ForwardKeeps, SMTT(30)
  <2> QED
    BY <1>2, <2>2, <2>3, <2>4, <2>5, SMTT(30)
<1> QED
  BY <1>3, <1>4, Zenon DEF server_recv_cb

(* The answer of the resolver: the remote end is made, or the server's ends. *)
LEMMA ResolveKeeps ==
    ASSUME ServerEvInv, svQuery.live, NEW addr, server_resolve_cb(addr),
           svQuery' = NoQuery, UNCHANGED svRead, UNCHANGED svBack, UNCHANGED svGot
    PROVE  ServerEvInv'
<1> DEFINE c == [svConn EXCEPT !.query = FALSE]
<1>1. /\ IsEnds(svConn) /\ Owned(svConn, svQuery.live) /\ Run(svSent, HeaderLen)
      /\ svRead' \in Nat /\ svBack' \in Nat /\ Run(svGot', 0)
  BY ServerEvTypes, Zenon
<1>2. /\ svConn.query /\ svConn.stage = "RESOLVE" /\ svConn.server /\ ~svConn.remote
  BY <1>1, Zenon DEF Owned
<1>3. /\ svConn.timer /\ ~svConn.remotep /\ ~svConn.serverp /\ ~svConn.rrecv
      /\ ~svConn.rsend /\ ~svConn.send /\ ~svConn.connected /\ svConn.rbuf = Empty
  BY <1>1, <1>2, Zenon DEF Owned
<1>4. Alone(c) /\ c.stage = "RESOLVE" /\ c.buf = svConn.buf
  BY <1>1, <1>2, <1>3, Zenon DEF Alone, IsEnds
<1>5. IsQuery(svQuery') /\ svQuery'.live = FALSE
  BY DEF IsQuery, NoQuery
<1>6. Reading(svConn, svRead, svSent) /\ Returning(svConn, svBack, svGot)
  BY <1>2, Zenon DEF ServerEvInv, EndsOk
<1> DEFINE b == svConn.buf
<1>7. /\ HoldsPayload(b, svRead) /\ Len(svGot) = svBack /\ svSent = <<>>
  <2>1. IsBuffer(b)
    BY <1>1, Zenon DEF IsEnds
  <2> QED
    BY <2>1, <1>2, <1>3, <1>6, Zenon DEF Reading, Returning, HoldsPayload
<1> HIDE DEF c, b
<1>8. ASSUME svConn' = close_and_free_server(c), Run(svSent', HeaderLen)
      PROVE  ServerEvInv'
  <2>1. AtEnd(svConn')
    BY <1>8, <1>4, LoneEndCloses, SMTT(30)
  <2>2. EndsOk(svConn', svQuery'.live, svRead', svSent', svBack', svGot')
    BY <2>1, <1>1, <1>5, <1>8, EndIsOk, Zenon
  <2> QED
    BY <2>2, <1>5, SMTT(30) DEF ServerEvInv
<1>9. CASE addr = "none"
  BY <1>1, <1>8, <1>9 DEF server_resolve_cb, c
<1>10. CASE addr # "none"
  <2>1. PICK r \in connect_to_remote(b) :
            /\ svConn' = Connect(c, r, Past(b, r.taken), Rest(Past(b, r.taken)))
            /\ svSent' = svSent \o SubSeq(Rest(b), 1, r.taken)
    BY <1>4, <1>10, Zenon DEF server_resolve_cb, b, c, Take, Past, Unsent, Rest
  <2>2. /\ IsBuffer(b) /\ b.len \in Nat /\ Run(Rest(b), HeaderLen) /\ b.len = Payload(svRead)
    <3>1. /\ IsBuffer(b) /\ b.len \in Nat /\ b.idx = 0 /\ Len(b.data) = b.len
          /\ b.len = Payload(svRead) /\ Run(b.data, HeaderLen) /\ b.data \in Seq(Int)
      BY <1>7 DEF HoldsPayload, IsBuffer
    <3>2. Rest(b) = SubSeq(b.data, 1, Len(b.data))
      BY <3>1 DEF Rest
    <3> QED
      BY <3>1, <3>2, WholeOfStream, Zenon
  <2> DEFINE t == r.taken
  <2>3. t \in 0..b.len /\ r.ok \in BOOLEAN
    BY <2>2, ConnectAnswers, Zenon
  <2> HIDE DEF t
  <2>4. /\ Run(svSent', HeaderLen) /\ Len(svSent') = Len(svSent) + t
        /\ IsBuffer(Past(b, t)) /\ Past(b, t).len = b.len - t
        /\ Run(Rest(Past(b, t)), HeaderLen + Len(svSent')) /\ Len(svSent) = 0
    <3>1. Len(svSent) = 0 /\ HeaderLen \in Int /\ HeaderLen + Len(svSent) = HeaderLen
      BY <1>7, ServerEvTypes
    <3>2. Run(Rest(b), HeaderLen + Len(svSent))
      BY <2>2, <3>1, SMTT(30)
    <3>3. /\ Run(svSent \o SubSeq(Rest(b), 1, t), HeaderLen)
          /\ Len(svSent \o SubSeq(Rest(b), 1, t)) = Len(svSent) + t
          /\ IsBuffer(Past(b, t)) /\ Past(b, t).len = b.len - t
          /\ Run(Rest(Past(b, t)), HeaderLen + Len(svSent \o SubSeq(Rest(b), 1, t)))
      BY <1>1, <2>2, <2>3, <3>1, <3>2, SentMore, Zenon
    <3> QED
      BY <2>1, <3>1, <3>3, Zenon DEF t
  <2>5. CASE ~r.ok
    <3>1. svConn' = close_and_free_server(c)
      BY <2>1, <2>5, Zenon DEF Connect
    <3> QED
      BY <3>1, <2>4, <1>8
  <2>6. CASE r.ok
    <3> DEFINE e == Past(b, t)
               left == Rest(e)
    <3>1. left \in Seq(Int) /\ Len(left) = e.len /\ e.len \in Nat
      <4>1. e.data \in Seq(Int) /\ e.idx \in Nat /\ e.len \in Nat /\ e.idx + e.len <= Len(e.data)
        BY <2>4, SMTT(30) DEF IsBuffer
      <4>2. /\ SubSeq(e.data, e.idx + 1, e.idx + e.len) \in Seq(Int)
            /\ Len(SubSeq(e.data, e.idx + 1, e.idx + e.len)) = e.len
        BY <4>1, Slice, Zenon
      <4> QED
        BY <4>1, <4>2, Zenon DEF Rest
    <3>2. Len(svSent') + e.len = Payload(svRead')
      BY <2>2, <2>3, <2>4, SMTT(30)
    <3>3. Run(left, HeaderLen + Len(svSent')) /\ IsBuffer(e)
      BY <2>4
    <3>4. svConn' = Connect(c, r, e, left)
      BY <2>1, SMTT(30) DEF t
    <3>5. c.stage \in {"PARSE", "RESOLVE"} /\ Len(svGot') = svBack'
      BY <1>4, <1>7, SMTT(30)
    <3> HIDE DEF e, left
    <3>6. EndsOk(svConn', FALSE, svRead', svSent', svBack', svGot')
      BY <1>1, <1>4, <2>4, <2>6, <3>1, <3>2, <3>3, <3>4, <3>5, ConnectJoins, ZenonT(30)
    <3> QED
      BY <3>6, <1>5, Zenon DEF ServerEvInv
  <2> QED
    BY <2>3, <2>5, <2>6
<1> QED
  BY <1>9, <1>10, SMTT(30)

LEMMA AnsweredKeeps ==
    ASSUME ServerEvInv, svQuery.live, NEW q, IsQuery(q), q.live = svQuery.live,
           Answered(q)
    PROVE  ServerEvInv'
<1>1. UNCHANGED svRead /\ UNCHANGED svBack /\ UNCHANGED svGot
  BY Zenon DEF Answered
<1>2. CASE all_queries_are_null(q)
  <2>1. PICK first \in {"v4", "v6"} :
           server_resolve_cb(process_client_callback(q, first)) /\ svQuery' = NoQuery
    BY <1>2, Zenon DEF Answered
  <2> QED
    BY <1>1, <2>1, ResolveKeeps
<1>3. CASE ~all_queries_are_null(q)
  <2>1. svQuery' = q /\ UNCHANGED svConn /\ UNCHANGED svSent
    BY <1>3, Zenon DEF Answered
  <2> QED
    BY <1>1, <2>1, Zenon DEF ServerEvInv
<1> QED
  BY <1>2, <1>3

LEMMA QueryAnswers ==
    ASSUME ServerEvInv, dns_query_v4_cb \/ dns_query_v6_cb
    PROVE  ServerEvInv'
<1>1. IsQuery(svQuery)
  BY ServerEvTypes
<1>2. CASE dns_query_v4_cb
  <2>1. PICK found \in {<<>>, <<"v4">>} :
           Answered([svQuery EXCEPT !.a4 = FALSE, !.responses = @ \o found])
    BY <1>2, Zenon DEF dns_query_v4_cb
  <2> DEFINE q == [svQuery EXCEPT !.a4 = FALSE, !.responses = @ \o found]
  <2>2. IsQuery(q) /\ q.live = svQuery.live /\ svQuery.live
    BY <1>1, <1>2, Zenon DEF IsQuery, dns_query_v4_cb
  <2> HIDE DEF q
  <2> QED
    BY <2>1, <2>2, AnsweredKeeps, Zenon DEF q
<1>3. CASE dns_query_v6_cb
  <2>1. PICK found \in {<<>>, <<"v6">>} :
           Answered([svQuery EXCEPT !.a6 = FALSE, !.responses = @ \o found])
    BY <1>3, Zenon DEF dns_query_v6_cb
  <2> DEFINE q == [svQuery EXCEPT !.a6 = FALSE, !.responses = @ \o found]
  <2>2. IsQuery(q) /\ q.live = svQuery.live /\ svQuery.live
    BY <1>1, <1>3, Zenon DEF IsQuery, dns_query_v6_cb
  <2> HIDE DEF q
  <2> QED
    BY <2>1, <2>2, AnsweredKeeps, Zenon DEF q
<1> QED
  BY <1>2, <1>3

(* The rest of an answer goes to the client. *)
LEMMA ServerSendKeeps ==
    ASSUME ServerEvInv, server_send_cb
    PROVE  ServerEvInv'
<1> DEFINE b == svConn.buf
<1>1. /\ svRead \in Nat /\ svBack \in Nat /\ Run(svSent, HeaderLen) /\ Run(svGot, 0)
      /\ Len(svGot) \in Nat /\ IsEnds(svConn) /\ Owned(svConn, svQuery.live)
  BY ServerEvTypes
<1>2. svConn.send /\ UNCHANGED svRead /\ UNCHANGED svSent /\ UNCHANGED svBack
  BY Zenon DEF server_send_cb
<1>3. CASE Drop(svConn) /\ UNCHANGED svGot
  BY <1>1, <1>2, <1>3, DropKeeps, SMTT(30)
<1>4. CASE \E n \in 0..b.len :
             /\ svGot' = svGot \o SubSeq(Unsent(b), 1, n)
             /\ svConn' = IF n < b.len THEN [svConn EXCEPT !.buf = Take(b, n)]
                          ELSE [svConn EXCEPT !.buf = Empty, !.send = FALSE, !.rrecv = TRUE]
             /\ UNCHANGED svQuery
  <2>1. PICK n \in 0..b.len :
             /\ svGot' = svGot \o SubSeq(Rest(b), 1, n)
             /\ svConn' = IF n < b.len THEN [svConn EXCEPT !.buf = Past(b, n)]
                          ELSE [svConn EXCEPT !.buf = Empty, !.send = FALSE, !.rrecv = TRUE]
             /\ UNCHANGED svQuery
    BY <1>4, Zenon DEF Unsent, Rest, Take, Past
  <2>2. svConn.server /\ svConn.remote
    BY <1>1, <1>2, Zenon DEF Owned
  <2>3. /\ Paired(svConn) /\ svQuery.live = FALSE
        /\ Relaying(svConn, svRead, svSent) /\ Returning(svConn, svBack, svGot)
    BY <2>2, PairedFacts, Zenon
  <2>4. /\ svConn.send = TRUE /\ svConn.rrecv = FALSE /\ svConn.stage = "STREAM"
        /\ svConn.connected = TRUE
    <3>1. svConn.rrecv \in BOOLEAN /\ svConn.send \in BOOLEAN /\ svConn.connected \in BOOLEAN
      BY <1>1, Zenon DEF IsEnds
    <3>2. svConn.stage = "STREAM"
      BY <1>2, <2>3, Zenon DEF Relaying
    <3> QED
      BY <3>1, <3>2, <1>2, <2>3, Zenon DEF Relaying
  <2>5. /\ IsBuffer(b) /\ b.len \in Nat /\ Run(Rest(b), 0 + Len(svGot)) /\ 0 \in Int
        /\ Len(svGot) + b.len = svBack
    <3>1. IsBuffer(b)
      BY <1>1, Zenon DEF IsEnds
    <3>2. Run(Rest(b), Len(svGot)) /\ Len(svGot) + b.len = svBack
      BY <2>3, <1>2, Zenon DEF Returning
    <3>3. 0 + Len(svGot) = Len(svGot) /\ b.len \in Nat
      BY <1>1, <3>1 DEF IsBuffer
    <3> QED
      BY <3>1, <3>2, <3>3
  <2> HIDE DEF b
  <2>6. /\ Run(svGot', 0) /\ Len(svGot') = Len(svGot) + n
        /\ IsBuffer(Past(b, n)) /\ Past(b, n).len = b.len - n
        /\ Run(Rest(Past(b, n)), Len(svGot'))
    <3>1. /\ Run(svGot \o SubSeq(Rest(b), 1, n), 0)
          /\ Len(svGot \o SubSeq(Rest(b), 1, n)) = Len(svGot) + n
          /\ IsBuffer(Past(b, n)) /\ Past(b, n).len = b.len - n
          /\ Run(Rest(Past(b, n)), 0 + Len(svGot \o SubSeq(Rest(b), 1, n)))
      BY <1>1, <2>5, SentMore, SMTT(30)
    <3>2. 0 + Len(svGot \o SubSeq(Rest(b), 1, n)) = Len(svGot \o SubSeq(Rest(b), 1, n))
      BY <1>1, <3>1
    <3> QED
      BY <2>1, <3>1, <3>2, SMTT(30)
  <2>7. CASE n < b.len
    <3>1. svConn' = [svConn EXCEPT !.buf = Past(b, n)]
      BY <2>1, <2>7, Zenon
    <3>2. /\ Paired(svConn') /\ svConn'.rsend = svConn.rsend /\ svConn'.recv = svConn.recv
          /\ svConn'.stage = "STREAM" /\ svConn'.connected = TRUE
          /\ svConn'.rrecv = FALSE /\ svConn'.send = TRUE /\ svConn'.rbuf = svConn.rbuf
          /\ svConn'.buf = Past(b, n)
      BY <3>1, <2>3, <2>4, <2>6, Zenon DEF Paired, IsEnds
    <3>3. Len(svGot') + Past(b, n).len = svBack'
      BY <2>5, <2>6, <1>1, <1>2
    <3>4. Returning(svConn', svBack', svGot')
      BY <3>2, <3>3, <2>6, Zenon DEF Returning
    <3>5. Relaying(svConn', svRead', svSent')
      BY <3>2, <2>3, <1>2, Zenon DEF Relaying
    <3> QED
      BY <2>1, <2>3, <2>6, <3>2, <3>4, <3>5, <1>1, <1>2, PairedKeeps, Zenon
  <2>8. CASE ~(n < b.len)
    <3>1. svConn' = [svConn EXCEPT !.buf = Empty, !.send = FALSE, !.rrecv = TRUE]
      BY <2>1, <2>8, Zenon
    <3>2. /\ Paired(svConn') /\ svConn'.rsend = svConn.rsend /\ svConn'.recv = svConn.recv
          /\ svConn'.stage = "STREAM" /\ svConn'.connected = TRUE
          /\ svConn'.rrecv = TRUE /\ svConn'.send = FALSE /\ svConn'.rbuf = svConn.rbuf
      BY <3>1, <2>3, <2>4, EmptyBuffer, Zenon DEF Paired, IsEnds
    <3>3. Len(svGot') = svBack'
      BY <2>5, <2>6, <2>8, <1>1, <1>2, SMTT(30)
    <3>4. Returning(svConn', svBack', svGot')
      BY <3>2, <3>3, Zenon DEF Returning
    <3>5. Relaying(svConn', svRead', svSent')
      BY <3>2, <2>3, <1>2, Zenon DEF Relaying
    <3> QED
      BY <2>1, <2>3, <2>6, <3>2, <3>4, <3>5, <1>1, <1>2, PairedKeeps, Zenon
  <2> QED
    BY <2>7, <2>8
<1> QED
  BY <1>3, <1>4, Zenon DEF server_send_cb

LEMMA CountNat ==
    ASSUME NEW m, NEW n \in 1..m
    PROVE  n \in Nat
OBVIOUS

(* What the destination sends goes to the client, or waits for server_send_cb. *)
LEMMA RemoteRecvKeeps ==
    ASSUME ServerEvInv, remote_recv_cb
    PROVE  ServerEvInv'
<1>1. /\ svRead \in Nat /\ svBack \in Nat /\ Run(svSent, HeaderLen) /\ Run(svGot, 0)
      /\ Len(svGot) \in Nat /\ IsEnds(svConn) /\ Owned(svConn, svQuery.live)
  BY ServerEvTypes, Zenon
<1>2. svConn.rrecv /\ UNCHANGED svRead /\ UNCHANGED svSent
  BY Zenon DEF remote_recv_cb
<1>3. CASE Drop(svConn) /\ UNCHANGED svBack /\ UNCHANGED svGot
  BY <1>1, <1>2, <1>3, DropKeeps, Zenon
<1>4. ASSUME NEW n \in 1..BUF_SIZE, svBack' = svBack + n,
             \/ Drop(svConn) /\ UNCHANGED svGot
             \/ \E k \in 0..n :
                   LET data == [i \in 1..n |-> svBack + i] IN
                   /\ svGot' = svGot \o SubSeq(data, 1, k)
                   /\ svConn' =
                         IF k = n THEN [svConn EXCEPT !.buf = Store(data)]
                         ELSE [svConn EXCEPT !.buf = Take(Store(data), k),
                                             !.rrecv = FALSE, !.send = TRUE]
                   /\ UNCHANGED svQuery
      PROVE  ServerEvInv'
  <2> DEFINE data == [i \in 1..n |-> svBack + i]
             b == Store(data)
  <2>1. n \in Nat /\ svBack' \in Nat /\ svBack' = svBack + n
    <3>1. n \in Nat
      BY CountNat, Zenon
    <3>2. svBack' = svBack + n
      BY <1>4, Zenon
    <3> QED
      BY <3>1, <3>2, <1>1
  <2>2. CASE Drop(svConn) /\ UNCHANGED svGot
    BY <1>1, <1>2, <2>1, <2>2, DropKeeps, Zenon
  <2>3. Run(data, svBack) /\ Len(data) = n
    BY <1>1, <2>1, RunMade, SMTT(30)
  <2>4. IsBuffer(b) /\ Rest(b) = data /\ b.len = n
    <3> HIDE DEF data
    <3> QED
      BY <2>3, RunStored, Zenon DEF Store, Run
  <2>5. svConn.server /\ svConn.remote
    BY <1>1, <1>2, Zenon DEF Owned
  <2>6. /\ Paired(svConn) /\ svQuery.live = FALSE
        /\ Relaying(svConn, svRead, svSent) /\ Returning(svConn, svBack, svGot)
    BY <2>5, PairedFacts, Zenon
  <2>7. /\ svConn.send = FALSE /\ svConn.rrecv = TRUE /\ svConn.stage = "STREAM"
        /\ svConn.connected = TRUE
    <3>1. svConn.rrecv \in BOOLEAN /\ svConn.send \in BOOLEAN /\ svConn.connected \in BOOLEAN
      BY <1>1, Zenon DEF IsEnds
    <3>2. svConn.stage = "STREAM"
      BY <1>2, <2>6, Zenon DEF Relaying
    <3> QED
      BY <3>1, <3>2, <1>2, <2>6, Zenon DEF Relaying
  <2>8. Len(svGot) = svBack
    BY <2>6, <2>7, Zenon DEF Returning
  <2>9. CASE \E k \in 0..n :
                /\ svGot' = svGot \o SubSeq(data, 1, k)
                /\ svConn' = IF k = n THEN [svConn EXCEPT !.buf = Store(data)]
                             ELSE [svConn EXCEPT !.buf = Take(Store(data), k),
                                                 !.rrecv = FALSE, !.send = TRUE]
                /\ UNCHANGED svQuery
    <3> HIDE DEF data
    <3>1. PICK k \in 0..n :
                /\ svGot' = svGot \o SubSeq(Rest(b), 1, k)
                /\ svConn' = IF k = n THEN [svConn EXCEPT !.buf = b]
                             ELSE [svConn EXCEPT !.buf = Past(b, k),
                                                 !.rrecv = FALSE, !.send = TRUE]
                /\ UNCHANGED svQuery
      BY <2>9, <2>4, Zenon DEF Take, Past
    <3> HIDE DEF b
    <3>2. /\ Run(svGot', 0) /\ Len(svGot') = Len(svGot) + k
          /\ IsBuffer(Past(b, k)) /\ Past(b, k).len = b.len - k
          /\ Run(Rest(Past(b, k)), Len(svGot'))
      <4>1. 0 \in Int /\ 0 + Len(svGot) = svBack /\ k \in 0..b.len
        BY <1>1, <2>4, <2>8, SMTT(30)
      <4>2. Run(Rest(b), 0 + Len(svGot))
        BY <4>1, <2>3, <2>4, Zenon
      <4>3. /\ Run(svGot \o SubSeq(Rest(b), 1, k), 0)
            /\ Len(svGot \o SubSeq(Rest(b), 1, k)) = Len(svGot) + k
            /\ IsBuffer(Past(b, k)) /\ Past(b, k).len = b.len - k
            /\ Run(Rest(Past(b, k)), 0 + Len(svGot \o SubSeq(Rest(b), 1, k)))
        BY <1>1, <2>4, <4>1, <4>2, SentMore, SMTT(30)
      <4>4. 0 + Len(svGot \o SubSeq(Rest(b), 1, k)) = Len(svGot \o SubSeq(Rest(b), 1, k))
        BY <1>1, <4>3
      <4> QED
        BY <3>1, <4>3, <4>4, Zenon
    <3>3. CASE k = n
      <4>1. svConn' = [svConn EXCEPT !.buf = b]
        BY <3>1, <3>3, Zenon
      <4>2. /\ Paired(svConn') /\ svConn'.rsend = svConn.rsend /\ svConn'.recv = svConn.recv
            /\ svConn'.stage = "STREAM" /\ svConn'.connected = TRUE
            /\ svConn'.rrecv = TRUE /\ svConn'.send = FALSE /\ svConn'.rbuf = svConn.rbuf
        BY <4>1, <2>4, <2>6, <2>7, Zenon DEF Paired, IsEnds
      <4>3. Len(svGot') = svBack'
        BY <3>2, <3>3, <2>1, <2>8, SMTT(30)
      <4>4. Returning(svConn', svBack', svGot')
        BY <4>2, <4>3, Zenon DEF Returning
      <4>5. Relaying(svConn', svRead', svSent')
        BY <4>2, <2>6, <1>2, Zenon DEF Relaying
      <4> QED
        BY <3>1, <3>2, <2>1, <2>6, <4>2, <4>4, <4>5, <1>1, <1>2, PairedKeeps, Zenon
    <3>4. CASE k # n
      <4>1. svConn' = [svConn EXCEPT !.buf = Past(b, k), !.rrecv = FALSE, !.send = TRUE]
        BY <3>1, <3>4, Zenon
      <4>2. /\ Paired(svConn') /\ svConn'.rsend = svConn.rsend /\ svConn'.recv = svConn.recv
            /\ svConn'.stage = "STREAM" /\ svConn'.connected = TRUE
            /\ svConn'.rrecv = FALSE /\ svConn'.send = TRUE /\ svConn'.rbuf = svConn.rbuf
            /\ svConn'.buf = Past(b, k)
        BY <4>1, <3>2, <2>6, <2>7, Zenon DEF Paired, IsEnds
      <4>3. Len(svGot') + Past(b, k).len = svBack'
        <5>1. k \in Int /\ b.len = n /\ n \in Int
          BY <2>1, <2>4
        <5> HIDE DEF data
        <5> QED
          BY <5>1, <3>2, <2>1, <2>8, <1>1, SMTT(30)
      <4>4. Returning(svConn', svBack', svGot')
        BY <4>2, <4>3, <3>2, Zenon DEF Returning
      <4>5. Relaying(svConn', svRead', svSent')
        BY <4>2, <2>6, <1>2, Zenon DEF Relaying
      <4> QED
        BY <3>1, <3>2, <2>1, <2>6, <4>2, <4>4, <4>5, <1>1, <1>2, PairedKeeps, Zenon
    <3> QED
      BY <3>3, <3>4, Zenon
  <2> QED
    BY <1>4, <2>2, <2>9, Zenon
<1> QED
  BY <1>3, <1>4, Zenon DEF remote_recv_cb

(* The connection is made, and what was kept for the destination is sent. *)
LEMMA RemoteSendKeeps ==
    ASSUME ServerEvInv, remote_send_cb
    PROVE  ServerEvInv'
<1> DEFINE b == svConn.rbuf
<1>1. /\ svRead \in Nat /\ svBack \in Nat /\ Run(svSent, HeaderLen) /\ Run(svGot, 0)
      /\ Len(svSent) \in Nat /\ IsEnds(svConn) /\ Owned(svConn, svQuery.live)
      /\ HeaderLen \in Int /\ IvLen \in Int
  BY ServerEvTypes
<1>2. svConn.rsend /\ UNCHANGED svRead /\ UNCHANGED svBack /\ UNCHANGED svGot
  BY Zenon DEF remote_send_cb
<1>3. CASE Drop(svConn) /\ UNCHANGED svSent
  BY <1>1, <1>2, <1>3, DropKeeps, Zenon
<1>4. svConn.server /\ svConn.remote
  BY <1>1, <1>2, Zenon DEF Owned
<1>5. /\ Paired(svConn) /\ svQuery.live = FALSE
      /\ Relaying(svConn, svRead, svSent) /\ Returning(svConn, svBack, svGot)
  BY <1>4, PairedFacts, Zenon
<1>6. /\ IsBuffer(b) /\ b.len \in Nat /\ Run(Rest(b), HeaderLen + Len(svSent))
      /\ Len(svSent) + b.len = Payload(svRead) /\ svConn.recv = FALSE
      /\ svConn.rsend = TRUE /\ svConn.rrecv \in BOOLEAN
  <2>1. IsBuffer(b) /\ svConn.recv \in BOOLEAN /\ svConn.rsend \in BOOLEAN
        /\ svConn.rrecv \in BOOLEAN
    BY <1>1, Zenon DEF IsEnds
  <2>2. /\ Run(Rest(b), HeaderLen + Len(svSent))
        /\ Len(svSent) + b.len = Payload(svRead) /\ ~svConn.recv
    BY <1>2, <1>5, Zenon DEF Relaying
  <2>3. b.len \in Nat
    BY <2>1, Zenon DEF IsBuffer
  <2> QED
    BY <1>2, <2>1, <2>2, <2>3
<1>7. CASE /\ ~svConn.connected /\ b.len = 0
           /\ svConn' = [svConn EXCEPT !.connected = TRUE, !.stage = "STREAM",
                            !.rsend = FALSE, !.recv = TRUE, !.rrecv = TRUE]
           /\ UNCHANGED svQuery /\ UNCHANGED svSent
  <2>1. svConn.send = FALSE
    <3>1. svConn.send \in BOOLEAN
      BY <1>1, Zenon DEF IsEnds
    <3> QED
      BY <3>1, <1>5, <1>7, Zenon DEF Relaying
  <2>2. /\ Paired(svConn') /\ svConn'.rsend = FALSE /\ svConn'.recv = TRUE
        /\ svConn'.stage = "STREAM" /\ svConn'.connected = TRUE
        /\ svConn'.rrecv = TRUE /\ svConn'.send = FALSE /\ svConn'.buf = svConn.buf
    <3>1. "STREAM" \in EvStages
      BY Zenon DEF EvStages
    <3> QED
      BY <3>1, <2>1, <1>5, <1>7, Zenon DEF Paired, IsEnds
  <2>3. Len(svSent') = Payload(svRead')
    BY <1>1, <1>2, <1>6, <1>7
  <2>4. Relaying(svConn', svRead', svSent')
    BY <2>2, <2>3, Zenon DEF Relaying
  <2>5. Returning(svConn', svBack', svGot')
    BY <2>1, <2>2, <1>2, <1>5, Zenon DEF Returning
  <2>6. Run(svSent', HeaderLen)
    BY <1>1, <1>7, Zenon
  <2> QED
    BY <2>2, <2>4, <2>5, <2>6, <1>1, <1>2, <1>5, <1>7, PairedKeeps, Zenon
<1>8. CASE \E n \in 0..b.len :
             /\ svSent' = svSent \o SubSeq(Unsent(b), 1, n)
             /\ svConn' =
                  IF n < b.len THEN [svConn EXCEPT !.rbuf = Take(b, n), !.connected = TRUE]
                  ELSE [svConn EXCEPT !.rbuf = Empty, !.connected = TRUE,
                           !.rsend = FALSE, !.recv = TRUE, !.stage = "STREAM",
                           !.rrecv = svConn.rrecv \/ svConn.stage # "STREAM"]
             /\ UNCHANGED svQuery
  <2>1. PICK n \in 0..b.len :
             /\ svSent' = svSent \o SubSeq(Rest(b), 1, n)
             /\ svConn' =
                  IF n < b.len THEN [svConn EXCEPT !.rbuf = Past(b, n), !.connected = TRUE]
                  ELSE [svConn EXCEPT !.rbuf = Empty, !.connected = TRUE,
                           !.rsend = FALSE, !.recv = TRUE, !.stage = "STREAM",
                           !.rrecv = svConn.rrecv \/ svConn.stage # "STREAM"]
             /\ UNCHANGED svQuery
    BY <1>8, Zenon DEF Unsent, Rest, Take, Past
  <2> HIDE DEF b
  <2>2. /\ Run(svSent', HeaderLen) /\ Len(svSent') = Len(svSent) + n
        /\ IsBuffer(Past(b, n)) /\ Past(b, n).len = b.len - n
        /\ Run(Rest(Past(b, n)), HeaderLen + Len(svSent'))
    <3>1. /\ Run(svSent \o SubSeq(Rest(b), 1, n), HeaderLen)
          /\ Len(svSent \o SubSeq(Rest(b), 1, n)) = Len(svSent) + n
          /\ IsBuffer(Past(b, n)) /\ Past(b, n).len = b.len - n
          /\ Run(Rest(Past(b, n)), HeaderLen + Len(svSent \o SubSeq(Rest(b), 1, n)))
      BY <1>1, <1>6, SentMore, SMTT(30)
    <3> QED
      BY <2>1, <3>1, Zenon
  <2>3. CASE n < b.len
    <3>1. svConn' = [svConn EXCEPT !.rbuf = Past(b, n), !.connected = TRUE]
      BY <2>1, <2>3, Zenon
    <3>2. /\ Paired(svConn') /\ svConn'.rsend = TRUE /\ svConn'.recv = FALSE
          /\ svConn'.stage = svConn.stage /\ svConn'.connected = TRUE
          /\ svConn'.rrecv = svConn.rrecv /\ svConn'.send = svConn.send
          /\ svConn'.rbuf = Past(b, n) /\ svConn'.buf = svConn.buf
      BY <3>1, <2>2, <1>5, <1>6, Zenon DEF Paired, IsEnds
    <3>3. Len(svSent') + Past(b, n).len = Payload(svRead')
      BY <2>2, <1>1, <1>2, <1>6
    <3>4. Relaying(svConn', svRead', svSent')
      BY <3>2, <3>3, <2>2, <1>5, Zenon DEF Relaying
    <3>5. Returning(svConn', svBack', svGot')
      BY <3>2, <1>2, <1>5, Zenon DEF Returning
    <3> QED
      BY <2>1, <2>2, <3>2, <3>4, <3>5, <1>1, <1>2, <1>5, PairedKeeps, Zenon
  <2>4. CASE ~(n < b.len)
    <3> DEFINE w == svConn.rrecv \/ svConn.stage # "STREAM"
    <3>1. /\ svConn' = [svConn EXCEPT !.rbuf = Empty, !.connected = TRUE,
                           !.rsend = FALSE, !.recv = TRUE, !.stage = "STREAM",
                           !.rrecv = w]
          /\ "STREAM" \in EvStages /\ w \in BOOLEAN
      BY <2>1, <2>4, Zenon DEF EvStages
    <3>2. w <=> ~svConn.send
      BY <1>5, Zenon DEF Relaying
    <3> HIDE DEF w
    <3>3. /\ Paired(svConn') /\ svConn'.rsend = FALSE /\ svConn'.recv = TRUE
          /\ svConn'.stage = "STREAM" /\ svConn'.connected = TRUE
          /\ svConn'.rrecv = w /\ svConn'.send = svConn.send /\ svConn'.buf = svConn.buf
      BY <3>1, <1>5, EmptyBuffer, Zenon DEF Paired, IsEnds
    <3>4. Len(svSent') = Payload(svRead')
      <4>1. n = b.len
        BY <2>4, <1>6
      <4> QED
        BY <2>2, <4>1, <1>2, <1>6, Zenon
    <3>5. Relaying(svConn', svRead', svSent')
      BY <3>2, <3>3, <3>4, Zenon DEF Relaying
    <3>6. Returning(svConn', svBack', svGot')
      BY <3>3, <1>2, <1>5, Zenon DEF Returning
    <3> QED
      BY <2>1, <2>2, <3>3, <3>5, <3>6, <1>1, <1>2, <1>5, PairedKeeps, Zenon
  <2> QED
    BY <2>3, <2>4, Zenon
<1> QED
  BY <1>3, <1>7, <1>8, Zenon DEF remote_send_cb

LEMMA AcceptKeeps ==
    ASSUME ServerEvInv, accept_cb
    PROVE  ServerEvInv'
<1> DEFINE d == [new_server EXCEPT !.recv = TRUE, !.timer = TRUE]
<1>1. /\ svConn' = d /\ ~svConn.server /\ UNCHANGED svQuery
      /\ svRead' = 0 /\ svSent' = <<>> /\ svBack' = 0 /\ svGot' = <<>>
  BY Zenon DEF accept_cb
<1>2. svQuery.live = FALSE
  BY <1>1, ServerEvTypes DEF Owned, IsQuery
<1>3. Alone(d) /\ d.stage = "INIT" /\ d.buf = Empty /\ d.header_buf = <<>>
  BY EmptyBuffer DEF Alone, IsEnds, new_server, NoConn, EvStages
<1> HIDE DEF d
<1>4. Reading(d, 0, <<>>)
  <2>1. Empty.data = <<>> /\ Empty.len = 0 /\ Empty.idx = 0 /\ -IvLen \in Int
    BY ServerEvAssumption DEF Empty
  <2>2. Run(<<>>, -IvLen)
    BY <2>1, RunEmpty, Zenon
  <2> QED
    BY <2>1, <2>2, <1>3 DEF Reading
<1>5. EndsOk(d, FALSE, 0, <<>>, 0, <<>>)
  <2>1. Run(<<>>, 0) /\ Len(<<>>) = 0 /\ d.stage \in {"INIT", "HANDSHAKE", "ERROR", "RESOLVE"}
    BY <1>3, RunEmpty
  <2> QED
    BY <2>1, <1>3, <1>4, AloneOk, Zenon
<1> QED
  BY <1>1, <1>2, <1>5, ServerEvTypes, Zenon DEF ServerEvInv

(* main closes what is left, the server's end first. *)
LEMMA FreeKeeps ==
    ASSUME ServerEvInv, free_connections
    PROVE  ServerEvInv'
<1>1. /\ svConn' = close_and_free_remote(close_and_free_server(svConn), svConn.remotep)
      /\ svQuery' = Cancelled(svConn) /\ UNCHANGED svRead /\ UNCHANGED svSent
      /\ UNCHANGED svBack /\ UNCHANGED svGot
  BY Zenon DEF free_connections
<1>2. AtEnd(svConn')
  BY <1>1, ServerEvTypes, BothEndsClose, SMTT(30)
<1>3. IsQuery(svQuery') /\ svQuery'.live = FALSE
  BY <1>1, CancelledEnds, Zenon
<1>4. EndsOk(svConn', svQuery'.live, svRead', svSent', svBack', svGot')
  BY <1>1, <1>2, <1>3, ServerEvTypes, EndIsOk, Zenon
<1> QED
  BY <1>3, <1>4 DEF ServerEvInv

LEMMA ServerEvStarts ==
    ASSUME ServerEvInit
    PROVE  ServerEvInv
<1>1. /\ svConn = NoConn /\ svQuery = NoQuery /\ svRead = 0 /\ svSent = <<>>
      /\ svBack = 0 /\ svGot = <<>>
  BY Zenon DEF ServerEvInit
<1>2. AtEnd(NoConn)
  <2>0. SUFFICES ASSUME NEW d, d = NoConn  PROVE AtEnd(d)
    BY Zenon
  <2>1. /\ d.server = FALSE /\ d.recv = FALSE /\ d.send = FALSE /\ d.timer = FALSE
        /\ d.query = FALSE /\ d.remotep = FALSE /\ d.remote = FALSE /\ d.serverp = FALSE
        /\ d.rrecv = FALSE /\ d.rsend = FALSE /\ d.connected = FALSE /\ d.rbuf = Empty
        /\ d.buf = Empty /\ d.header_buf = <<>> /\ d.stage = "INIT"
        /\ DOMAIN d = {"server", "stage", "buf", "header_buf", "recv", "send", "timer",
                       "query", "remotep", "remote", "rbuf", "rrecv", "rsend",
                       "connected", "serverp"}
    BY <2>0, Zenon DEF NoConn
  <2>2. d.stage \in EvStages /\ d.header_buf \in Seq(Int)
    BY <2>1 DEF EvStages
  <2> QED BY <2>1, <2>2, EmptyBuffer, Zenon DEF AtEnd, IsEnds
<1>3. IsQuery(NoQuery) /\ NoQuery.live = FALSE
  BY Zenon DEF IsQuery, NoQuery
<1>4. Run(<<>>, HeaderLen) /\ Run(<<>>, 0)
  BY RunEmpty, ServerEvAssumption
<1>5. EndsOk(NoConn, NoQuery.live, 0, <<>>, 0, <<>>)
  BY <1>2, <1>3, <1>4, EndIsOk, Zenon
<1> QED
  BY <1>1, <1>3, <1>5 DEF ServerEvInv

LEMMA ServerEvKeeps ==
    ASSUME ServerEvInv, "part" \notin FastOpenSends,
           ServerEvNext \/ UNCHANGED serverEvVars
    PROVE  ServerEvInv'
<1>1. CASE accept_cb
  BY <1>1, AcceptKeeps, SMTT(30)
<1>2. CASE server_recv_cb
  BY <1>2, ServerRecvKeeps, SMTT(30)
<1>3. CASE server_send_cb
  BY <1>3, ServerSendKeeps, Zenon
<1>4. CASE server_timeout_cb
  <2>1. Drop(svConn) /\ UNCHANGED svRead /\ UNCHANGED svSent
        /\ UNCHANGED svBack /\ UNCHANGED svGot
    BY <1>4, Zenon DEF server_timeout_cb
  <2> QED
    BY <2>1, ServerEvTypes, DropKeeps
<1>5. CASE remote_recv_cb
  BY <1>5, RemoteRecvKeeps, Zenon
<1>6. CASE remote_send_cb
  BY <1>6, RemoteSendKeeps, Zenon
<1>7. CASE free_connections
  BY <1>7, FreeKeeps, Zenon
<1>8. CASE block_list_clear_cb
  BY <1>8, Zenon DEF block_list_clear_cb, ServerEvInv
<1>9. CASE dns_query_v4_cb \/ dns_query_v6_cb
  BY <1>9, QueryAnswers
<1>10. CASE UNCHANGED serverEvVars
  BY <1>10, Zenon DEF serverEvVars, ServerEvInv
<1> QED
  BY <1>1, <1>2, <1>3, <1>4, <1>5, <1>6, <1>7, <1>8, <1>9, <1>10, Zenon DEF ServerEvNext

(* What the invariant says of the two ends and of the two streams. *)
LEMMA EndsFollow ==
    ASSUME ServerEvInv
    PROVE  EndsOwned
<1>1. Owned(svConn, svQuery.live) /\ IsEnds(svConn) /\ svQuery.live \in BOOLEAN
  BY ServerEvTypes, Zenon DEF IsQuery
<1>2. /\ svConn.remote \in BOOLEAN /\ svConn.remotep \in BOOLEAN
      /\ svConn.serverp \in BOOLEAN /\ svConn.query \in BOOLEAN
  BY <1>1, Zenon DEF IsEnds
<1>3. /\ svConn.remote = svConn.remotep /\ svConn.remotep = svConn.serverp
      /\ svConn.query = svQuery.live
  BY <1>1, <1>2, Zenon DEF Owned
<1> QED
  BY <1>1, <1>3, Zenon DEF EndsOwned, Owned

LEMMA StreamFollows ==
    ASSUME ServerEvInv
    PROVE  StreamKept
<1>1. /\ svRead \in Nat /\ svBack \in Nat /\ Run(svSent, HeaderLen) /\ Run(svGot, 0)
      /\ Len(svSent) \in Nat /\ Len(svGot) \in Nat /\ IvLen \in Nat /\ HeaderLen \in Nat
      /\ Owned(svConn, svQuery.live)
  BY ServerEvTypes
<1>2. \A i \in DOMAIN svSent : svSent[i] = HeaderLen + i
  <2>1. svSent \in Seq(Int) /\ \A i \in 1..Len(svSent) : svSent[i] = HeaderLen + i
    BY <1>1, Zenon DEF Run
  <2> QED
    BY <2>1, LengthOfStream, Zenon
<1>3. \A i \in DOMAIN svGot : svGot[i] = i
  <2>1. DOMAIN svGot = 1..Len(svGot)
    BY <1>1, LengthOfStream DEF Run
  <2> QED
    BY <1>1, <2>1 DEF Run
<1>4. ASSUME svConn.server, svConn.stage = "STREAM"
      PROVE  /\ Len(svSent) < svRead - IvLen - HeaderLen => svConn.rsend
             /\ Len(svGot) < svBack => svConn.send
  <2>1. svConn.remote
    BY <1>1, <1>4 DEF Owned
  <2>2. Relaying(svConn, svRead, svSent) /\ Returning(svConn, svBack, svGot)
    BY <1>4, <2>1, PairedFacts
  <2>3. ~svConn.rsend => Len(svSent) = svRead - IvLen - HeaderLen
    BY <2>2, Zenon DEF Relaying, Payload
  <2>4. ~svConn.send => Len(svGot) = svBack
    BY <2>2, Zenon DEF Returning
  <2>5. Len(svSent) < svRead - IvLen - HeaderLen => svConn.rsend
    BY <2>3, <1>1
  <2>6. Len(svGot) < svBack => svConn.send
    BY <2>4, <1>1
  <2> QED
    BY <2>5, <2>6, SMTT(30)
<1> QED
  BY <1>2, <1>3, <1>4, Zenon DEF StreamKept
=============================================================================
