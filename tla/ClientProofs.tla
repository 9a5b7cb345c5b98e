---------------------------- MODULE ClientProofs ----------------------------
(***************************************************************************)
(* Proofs about Client, for every set of tunnels, of server addresses and  *)
(* of configurations, with TLS and without: ClientInv is inductive, and    *)
(* from it the assertions, the account of the tunnels and the refinement   *)
(* of Relay.                                                               *)
(*                                                                         *)
(* A callback is followed in two halves.  The first (the completion        *)
(* callback of tunnel.c and the reset of the socket's state in do_next)    *)
(* leaves a settled tunnel; the second (the stage's own function) starts   *)
(* what the next stage waits for.                                          *)
(***************************************************************************)
EXTENDS Client, TLAPS

(* What a step of one tunnel may do: keep the invariant, be a step of the   *)
(* Relay or none unless TLS carries the data, and not come back to life.    *)
SameCounts(t, u) == u.taken = t.taken /\ u.delivered = t.delivered

RelayStep(t, u) ==
    \/ RelayPhase(u) = RelayPhase(t) /\ SameCounts(t, u)
    \/ RelayPhase(t) # "closed" /\ RelayPhase(u) = "closed" /\ SameCounts(t, u)
    \/ RelayPhase(t) = "setup" /\ RelayPhase(u) = "open" /\ SameCounts(t, u)
    \/ /\ RelayPhase(t) = "open" /\ RelayPhase(u) = "open"
       /\ \E c \in Sides :
            \/ /\ t.taken[c] = t.delivered[Other(c)]
               /\ u.taken = [t.taken EXCEPT ![c] = @ + 1]
               /\ u.delivered = t.delivered
            \/ /\ t.taken[Other(c)] = t.delivered[c] + 1
               /\ u.delivered = [t.delivered EXCEPT ![c] = @ + 1]
               /\ u.taken = t.taken

GoodStep(k, t, u) ==
    /\ TunnelInv(k, u)
    /\ k \/ RelayStep(t, u)
    /\ u.stage # "unborn" /\ (Alive(u) => Alive(t))

(* The fields that no operation on a live socket touches. *)
Fixed(t, u) ==
    /\ u.addr = t.addr /\ u.terminated = t.terminated /\ u.failed = t.failed
    /\ u.ref_count = t.ref_count /\ u.closing = t.closing /\ u.freed = t.freed
    /\ u.taken = t.taken /\ u.delivered = t.delivered

Linked(t, u) ==
    u.stage = t.stage /\ u.tls = t.tls /\ u.conn = t.conn /\ u.gai = t.gai

AsBefore(t, u) ==
    /\ Fixed(t, u) /\ Linked(t, u) /\ u.rd = t.rd /\ u.wr = t.wr
    /\ u.wreq = t.wreq /\ u.reading = t.reading

(* A tunnel in the middle of a callback: live, whatever its sockets do. *)
Working(k, t) ==
    /\ IsTunnel(t) /\ Alive(t)
    /\ t.failed \subseteq Tolerated(k, t)
    /\ t.conn # "none" => t.addr \in ServerAddress
    /\ TlsInv(k, t)
    /\ t.ref_count = 0 /\ t.closing = {} /\ ~t.freed
    /\ \A c \in Sides : t.rd[c] # "dead" /\ t.wr[c] # "dead"

(* Nothing is read, written, looked up or connected. *)
Idle(t) ==
    /\ \A c \in Sides : /\ t.rd[c] = "stop" /\ t.wr[c] = "stop"
                        /\ ~t.wreq[c] /\ ~t.reading[c]
    /\ ~t.gai /\ t.conn # "pending"

Fresh(t) ==
    /\ Alive(t) /\ t.stage \notin {"streaming", "tls_streaming"}
    /\ t.taken = Both(0) /\ t.delivered = Both(0)

Settled(k, t) == Working(k, t) /\ Idle(t) /\ Fresh(t)

Busy(t) ==
    \A c \in Sides : /\ t.wreq[c] <=> t.wr[c] = "busy"
                     /\ t.reading[c] => t.rd[c] = "busy"

-----------------------------------------------------------------------------
(* What the socket operations do when their assertions hold. *)

ReadStarted(t, c, u) ==
    /\ Fixed(t, u) /\ Linked(t, u) /\ u.wr = t.wr /\ u.wreq = t.wreq
    /\ u.rd = [t.rd EXCEPT ![c] = "busy"]
    /\ u.reading = [t.reading EXCEPT ![c] = TRUE]

WriteStarted(t, c, u) ==
    /\ Fixed(t, u) /\ Linked(t, u) /\ u.rd = t.rd /\ u.reading = t.reading
    /\ u.wr = [t.wr EXCEPT ![c] = "busy"]
    /\ u.wreq = [t.wreq EXCEPT ![c] = TRUE]

(* socket_read on a usable, stopped side marks it busy. *)
LEMMA ReadEffect ==
    ASSUME NEW t, IsTunnel(t), NEW c \in Sides, NEW b \in BOOLEAN,
           t.rd[c] = "stop", StreamUsable(t, c)
    PROVE  IsTunnel(socket_read(t, c, b)) /\ ReadStarted(t, c, socket_read(t, c, b))
<1> USE DEF socket_read, ASSERT, IsTunnel, ReadStarted, Fixed, Linked, Sides, SockStates
<1>1. CASE b = TRUE
  BY <1>1, SMT
<1>2. CASE b = FALSE
  BY <1>2, SMT
<1> QED BY ONLY <1>1, <1>2, b \in BOOLEAN, Zenon

(* socket_write on a usable, stopped side marks it busy. *)
LEMMA WriteEffect ==
    ASSUME NEW t, IsTunnel(t), NEW c \in Sides,
           t.wr[c] = "stop", StreamUsable(t, c)
    PROVE  IsTunnel(socket_write(t, c)) /\ WriteStarted(t, c, socket_write(t, c))
  BY SMT DEF socket_write, ASSERT, IsTunnel, WriteStarted, Fixed, Linked, Sides, SockStates

(* A change of stage alone. *)
MovedTo(t, s) == [t EXCEPT !.stage = s]

OnlyStage(t, s, u) ==
    /\ Fixed(t, u) /\ u.stage = s
    /\ u.tls = t.tls /\ u.conn = t.conn /\ u.gai = t.gai
    /\ u.rd = t.rd /\ u.wr = t.wr
    /\ u.wreq = t.wreq /\ u.reading = t.reading

LEMMA StageMoved ==
    ASSUME NEW t, IsTunnel(t), NEW s \in Stages
    PROVE  IsTunnel(MovedTo(t, s)) /\ OnlyStage(t, s, MovedTo(t, s))
  BY Zenon DEF IsTunnel, Fixed, MovedTo, OnlyStage

(* An assertion that holds changes nothing. *)
LEMMA CheckHolds ==
    ASSUME NEW t, IsTunnel(t), NEW a
    PROVE  IsTunnel(Check(t, a, TRUE)) /\ AsBefore(t, Check(t, a, TRUE))
  BY Zenon DEF Check, ASSERT, IsTunnel, AsBefore, Fixed, Linked

(* The two sockets of a tunnel have four libuv handles between them. *)
LEMMA HandleCounts ==
    /\ HandleCount(Handles) = 4
    /\ \A c \in SUBSET Handles :
          /\ HandleCount(c) \in Nat
          /\ \A h \in c : HandleCount(c \ {h}) = HandleCount(c) - 1
<1> DEFINE h1 == <<"in", "tcp">>
           h2 == <<"in", "timer">>
           h3 == <<"out", "tcp">>
           h4 == <<"out", "timer">>
<1>1. Handles = {h1, h2, h3, h4}
  BY DEF Handles, Sides
<1>2. h1 # h2 /\ h1 # h3 /\ h1 # h4 /\ h2 # h3 /\ h2 # h4 /\ h3 # h4
  BY Zenon
<1>3. \A c : HandleCount(c) = (IF h1 \in c THEN 1 ELSE 0) + (IF h2 \in c THEN 1 ELSE 0)
                             + (IF h3 \in c THEN 1 ELSE 0) + (IF h4 \in c THEN 1 ELSE 0)
  BY Zenon DEF HandleCount
<1> HIDE DEF h1, h2, h3, h4
<1>4. HandleCount(Handles) = 4
  BY <1>1, <1>3
<1>5. ASSUME NEW c \in SUBSET Handles PROVE HandleCount(c) \in Nat
  BY <1>3
<1>6. ASSUME NEW c \in SUBSET Handles, NEW h \in c
      PROVE  HandleCount(c \ {h}) = HandleCount(c) - 1
  <2>1. h \in {h1, h2, h3, h4}
    BY <1>1, Zenon
  <2> QED BY <1>2, <1>3, <2>1
<1> QED BY <1>4, <1>5, <1>6, Zenon

(* tunnel_shutdown of a live tunnel stops everything and closes its four
   handles. *)
LEMMA ShutdownEffect ==
    ASSUME NEW t, IsTunnel(t), ~t.terminated, t.ref_count = 0,
           \A c \in Sides : t.rd[c] # "dead" /\ t.wr[c] # "dead"
    PROVE  LET u == tunnel_shutdown(t)
           IN  /\ IsTunnel(u) /\ Linked(t, u) /\ SameCounts(t, u) /\ u.terminated
               /\ u.addr = t.addr /\ u.failed = t.failed
               /\ u.rd = Both("dead") /\ u.wr = Both("dead")
               /\ u.reading = Both(FALSE) /\ u.timer = Both(FALSE)
               /\ u.closing = Handles /\ u.ref_count = 4
<1> DEFINE q == \A c \in Sides : t.rd[c] # "dead" /\ t.wr[c] # "dead"
<1>1. q = TRUE
  BY Zenon
<1>2. tunnel_shutdown(t) =
         [t EXCEPT !.rd = Both("dead"), !.wr = Both("dead"),
              !.reading = Both(FALSE), !.timer = Both(FALSE),
              !.closing = Handles, !.ref_count = @ + 4, !.terminated = TRUE,
              !.failed = @ \cup ASSERT("close.not_dead", q)]
  BY Zenon DEF tunnel_shutdown, tunnel_is_dead, socket_close_both
<1> HIDE DEF q
<1> QED BY <1>1, <1>2, SMT DEF ASSERT, IsTunnel, Linked, SameCounts, Sides, Both, SockStates

-----------------------------------------------------------------------------
(* tunnel_shutdown is a good step from the middle of any callback. *)
LEMMA ShutdownGood ==
    ASSUME NEW k \in BOOLEAN, NEW t, Working(k, t), NEW t0, Alive(t0), SameCounts(t0, t)
    PROVE  GoodStep(k, t0, tunnel_shutdown(t))
<1> DEFINE u == tunnel_shutdown(t)
<1>1. /\ IsTunnel(t) /\ t.stage # "unborn" /\ ~t.terminated /\ t.ref_count = 0
      /\ \A c \in Sides : t.rd[c] # "dead" /\ t.wr[c] # "dead"
      /\ t.failed \subseteq Tolerated(k, t) /\ TlsInv(k, t)
      /\ t.conn # "none" => t.addr \in ServerAddress
  BY Zenon DEF Working, Alive
<1>2. /\ IsTunnel(u) /\ Linked(t, u) /\ SameCounts(t, u) /\ u.terminated
      /\ u.addr = t.addr /\ u.failed = t.failed
      /\ u.rd = Both("dead") /\ u.wr = Both("dead")
      /\ u.reading = Both(FALSE) /\ u.timer = Both(FALSE)
      /\ u.closing = Handles /\ u.ref_count = 4
  BY <1>1, ShutdownEffect, Zenon
<1> HIDE DEF u
<1>3. DeadInv(u)
  BY <1>2, HandleCounts, Zenon DEF DeadInv
<1>4. u.failed \subseteq Tolerated(k, u)
  <2>1. Alive(t) /\ ~Alive(u)
    BY <1>1, <1>2, Zenon DEF Alive
  <2>2. Tolerated(k, t) \subseteq Tolerated(k, u)
    BY <2>1, Zenon DEF Tolerated
  <2> QED BY <1>1, <1>2, <2>2, Zenon
<1>5. TlsInv(k, u)
  BY <1>1, <1>2, Zenon DEF TlsInv, Linked
<1>6. u.conn # "none" => u.addr \in ServerAddress
  BY <1>1, <1>2, Zenon DEF Linked
<1>7. TunnelInv(k, u) /\ u.stage # "unborn" /\ ~Alive(u)
  BY <1>1, <1>2, <1>3, <1>4, <1>5, <1>6, Zenon DEF TunnelInv, Alive, Linked
<1>8. RelayStep(t0, u)
  BY <1>2, Zenon DEF RelayStep, RelayPhase, SameCounts, Alive
<1> QED BY <1>7, <1>8, Zenon DEF GoodStep, u

(* What is left alone in the middle of a callback stays as it was. *)
LEMMA WorkingKept ==
    ASSUME NEW k \in BOOLEAN, NEW t, Working(k, t), NEW u, IsTunnel(u),
           Fixed(t, u), Linked(t, u),
           \A c \in Sides : u.rd[c] # "dead" /\ u.wr[c] # "dead"
    PROVE  Working(k, u)
<1>1. /\ IsTunnel(t) /\ Alive(t) /\ t.failed \subseteq Tolerated(k, t) /\ TlsInv(k, t)
      /\ t.conn # "none" => t.addr \in ServerAddress
      /\ t.ref_count = 0 /\ t.closing = {} /\ ~t.freed
  BY Zenon DEF Working
<1>2. Alive(u)
  BY <1>1, Zenon DEF Alive, Fixed, Linked
<1>3. u.failed \subseteq Tolerated(k, u)
  BY <1>1, <1>2, Zenon DEF Tolerated, Fixed
<1>4. TlsInv(k, u)
  BY <1>1, Zenon DEF TlsInv, Linked
<1> QED BY <1>1, <1>2, <1>3, <1>4, Zenon DEF Working, Fixed, Linked

(* The same of a settled tunnel. *)
LEMMA SettledKept ==
    ASSUME NEW k \in BOOLEAN, NEW t, Settled(k, t), NEW u, IsTunnel(u), AsBefore(t, u)
    PROVE  Settled(k, u)
<1> USE DEF AsBefore
<1>1. Working(k, t) /\ Idle(t) /\ Fresh(t)
  BY Zenon DEF Settled
<1>2. Idle(u)
  BY <1>1, Zenon DEF Idle, Linked
<1>3. Fresh(u)
  BY <1>1, Zenon DEF Fresh, Fixed, Linked, Alive
<1>4. \A c \in Sides : u.rd[c] # "dead" /\ u.wr[c] # "dead"
  BY <1>1, Zenon DEF Working
<1> QED BY <1>1, <1>2, <1>3, <1>4, WorkingKept, Zenon DEF Settled

(* Every stage finds its sockets stopped, as its assertion says. *)
LEMMA StopHolds ==
    ASSUME NEW k \in BOOLEAN, NEW t, Settled(k, t)
    PROVE  /\ Settled(k, Stop(t)) /\ Fixed(t, Stop(t)) /\ Linked(t, Stop(t))
           /\ Settled(k, InStop(t)) /\ Fixed(t, InStop(t)) /\ Linked(t, InStop(t))
<1> DEFINE p == AllStop(t)
           q == t.rd["in"] = "stop" /\ t.wr["in"] = "stop"
<1>1. IsTunnel(t) /\ p = TRUE /\ q = TRUE
  BY Zenon DEF Settled, Working, Idle, AllStop, Sides
<1>2. Stop(t) = Check(t, "stage.all_stop", p) /\ InStop(t) = Check(t, "stage.all_stop", q)
  BY Zenon DEF Stop, InStop
<1> HIDE DEF p, q
<1>3. Stop(t) = Check(t, "stage.all_stop", TRUE) /\ InStop(t) = Check(t, "stage.all_stop", TRUE)
  BY <1>1, <1>2, Zenon
<1>4. LET u == Check(t, "stage.all_stop", TRUE)
      IN  Settled(k, u) /\ Fixed(t, u) /\ Linked(t, u)
  <2> DEFINE u == Check(t, "stage.all_stop", TRUE)
  <2>1. IsTunnel(u) /\ AsBefore(t, u)
    BY <1>1, CheckHolds, Zenon
  <2> HIDE DEF u
  <2>2. Settled(k, u)
    BY <2>1, SettledKept, Zenon
  <2> QED BY <2>1, <2>2, Zenon DEF u, AsBefore
<1> QED BY <1>3, <1>4, Zenon

(***************************************************************************)
(* The end of a stage's function.  t0 is the tunnel before the callback, t *)
(* the settled tunnel, u what the function made of it.                     *)
(***************************************************************************)
LEMMA Arrives ==
    ASSUME NEW k \in BOOLEAN, NEW t, Settled(k, t), NEW t0, Fresh(t0),
           NEW u, IsTunnel(u), Fixed(t, u), Busy(u),
           u.conn # "none" => u.addr \in ServerAddress,
           u.stage \notin {"unborn", "streaming"},
           ServerLink(k, u), TlsInv(k, u), StageShape(u)
    PROVE  GoodStep(k, t0, u)
<1>1. /\ Alive(t) /\ t.failed \subseteq Tolerated(k, t)
      /\ t.ref_count = 0 /\ t.closing = {} /\ ~t.freed
      /\ t.taken = Both(0) /\ t.delivered = Both(0)
  BY Zenon DEF Settled, Working, Fresh
<1>2. Alive(u) /\ ~u.terminated
  BY <1>1, Zenon DEF Alive, Fixed
<1>3. u.failed \subseteq Tolerated(k, u)
  BY <1>1, <1>2, Zenon DEF Tolerated, Fixed
<1>4. LiveInv(k, u)
  BY <1>1, Zenon DEF LiveInv, Fixed, Busy
<1>5. TunnelInv(k, u)
  BY <1>2, <1>3, <1>4, Zenon DEF TunnelInv
<1>6. RelayStep(t0, u)
  BY <1>1, <1>2, Zenon DEF RelayStep, RelayPhase, SameCounts, Fresh, Fixed, Alive
<1> QED BY <1>5, <1>6, Zenon DEF GoodStep, Fresh

(* The connection and the transport of t are those that stage s needs. *)
Fits(k, t, s) ==
    /\ s \in Stages \ ({"unborn", "streaming"} \cup WaitsIdle)
    /\ t.conn = "up" <=> \/ s \in WritesOut \cup {"ssr_waiting_feedback"}
                         \/ s = "auth_complition_done" /\ ~k
    /\ ~k => s \notin TlsStages
    /\ k => s \notin PlainStages
    /\ t.tls # "connecting"
    /\ t.tls = "up" => s \in {"auth_complition_done", "tls_streaming"}

(* A settled tunnel that starts waiting keeps its links. *)
LEMMA FitsLinks ==
    ASSUME NEW k \in BOOLEAN, NEW t, Settled(k, t), NEW s, Fits(k, t, s),
           NEW u, Fixed(t, u), u.stage = s, u.conn = t.conn, u.gai = t.gai,
           u.tls = t.tls
    PROVE  /\ ServerLink(k, u) /\ TlsInv(k, u)
           /\ u.stage \notin {"unborn", "streaming"}
           /\ u.conn # "none" => u.addr \in ServerAddress
<1>1. ~t.gai /\ t.conn # "pending" /\ TlsInv(k, t)
      /\ (t.conn # "none" => t.addr \in ServerAddress)
  BY Zenon DEF Settled, Working, Idle
<1>2. ServerLink(k, u)
  BY <1>1, Zenon DEF ServerLink, Fits, WaitsIdle, WritesOut
<1>3. TlsInv(k, u)
  BY <1>1, Zenon DEF TlsInv, Fits, WaitsIdle, WritesOut
<1> QED BY <1>1, <1>2, <1>3, Zenon DEF Fits, Fixed

(* A reply or a request is sent: the next stage waits for the write. *)
LEMMA SendGood ==
    ASSUME NEW k \in BOOLEAN, NEW t, Settled(k, t), NEW t0, Fresh(t0),
           NEW c \in Sides, c = "in" \/ t.conn = "up", NEW s, Fits(k, t, s),
           s \in IF c = "in" THEN WritesIn ELSE WritesOut
    PROVE  GoodStep(k, t0, [socket_write(t, c) EXCEPT !.stage = s])
<1> DEFINE w == socket_write(t, c)
           u == MovedTo(w, s)
<1>1. /\ IsTunnel(t) /\ StreamUsable(t, c) /\ s \in Stages
      /\ \A d \in Sides : /\ t.rd[d] = "stop" /\ t.wr[d] = "stop"
                          /\ ~t.wreq[d] /\ ~t.reading[d]
      /\ t.taken = Both(0) /\ t.delivered = Both(0)
  BY Zenon DEF Settled, Working, Idle, Fresh, Alive, StreamUsable, Fits
<1>b. IsTunnel(w) /\ WriteStarted(t, c, w)
  BY <1>1, WriteEffect, Zenon
<1> HIDE DEF w
<1>2. /\ IsTunnel(w) /\ Fixed(t, w) /\ Linked(t, w)
      /\ w.rd = t.rd /\ w.reading = t.reading
      /\ w.wr = [t.wr EXCEPT ![c] = "busy"]
      /\ w.wreq = [t.wreq EXCEPT ![c] = TRUE]
  BY <1>b, Zenon DEF WriteStarted
<1>a. IsTunnel(u) /\ OnlyStage(w, s, u)
  BY <1>1, <1>2, StageMoved, Zenon
<1> HIDE DEF u
<1>3. /\ IsTunnel(u) /\ Fixed(w, u) /\ u.stage = s
      /\ u.tls = w.tls /\ u.conn = w.conn /\ u.gai = w.gai
      /\ u.rd = w.rd /\ u.wr = w.wr
      /\ u.wreq = w.wreq /\ u.reading = w.reading
  BY <1>a, Zenon DEF OnlyStage
<1>4. /\ Fixed(t, u) /\ u.tls = t.tls /\ u.conn = t.conn /\ u.gai = t.gai
  BY <1>2, <1>3, Zenon DEF Fixed, Linked
<1>5. /\ ServerLink(k, u) /\ TlsInv(k, u) /\ u.stage \notin {"unborn", "streaming"}
      /\ u.conn # "none" => u.addr \in ServerAddress
  BY <1>3, <1>4, FitsLinks, Zenon
<1>6. /\ u.rd["in"] = "stop" /\ u.rd["out"] = "stop"
      /\ ~u.reading["in"] /\ ~u.reading["out"]
      /\ u.wr["in"] = IF c = "in" THEN "busy" ELSE "stop"
      /\ u.wr["out"] = IF c = "out" THEN "busy" ELSE "stop"
      /\ u.wreq["in"] <=> c = "in"
      /\ u.wreq["out"] <=> c = "out"
  <2>1. t.wr \in [Sides -> SockStates] /\ t.wreq \in [Sides -> BOOLEAN]
    BY <1>1, Zenon DEF IsTunnel
  <2> QED BY <1>1, <1>2, <1>3, <2>1 DEF Sides
<1>7. Busy(u)
  BY <1>6, Zenon DEF Busy, Sides
<1>8. StageShape(u)
  <2>1. u.taken = Both(0) /\ u.delivered = Both(0)
    BY <1>1, <1>4, Zenon DEF Fixed
  <2>2. CASE c = "in"
    BY <1>3, <1>6, <2>1, <2>2, Zenon DEF StageShape, Shape, ReadsIn, WritesIn, WritesOut, WaitsIdle
  <2>3. CASE c = "out"
    BY <1>3, <1>6, <2>1, <2>3, Zenon DEF StageShape, Shape, ReadsIn, WritesIn, WritesOut, WaitsIdle
  <2> QED BY <2>2, <2>3, Zenon DEF Sides
<1>9. GoodStep(k, t0, u)
  BY <1>3, <1>4, <1>5, <1>7, <1>8, Arrives, Zenon
<1> QED BY <1>9, Zenon DEF u, w, MovedTo

(* A read is started: the next stage waits for it. *)
LEMMA AwaitGood ==
    ASSUME NEW k \in BOOLEAN, NEW t, Settled(k, t), NEW t0, Fresh(t0),
           NEW c \in Sides, c = "in" \/ t.conn = "up", NEW s, Fits(k, t, s),
           s \in IF c = "in" THEN ReadsIn ELSE {"ssr_waiting_feedback"},
           NEW u, IsTunnel(u), Fixed(t, u), u.stage = s,
           u.tls = t.tls, u.conn = t.conn, u.gai = t.gai,
           u.wr = t.wr, u.wreq = t.wreq, u.rd = [t.rd EXCEPT ![c] = "busy"],
           u.reading = [t.reading EXCEPT ![c] = TRUE]
    PROVE  GoodStep(k, t0, u)
<1>1. /\ IsTunnel(t)
      /\ \A d \in Sides : /\ t.rd[d] = "stop" /\ t.wr[d] = "stop"
                          /\ ~t.wreq[d] /\ ~t.reading[d]
      /\ t.taken = Both(0) /\ t.delivered = Both(0)
  BY Zenon DEF Settled, Working, Idle, Fresh
<1>2. /\ ServerLink(k, u) /\ TlsInv(k, u) /\ u.stage \notin {"unborn", "streaming"}
      /\ u.conn # "none" => u.addr \in ServerAddress
  BY FitsLinks, Zenon
<1>3. /\ u.wr["in"] = "stop" /\ u.wr["out"] = "stop"
      /\ ~u.wreq["in"] /\ ~u.wreq["out"]
      /\ u.rd["in"] = IF c = "in" THEN "busy" ELSE "stop"
      /\ u.rd["out"] = IF c = "out" THEN "busy" ELSE "stop"
      /\ u.reading["in"] => c = "in"
      /\ u.reading["out"] => c = "out"
  <2>1. t.rd \in [Sides -> SockStates] /\ t.reading \in [Sides -> BOOLEAN]
    BY <1>1, Zenon DEF IsTunnel
  <2> QED BY <1>1, <2>1 DEF Sides
<1>4. Busy(u)
  BY <1>3, Zenon DEF Busy, Sides
<1>5. StageShape(u)
  <2>1. u.taken = Both(0) /\ u.delivered = Both(0)
    BY <1>1, Zenon DEF Fixed
  <2>2. CASE c = "in"
    BY <1>3, <2>1, <2>2, Zenon DEF StageShape, Shape, ReadsIn, WritesIn, WritesOut, WaitsIdle
  <2>3. CASE c = "out"
    BY <1>3, <2>1, <2>3, Zenon DEF StageShape, Shape, ReadsIn, WritesIn, WritesOut, WaitsIdle
  <2> QED BY <2>2, <2>3, Zenon DEF Sides
<1> QED BY <1>2, <1>4, <1>5, Arrives, Zenon

(* socket_read, and the stage that waits for it. *)
LEMMA ReadNext ==
    ASSUME NEW k \in BOOLEAN, NEW t, Settled(k, t), NEW t0, Fresh(t0),
           NEW c \in Sides, c = "in" \/ t.conn = "up", NEW s, Fits(k, t, s),
           s \in IF c = "in" THEN ReadsIn ELSE {"ssr_waiting_feedback"},
           NEW b \in BOOLEAN
    PROVE  GoodStep(k, t0, [socket_read(t, c, b) EXCEPT !.stage = s])
<1> DEFINE w == socket_read(t, c, b)
           u == MovedTo(w, s)
<1>1. IsTunnel(t) /\ StreamUsable(t, c) /\ s \in Stages /\ t.rd[c] = "stop"
  BY Zenon DEF Settled, Working, Idle, Alive, StreamUsable, Fits
<1>2. IsTunnel(w) /\ ReadStarted(t, c, w)
  BY <1>1, ReadEffect, Zenon
<1> HIDE DEF w
<1>3. IsTunnel(u) /\ OnlyStage(w, s, u)
  <2>1. IsTunnel(w) /\ s \in Stages
    BY <1>1, <1>2, Zenon
  <2> QED BY <2>1, StageMoved, Zenon
<1> HIDE DEF u
<1>4. Fixed(t, u) /\ u.stage = s /\ u.tls = t.tls /\ u.conn = t.conn /\ u.gai = t.gai
  BY <1>2, <1>3, Zenon DEF ReadStarted, Fixed, Linked, OnlyStage
<1>5. /\ u.wr = t.wr /\ u.wreq = t.wreq
      /\ u.rd = [t.rd EXCEPT ![c] = "busy"]
      /\ u.reading = [t.reading EXCEPT ![c] = TRUE]
  BY <1>2, <1>3, Zenon DEF ReadStarted, OnlyStage
<1>6. GoodStep(k, t0, u)
  BY <1>3, <1>4, <1>5, AwaitGood, Zenon
<1> QED BY <1>6, Zenon DEF u, w, MovedTo

(* s5_parse wants more: the stage stays and its read is started again. *)
LEMMA MoreGood ==
    ASSUME NEW k \in BOOLEAN, NEW t, Settled(k, t), NEW t0, Fresh(t0),
           t.stage \in {"handshake", "s5_request"}, t.conn = "none"
    PROVE  GoodStep(k, t0, want_more(t))
<1> DEFINE w == socket_read(t, "in", TRUE)
           u == [w EXCEPT !.more = @ + 1]
<1>1. /\ IsTunnel(t) /\ StreamUsable(t, "in") /\ t.rd["in"] = "stop"
      /\ "in" \in Sides /\ TRUE \in BOOLEAN
  BY Zenon DEF Settled, Working, Idle, Alive, StreamUsable, Sides
<1>2. IsTunnel(w) /\ ReadStarted(t, "in", w)
  BY <1>1, ReadEffect, Zenon
<1> HIDE DEF w
<1>3. IsTunnel(u) /\ AsBefore(w, u)
  <2>1. IsTunnel(w)
    BY <1>2, Zenon
  <2> QED BY <2>1, SMT DEF IsTunnel, AsBefore, Fixed, Linked
<1> HIDE DEF u
<1>4. Fixed(t, u) /\ Linked(t, u)
  BY <1>2, <1>3, Zenon DEF ReadStarted, Fixed, Linked, AsBefore
<1>5. /\ u.wr = t.wr /\ u.wreq = t.wreq
      /\ u.rd = [t.rd EXCEPT !["in"] = "busy"]
      /\ u.reading = [t.reading EXCEPT !["in"] = TRUE]
  BY <1>2, <1>3, Zenon DEF ReadStarted, AsBefore
<1>6. Fits(k, t, t.stage) /\ t.stage \in ReadsIn
  <2>1. TlsInv(k, t)
    BY Zenon DEF Settled, Working
  <2> QED BY <2>1, Zenon DEF Fits, TlsInv, Stages, WaitsIdle, WritesOut, TlsStages, PlainStages, ReadsIn
<1>7. t.stage \in IF "in" = "in" THEN ReadsIn ELSE {"ssr_waiting_feedback"}
  BY <1>6, Zenon
<1>8. GoodStep(k, t0, u)
  BY <1>1, <1>3, <1>4, <1>5, <1>6, <1>7, AwaitGood, Zenon DEF Linked
<1> QED BY <1>8, Zenon DEF u, w, want_more

-----------------------------------------------------------------------------
(* The stages of do_next, each from a settled tunnel. *)

(* A settled tunnel shuts down well. *)
LEMMA SettledShutdown ==
    ASSUME NEW k \in BOOLEAN, NEW t, Settled(k, t), NEW t0, Fresh(t0)
    PROVE  GoodStep(k, t0, tunnel_shutdown(t))
<1>1. Working(k, t) /\ SameCounts(t0, t) /\ Alive(t0)
  BY Zenon DEF Settled, Fresh, SameCounts
<1> QED BY <1>1, ShutdownGood, Zenon

(* A reply to the SOCKS client that leads to a stage without a server. *)
LEMMA ReplyGood ==
    ASSUME NEW k \in BOOLEAN, NEW t, Settled(k, t), NEW t0, Fresh(t0), t.conn = "none",
           NEW s \in {"handshake_replied", "s5_udp_accoc", "kill"},
           t.stage \notin TlsStages \cup {"auth_complition_done"}
    PROVE  GoodStep(k, t0, [socket_write(t, "in") EXCEPT !.stage = s])
<1>1. TlsInv(k, t)
  BY Zenon DEF Settled, Working
<1>2. Fits(k, t, s)
  BY <1>1, Zenon DEF Fits, TlsInv, Stages, WaitsIdle, WritesOut, TlsStages, PlainStages
<1>3. "in" \in Sides /\ s \in IF "in" = "in" THEN WritesIn ELSE WritesOut
  BY Zenon DEF Sides, WritesIn
<1> QED BY <1>2, <1>3, SendGood, Zenon

(* do_handshake is good. *)
LEMMA HandshakeGood ==
    ASSUME NEW k \in BOOLEAN, NEW t, Settled(k, t), NEW t0, Fresh(t0), t.conn = "none",
           t.stage = "handshake", NEW o, o.s5 \in HandshakeResults
    PROVE  GoodStep(k, t0, do_handshake(t, o))
<1> DEFINE a == InStop(t)
<1>1. Settled(k, a) /\ a.conn = "none" /\ a.stage = "handshake"
  BY StopHolds, Zenon DEF Linked
<1>2. a.stage \notin TlsStages \cup {"auth_complition_done"}
  BY <1>1, Zenon DEF TlsStages
<1>3. do_handshake(t, o) =
         CASE o.s5 = "ok" -> want_more(a)
           [] o.s5 \in {"junk", "error"} -> tunnel_shutdown(a)
           [] o.s5 = "none" -> [socket_write(a, "in") EXCEPT !.stage = "handshake_replied"]
           [] OTHER -> [socket_write(a, "in") EXCEPT !.stage = "kill"]
  BY Zenon DEF do_handshake
<1> HIDE DEF a
<1>4. /\ GoodStep(k, t0, want_more(a)) /\ GoodStep(k, t0, tunnel_shutdown(a))
      /\ GoodStep(k, t0, [socket_write(a, "in") EXCEPT !.stage = "handshake_replied"])
      /\ GoodStep(k, t0, [socket_write(a, "in") EXCEPT !.stage = "kill"])
  BY <1>1, <1>2, MoreGood, SettledShutdown, ReplyGood, Zenon
<1> DEFINE r == do_handshake(t, o)
<1>5. \/ r = want_more(a) \/ r = tunnel_shutdown(a)
      \/ r = [socket_write(a, "in") EXCEPT !.stage = "handshake_replied"]
      \/ r = [socket_write(a, "in") EXCEPT !.stage = "kill"]
  BY <1>3, Zenon
<1> HIDE DEF r
<1>6. GoodStep(k, t0, r)
  BY <1>4, <1>5, Zenon
<1> QED BY <1>6, Zenon DEF r

(* do_wait_s5_request is good. *)
LEMMA WaitRequestGood ==
    ASSUME NEW k \in BOOLEAN, NEW t, Settled(k, t), NEW t0, Fresh(t0), t.conn = "none",
           t.stage = "handshake_replied"
    PROVE  GoodStep(k, t0, do_wait_s5_request(t))
<1> DEFINE a == InStop(t)
<1>1. Settled(k, a) /\ a.conn = "none" /\ a.stage = "handshake_replied"
  BY StopHolds, Zenon DEF Linked
<1> HIDE DEF a
<1>2. TlsInv(k, a)
  BY <1>1, Zenon DEF Settled, Working
<1>3. Fits(k, a, "s5_request")
  BY <1>1, <1>2, Zenon DEF Fits, TlsInv, Stages, WaitsIdle, WritesOut, TlsStages, PlainStages
<1>4. "in" \in Sides /\ "s5_request" \in IF "in" = "in" THEN ReadsIn ELSE {"ssr_waiting_feedback"}
  BY Zenon DEF Sides, ReadsIn
<1>5. GoodStep(k, t0, [socket_read(a, "in", TRUE) EXCEPT !.stage = "s5_request"])
  BY <1>1, <1>3, <1>4, ReadNext, Zenon
<1> QED BY <1>5, Zenon DEF a, do_wait_s5_request

(* The address of a tunnel that is not connected may be replaced. *)
WithAddress(t, a) == [t EXCEPT !.addr = a]

AnyAddress == [ip : Ips \cup {NoIp}, port : {0, RemotePort}]

LEMMA SettledAddress ==
    ASSUME NEW k \in BOOLEAN, NEW t, Settled(k, t), t.conn = "none",
           NEW a \in AnyAddress
    PROVE  LET u == WithAddress(t, a)
           IN  Settled(k, u) /\ Linked(t, u) /\ u.addr = a
<1> DEFINE u == WithAddress(t, a)
<1>1. IsTunnel(t)
  BY Zenon DEF Settled, Working
<1>2. /\ IsTunnel(u) /\ Linked(t, u) /\ u.addr = a
      /\ u.terminated = t.terminated /\ u.failed = t.failed
      /\ u.ref_count = t.ref_count /\ u.closing = t.closing /\ u.freed = t.freed
      /\ u.taken = t.taken /\ u.delivered = t.delivered
      /\ u.rd = t.rd /\ u.wr = t.wr /\ u.wreq = t.wreq /\ u.reading = t.reading
  BY <1>1, Zenon DEF IsTunnel, WithAddress, AnyAddress, Linked
<1> HIDE DEF u
<1>3. Idle(u) /\ Fresh(u)
  BY <1>2, Zenon DEF Settled, Idle, Fresh, Alive, Linked
<1>4. Working(k, t)
  BY Zenon DEF Settled
<1>5. u.failed \subseteq Tolerated(k, u)
  BY <1>2, <1>4, Zenon DEF Working, Tolerated, Alive, Linked
<1>6. TlsInv(k, u)
  BY <1>2, <1>4, Zenon DEF Working, TlsInv, Linked
<1>7. Working(k, u)
  BY <1>2, <1>3, <1>4, <1>5, <1>6, Zenon DEF Working, Linked, Fresh
<1> QED BY <1>2, <1>3, <1>7, Zenon DEF Settled, u

(* A stage that waits for no socket: for a lookup, a connect or for TLS. *)
LEMMA IdleArrives ==
    ASSUME NEW k \in BOOLEAN, NEW t, Settled(k, t), NEW t0, Fresh(t0),
           NEW u, IsTunnel(u), Fixed(t, u),
           u.rd = t.rd, u.wr = t.wr, u.wreq = t.wreq, u.reading = t.reading,
           u.conn # "none" => u.addr \in ServerAddress,
           u.stage \in WaitsIdle, ServerLink(k, u), TlsInv(k, u)
    PROVE  GoodStep(k, t0, u)
<1>1. /\ \A d \in Sides : /\ u.rd[d] = "stop" /\ u.wr[d] = "stop"
                          /\ ~u.wreq[d] /\ ~u.reading[d]
      /\ u.taken = Both(0) /\ u.delivered = Both(0)
  BY Zenon DEF Settled, Idle, Fresh, Fixed
<1>2. Busy(u)
  BY <1>1, Zenon DEF Busy
<1>3. Shape(u, "stop", "stop", "stop", "stop")
  BY <1>1, Zenon DEF Shape, Sides
<1>4. StageShape(u) /\ u.stage \notin {"unborn", "streaming"}
  BY <1>1, <1>3, Zenon DEF StageShape, WaitsIdle, ReadsIn, WritesIn, WritesOut
<1> QED BY <1>2, <1>4, Arrives, Zenon

(* do_connect_ssr_server is good once the address is the server's. *)
LEMMA ConnectServerGood ==
    ASSUME NEW t, Settled(FALSE, t), NEW t0, Fresh(t0), t.conn = "none",
           t.addr \in ServerAddress,
           t.stage \in {"s5_request", "resolve_ssr_server_host_done"},
           NEW err \in BOOLEAN
    PROVE  GoodStep(FALSE, t0, do_connect_ssr_server(t, err))
<1> DEFINE a == Stop(t)
           s == socket_timer_start(a, "out")
           p == [s EXCEPT !.conn = "pending"]
           u == MovedTo(p, "connecting_ssr_server")
<1>1. /\ Settled(FALSE, a) /\ a.conn = "none" /\ a.addr \in ServerAddress
      /\ a.stage \in {"s5_request", "resolve_ssr_server_host_done"}
  BY StopHolds, Zenon DEF Linked, Fixed
<1>2. do_connect_ssr_server(t, err) =
         IF ~cf.access THEN [socket_write(a, "in") EXCEPT !.stage = "kill"]
         ELSE IF err THEN tunnel_shutdown(s) ELSE u
  BY Zenon DEF do_connect_ssr_server, socket_connect, MovedTo
<1> HIDE DEF a
<1>3. a.stage \notin TlsStages \cup {"auth_complition_done"}
  BY <1>1, Zenon DEF TlsStages
<1>4. GoodStep(FALSE, t0, [socket_write(a, "in") EXCEPT !.stage = "kill"])
  BY <1>1, <1>3, ReplyGood, Zenon
<1>5. IsTunnel(a)
  BY <1>1, Zenon DEF Settled, Working
<1>6. IsTunnel(s) /\ AsBefore(a, s)
  BY <1>5, Zenon DEF socket_timer_start, IsTunnel, AsBefore, Fixed, Linked, Sides
<1> HIDE DEF s
<1>7. Settled(FALSE, s)
  BY <1>1, <1>6, SettledKept, Zenon
<1>8. GoodStep(FALSE, t0, tunnel_shutdown(s))
  BY <1>7, SettledShutdown, Zenon
<1>9. /\ IsTunnel(p) /\ Fixed(s, p) /\ p.conn = "pending" /\ p.gai = s.gai
      /\ p.tls = s.tls /\ p.rd = s.rd /\ p.wr = s.wr /\ p.wreq = s.wreq
      /\ p.reading = s.reading
  <2>1. IsTunnel(s)
    BY <1>6, Zenon
  <2> QED BY <2>1, Zenon DEF IsTunnel, Fixed, Connections
<1> HIDE DEF p
<1>10. IsTunnel(u) /\ OnlyStage(p, "connecting_ssr_server", u)
  <2>1. IsTunnel(p) /\ "connecting_ssr_server" \in Stages
    BY <1>9, Zenon DEF Stages
  <2> QED BY <2>1, StageMoved, Zenon
<1> HIDE DEF u
<1>11. /\ Fixed(s, u) /\ u.rd = s.rd /\ u.wr = s.wr /\ u.wreq = s.wreq
       /\ u.reading = s.reading /\ u.conn = "pending" /\ u.gai = s.gai
       /\ u.tls = s.tls /\ u.stage = "connecting_ssr_server"
  BY <1>9, <1>10, Zenon DEF OnlyStage, Fixed
<1>12. u.addr \in ServerAddress
  BY <1>1, <1>6, <1>11, Zenon DEF Fixed, AsBefore
<1>13. ~s.gai /\ s.tls = "none"
  BY <1>7, Zenon DEF Settled, Working, Idle, TlsInv
<1>14. ServerLink(FALSE, u) /\ TlsInv(FALSE, u) /\ u.stage \in WaitsIdle
  BY <1>11, <1>13, Zenon DEF ServerLink, TlsInv, WaitsIdle, WritesOut, TlsStages, PlainStages
<1>15. GoodStep(FALSE, t0, u)
  BY <1>7, <1>10, <1>11, <1>12, <1>14, IdleArrives, Zenon
<1> QED BY <1>2, <1>4, <1>8, <1>15, Zenon

(* tls_client_launch is good: the tunnel waits for the TLS connection. *)
LEMMA LaunchTlsGood ==
    ASSUME NEW t, Settled(TRUE, t), NEW t0, Fresh(t0), t.conn = "none"
    PROVE  GoodStep(TRUE, t0, tls_client_launch([t EXCEPT !.stage = "tls_connecting"]))
<1> DEFINE s == MovedTo(t, "tls_connecting")
           u == [s EXCEPT !.tls = "connecting"]
<1>1. IsTunnel(t) /\ "tls_connecting" \in Stages
  BY Zenon DEF Settled, Working, Stages
<1>2. IsTunnel(s) /\ OnlyStage(t, "tls_connecting", s)
  BY <1>1, StageMoved, Zenon
<1> HIDE DEF s
<1>3. /\ IsTunnel(u) /\ Fixed(s, u) /\ u.tls = "connecting" /\ u.stage = s.stage
      /\ u.conn = s.conn /\ u.gai = s.gai /\ u.rd = s.rd /\ u.wr = s.wr
      /\ u.wreq = s.wreq /\ u.reading = s.reading
  <2>1. IsTunnel(s)
    BY <1>2, Zenon
  <2> QED BY <2>1, Zenon DEF IsTunnel, Fixed, TlsStates
<1> HIDE DEF u
<1>4. /\ Fixed(t, u) /\ u.rd = t.rd /\ u.wr = t.wr /\ u.wreq = t.wreq
      /\ u.reading = t.reading /\ u.conn = "none" /\ u.gai = t.gai
      /\ u.tls = "connecting" /\ u.stage = "tls_connecting"
  BY <1>2, <1>3, Zenon DEF OnlyStage, Fixed
<1>5. ~t.gai
  BY Zenon DEF Settled, Idle
<1>6. ServerLink(TRUE, u) /\ TlsInv(TRUE, u) /\ u.stage \in WaitsIdle
  BY <1>4, <1>5, Zenon DEF ServerLink, TlsInv, WaitsIdle, WritesOut, PlainStages
<1>7. GoodStep(TRUE, t0, u)
  BY <1>3, <1>4, <1>6, IdleArrives, Zenon
<1> QED BY <1>7, Zenon DEF u, s, MovedTo, tls_client_launch

(* socket_getaddrinfo of the server's name is good. *)
LEMMA LookupGood ==
    ASSUME NEW t, Settled(FALSE, t), NEW t0, Fresh(t0), t.conn = "none"
    PROVE  GoodStep(FALSE, t0, [socket_getaddrinfo(t, "out")
                         EXCEPT !.stage = "resolve_ssr_server_host_done"])
<1> DEFINE s == socket_timer_start(t, "out")
           g == [s EXCEPT !.gai = TRUE]
           u == MovedTo(g, "resolve_ssr_server_host_done")
<1>1. IsTunnel(t)
  BY Zenon DEF Settled, Working
<1>2. IsTunnel(s) /\ AsBefore(t, s)
  BY <1>1, Zenon DEF socket_timer_start, IsTunnel, AsBefore, Fixed, Linked, Sides
<1> HIDE DEF s
<1>3. /\ IsTunnel(g) /\ Fixed(s, g) /\ g.gai /\ g.conn = s.conn /\ g.tls = s.tls
      /\ g.rd = s.rd /\ g.wr = s.wr /\ g.wreq = s.wreq /\ g.reading = s.reading
  <2>1. IsTunnel(s)
    BY <1>2, Zenon
  <2> QED BY <2>1, Zenon DEF IsTunnel, Fixed
<1> HIDE DEF g
<1>4. IsTunnel(u) /\ OnlyStage(g, "resolve_ssr_server_host_done", u)
  <2>1. IsTunnel(g) /\ "resolve_ssr_server_host_done" \in Stages
    BY <1>3, Zenon DEF Stages
  <2> QED BY <2>1, StageMoved, Zenon
<1> HIDE DEF u
<1>5. /\ Fixed(t, u) /\ u.rd = t.rd /\ u.wr = t.wr /\ u.wreq = t.wreq
      /\ u.reading = t.reading /\ u.conn = "none" /\ u.gai
      /\ u.tls = t.tls /\ u.stage = "resolve_ssr_server_host_done"
  BY <1>2, <1>3, <1>4, Zenon DEF OnlyStage, AsBefore, Fixed, Linked
<1>6. t.tls = "none"
  BY Zenon DEF Settled, Working, TlsInv
<1>7. ServerLink(FALSE, u) /\ TlsInv(FALSE, u) /\ u.stage \in WaitsIdle
  BY <1>5, <1>6, Zenon DEF ServerLink, TlsInv, WaitsIdle, WritesOut, TlsStages
<1>8. GoodStep(FALSE, t0, u)
  BY <1>4, <1>5, <1>7, IdleArrives, Zenon
<1> QED BY <1>8, Zenon DEF u, g, s, MovedTo, socket_getaddrinfo

(* do_parse_s5_request is good. *)
LEMMA ParseRequestGood ==
    ASSUME NEW k \in BOOLEAN, cf.over_tls = k, NEW t, Settled(k, t), NEW t0, Fresh(t0),
           t.conn = "none", t.stage = "s5_request",
           NEW o, o.s5 \in RequestResults, o.err \in BOOLEAN
    PROVE  GoodStep(k, t0, do_parse_s5_request(t, o))
<1> DEFINE a == Stop(t)
           i == [ip |-> CHOOSE i \in Ips : TRUE, port |-> RemotePort]
           b == WithAddress(a, i)
           r == do_parse_s5_request(t, o)
           r1 == want_more(a)
           r2 == tunnel_shutdown(a)
           r3 == [socket_write(a, "in") EXCEPT !.stage = "s5_udp_accoc"]
           r4 == tls_client_launch([a EXCEPT !.stage = "tls_connecting"])
           r5 == do_connect_ssr_server(b, o.err)
           r6 == [socket_getaddrinfo(a, "out") EXCEPT !.stage = "resolve_ssr_server_host_done"]
<1>1. Settled(k, a) /\ a.conn = "none" /\ a.stage = "s5_request"
  BY StopHolds, Zenon DEF Linked
<1>2. r = CASE o.s5 = "ok" -> r1
            [] o.s5 \in {"junk", "error", "bind"} -> r2
            [] o.s5 = "udp" -> r3
            [] OTHER -> IF k THEN r4 ELSE IF cf.is_ip THEN r5 ELSE r6
  BY DEF do_parse_s5_request, WithAddress
<1> HIDE DEF a
<1>3. GoodStep(k, t0, r1) /\ GoodStep(k, t0, r2) /\ GoodStep(k, t0, r3)
  <2>1. a.stage \notin TlsStages \cup {"auth_complition_done"}
    BY <1>1, Zenon DEF TlsStages
  <2> QED BY <1>1, <2>1, MoreGood, SettledShutdown, ReplyGood, Zenon
<1>4. CASE k = TRUE
  <2>1. GoodStep(k, t0, r4)
    BY <1>1, <1>4, LaunchTlsGood, Zenon
  <2>2. r = r1 \/ r = r2 \/ r = r3 \/ r = r4
    BY <1>2, <1>4, Zenon
  <2> HIDE DEF r, r1, r2, r3, r4
  <2>3. GoodStep(k, t0, r)
    BY <1>3, <2>1, <2>2, Zenon
  <2> QED BY <2>3, Zenon DEF r
<1>5. CASE k = FALSE
  <2>1. GoodStep(k, t0, r6)
    BY <1>1, <1>5, LookupGood, Zenon
  <2>2. i \in ServerAddress /\ i \in AnyAddress
    BY ConstantsAssumption, Zenon DEF ServerAddress, AnyAddress
  <2> HIDE DEF i
  <2>3. Settled(k, b) /\ Linked(a, b) /\ b.addr = i
    BY <1>1, <2>2, SettledAddress, Zenon
  <2> HIDE DEF b
  <2>4. /\ Settled(FALSE, b) /\ b.conn = "none" /\ b.addr \in ServerAddress
        /\ b.stage \in {"s5_request", "resolve_ssr_server_host_done"}
    BY <1>1, <1>5, <2>2, <2>3, Zenon DEF Linked
  <2>5. GoodStep(k, t0, r5)
    BY <1>5, <2>4, ConnectServerGood, Zenon
  <2>6. r = r1 \/ r = r2 \/ r = r3 \/ r = r5 \/ r = r6
    BY <1>2, <1>5, Zenon
  <2> HIDE DEF r, r1, r2, r3, r5, r6
  <2>7. GoodStep(k, t0, r)
    BY <1>3, <2>1, <2>5, <2>6, Zenon
  <2> QED BY <2>7, Zenon DEF r
<1> QED BY <1>4, <1>5, Zenon

(* do_resolve_ssr_server_host_aftercare is good: it sets the port. *)
LEMMA ResolvedGood ==
    ASSUME NEW t, Settled(FALSE, t), NEW t0, Fresh(t0), t.conn = "none",
           t.stage = "resolve_ssr_server_host_done", t.addr.ip \in Ips,
           NEW err \in BOOLEAN
    PROVE  GoodStep(FALSE, t0, do_resolve_ssr_server_host_aftercare(t, "zero", err))
<1> DEFINE a == Stop(t)
           i == [a.addr EXCEPT !.port = RemotePort]
           b == WithAddress(a, i)
<1>1. /\ Settled(FALSE, a) /\ a.conn = "none" /\ a.addr = t.addr
      /\ a.stage = "resolve_ssr_server_host_done"
  BY StopHolds, Zenon DEF Linked, Fixed
<1>2. do_resolve_ssr_server_host_aftercare(t, "zero", err) = do_connect_ssr_server(b, err)
  BY Zenon DEF do_resolve_ssr_server_host_aftercare, WithAddress
<1> HIDE DEF a
<1>3. a.addr \in AnyAddress
  BY <1>1, Zenon DEF Settled, Working, IsTunnel, AnyAddress
<1>4. i \in ServerAddress /\ i \in AnyAddress
  BY <1>1, <1>3, Zenon DEF ServerAddress, AnyAddress
<1> HIDE DEF i
<1>5. Settled(FALSE, b) /\ Linked(a, b) /\ b.addr = i
  BY <1>1, <1>4, SettledAddress, Zenon
<1> HIDE DEF b
<1>6. /\ b.conn = "none" /\ b.addr \in ServerAddress
      /\ b.stage \in {"s5_request", "resolve_ssr_server_host_done"}
  BY <1>1, <1>4, <1>5, Zenon DEF Linked
<1>7. GoodStep(FALSE, t0, do_connect_ssr_server(b, err))
  BY <1>5, <1>6, ConnectServerGood, Zenon
<1> QED BY <1>2, <1>7, Zenon

(* do_connect_ssr_server_done is good: the first package is sent. *)
LEMMA ConnectedGood ==
    ASSUME NEW t, Settled(FALSE, t), NEW t0, Fresh(t0), t.conn = "up", NEW dec
    PROVE  GoodStep(FALSE, t0, do_connect_ssr_server_done(t, "zero", dec))
<1> DEFINE a == Stop(t)
           u == [socket_write(a, "out") EXCEPT !.stage = "ssr_auth_sent"]
<1>1. Settled(FALSE, a) /\ a.conn = "up"
  BY StopHolds, Zenon DEF Linked
<1>2. do_connect_ssr_server_done(t, "zero", dec) =
         IF dec = "error" THEN tunnel_shutdown(a) ELSE u
  BY Zenon DEF do_connect_ssr_server_done
<1> HIDE DEF a
<1>3. a.tls = "none"
  BY <1>1, Zenon DEF Settled, Working, TlsInv
<1>4. Fits(FALSE, a, "ssr_auth_sent")
  BY <1>1, <1>3, Zenon DEF Fits, Stages, WaitsIdle, WritesOut, TlsStages
<1>5. "out" \in Sides /\ "ssr_auth_sent" \in IF "out" = "in" THEN WritesIn ELSE WritesOut
  BY Zenon DEF Sides, WritesOut
<1>6. GoodStep(FALSE, t0, u) /\ GoodStep(FALSE, t0, tunnel_shutdown(a))
  BY <1>1, <1>4, <1>5, SendGood, SettledShutdown, Zenon
<1> QED BY <1>2, <1>6, Zenon

(* do_socks5_reply_success is good, with TLS and without. *)
LEMMA SuccessGood ==
    ASSUME NEW k \in BOOLEAN, NEW t, Settled(k, t), NEW t0, Fresh(t0),
           t.conn = (IF k THEN "none" ELSE "up"), t.tls # "connecting"
    PROVE  GoodStep(k, t0, do_socks5_reply_success(t))
<1> DEFINE a == Stop(t)
           u == [socket_write(a, "in") EXCEPT !.stage = "auth_complition_done"]
<1>1. Settled(k, a) /\ a.conn = t.conn /\ a.tls = t.tls
  BY StopHolds, Zenon DEF Linked
<1> HIDE DEF a
<1>2. Fits(k, a, "auth_complition_done")
  BY <1>1, Zenon DEF Fits, Stages, WaitsIdle, WritesOut, TlsStages, PlainStages
<1>3. "in" \in Sides /\ "auth_complition_done" \in IF "in" = "in" THEN WritesIn ELSE WritesOut
  BY Zenon DEF Sides, WritesIn
<1>4. GoodStep(k, t0, u)
  BY <1>1, <1>2, <1>3, SendGood, Zenon
<1> QED BY <1>4, Zenon DEF a, do_socks5_reply_success

(* do_ssr_auth_sent is good: the feedback is awaited, or success replied. *)
LEMMA AuthSentGood ==
    ASSUME NEW t, Settled(FALSE, t), NEW t0, Fresh(t0), t.conn = "up"
    PROVE  GoodStep(FALSE, t0, do_ssr_auth_sent(t))
<1> DEFINE a == Stop(t)
           u == [socket_read(a, "out", TRUE) EXCEPT !.stage = "ssr_waiting_feedback"]
<1>1. Settled(FALSE, a) /\ a.conn = "up"
  BY StopHolds, Zenon DEF Linked
<1>2. do_ssr_auth_sent(t) = IF cf.feedback THEN u ELSE do_socks5_reply_success(a)
  BY Zenon DEF do_ssr_auth_sent
<1> HIDE DEF a
<1>3. a.tls = "none"
  BY <1>1, Zenon DEF Settled, Working, TlsInv
<1>4. Fits(FALSE, a, "ssr_waiting_feedback")
  BY <1>1, <1>3, Zenon DEF Fits, Stages, WaitsIdle, WritesOut, TlsStages
<1>5. /\ "out" \in Sides
      /\ "ssr_waiting_feedback" \in IF "out" = "in" THEN ReadsIn ELSE {"ssr_waiting_feedback"}
  BY Zenon DEF Sides
<1>6. GoodStep(FALSE, t0, u)
  BY <1>1, <1>4, <1>5, ReadNext, Zenon
<1>7. GoodStep(FALSE, t0, do_socks5_reply_success(a))
  BY <1>1, <1>3, SuccessGood, Zenon
<1> QED BY <1>2, <1>6, <1>7, Zenon

(* A feedback that is not what it should be is noted, and nothing else. *)
LEMMA FeedbackNoted ==
    ASSUME NEW t, Settled(FALSE, t), NEW p \in BOOLEAN
    PROVE  LET u == Check(t, "feedback.decodes_empty", p)
           IN  Settled(FALSE, u) /\ Linked(t, u)
<1> DEFINE u == Check(t, "feedback.decodes_empty", p)
           e == IF p THEN {} ELSE {"feedback.decodes_empty"}
<1>1. IsTunnel(t) /\ Working(FALSE, t)
  BY Zenon DEF Settled, Working
<1>2. e \subseteq {"feedback.decodes_empty"} /\ e \subseteq ClientAsserts
  BY Zenon DEF ClientAsserts
<1>3. u = [t EXCEPT !.failed = @ \cup e]
  BY Zenon DEF Check, ASSERT
<1> HIDE DEF e, u
<1>4. /\ IsTunnel(u) /\ Linked(t, u) /\ u.failed = t.failed \cup e
      /\ u.addr = t.addr /\ u.terminated = t.terminated
      /\ u.ref_count = t.ref_count /\ u.closing = t.closing /\ u.freed = t.freed
      /\ u.taken = t.taken /\ u.delivered = t.delivered
      /\ u.rd = t.rd /\ u.wr = t.wr /\ u.wreq = t.wreq /\ u.reading = t.reading
  BY <1>1, <1>2, <1>3, Zenon DEF IsTunnel, Linked
<1>5. Idle(u) /\ Fresh(u)
  BY <1>4, Zenon DEF Settled, Idle, Fresh, Alive, Linked
<1>6. u.failed \subseteq Tolerated(FALSE, u)
  BY <1>1, <1>2, <1>4, Zenon DEF Working, Tolerated
<1>7. TlsInv(FALSE, u)
  BY <1>1, <1>4, Zenon DEF Working, TlsInv, Linked
<1>8. Working(FALSE, u)
  BY <1>1, <1>4, <1>5, <1>6, <1>7, Zenon DEF Working, Linked, Fresh
<1> QED BY <1>4, <1>5, <1>8, Zenon DEF Settled, u

(* do_ssr_receipt_for_feedback is good. *)
LEMMA FeedbackGood ==
    ASSUME NEW t, Settled(FALSE, t), NEW t0, Fresh(t0), t.conn = "up", NEW dec
    PROVE  GoodStep(FALSE, t0, do_ssr_receipt_for_feedback(t, dec))
<1> DEFINE s == Stop(t)
           p == dec \in {"empty", "receipt"}
           a == Check(s, "feedback.decodes_empty", p)
           u == [socket_write(a, "out") EXCEPT !.stage = "ssr_receipt_of_feedback_sent"]
<1>0. p \in BOOLEAN
  OBVIOUS
<1>1. Settled(FALSE, s) /\ s.conn = "up"
  BY StopHolds, Zenon DEF Linked
<1>2. do_ssr_receipt_for_feedback(t, dec) =
         IF dec = "receipt" THEN u ELSE do_socks5_reply_success(a)
  BY Zenon DEF do_ssr_receipt_for_feedback
<1> HIDE DEF s, p
<1>3. Settled(FALSE, a) /\ a.conn = "up"
  BY <1>0, <1>1, FeedbackNoted, Zenon DEF Linked
<1> HIDE DEF a
<1>4. a.tls = "none"
  BY <1>3, Zenon DEF Settled, Working, TlsInv
<1>5. Fits(FALSE, a, "ssr_receipt_of_feedback_sent")
  BY <1>3, <1>4, Zenon DEF Fits, Stages, WaitsIdle, WritesOut, TlsStages
<1>6. /\ "out" \in Sides
      /\ "ssr_receipt_of_feedback_sent" \in IF "out" = "in" THEN WritesIn ELSE WritesOut
  BY Zenon DEF Sides, WritesOut
<1>7. GoodStep(FALSE, t0, u)
  BY <1>3, <1>5, <1>6, SendGood, Zenon
<1>8. GoodStep(FALSE, t0, do_socks5_reply_success(a))
  BY <1>3, <1>4, SuccessGood, Zenon
<1> QED BY <1>2, <1>7, <1>8, Zenon

(* tunnel_tls_do_launch_streaming is good. *)
LEMMA TlsLaunchGood ==
    ASSUME NEW t, Settled(TRUE, t), NEW t0, Fresh(t0), t.conn = "none",
           t.stage = "auth_complition_done"
    PROVE  GoodStep(TRUE, t0, tunnel_tls_do_launch_streaming(t))
<1> DEFINE a == Stop(t)
<1>1. Settled(TRUE, a) /\ a.conn = "none" /\ a.stage = "auth_complition_done"
  BY StopHolds, Zenon DEF Linked
<1> HIDE DEF a
<1>2. TlsInv(TRUE, a)
  BY <1>1, Zenon DEF Settled, Working
<1>3. Fits(TRUE, a, "tls_streaming")
  BY <1>1, <1>2, Zenon DEF Fits, TlsInv, Stages, WaitsIdle, WritesOut, PlainStages
<1>4. /\ "in" \in Sides
      /\ "tls_streaming" \in IF "in" = "in" THEN ReadsIn ELSE {"ssr_waiting_feedback"}
  BY Zenon DEF Sides, ReadsIn
<1>5. GoodStep(TRUE, t0, [socket_read(a, "in", TRUE) EXCEPT !.stage = "tls_streaming"])
  BY <1>1, <1>3, <1>4, ReadNext, Zenon
<1> QED BY <1>5, Zenon DEF a, tunnel_tls_do_launch_streaming

(* A streaming tunnel in the shape of its two directions is good. *)
LEMMA StreamArrives ==
    ASSUME NEW t0, Alive(t0), NEW t, Working(FALSE, t),
           NEW u, IsTunnel(u), u.stage = "streaming", u.conn = "up", ~u.gai,
           u.tls = t.tls, u.addr = t.addr, u.terminated = t.terminated,
           u.failed = t.failed, u.ref_count = t.ref_count,
           u.closing = t.closing, u.freed = t.freed, t.conn = "up",
           Busy(u), Direction(u, "in"), Direction(u, "out"), RelayStep(t0, u)
    PROVE  GoodStep(FALSE, t0, u)
<1>1. /\ IsTunnel(t) /\ ~t.terminated /\ t.failed \subseteq Tolerated(FALSE, t)
      /\ t.addr \in ServerAddress /\ TlsInv(FALSE, t)
      /\ t.ref_count = 0 /\ t.closing = {} /\ ~t.freed
  BY Zenon DEF Working, Alive
<1>2. u.failed \subseteq Tolerated(FALSE, u) /\ Alive(u) /\ ~u.terminated
  BY <1>1, Zenon DEF Tolerated, Alive
<1>3. TlsInv(FALSE, u)
  BY <1>1, Zenon DEF TlsInv, TlsStages
<1>4. StageShape(u)
  BY Zenon DEF StageShape, ReadsIn, WritesIn, WritesOut, WaitsIdle
<1>5. ServerLink(FALSE, u)
  BY Zenon DEF ServerLink
<1>6. LiveInv(FALSE, u)
  BY <1>1, <1>4, <1>5, Zenon DEF LiveInv, Busy
<1>7. TunnelInv(FALSE, u)
  BY <1>1, <1>2, <1>3, <1>6, Zenon DEF TunnelInv
<1> QED BY <1>2, <1>7, Zenon DEF GoodStep

(* do_launch_streaming is good: both sides are read. *)
LEMMA LaunchGood ==
    ASSUME NEW t, Settled(FALSE, t), NEW t0, Fresh(t0), t.conn = "up"
    PROVE  GoodStep(FALSE, t0, do_launch_streaming(t))
<1> DEFINE a == Stop(t)
           b == socket_read(a, "in", FALSE)
           c == socket_read(b, "out", TRUE)
           u == MovedTo(c, "streaming")
<1>1. Settled(FALSE, a) /\ a.conn = "up" /\ "in" \in Sides /\ "out" \in Sides
  BY StopHolds, Zenon DEF Linked, Sides
<1> HIDE DEF a
<1>2. /\ IsTunnel(a) /\ ~a.terminated /\ ~a.gai /\ Working(FALSE, a)
      /\ \A d \in Sides : /\ a.rd[d] = "stop" /\ a.wr[d] = "stop"
                          /\ ~a.wreq[d] /\ ~a.reading[d]
      /\ a.taken = Both(0) /\ a.delivered = Both(0)
      /\ Fresh(t0)
  BY <1>1, Zenon DEF Settled, Working, Idle, Fresh, Alive
<1>3. StreamUsable(a, "in") /\ StreamUsable(a, "out")
  BY <1>1, <1>2, Zenon DEF StreamUsable
<1>4. IsTunnel(b) /\ ReadStarted(a, "in", b)
  BY <1>1, <1>2, <1>3, ReadEffect, Zenon
<1> HIDE DEF b
<1>5. /\ a.rd \in [Sides -> SockStates] /\ a.reading \in [Sides -> BOOLEAN]
  BY <1>2, Zenon DEF IsTunnel
<1>6. b.rd["out"] = "stop" /\ StreamUsable(b, "out")
  BY <1>1, <1>2, <1>4, <1>5 DEF ReadStarted, Fixed, Linked, StreamUsable
<1>7. IsTunnel(c) /\ ReadStarted(b, "out", c)
  BY <1>1, <1>4, <1>6, ReadEffect, Zenon
<1> HIDE DEF c
<1>8. IsTunnel(u) /\ OnlyStage(c, "streaming", u)
  <2>1. IsTunnel(c) /\ "streaming" \in Stages
    BY <1>7, Zenon DEF Stages
  <2> QED BY <2>1, StageMoved, Zenon
<1> HIDE DEF u
<1>9. /\ u.stage = "streaming" /\ u.conn = "up" /\ u.gai = a.gai /\ u.tls = a.tls
      /\ Fixed(a, u)
  <2>1. Fixed(a, b) /\ Linked(a, b) /\ Fixed(b, c) /\ Linked(b, c)
    BY <1>4, <1>7, Zenon DEF ReadStarted
  <2>2. /\ Fixed(c, u) /\ u.stage = "streaming" /\ u.conn = c.conn
        /\ u.gai = c.gai /\ u.tls = c.tls
    BY <1>8, Zenon DEF OnlyStage
  <2> QED BY <1>1, <2>1, <2>2, Zenon DEF Fixed, Linked
<1>10. /\ u.wr = a.wr /\ u.wreq = a.wreq
      /\ u.rd = [b.rd EXCEPT !["out"] = "busy"]
      /\ b.rd = [a.rd EXCEPT !["in"] = "busy"]
  BY <1>4, <1>7, <1>8, Zenon DEF ReadStarted, OnlyStage
<1>11. u.rd["in"] = "busy" /\ u.rd["out"] = "busy"
  BY <1>5, <1>10, Zenon DEF Sides
<1>12. u.wr["in"] = "stop" /\ u.wr["out"] = "stop" /\ ~u.wreq["in"] /\ ~u.wreq["out"]
  <2>1. u.wr = a.wr /\ u.wreq = a.wreq
    BY <1>10, Zenon
  <2> QED BY <1>1, <1>2, <2>1, Zenon
<1>13. /\ u.stage = "streaming" /\ u.conn = "up" /\ u.gai = a.gai /\ u.tls = a.tls
      /\ Fixed(a, u) /\ u.wr = a.wr /\ u.wreq = a.wreq
  BY <1>9, <1>10, Zenon
<1>14. Busy(u)
  BY <1>11, <1>12, Zenon DEF Busy, Sides
<1>15. u.taken = Both(0) /\ u.delivered = Both(0) /\ ~u.terminated
  BY <1>2, <1>13, Zenon DEF Fixed
<1>16. Direction(u, "in") /\ Direction(u, "out")
  BY <1>11, <1>12, <1>15 DEF Direction, Other, Both, Sides
<1>17. RelayStep(t0, u)
  BY <1>2, <1>13, <1>15, Zenon DEF RelayStep, RelayPhase, SameCounts, Fresh, Alive
<1>18. GoodStep(FALSE, t0, u)
  BY <1>1, <1>2, <1>8, <1>13, <1>14, <1>16, <1>17, StreamArrives, Zenon DEF Fixed, Fresh
<1> QED BY <1>18, Zenon DEF u, c, b, a, MovedTo, do_launch_streaming

-----------------------------------------------------------------------------
(* Between two callbacks a live tunnel has stopped or busy sockets. *)
LEMMA LiveFacts ==
    ASSUME NEW k \in BOOLEAN, NEW t, TunnelInv(k, t), Alive(t)
    PROVE  /\ Working(k, t) /\ LiveInv(k, t) /\ IsTunnel(t)
           /\ \A c \in Sides : t.rd[c] \in {"stop", "busy"} /\ t.wr[c] \in {"stop", "busy"}
<1>1. LiveInv(k, t) /\ IsTunnel(t)
  BY Zenon DEF TunnelInv
<1>2. t.stage \in Stages /\ t.stage # "unborn" /\ StageShape(t)
  BY <1>1, Zenon DEF LiveInv, IsTunnel, Alive
<1>3. \A c \in Sides : t.rd[c] \in {"stop", "busy"} /\ t.wr[c] \in {"stop", "busy"}
  <2>1. CASE t.stage = "streaming"
    BY <1>2, <2>1, Zenon DEF StageShape, Direction, Other, Sides
  <2>2. CASE t.stage # "streaming"
    <3>1. t.stage \in ReadsIn \cup WritesIn \cup WritesOut \cup WaitsIdle \cup {"ssr_waiting_feedback"}
      BY <1>2, <2>2, Zenon DEF Stages, ReadsIn, WritesIn, WritesOut, WaitsIdle
    <3> QED BY <1>2, <3>1, Zenon DEF StageShape, Shape, Sides
  <2> QED BY <2>1, <2>2, Zenon
<1>4. Working(k, t)
  <2>1. t.ref_count = 0 /\ t.closing = {} /\ ~t.freed
    BY <1>1, Zenon DEF LiveInv
  <2>2. \A c \in Sides : t.rd[c] # "dead" /\ t.wr[c] # "dead"
    BY <1>3, Zenon
  <2> QED BY <2>1, <2>2, Zenon DEF TunnelInv, Working
<1> QED BY <1>1, <1>3, <1>4, Zenon

(* Streaming: what one callback does to the two sockets. *)
Streaming(t) == TunnelInv(FALSE, t) /\ Alive(t) /\ t.stage = "streaming"

WriteEnded(t, c, s) ==
    /\ Fixed(t, s) /\ Linked(t, s) /\ s.rd = t.rd /\ s.reading = t.reading
    /\ s.wr = [t.wr EXCEPT ![c] = "done"] /\ s.wreq = [t.wreq EXCEPT ![c] = FALSE]

ReadEnded(t, c, s) ==
    /\ Fixed(t, s) /\ Linked(t, s) /\ s.wr = t.wr /\ s.wreq = t.wreq
    /\ s.rd = [t.rd EXCEPT ![c] = "done"] /\ s.reading = [t.reading EXCEPT ![c] = FALSE]

(* Both sockets of a streaming tunnel are usable. *)
LEMMA StreamingFacts ==
    ASSUME NEW t, Streaming(t), NEW c \in Sides
    PROVE  /\ IsTunnel(t) /\ Working(FALSE, t) /\ LiveInv(FALSE, t)
           /\ t.conn = "up" /\ ~t.gai /\ ~t.terminated
           /\ Direction(t, c)
           /\ t.rd[c] \in {"stop", "busy"} /\ t.wr[c] \in {"stop", "busy"}
           /\ t.wreq[c] <=> t.wr[c] = "busy"
           /\ t.reading[c] => t.rd[c] = "busy"
<1>1. /\ IsTunnel(t) /\ Working(FALSE, t) /\ LiveInv(FALSE, t)
      /\ t.rd[c] \in {"stop", "busy"} /\ t.wr[c] \in {"stop", "busy"}
  BY LiveFacts, Zenon DEF Streaming
<1>2. t.conn = "up" /\ ~t.gai /\ ~t.terminated
  BY <1>1, Zenon DEF Streaming, LiveInv, ServerLink, Alive
<1>3. Direction(t, c)
  BY <1>1, Zenon DEF Streaming, LiveInv, StageShape, Sides
<1> QED BY <1>1, <1>2, <1>3, Zenon DEF LiveInv

(* The two assertions at the head of tunnel_traditional_streaming hold. *)
Checked(s, c) ==
    [s EXCEPT !.failed = @
        \cup ASSERT("streaming.one_of_read_write_done",
                    (s.wr[c] = "done") # (s.rd[c] = "done"))
        \cup ASSERT("streaming.target_not_done",
                    s.wr[Other(c)] # "done" /\ s.rd[Other(c)] # "done")]

LEMMA StreamingChecks ==
    ASSUME NEW s, IsTunnel(s), NEW c \in Sides,
           \/ s.wr[c] = "done" /\ s.rd[c] # "done"
           \/ s.wr[c] # "done" /\ s.rd[c] = "done",
           s.wr[Other(c)] # "done", s.rd[Other(c)] # "done"
    PROVE  IsTunnel(Checked(s, c)) /\ AsBefore(s, Checked(s, c))
<1> DEFINE p == (s.wr[c] = "done") # (s.rd[c] = "done")
           q == s.wr[Other(c)] # "done" /\ s.rd[Other(c)] # "done"
<1>1. p = TRUE /\ q = TRUE
  BY Zenon
<1>2. Checked(s, c) = [s EXCEPT !.failed = @
                          \cup ASSERT("streaming.one_of_read_write_done", p)
                          \cup ASSERT("streaming.target_not_done", q)]
  BY Zenon DEF Checked
<1> HIDE DEF p, q
<1> QED BY <1>1, <1>2, SMT DEF ASSERT, IsTunnel, AsBefore, Fixed, Linked

(* A finished write of a streaming tunnel lets the other side be read. *)
LEMMA WrittenGood ==
    ASSUME NEW t, Streaming(t), NEW c \in Sides, t.wreq[c],
           NEW s, IsTunnel(s), WriteEnded(t, c, s), NEW e
    PROVE  GoodStep(FALSE, t, tunnel_traditional_streaming(s, c, e))
<1> DEFINE o == Other(c)
<1>1. o \in Sides /\ o # c /\ Other(o) = c /\ \A d \in Sides : d = c \/ d = o
  BY Zenon DEF Other, Sides
<1>2. /\ IsTunnel(t) /\ Working(FALSE, t) /\ t.conn = "up" /\ ~t.gai /\ ~t.terminated
      /\ Direction(t, c) /\ Direction(t, o)
      /\ t.rd[c] \in {"stop", "busy"} /\ t.rd[o] \in {"stop", "busy"}
      /\ t.wr[o] \in {"stop", "busy"} /\ t.wr[c] = "busy"
      /\ t.wreq[o] <=> t.wr[o] = "busy"
      /\ t.reading[c] => t.rd[c] = "busy"
  BY <1>1, StreamingFacts, Zenon
<1>3. t.rd[o] = "stop" /\ t.taken[o] = t.delivered[c] + 1
  BY <1>1, <1>2, Zenon DEF Direction
<1>4. /\ t.wr \in [Sides -> SockStates] /\ t.rd \in [Sides -> SockStates]
      /\ t.wreq \in [Sides -> BOOLEAN] /\ t.reading \in [Sides -> BOOLEAN]
      /\ t.taken \in [Sides -> Nat] /\ t.delivered \in [Sides -> Nat]
  BY <1>2, Zenon DEF IsTunnel
<1> HIDE DEF o
<1>5. s.wr[c] = "done" /\ s.rd[c] # "done" /\ s.wr[o] # "done" /\ s.rd[o] # "done"
  BY <1>1, <1>2, <1>4, Zenon DEF WriteEnded
<1> DEFINE a == Checked(s, c)
<1>6. /\ IsTunnel(a) /\ AsBefore(s, a)
      /\ tunnel_traditional_streaming(s, c, e) = streaming_written(a, c)
  <2>1. tunnel_traditional_streaming(s, c, e) = streaming_written(a, c)
    BY <1>5, Zenon DEF tunnel_traditional_streaming, Checked
  <2> QED BY <1>5, <2>1, StreamingChecks, Zenon DEF o
<1> HIDE DEF a
<1> DEFINE b == [a EXCEPT !.wr[c] = "stop", !.delivered[c] = @ + 1]
           x == o = "out"
           u == socket_read(b, o, x)
<1>7. streaming_written(a, c) = IF b.rd[o] = "stop" THEN u ELSE b
  BY Zenon DEF streaming_written, o
<1>8. /\ IsTunnel(b) /\ Linked(a, b) /\ b.wr = [a.wr EXCEPT ![c] = "stop"]
      /\ b.rd = a.rd /\ b.reading = a.reading /\ b.wreq = a.wreq
      /\ b.delivered = [a.delivered EXCEPT ![c] = @ + 1] /\ b.taken = a.taken
      /\ b.addr = a.addr /\ b.terminated = a.terminated /\ b.failed = a.failed
      /\ b.ref_count = a.ref_count /\ b.closing = a.closing /\ b.freed = a.freed
  <2>1. IsTunnel(a)
    BY <1>6, Zenon
  <2> QED BY <2>1, SMT DEF IsTunnel, SockStates, Linked
<1> HIDE DEF b
<1>9. /\ b.stage = "streaming" /\ b.conn = "up" /\ ~b.gai /\ b.tls = t.tls
      /\ b.addr = t.addr /\ b.terminated = t.terminated /\ b.failed = t.failed
      /\ b.ref_count = t.ref_count /\ b.closing = t.closing /\ b.freed = t.freed
      /\ b.taken = t.taken /\ b.delivered = [t.delivered EXCEPT ![c] = @ + 1]
  <2>1. Fixed(t, s) /\ Linked(t, s) /\ Fixed(s, a) /\ Linked(s, a) /\ t.stage = "streaming"
    BY <1>6, Zenon DEF WriteEnded, AsBefore, Streaming
  <2>2. Fixed(t, a) /\ Linked(t, a)
    BY <2>1, Zenon DEF Fixed, Linked
  <2> QED BY <1>2, <1>8, <2>1, <2>2 DEF Fixed, Linked
<1>10. /\ b.rd = t.rd /\ b.reading = t.reading
       /\ b.wr = [[t.wr EXCEPT ![c] = "done"] EXCEPT ![c] = "stop"]
       /\ b.wreq = [t.wreq EXCEPT ![c] = FALSE]
  BY <1>6, <1>8 DEF WriteEnded, AsBefore
<1>11. b.rd[o] = "stop" /\ StreamUsable(b, o) /\ x \in BOOLEAN
  BY <1>2, <1>3, <1>9, <1>10, Zenon DEF StreamUsable
<1> HIDE DEF x
<1>12. IsTunnel(u) /\ ReadStarted(b, o, u)
  BY <1>1, <1>8, <1>11, ReadEffect, Zenon
<1> HIDE DEF u
<1>13. /\ u.stage = "streaming" /\ u.conn = "up" /\ ~u.gai /\ u.tls = t.tls
       /\ u.addr = t.addr /\ u.terminated = t.terminated /\ u.failed = t.failed
       /\ u.ref_count = t.ref_count /\ u.closing = t.closing /\ u.freed = t.freed
       /\ u.taken = t.taken /\ u.delivered = [t.delivered EXCEPT ![c] = @ + 1]
  <2>1. Fixed(b, u) /\ Linked(b, u)
    BY <1>12, Zenon DEF ReadStarted
  <2> QED BY <1>9, <2>1 DEF Fixed, Linked
<1>14. /\ u.rd[o] = "busy" /\ u.rd[c] = t.rd[c]
       /\ u.wr[c] = "stop" /\ u.wr[o] = t.wr[o]
       /\ ~u.wreq[c] /\ u.wreq[o] = t.wreq[o] /\ u.reading[c] = t.reading[c]
  BY <1>1, <1>4, <1>10, <1>12 DEF ReadStarted
<1>15. /\ u.delivered[c] = t.delivered[c] + 1 /\ u.delivered[o] = t.delivered[o]
       /\ u.taken = t.taken
  BY <1>1, <1>4, <1>13, Zenon
<1>16. Direction(u, c) /\ Direction(u, o)
  BY <1>1, <1>2, <1>3, <1>14, <1>15, Zenon DEF Direction, o
<1>17. Direction(u, "in") /\ Direction(u, "out") /\ Busy(u)
  <2>1. (u.wreq[c] <=> u.wr[c] = "busy") /\ (u.reading[c] => u.rd[c] = "busy")
    BY <1>2, <1>14, Zenon
  <2>2. (u.wreq[o] <=> u.wr[o] = "busy") /\ (u.reading[o] => u.rd[o] = "busy")
    BY <1>2, <1>14, Zenon
  <2> QED BY <1>1, <1>16, <2>1, <2>2, Zenon DEF Busy, Sides
<1>18. RelayStep(t, u)
  <2>1. RelayPhase(t) = "open" /\ RelayPhase(u) = "open"
    BY <1>2, <1>13, Zenon DEF RelayPhase, Streaming
  <2> QED BY <1>3, <1>13, <2>1, Zenon DEF RelayStep, o
<1>19. GoodStep(FALSE, t, u)
  BY <1>2, <1>12, <1>13, <1>17, <1>18, StreamArrives, Zenon DEF Streaming
<1> QED BY <1>6, <1>7, <1>11, <1>19, Zenon

(* A finished read of a streaming tunnel is written to the other side, or    *)
(* ends the tunnel when nothing could be extracted from it.                  *)
LEMMA ReadGood ==
    ASSUME NEW t, Streaming(t), NEW c \in Sides, t.reading[c],
           NEW s, IsTunnel(s), ReadEnded(t, c, s), NEW e \in BOOLEAN
    PROVE  GoodStep(FALSE, t, tunnel_traditional_streaming(s, c, e))
<1> DEFINE o == Other(c)
<1>1. o \in Sides /\ o # c /\ Other(o) = c /\ \A d \in Sides : d = c \/ d = o
  BY Zenon DEF Other, Sides
<1>2. /\ IsTunnel(t) /\ Working(FALSE, t) /\ t.conn = "up" /\ ~t.gai /\ ~t.terminated
      /\ Direction(t, c) /\ Direction(t, o)
      /\ t.rd[o] \in {"stop", "busy"} /\ t.wr[c] \in {"stop", "busy"}
      /\ t.rd[c] = "busy"
      /\ t.wreq[c] <=> t.wr[c] = "busy"
      /\ t.reading[o] => t.rd[o] = "busy"
  BY <1>1, StreamingFacts, Zenon
<1>3. t.wr[o] = "stop" /\ t.taken[c] = t.delivered[o]
  BY <1>1, <1>2, Zenon DEF Direction
<1>4. /\ t.wr \in [Sides -> SockStates] /\ t.rd \in [Sides -> SockStates]
      /\ t.wreq \in [Sides -> BOOLEAN] /\ t.reading \in [Sides -> BOOLEAN]
      /\ t.taken \in [Sides -> Nat] /\ t.delivered \in [Sides -> Nat]
  BY <1>2, Zenon DEF IsTunnel
<1> HIDE DEF o
<1>5. s.rd[c] = "done" /\ s.wr[c] # "done" /\ s.wr[o] # "done" /\ s.rd[o] # "done"
  BY <1>1, <1>2, <1>3, <1>4, Zenon DEF ReadEnded
<1> DEFINE a == Checked(s, c)
<1>6. /\ IsTunnel(a) /\ AsBefore(s, a)
      /\ tunnel_traditional_streaming(s, c, e) = streaming_read(a, c, e)
  <2>1. tunnel_traditional_streaming(s, c, e) = streaming_read(a, c, e)
    BY <1>5, Zenon DEF tunnel_traditional_streaming, Checked
  <2> QED BY <1>5, <2>1, StreamingChecks, Zenon DEF o
<1> HIDE DEF a
<1> DEFINE ok == a.wr[o] = "stop"
           b == [a EXCEPT !.rd[c] = "stop", !.failed = @ \cup
                    ASSERT("streaming.target_wrstate_stop", ok)]
           y == [b EXCEPT !.taken[c] = @ + 1]
           u == socket_write(y, o)
<1>7. streaming_read(a, c, e) = IF e THEN u ELSE tunnel_shutdown(b)
  BY Zenon DEF streaming_read, o
<1>8. ok = TRUE
  BY <1>3, <1>6, Zenon DEF AsBefore, ReadEnded
<1> HIDE DEF ok
<1>9. /\ IsTunnel(b) /\ Fixed(a, b) /\ Linked(a, b)
      /\ b.rd = [a.rd EXCEPT ![c] = "stop"] /\ b.wr = a.wr
      /\ b.reading = a.reading /\ b.wreq = a.wreq
  <2>1. IsTunnel(a)
    BY <1>6, Zenon
  <2> QED BY <1>8, <2>1, SMT DEF IsTunnel, SockStates, ASSERT, Fixed, Linked
<1> HIDE DEF b
<1>10. /\ Fixed(t, b) /\ Linked(t, b)
       /\ b.rd = [[t.rd EXCEPT ![c] = "done"] EXCEPT ![c] = "stop"] /\ b.wr = t.wr
       /\ b.reading = [t.reading EXCEPT ![c] = FALSE] /\ b.wreq = t.wreq
  <2>1. Fixed(t, s) /\ Linked(t, s) /\ Fixed(s, a) /\ Linked(s, a)
    BY <1>6, Zenon DEF ReadEnded, AsBefore
  <2>2. Fixed(t, a) /\ Linked(t, a)
    BY <2>1, Zenon DEF Fixed, Linked
  <2>3. Fixed(t, b) /\ Linked(t, b)
    BY <1>9, <2>2, Zenon DEF Fixed, Linked
  <2> QED BY <1>6, <1>9, <2>3, Zenon DEF ReadEnded, AsBefore
<1>11. /\ b.rd[c] = "stop" /\ b.rd[o] = t.rd[o] /\ b.wr[c] = t.wr[c] /\ b.wr[o] = "stop"
       /\ ~b.reading[c] /\ b.reading[o] = t.reading[o]
  BY <1>1, <1>3, <1>4, <1>10
<1>12. CASE e = FALSE
  <2>1. \A d \in Sides : b.rd[d] # "dead" /\ b.wr[d] # "dead"
    BY <1>1, <1>2, <1>11, Zenon
  <2>2. Working(FALSE, b)
    BY <1>2, <1>9, <1>10, <2>1, WorkingKept, Zenon
  <2>3. Alive(t) /\ SameCounts(t, b)
    BY <1>10, Zenon DEF Streaming, SameCounts, Fixed
  <2>4. GoodStep(FALSE, t, tunnel_shutdown(b))
    BY <2>2, <2>3, ShutdownGood, Zenon
  <2> QED BY <1>6, <1>7, <1>12, <2>4, Zenon
<1>13. CASE e = TRUE
  <2>1. /\ IsTunnel(y) /\ Linked(b, y) /\ y.taken = [b.taken EXCEPT ![c] = @ + 1]
        /\ y.delivered = b.delivered /\ y.rd = b.rd /\ y.wr = b.wr
        /\ y.reading = b.reading /\ y.wreq = b.wreq
        /\ y.addr = b.addr /\ y.terminated = b.terminated /\ y.failed = b.failed
        /\ y.ref_count = b.ref_count /\ y.closing = b.closing /\ y.freed = b.freed
    <3>1. IsTunnel(b)
      BY <1>9, Zenon
    <3> QED BY <3>1, SMT DEF IsTunnel, Linked
  <2> HIDE DEF y
  <2>2. /\ y.stage = "streaming" /\ y.conn = "up" /\ ~y.gai /\ y.tls = t.tls
        /\ y.addr = t.addr /\ y.terminated = t.terminated /\ y.failed = t.failed
        /\ y.ref_count = t.ref_count /\ y.closing = t.closing /\ y.freed = t.freed
        /\ y.delivered = t.delivered /\ y.taken = [t.taken EXCEPT ![c] = @ + 1]
    <3>1. Fixed(t, b) /\ Linked(t, b) /\ t.stage = "streaming"
      BY <1>10, Zenon DEF Streaming
    <3> QED BY <1>2, <2>1, <3>1 DEF Fixed, Linked
  <2>3. y.wr[o] = "stop" /\ StreamUsable(y, o)
    BY <1>2, <1>11, <2>1, <2>2, Zenon DEF StreamUsable
  <2>4. IsTunnel(u) /\ WriteStarted(y, o, u)
    BY <1>1, <2>1, <2>3, WriteEffect, Zenon
  <2> HIDE DEF u
  <2>5. /\ u.stage = "streaming" /\ u.conn = "up" /\ ~u.gai /\ u.tls = t.tls
        /\ u.addr = t.addr /\ u.terminated = t.terminated /\ u.failed = t.failed
        /\ u.ref_count = t.ref_count /\ u.closing = t.closing /\ u.freed = t.freed
        /\ u.delivered = t.delivered /\ u.taken = [t.taken EXCEPT ![c] = @ + 1]
    <3>1. Fixed(y, u) /\ Linked(y, u)
      BY <2>4, Zenon DEF WriteStarted
    <3> QED BY <2>2, <3>1 DEF Fixed, Linked
  <2>6. /\ u.rd = b.rd /\ u.reading = b.reading
        /\ u.wr = [t.wr EXCEPT ![o] = "busy"] /\ u.wreq = [t.wreq EXCEPT ![o] = TRUE]
    BY <1>10, <2>1, <2>4 DEF WriteStarted
  <2>7. /\ u.rd[c] = "stop" /\ u.rd[o] = t.rd[o]
        /\ u.wr[o] = "busy" /\ u.wr[c] = t.wr[c]
        /\ u.wreq[o] /\ u.wreq[c] = t.wreq[c]
        /\ ~u.reading[c] /\ u.reading[o] = t.reading[o]
    BY <1>1, <1>4, <1>11, <2>6, Zenon
  <2>8. /\ u.delivered = t.delivered
        /\ u.taken[c] = t.taken[c] + 1 /\ u.taken[o] = t.taken[o]
    BY <1>1, <1>4, <2>5, Zenon
  <2>9. Direction(u, c) /\ Direction(u, o)
    BY <1>1, <1>2, <1>3, <2>7, <2>8 DEF Direction, o
  <2>10. Direction(u, "in") /\ Direction(u, "out") /\ Busy(u)
    <3>1. (u.wreq[c] <=> u.wr[c] = "busy") /\ (u.reading[c] => u.rd[c] = "busy")
      BY <1>2, <2>7, Zenon
    <3>2. (u.wreq[o] <=> u.wr[o] = "busy") /\ (u.reading[o] => u.rd[o] = "busy")
      BY <1>2, <2>7, Zenon
    <3> QED BY <1>1, <2>9, <3>1, <3>2, Zenon DEF Busy, Sides
  <2>11. RelayStep(t, u)
    <3>1. RelayPhase(t) = "open" /\ RelayPhase(u) = "open"
      BY <1>2, <2>5, Zenon DEF RelayPhase, Streaming
    <3> QED BY <1>3, <2>5, <3>1, Zenon DEF RelayStep, o
  <2>12. GoodStep(FALSE, t, u)
    BY <1>2, <2>4, <2>5, <2>10, <2>11, StreamArrives, Zenon DEF Streaming
  <2> QED BY <1>6, <1>7, <1>13, <2>12, Zenon
<1> QED BY <1>12, <1>13, Zenon

-----------------------------------------------------------------------------
(* The first half of a callback: the completion callbacks of tunnel.c, and   *)
(* the reset of the socket's state that do_next starts with.                 *)

(* A read that brought data. *)
LEMMA ReadDoneEffect ==
    ASSUME NEW k \in BOOLEAN, NEW t, TunnelInv(k, t), Alive(t), NEW c \in Sides, t.reading[c]
    PROVE  /\ IsTunnel(socket_read_done_cb(t, c, "pos"))
           /\ ReadEnded(t, c, socket_read_done_cb(t, c, "pos"))
<1> DEFINE p == t.rd[c] = "busy"
           s == [t EXCEPT !.reading[c] = FALSE, !.timer[c] = FALSE]
           u == [s EXCEPT !.rd[c] = "done",
                          !.failed = @ \cup ASSERT("read_cb.rdstate_busy", p)]
<1>1. IsTunnel(t) /\ ~t.terminated /\ p = TRUE
  BY LiveFacts DEF LiveInv, Alive
<1>2. socket_read_done_cb(t, c, "pos") = u
  BY <1>1, Zenon DEF socket_read_done_cb, tunnel_is_dead
<1> HIDE DEF p
<1>3. IsTunnel(u) /\ ReadEnded(t, c, u)
  BY <1>1, SMT DEF IsTunnel, ReadEnded, Fixed, Linked, ASSERT, SockStates
<1> QED BY <1>2, <1>3, Zenon

(* A write that went out. *)
LEMMA WriteDoneEffect ==
    ASSUME NEW k \in BOOLEAN, NEW t, TunnelInv(k, t), Alive(t), NEW c \in Sides, t.wreq[c]
    PROVE  /\ IsTunnel(socket_write_done_cb(t, c, "zero"))
           /\ WriteEnded(t, c, socket_write_done_cb(t, c, "zero"))
<1> DEFINE p == t.wr[c] = "busy"
           r == [t EXCEPT !.wreq[c] = FALSE]
           s == [r EXCEPT !.timer[c] = FALSE]
           u == [s EXCEPT !.wr[c] = "done",
                          !.failed = @ \cup ASSERT("write_cb.wrstate_busy", p)]
<1>1. IsTunnel(t) /\ ~t.terminated /\ p = TRUE
  BY LiveFacts DEF LiveInv, Alive
<1>2. socket_write_done_cb(t, c, "zero") = u
  BY <1>1, Zenon DEF socket_write_done_cb, socket_timer_stop, tunnel_is_dead
<1> HIDE DEF p
<1>3. IsTunnel(u) /\ WriteEnded(t, c, u)
  BY <1>1, SMT DEF IsTunnel, WriteEnded, Fixed, Linked, ASSERT, SockStates
<1> QED BY <1>2, <1>3, Zenon

(* Which socket a stage that is not streaming reads or writes. *)
LEMMA ReadsWhere ==
    ASSUME NEW k \in BOOLEAN, NEW t, TunnelInv(k, t), Alive(t), NEW c \in Sides, t.reading[c],
           t.stage # "streaming"
    PROVE  /\ (t.stage \in ReadsIn /\ c = "in") \/ (t.stage = "ssr_waiting_feedback" /\ c = "out")
           /\ t.rd[c] = "busy" /\ t.rd[Other(c)] = "stop"
           /\ t.wr["in"] = "stop" /\ t.wr["out"] = "stop"
<1>1. LiveInv(k, t) /\ t.rd[c] = "busy" /\ StageShape(t) /\ t.stage \in Stages
  BY LiveFacts DEF LiveInv, IsTunnel
<1>2. t.stage \in ReadsIn \cup WritesIn \cup WritesOut \cup WaitsIdle \cup {"ssr_waiting_feedback"}
  BY <1>1, Zenon DEF Stages, ReadsIn, WritesIn, WritesOut, WaitsIdle, Alive
<1>3. CASE t.stage \in ReadsIn
  <2>1. Shape(t, "busy", "stop", "stop", "stop")
    BY <1>1, <1>3, Zenon DEF StageShape
  <2> QED BY ONLY <1>1, <1>3, <2>1, c \in Sides, Zenon DEF Shape, Sides, Other
<1>4. CASE t.stage \in WritesIn
  <2>1. Shape(t, "stop", "busy", "stop", "stop")
    BY <1>1, <1>4, Zenon DEF StageShape
  <2> QED BY ONLY <1>1, <1>4, <2>1, c \in Sides, Zenon DEF Shape, Sides, Other
<1>5. CASE t.stage \in WritesOut
  <2>1. Shape(t, "stop", "stop", "stop", "busy")
    BY <1>1, <1>5, Zenon DEF StageShape
  <2> QED BY ONLY <1>1, <1>5, <2>1, c \in Sides, Zenon DEF Shape, Sides, Other
<1>6. CASE t.stage \in WaitsIdle
  <2>1. Shape(t, "stop", "stop", "stop", "stop")
    BY <1>1, <1>6, Zenon DEF StageShape
  <2> QED BY ONLY <1>1, <1>6, <2>1, c \in Sides, Zenon DEF Shape, Sides, Other
<1>7. CASE t.stage = "ssr_waiting_feedback"
  <2>1. Shape(t, "stop", "stop", "busy", "stop")
    BY <1>1, <1>7, Zenon DEF StageShape
  <2> QED BY ONLY <1>1, <1>7, <2>1, c \in Sides, Zenon DEF Shape, Sides, Other
<1> QED BY <1>2, <1>3, <1>4, <1>5, <1>6, <1>7, Zenon

LEMMA WritesWhere ==
    ASSUME NEW k \in BOOLEAN, NEW t, TunnelInv(k, t), Alive(t), NEW c \in Sides, t.wreq[c],
           t.stage # "streaming"
    PROVE  /\ (t.stage \in WritesIn /\ c = "in") \/ (t.stage \in WritesOut /\ c = "out")
           /\ t.wr[c] = "busy" /\ t.wr[Other(c)] = "stop"
           /\ t.rd["in"] = "stop" /\ t.rd["out"] = "stop"
<1>1. LiveInv(k, t) /\ t.wr[c] = "busy" /\ StageShape(t) /\ t.stage \in Stages
  BY LiveFacts DEF LiveInv, IsTunnel
<1>2. t.stage \in ReadsIn \cup WritesIn \cup WritesOut \cup WaitsIdle \cup {"ssr_waiting_feedback"}
  BY <1>1, Zenon DEF Stages, ReadsIn, WritesIn, WritesOut, WaitsIdle, Alive
<1>3. CASE t.stage \in ReadsIn
  <2>1. Shape(t, "busy", "stop", "stop", "stop")
    BY <1>1, <1>3, Zenon DEF StageShape
  <2> QED BY ONLY <1>1, <1>3, <2>1, c \in Sides, Zenon DEF Shape, Sides, Other
<1>4. CASE t.stage \in WritesIn
  <2>1. Shape(t, "stop", "busy", "stop", "stop")
    BY <1>1, <1>4, Zenon DEF StageShape
  <2> QED BY ONLY <1>1, <1>4, <2>1, c \in Sides, Zenon DEF Shape, Sides, Other
<1>5. CASE t.stage \in WritesOut
  <2>1. Shape(t, "stop", "stop", "stop", "busy")
    BY <1>1, <1>5, Zenon DEF StageShape
  <2> QED BY ONLY <1>1, <1>5, <2>1, c \in Sides, Zenon DEF Shape, Sides, Other
<1>6. CASE t.stage \in WaitsIdle
  <2>1. Shape(t, "stop", "stop", "stop", "stop")
    BY <1>1, <1>6, Zenon DEF StageShape
  <2> QED BY ONLY <1>1, <1>6, <2>1, c \in Sides, Zenon DEF Shape, Sides, Other
<1>7. CASE t.stage = "ssr_waiting_feedback"
  <2>1. Shape(t, "stop", "stop", "busy", "stop")
    BY <1>1, <1>7, Zenon DEF StageShape
  <2> QED BY ONLY <1>1, <1>7, <2>1, c \in Sides, Zenon DEF Shape, Sides, Other
<1> QED BY <1>2, <1>3, <1>4, <1>5, <1>6, <1>7, Zenon

(* The state of a socket is reset to stop. *)
ReadReset(s, c, u) ==
    /\ Fixed(s, u) /\ Linked(s, u) /\ u.wr = s.wr /\ u.wreq = s.wreq
    /\ u.reading = s.reading /\ u.rd = [s.rd EXCEPT ![c] = "stop"]

WriteReset(s, c, u) ==
    /\ Fixed(s, u) /\ Linked(s, u) /\ u.rd = s.rd /\ u.wreq = s.wreq
    /\ u.reading = s.reading /\ u.wr = [s.wr EXCEPT ![c] = "stop"]

LEMMA ReadResets ==
    ASSUME NEW s, IsTunnel(s), NEW c \in Sides, s.rd[c] = "done"
    PROVE  IsTunnel(read(s, c, c)) /\ ReadReset(s, c, read(s, c, c))
<1> DEFINE p == c = c /\ s.rd[c] = "done"
           a == IF c = "in" THEN "next.incoming" ELSE "next.outgoing"
           u == [[s EXCEPT !.failed = @ \cup ASSERT(a, p)] EXCEPT !.rd[c] = "stop"]
<1>1. p = TRUE
  BY Zenon
<1>2. read(s, c, c) = u
  BY Zenon DEF read, Check
<1> HIDE DEF p, a
<1>3. IsTunnel(u) /\ ReadReset(s, c, u)
  BY <1>1, SMT DEF IsTunnel, ReadReset, Fixed, Linked, ASSERT, SockStates
<1> QED BY <1>2, <1>3, Zenon

LEMMA WriteResets ==
    ASSUME NEW s, IsTunnel(s), NEW c \in Sides, s.wr[c] = "done"
    PROVE  IsTunnel(written(s, c, c)) /\ WriteReset(s, c, written(s, c, c))
<1> DEFINE p == c = c /\ s.wr[c] = "done"
           a == IF c = "in" THEN "next.incoming" ELSE "next.outgoing"
           u == [[s EXCEPT !.failed = @ \cup ASSERT(a, p)] EXCEPT !.wr[c] = "stop"]
<1>1. p = TRUE
  BY Zenon
<1>2. written(s, c, c) = u
  BY Zenon DEF written, Check
<1> HIDE DEF p, a
<1>3. IsTunnel(u) /\ WriteReset(s, c, u)
  BY <1>1, SMT DEF IsTunnel, WriteReset, Fixed, Linked, ASSERT, SockStates
<1> QED BY <1>2, <1>3, Zenon

(* A stage that is neither of the two streaming ones has moved no chunk. *)
LEMMA SetupFresh ==
    ASSUME NEW k \in BOOLEAN, NEW t, TunnelInv(k, t), Alive(t),
           t.stage \notin {"streaming", "tls_streaming"}
    PROVE  Fresh(t)
  BY LiveFacts, Zenon DEF LiveInv, StageShape, Fresh

(* What is settled once nothing is pending. *)
LEMMA Settles ==
    ASSUME NEW k \in BOOLEAN, NEW t, Working(k, t), Fresh(t), NEW u, IsTunnel(u),
           Fixed(t, u), Linked(t, u), ~t.gai, t.conn # "pending",
           \A c \in Sides : /\ u.rd[c] = "stop" /\ u.wr[c] = "stop"
                            /\ ~u.wreq[c] /\ ~u.reading[c]
    PROVE  Settled(k, u)
<1>1. Idle(u)
  BY Zenon DEF Idle, Linked
<1>2. Fresh(u)
  BY Zenon DEF Fresh, Fixed, Linked, Alive
<1>3. \A c \in Sides : u.rd[c] # "dead" /\ u.wr[c] # "dead"
  BY Zenon
<1>4. Working(k, u)
  BY <1>3, WorkingKept, Zenon
<1> QED BY <1>1, <1>2, <1>4, Zenon DEF Settled

(* A read callback of a stage that is not streaming settles the tunnel. *)
LEMMA ReadSettles ==
    ASSUME NEW k \in BOOLEAN, NEW t, TunnelInv(k, t), Alive(t), NEW c \in Sides, t.reading[c],
           t.stage \notin {"streaming", "tls_streaming"},
           NEW s, IsTunnel(s), ReadEnded(t, c, s)
    PROVE  Settled(k, read(s, c, c)) /\ Linked(t, read(s, c, c)) /\ Fresh(t)
<1> DEFINE u == read(s, c, c)
<1>1. Working(k, t) /\ Fresh(t) /\ LiveInv(k, t) /\ IsTunnel(t)
  BY LiveFacts, SetupFresh, Zenon
<1>2. /\ (t.stage \in ReadsIn /\ c = "in") \/ (t.stage = "ssr_waiting_feedback" /\ c = "out")
      /\ t.rd[c] = "busy" /\ t.rd[Other(c)] = "stop"
      /\ t.wr["in"] = "stop" /\ t.wr["out"] = "stop"
  BY ReadsWhere
<1>3. /\ t.wr \in [Sides -> SockStates] /\ t.rd \in [Sides -> SockStates]
      /\ t.wreq \in [Sides -> BOOLEAN] /\ t.reading \in [Sides -> BOOLEAN]
  BY <1>1, Zenon DEF IsTunnel
<1>4. s.rd[c] = "done"
  BY <1>3 DEF ReadEnded
<1>5. IsTunnel(u) /\ ReadReset(s, c, u)
  BY <1>4, ReadResets, Zenon
<1> HIDE DEF u
<1>6. Fixed(t, u) /\ Linked(t, u)
  <2>1. Fixed(t, s) /\ Linked(t, s) /\ Fixed(s, u) /\ Linked(s, u)
    BY <1>5, Zenon DEF ReadEnded, ReadReset
  <2> QED BY <2>1, Zenon DEF Fixed, Linked
<1>7. /\ u.rd = [[t.rd EXCEPT ![c] = "done"] EXCEPT ![c] = "stop"]
      /\ u.wr = t.wr /\ u.wreq = t.wreq /\ u.reading = [t.reading EXCEPT ![c] = FALSE]
  BY <1>5, Zenon DEF ReadEnded, ReadReset
<1>8. ASSUME NEW d \in Sides
      PROVE  /\ t.wr[d] = "stop" /\ ~t.wreq[d]
             /\ d = c \/ (t.rd[d] = "stop" /\ ~t.reading[d])
  <2>1. t.wr[d] = "stop" /\ (d = c \/ t.rd[d] = "stop")
    BY <1>2, Zenon DEF Sides, Other
  <2>2. (t.wreq[d] <=> t.wr[d] = "busy") /\ (t.reading[d] => t.rd[d] = "busy")
    BY <1>1, Zenon DEF LiveInv
  <2> QED BY <2>1, <2>2, Zenon
<1>9. ASSUME NEW d \in Sides
      PROVE  /\ u.rd[d] = "stop" /\ u.wr[d] = "stop"
             /\ ~u.wreq[d] /\ ~u.reading[d]
  <2>1. CASE d = c
    BY <1>3, <1>7, <1>8, <2>1
  <2>2. CASE d # c
    BY <1>3, <1>7, <1>8, <2>2
  <2> QED BY <2>1, <2>2, Zenon
<1>10. ~t.gai /\ t.conn # "pending"
  BY <1>1, <1>2, Zenon DEF LiveInv, ServerLink, ReadsIn
<1>11. Settled(k, u)
  BY <1>1, <1>5, <1>6, <1>9, <1>10, Settles, Zenon
<1> QED BY <1>1, <1>6, <1>11, Zenon DEF u

(* So does a write callback. *)
LEMMA WriteSettles ==
    ASSUME NEW k \in BOOLEAN, NEW t, TunnelInv(k, t), Alive(t), NEW c \in Sides, t.wreq[c],
           t.stage \notin {"streaming", "tls_streaming"},
           NEW s, IsTunnel(s), WriteEnded(t, c, s)
    PROVE  Settled(k, written(s, c, c)) /\ Linked(t, written(s, c, c)) /\ Fresh(t)
<1> DEFINE u == written(s, c, c)
<1>1. Working(k, t) /\ Fresh(t) /\ LiveInv(k, t) /\ IsTunnel(t)
  BY LiveFacts, SetupFresh, Zenon
<1>2. /\ (t.stage \in WritesIn /\ c = "in") \/ (t.stage \in WritesOut /\ c = "out")
      /\ t.wr[c] = "busy" /\ t.wr[Other(c)] = "stop"
      /\ t.rd["in"] = "stop" /\ t.rd["out"] = "stop"
  BY WritesWhere, Zenon
<1>3. /\ t.wr \in [Sides -> SockStates] /\ t.rd \in [Sides -> SockStates]
      /\ t.wreq \in [Sides -> BOOLEAN] /\ t.reading \in [Sides -> BOOLEAN]
  BY <1>1, Zenon DEF IsTunnel
<1>4. s.wr[c] = "done"
  BY <1>3 DEF WriteEnded
<1>5. IsTunnel(u) /\ WriteReset(s, c, u)
  BY <1>4, WriteResets, Zenon
<1> HIDE DEF u
<1>6. Fixed(t, u) /\ Linked(t, u)
  <2>1. Fixed(t, s) /\ Linked(t, s) /\ Fixed(s, u) /\ Linked(s, u)
    BY <1>5, Zenon DEF WriteEnded, WriteReset
  <2> QED BY <2>1, Zenon DEF Fixed, Linked
<1>7. /\ u.wr = [[t.wr EXCEPT ![c] = "done"] EXCEPT ![c] = "stop"]
      /\ u.rd = t.rd /\ u.reading = t.reading /\ u.wreq = [t.wreq EXCEPT ![c] = FALSE]
  BY <1>5, Zenon DEF WriteEnded, WriteReset
<1>8. ASSUME NEW d \in Sides
      PROVE  /\ t.rd[d] = "stop" /\ ~t.reading[d]
             /\ d = c \/ (t.wr[d] = "stop" /\ ~t.wreq[d])
  <2>1. t.rd[d] = "stop" /\ (d = c \/ t.wr[d] = "stop")
    BY <1>2, Zenon DEF Sides, Other
  <2>2. (t.wreq[d] <=> t.wr[d] = "busy") /\ (t.reading[d] => t.rd[d] = "busy")
    BY <1>1, Zenon DEF LiveInv
  <2> QED BY <2>1, <2>2, Zenon
<1>9. ASSUME NEW d \in Sides
      PROVE  /\ u.rd[d] = "stop" /\ u.wr[d] = "stop"
             /\ ~u.wreq[d] /\ ~u.reading[d]
  <2>1. CASE d = c
    BY <1>3, <1>7, <1>8, <2>1
  <2>2. CASE d # c
    BY <1>3, <1>7, <1>8, <2>2
  <2> QED BY <2>1, <2>2, Zenon
<1>10. ~t.gai /\ t.conn # "pending"
  BY <1>1, <1>2, Zenon DEF LiveInv, ServerLink, WritesIn, WritesOut
<1>11. Settled(k, u)
  BY <1>1, <1>5, <1>6, <1>9, <1>10, Settles, Zenon
<1> QED BY <1>1, <1>6, <1>11, Zenon DEF u

(* The connection to the server by stage; a plain stage is not of TLS. *)
LEMMA ConnWhere ==
    ASSUME NEW k \in BOOLEAN, NEW t, TunnelInv(k, t), Alive(t)
    PROVE  /\ t.stage \in {"handshake", "handshake_replied", "s5_request",
                           "resolve_ssr_server_host_done"} \cup TlsStages
                 => t.conn = "none"
           /\ t.stage \in WritesOut \cup {"ssr_waiting_feedback", "streaming"} => t.conn = "up"
           /\ t.stage = "auth_complition_done" => t.conn = IF k THEN "none" ELSE "up"
           /\ t.stage \in PlainStages => k = FALSE
           /\ t.stage \in TlsStages => k = TRUE
           /\ t.tls = "connecting" => t.stage = "tls_connecting"
<1>1. ServerLink(k, t) /\ TlsInv(k, t) /\ t.conn \in Connections
  BY LiveFacts, Zenon DEF LiveInv, Working, IsTunnel
<1>2. (t.stage \in PlainStages => k = FALSE) /\ (t.stage \in TlsStages => k = TRUE)
      /\ (t.tls = "connecting" => t.stage = "tls_connecting")
  BY <1>1, Zenon DEF TlsInv
<1>3. t.stage \in {"handshake", "handshake_replied", "s5_request",
                   "resolve_ssr_server_host_done"} \cup TlsStages
                 => t.conn = "none"
  BY <1>1, Zenon DEF ServerLink, WritesOut, TlsStages, Connections
<1>4. /\ t.stage \in WritesOut \cup {"ssr_waiting_feedback", "streaming"} => t.conn = "up"
      /\ t.stage = "auth_complition_done" => t.conn = IF k THEN "none" ELSE "up"
  BY <1>1, Zenon DEF ServerLink, WritesOut, Connections
<1> QED BY <1>2, <1>3, <1>4, Zenon

(* An idle live tunnel has only its lookup or its connect to wait for. *)
LEMMA IdleFacts ==
    ASSUME NEW k \in BOOLEAN, NEW t, TunnelInv(k, t), Alive(t), t.stage \in WaitsIdle
    PROVE  /\ Fresh(t) /\ Working(k, t) /\ IsTunnel(t)
           /\ \A c \in Sides : /\ t.rd[c] = "stop" /\ t.wr[c] = "stop"
                               /\ ~t.wreq[c] /\ ~t.reading[c]
<1>1. LiveInv(k, t) /\ IsTunnel(t) /\ Working(k, t)
  BY LiveFacts, Zenon
<1>2. t.stage \notin {"streaming", "tls_streaming"}
  BY Zenon DEF WaitsIdle
<1>3. Shape(t, "stop", "stop", "stop", "stop")
  BY <1>1, Zenon DEF LiveInv, StageShape
<1>4. \A c \in Sides : t.rd[c] = "stop" /\ t.wr[c] = "stop"
  BY <1>3, Zenon DEF Shape, Sides
<1>5. \A c \in Sides : (t.wreq[c] <=> t.wr[c] = "busy") /\ (t.reading[c] => t.rd[c] = "busy")
  BY <1>1, Zenon DEF LiveInv
<1>6. \A c \in Sides : ~t.wreq[c] /\ ~t.reading[c]
  BY <1>4, <1>5, Zenon
<1>7. Fresh(t)
  BY <1>2, SetupFresh, Zenon
<1> QED BY <1>1, <1>4, <1>6, <1>7, Zenon

(* A connection that came up settles the tunnel. *)
LEMMA ConnectSettles ==
    ASSUME NEW k \in BOOLEAN, NEW t, TunnelInv(k, t), Alive(t), t.conn = "pending"
    PROVE  LET s == socket_connect_done_cb(t, "zero")
           IN  /\ k = FALSE /\ Settled(FALSE, s) /\ s.conn = "up" /\ s.stage = t.stage
               /\ t.stage = "connecting_ssr_server" /\ Fresh(t)
<1> DEFINE s == [[t EXCEPT !.conn = "up"] EXCEPT !.timer["out"] = FALSE]
<1>1. ServerLink(k, t) /\ ~t.terminated
  BY LiveFacts, Zenon DEF LiveInv, Alive
<1>2. t.stage = "connecting_ssr_server" /\ t.stage \in WaitsIdle /\ t.stage \in PlainStages
  BY <1>1, Zenon DEF ServerLink, WaitsIdle, PlainStages
<1>3. k = FALSE
  BY <1>2, ConnWhere, Zenon
<1>4. /\ Fresh(t) /\ Working(FALSE, t) /\ IsTunnel(t)
      /\ \A c \in Sides : /\ t.rd[c] = "stop" /\ t.wr[c] = "stop"
                          /\ ~t.wreq[c] /\ ~t.reading[c]
  BY <1>2, <1>3, IdleFacts, Zenon
<1>5. socket_connect_done_cb(t, "zero") = s
  BY <1>1, Zenon DEF socket_connect_done_cb, socket_timer_stop, tunnel_is_dead
<1>6. /\ IsTunnel(s) /\ Fixed(t, s) /\ s.stage = t.stage /\ s.tls = t.tls
      /\ s.conn = "up" /\ s.gai = t.gai /\ s.rd = t.rd /\ s.wr = t.wr
      /\ s.wreq = t.wreq /\ s.reading = t.reading
  <2>1. IsTunnel(t)
    BY <1>4, Zenon
  <2> QED BY ONLY <2>1, Zenon DEF IsTunnel, Fixed, Connections, Sides
<1> HIDE DEF s
<1>7. ~s.gai
  BY <1>1, <1>2, <1>6, Zenon DEF ServerLink
<1>8. Idle(s)
  BY <1>4, <1>6, <1>7, Zenon DEF Idle
<1>9. Alive(s) /\ Fresh(s)
  BY <1>4, <1>6, Zenon DEF Fresh, Alive, Fixed
<1>10. s.failed \subseteq Tolerated(FALSE, s) /\ TlsInv(FALSE, s)
  <2>1. t.failed \subseteq Tolerated(FALSE, t) /\ TlsInv(FALSE, t)
    BY <1>4, Zenon DEF Working
  <2>2. s.failed = t.failed /\ s.tls = t.tls /\ s.stage = t.stage
    BY <1>6, Zenon DEF Fixed
  <2>3. Tolerated(FALSE, s) = Tolerated(FALSE, t)
    BY Zenon DEF Tolerated
  <2> QED BY <2>1, <2>2, <2>3, Zenon DEF TlsInv
<1>11. s.addr \in ServerAddress
  BY <1>4, <1>6, Zenon DEF Working, Fixed
<1>12. s.ref_count = 0 /\ s.closing = {} /\ ~s.freed
  BY <1>4, <1>6, Zenon DEF Working, Fixed
<1>13. \A c \in Sides : s.rd[c] # "dead" /\ s.wr[c] # "dead"
  BY <1>8, Zenon DEF Idle
<1>14. Working(FALSE, s)
  BY <1>6, <1>9, <1>10, <1>11, <1>12, <1>13, Zenon DEF Working
<1>15. Settled(FALSE, s)
  BY <1>8, <1>9, <1>14, Zenon DEF Settled
<1> QED BY <1>2, <1>3, <1>4, <1>5, <1>6, <1>15, Zenon

(* An answered lookup settles the tunnel and leaves it an address. *)
LEMMA LookupSettles ==
    ASSUME NEW k \in BOOLEAN, NEW t, TunnelInv(k, t), Alive(t), t.gai, NEW ip \in Ips
    PROVE  LET s == socket_getaddrinfo_done_cb(t, "zero", ip)
           IN  /\ k = FALSE /\ Settled(FALSE, s) /\ s.conn = "none" /\ s.stage = t.stage
               /\ t.stage = "resolve_ssr_server_host_done" /\ s.addr.ip = ip /\ Fresh(t)
<1> DEFINE s == [[[t EXCEPT !.gai = FALSE] EXCEPT !.timer["out"] = FALSE] EXCEPT !.addr.ip = ip]
<1>1. ServerLink(k, t) /\ ~t.terminated
  BY LiveFacts, Zenon DEF LiveInv, Alive
<1>2. t.stage = "resolve_ssr_server_host_done" /\ t.stage \in WaitsIdle /\ t.stage \in PlainStages
  BY <1>1, Zenon DEF ServerLink, WaitsIdle, PlainStages
<1>3. k = FALSE /\ t.conn = "none"
  BY <1>2, ConnWhere, Zenon
<1>4. /\ Fresh(t) /\ Working(FALSE, t) /\ IsTunnel(t)
      /\ \A c \in Sides : /\ t.rd[c] = "stop" /\ t.wr[c] = "stop"
                          /\ ~t.wreq[c] /\ ~t.reading[c]
  BY <1>2, <1>3, IdleFacts, Zenon
<1>5. socket_getaddrinfo_done_cb(t, "zero", ip) = s
  BY <1>1, Zenon DEF socket_getaddrinfo_done_cb, socket_timer_stop, tunnel_is_dead
<1>6. /\ IsTunnel(s) /\ s.stage = t.stage /\ s.tls = t.tls
      /\ s.conn = t.conn /\ s.gai = FALSE /\ s.rd = t.rd /\ s.wr = t.wr
      /\ s.wreq = t.wreq /\ s.reading = t.reading /\ s.addr.ip = ip
      /\ s.terminated = t.terminated /\ s.failed = t.failed
      /\ s.ref_count = t.ref_count /\ s.closing = t.closing /\ s.freed = t.freed
      /\ s.taken = t.taken /\ s.delivered = t.delivered
  <2> DEFINE a == [t.addr EXCEPT !.ip = ip]
             x == [[t EXCEPT !.gai = FALSE] EXCEPT !.timer["out"] = FALSE]
  <2>1. IsTunnel(t) /\ t.addr \in AnyAddress
    BY <1>4, Zenon DEF IsTunnel, AnyAddress
  <2>2. a \in AnyAddress /\ a.ip = ip
    BY <2>1, Zenon DEF AnyAddress
  <2>3. IsTunnel(x) /\ x.addr = t.addr
    BY ONLY <2>1, Zenon DEF IsTunnel, Sides
  <2>4. s = WithAddress(x, a)
    BY ONLY <2>3, Zenon DEF WithAddress
  <2> HIDE DEF a
  <2>5. IsTunnel(WithAddress(x, a)) /\ WithAddress(x, a).addr = a
    <3> HIDE DEF x
    <3> QED BY ONLY <2>2, <2>3, Zenon DEF WithAddress, AnyAddress, IsTunnel
  <2>6. /\ WithAddress(x, a).stage = t.stage /\ WithAddress(x, a).tls = t.tls
        /\ WithAddress(x, a).conn = t.conn /\ WithAddress(x, a).gai = FALSE
        /\ WithAddress(x, a).rd = t.rd /\ WithAddress(x, a).wr = t.wr
        /\ WithAddress(x, a).wreq = t.wreq /\ WithAddress(x, a).reading = t.reading
        /\ WithAddress(x, a).terminated = t.terminated
        /\ WithAddress(x, a).failed = t.failed
        /\ WithAddress(x, a).ref_count = t.ref_count
        /\ WithAddress(x, a).closing = t.closing /\ WithAddress(x, a).freed = t.freed
        /\ WithAddress(x, a).taken = t.taken /\ WithAddress(x, a).delivered = t.delivered
    BY ONLY <2>1, Zenon DEF WithAddress, IsTunnel
  <2> QED BY <2>2, <2>4, <2>5, <2>6, Zenon
<1> HIDE DEF s
<1>8. Idle(s)
  BY <1>3, <1>4, <1>6 DEF Idle
<1>9. Alive(s) /\ Fresh(s)
  BY <1>4, <1>6, Zenon DEF Fresh, Alive
<1>10. s.failed \subseteq Tolerated(FALSE, s) /\ TlsInv(FALSE, s)
  <2>1. t.failed \subseteq Tolerated(FALSE, t) /\ TlsInv(FALSE, t)
    BY <1>4, Zenon DEF Working
  <2>3. Tolerated(FALSE, s) = Tolerated(FALSE, t)
    BY Zenon DEF Tolerated
  <2> QED BY <1>6, <2>1, <2>3, Zenon DEF TlsInv
<1>12. s.ref_count = 0 /\ s.closing = {} /\ ~s.freed /\ s.conn = "none"
  BY <1>3, <1>4, <1>6, Zenon DEF Working
<1>13. \A c \in Sides : s.rd[c] # "dead" /\ s.wr[c] # "dead"
  BY <1>8, Zenon DEF Idle
<1>14. Working(FALSE, s)
  BY <1>6, <1>9, <1>10, <1>12, <1>13, Zenon DEF Working
<1>15. Settled(FALSE, s)
  BY <1>8, <1>9, <1>14, Zenon DEF Settled
<1> QED BY <1>2, <1>3, <1>4, <1>5, <1>6, <1>12, <1>15, Zenon

-----------------------------------------------------------------------------
(* A live tunnel that stays in its stage keeps the invariant with its shape. *)
SameHandles(t, u) ==
    /\ u.addr = t.addr /\ u.terminated = t.terminated
    /\ u.ref_count = t.ref_count /\ u.closing = t.closing /\ u.freed = t.freed

SameStage(t, u) == u.stage = t.stage /\ u.conn = t.conn /\ u.gai = t.gai

LEMMA StaysLive ==
    ASSUME NEW k \in BOOLEAN, NEW t, TunnelInv(k, t), Alive(t), NEW u, IsTunnel(u),
           SameHandles(t, u), SameStage(t, u), u.failed \subseteq Tolerated(k, t),
           TlsInv(k, u), Busy(u), StageShape(u)
    PROVE  TunnelInv(k, u) /\ Alive(u) /\ u.stage # "unborn"
<1>1. Alive(u) /\ u.stage # "unborn" /\ ~u.terminated
  BY Zenon DEF Alive, SameHandles, SameStage
<1>2. u.failed \subseteq Tolerated(k, u)
  <2>1. Tolerated(k, u) = Tolerated(k, t)
    BY <1>1, Zenon DEF Tolerated
  <2> QED BY <2>1, Zenon
<1>3. LiveInv(k, u)
  <2>1. LiveInv(k, t)
    BY LiveFacts, Zenon
  <2>2. ServerLink(k, u)
    BY <2>1, Zenon DEF LiveInv, ServerLink, SameStage
  <2>3. u.ref_count = 0 /\ u.closing = {} /\ ~u.freed
    BY <2>1, Zenon DEF LiveInv, SameHandles
  <2> QED BY <2>2, <2>3, Zenon DEF LiveInv, Busy
<1>4. u.conn # "none" => u.addr \in ServerAddress
  BY Zenon DEF TunnelInv, SameHandles, SameStage
<1> QED BY <1>1, <1>2, <1>3, <1>4, Zenon DEF TunnelInv

(* A read that brought nothing (EAGAIN) is a stutter of the Relay. *)
LEMMA ReadNothingGood ==
    ASSUME NEW k \in BOOLEAN, NEW t, TunnelInv(k, t), Alive(t), NEW c \in Sides
    PROVE  GoodStep(k, t, socket_read_done_cb(t, c, "zero"))
<1> DEFINE u == [t EXCEPT !.reading[c] = FALSE, !.timer[c] = FALSE]
<1>1. /\ IsTunnel(t) /\ ~t.terminated /\ LiveInv(k, t) /\ t.failed \subseteq Tolerated(k, t)
      /\ TlsInv(k, t)
  BY LiveFacts, Zenon DEF Alive, TunnelInv
<1>2. socket_read_done_cb(t, c, "zero") = u
  BY <1>1, Zenon DEF socket_read_done_cb, tunnel_is_dead
<1>3. /\ IsTunnel(u) /\ Fixed(t, u) /\ Linked(t, u) /\ u.rd = t.rd /\ u.wr = t.wr
      /\ u.wreq = t.wreq /\ u.reading = [t.reading EXCEPT ![c] = FALSE]
  <2>1. IsTunnel(t)
    BY <1>1, Zenon
  <2> QED BY <2>1, Zenon DEF IsTunnel, Fixed, Linked
<1> HIDE DEF u
<1>4. Busy(u)
  <2>1. t.reading \in [Sides -> BOOLEAN]
    BY <1>1, Zenon DEF IsTunnel
  <2>2. Busy(t)
    BY <1>1, Zenon DEF LiveInv, Busy
  <2> QED BY <1>3, <2>1, <2>2, Zenon DEF Busy
<1>5. StageShape(u)
  <2>1. StageShape(t)
    BY <1>1, Zenon DEF LiveInv
  <2> QED BY <1>3, <2>1, Zenon DEF StageShape, Shape, Direction, Linked, Fixed
<1>6. SameHandles(t, u) /\ SameStage(t, u) /\ u.failed \subseteq Tolerated(k, t) /\ TlsInv(k, u)
  BY <1>1, <1>3, Zenon DEF SameHandles, SameStage, Fixed, Linked, TlsInv
<1>7. TunnelInv(k, u) /\ Alive(u) /\ u.stage # "unborn"
  BY <1>3, <1>4, <1>5, <1>6, StaysLive, Zenon
<1>8. RelayStep(t, u)
  BY <1>3, Zenon DEF RelayStep, RelayPhase, SameCounts, Fixed, Linked
<1> QED BY <1>2, <1>7, <1>8, Zenon DEF GoodStep

(* tls_client_shutdown touches nothing but the TLS connection. *)
TlsOnly(t, u) ==
    /\ IsTunnel(u) /\ Fixed(t, u) /\ SameStage(t, u) /\ u.rd = t.rd /\ u.wr = t.wr
    /\ u.wreq = t.wreq /\ u.reading = t.reading

LEMMA TlsShutdownEffect ==
    ASSUME NEW t, IsTunnel(t)
    PROVE  LET u == tls_client_shutdown(t)
           IN  /\ TlsOnly(t, u)
               /\ u.tls = t.tls \/ u.tls = "closing"
<1> DEFINE x == IF t.tls \in {"connecting", "up"} THEN "closing" ELSE t.tls
           u == [t EXCEPT !.tls = x]
<1>1. x \in TlsStates /\ (x = t.tls \/ x = "closing")
  BY Zenon DEF IsTunnel, TlsStates
<1>2. tls_client_shutdown(t) = u
  BY Zenon DEF tls_client_shutdown
<1> HIDE DEF x
<1>3. TlsOnly(t, u) /\ u.tls = x
  BY <1>1, Zenon DEF TlsOnly, IsTunnel, Fixed, SameStage
<1> QED BY <1>1, <1>2, <1>3, Zenon

(* tunnel_tls_client_incoming_streaming reads on, whatever became of the     *)
(* data: its assertions hold and the read it starts is the only one.         *)
LEMMA TlsReadGood ==
    ASSUME NEW t, TunnelInv(TRUE, t), Alive(t), t.stage = "tls_streaming",
           t.reading["in"], NEW s, IsTunnel(s), ReadEnded(t, "in", s), NEW dec
    PROVE  GoodStep(TRUE, t, tunnel_tls_client_incoming_streaming(s, "in", dec))
<1> DEFINE p == "in" = "in"
           q == (s.wr["in"] = "done") # (s.rd["in"] = "done")
           a == Check(Check(s, "next.incoming", p),
                      "tls_incoming.one_of_read_write_done", q)
           b == [a EXCEPT !.rd["in"] = "stop", !.taken["in"] = @ + 1]
           d == IF dec = "error" THEN tls_client_shutdown(b) ELSE b
           u == socket_read(d, "in", FALSE)
<1>1. /\ Working(TRUE, t) /\ LiveInv(TRUE, t) /\ IsTunnel(t) /\ ~t.terminated
      /\ TlsInv(TRUE, t) /\ t.failed \subseteq Tolerated(TRUE, t) /\ "in" \in Sides
  BY LiveFacts, Zenon DEF Alive, TunnelInv, Sides
<1>2. Shape(t, "busy", "stop", "stop", "stop")
  <2>1. t.stage \in ReadsIn
    BY Zenon DEF ReadsIn
  <2> QED BY <1>1, <2>1, Zenon DEF LiveInv, StageShape
<1>3. /\ t.wr \in [Sides -> SockStates] /\ t.rd \in [Sides -> SockStates]
      /\ t.reading \in [Sides -> BOOLEAN]
  BY <1>1, Zenon DEF IsTunnel
<1>4. s.wr["in"] = "stop" /\ s.rd["in"] = "done"
  BY <1>1, <1>2, <1>3, Zenon DEF ReadEnded, Shape
<1>5. p = TRUE /\ q = TRUE
  BY <1>4, Zenon
<1>6. tunnel_tls_client_incoming_streaming(s, "in", dec) = u
  BY <1>4, Zenon DEF tunnel_tls_client_incoming_streaming
<1> HIDE DEF p, q
<1>7. IsTunnel(a) /\ AsBefore(s, a)
  <2> DEFINE m == Check(s, "next.incoming", p)
  <2>1. IsTunnel(m) /\ AsBefore(s, m)
    BY <1>5, CheckHolds, Zenon
  <2> HIDE DEF m
  <2>2. IsTunnel(a) /\ AsBefore(m, a)
    <3>1. IsTunnel(Check(m, "tls_incoming.one_of_read_write_done", q))
          /\ AsBefore(m, Check(m, "tls_incoming.one_of_read_write_done", q))
      BY <1>5, <2>1, CheckHolds, Zenon
    <3> QED BY <3>1, Zenon DEF m
  <2> QED BY <2>1, <2>2, Zenon DEF AsBefore, Fixed, Linked
<1> HIDE DEF a
<1>8. /\ IsTunnel(b) /\ Linked(a, b) /\ SameHandles(a, b) /\ b.failed = a.failed
      /\ b.rd = [a.rd EXCEPT !["in"] = "stop"] /\ b.wr = a.wr
      /\ b.wreq = a.wreq /\ b.reading = a.reading
  <2>1. IsTunnel(a)
    BY <1>7, Zenon
  <2> QED BY <2>1, SMT DEF IsTunnel, Linked, SameHandles, Sides, SockStates
<1> HIDE DEF b
<1>9. /\ IsTunnel(d) /\ SameHandles(b, d) /\ SameStage(b, d) /\ d.failed = b.failed
      /\ d.rd = b.rd /\ d.wr = b.wr /\ d.wreq = b.wreq /\ d.reading = b.reading
      /\ d.tls = b.tls \/ d.tls = "closing"
  <2>1. TlsOnly(b, tls_client_shutdown(b))
        /\ (tls_client_shutdown(b).tls = b.tls \/ tls_client_shutdown(b).tls = "closing")
    BY <1>8, TlsShutdownEffect, Zenon
  <2>2. CASE dec = "error"
    BY <2>1, <2>2, Zenon DEF TlsOnly, SameHandles, Fixed
  <2>3. CASE dec # "error"
    BY <1>8, <2>3, Zenon DEF SameHandles, SameStage
  <2> QED BY <2>2, <2>3, Zenon
<1> HIDE DEF d
<1>10. SameHandles(t, d) /\ SameStage(t, d) /\ d.failed = t.failed
  <2>1. /\ Fixed(t, s) /\ Linked(t, s) /\ Fixed(s, a) /\ Linked(s, a)
    BY <1>7, Zenon DEF ReadEnded, AsBefore
  <2>2. SameHandles(t, a) /\ SameStage(t, a) /\ a.failed = t.failed
    BY <2>1, Zenon DEF Fixed, Linked, SameHandles, SameStage
  <2>3. SameHandles(t, b) /\ SameStage(t, b) /\ b.failed = t.failed
    BY <1>8, <2>2, Zenon DEF Linked, SameHandles, SameStage
  <2> QED BY <1>9, <2>3, Zenon DEF SameHandles, SameStage
<1>11. /\ d.rd = [[t.rd EXCEPT !["in"] = "done"] EXCEPT !["in"] = "stop"]
       /\ d.wr = t.wr /\ d.wreq = t.wreq
       /\ d.reading = [t.reading EXCEPT !["in"] = FALSE]
       /\ d.tls = t.tls \/ d.tls = "closing"
  <2>1. a.rd = [t.rd EXCEPT !["in"] = "done"] /\ a.wr = t.wr /\ a.wreq = t.wreq
        /\ a.reading = [t.reading EXCEPT !["in"] = FALSE] /\ a.tls = t.tls
    BY <1>7, Zenon DEF ReadEnded, AsBefore, Linked
  <2>2. b.tls = a.tls
    BY <1>8, Zenon DEF Linked
  <2> QED BY <1>8, <1>9, <2>1, <2>2, Zenon
<1>12. d.rd["in"] = "stop" /\ StreamUsable(d, "in")
  BY <1>1, <1>3, <1>10, <1>11, Zenon DEF SameHandles, StreamUsable
<1>13. IsTunnel(u) /\ ReadStarted(d, "in", u)
  BY <1>1, <1>9, <1>12, ReadEffect, Zenon
<1> HIDE DEF u
<1>14. /\ SameHandles(t, u) /\ SameStage(t, u) /\ u.failed = t.failed
       /\ u.tls = d.tls /\ u.wr = t.wr /\ u.wreq = t.wreq
  <2>1. Fixed(d, u) /\ Linked(d, u) /\ u.wr = d.wr /\ u.wreq = d.wreq
    BY <1>13, Zenon DEF ReadStarted
  <2> QED BY <1>10, <1>11, <2>1, Zenon DEF Fixed, Linked, SameHandles, SameStage
<1>15. /\ u.rd["in"] = "busy" /\ u.rd["out"] = t.rd["out"]
       /\ u.reading["out"] = t.reading["out"]
  BY <1>3, <1>11, <1>13 DEF ReadStarted, Sides
<1>16. Busy(u)
  <2>1. Busy(t)
    BY <1>1, Zenon DEF LiveInv, Busy
  <2> QED BY <1>14, <1>15, <2>1, Zenon DEF Busy, Sides
<1>17. Shape(u, "busy", "stop", "stop", "stop") /\ u.stage = "tls_streaming"
  BY <1>2, <1>14, <1>15, Zenon DEF Shape, SameStage
<1>18. StageShape(u)
  BY <1>17, Zenon DEF StageShape, WritesIn, WritesOut, WaitsIdle
<1>19. TlsInv(TRUE, u)
  BY <1>1, <1>11, <1>14, <1>17, Zenon DEF TlsInv
<1>20. TunnelInv(TRUE, u) /\ Alive(u) /\ u.stage # "unborn"
  BY <1>1, <1>13, <1>14, <1>16, <1>18, <1>19, StaysLive, Zenon
<1> QED BY <1>6, <1>20, Zenon DEF GoodStep

-----------------------------------------------------------------------------
(* The callbacks of a live tunnel, whole. *)

(* What s5_parse and the cipher may say, by stage. *)
LEMMA InputFacts ==
    ASSUME NEW t, NEW o \in Inputs(t)
    PROVE  /\ t.stage = "handshake" => o.s5 \in HandshakeResults
           /\ t.stage = "s5_request" => o.s5 \in RequestResults /\ o.err \in BOOLEAN
  BY Zenon DEF Inputs

(* A read that brought data. *)
LEMMA ReadPosGood ==
    ASSUME NEW k \in BOOLEAN, cf.over_tls = k, NEW t, TunnelInv(k, t), Alive(t),
           NEW c \in Sides, t.reading[c], NEW o \in Inputs(t)
    PROVE  GoodStep(k, t, do_next(socket_read_done_cb(t, c, "pos"), c, "pos", o))
<1> DEFINE s == socket_read_done_cb(t, c, "pos")
           n == do_next(s, c, "pos", o)
           e == o.dec = "data"
<1>1. IsTunnel(s) /\ ReadEnded(t, c, s)
  BY ReadDoneEffect, Zenon
<1> HIDE DEF s
<1>2. s.stage = t.stage
  BY <1>1, Zenon DEF ReadEnded, Linked
<1>3. CASE t.stage = "streaming"
  <2>1. k = FALSE /\ Streaming(t)
    BY <1>3, ConnWhere, Zenon DEF PlainStages, Streaming
  <2>2. e \in BOOLEAN /\ n = tunnel_traditional_streaming(s, c, e)
    BY <1>2, <1>3, Zenon DEF do_next
  <2> HIDE DEF e, n
  <2>3. GoodStep(FALSE, t, tunnel_traditional_streaming(s, c, e))
    BY <1>1, <2>1, <2>2, ReadGood, Zenon
  <2> QED BY <2>1, <2>2, <2>3, Zenon DEF n, s
<1>4. CASE t.stage = "tls_streaming"
  <2>1. c = "in"
    BY <1>4, ReadsWhere
  <2>2. k = TRUE
    BY <1>4, ConnWhere, Zenon DEF TlsStages
  <2>3. n = tunnel_tls_client_incoming_streaming(s, "in", o.dec)
    BY <1>2, <1>4, <2>1, Zenon DEF do_next
  <2> HIDE DEF n
  <2>4. GoodStep(TRUE, t, tunnel_tls_client_incoming_streaming(s, "in", o.dec))
    BY <1>1, <1>4, <2>1, <2>2, TlsReadGood, Zenon
  <2> QED BY <2>2, <2>3, <2>4, Zenon DEF n, s
<1>5. CASE t.stage \notin {"streaming", "tls_streaming"}
  <2> DEFINE u == read(s, c, c)
  <2>1. (t.stage \in ReadsIn /\ c = "in") \/ (t.stage = "ssr_waiting_feedback" /\ c = "out")
    BY <1>5, ReadsWhere
  <2>2. Settled(k, u) /\ Linked(t, u) /\ Fresh(t)
    BY <1>1, <1>5, ReadSettles, Zenon
  <2>3. u.stage = t.stage /\ u.conn = t.conn
    BY <2>2, Zenon DEF Linked
  <2>4. CASE t.stage = "handshake"
    <3>1. n = do_handshake(u, o)
      BY <1>2, <2>1, <2>4, Zenon DEF do_next
    <3>2. o.s5 \in HandshakeResults /\ t.conn = "none"
      BY <2>4, InputFacts, ConnWhere, Zenon
    <3> HIDE DEF n, u
    <3>3. GoodStep(k, t, do_handshake(u, o))
      BY <2>2, <2>3, <2>4, <3>2, HandshakeGood, Zenon
    <3> QED BY <3>1, <3>3, Zenon DEF n, s
  <2>5. CASE t.stage = "s5_request"
    <3>1. n = do_parse_s5_request(u, o)
      BY <1>2, <2>1, <2>5, Zenon DEF do_next
    <3>2. o.s5 \in RequestResults /\ o.err \in BOOLEAN /\ t.conn = "none"
      BY <2>5, InputFacts, ConnWhere, Zenon
    <3> HIDE DEF n, u
    <3>3. GoodStep(k, t, do_parse_s5_request(u, o))
      BY <2>2, <2>3, <2>5, <3>2, ParseRequestGood, Zenon
    <3> QED BY <3>1, <3>3, Zenon DEF n, s
  <2>6. CASE t.stage = "ssr_waiting_feedback"
    <3>1. n = do_ssr_receipt_for_feedback(u, o.dec)
      <4>1. c = "out"
        BY <2>1, <2>6, Zenon DEF ReadsIn
      <4> QED BY <1>2, <2>6, <4>1, Zenon DEF do_next
    <3>2. k = FALSE /\ t.conn = "up"
      BY <2>6, ConnWhere, Zenon DEF PlainStages
    <3> HIDE DEF n, u
    <3>3. GoodStep(FALSE, t, do_ssr_receipt_for_feedback(u, o.dec))
      BY <2>2, <2>3, <3>2, FeedbackGood, Zenon
    <3> QED BY <3>1, <3>2, <3>3, Zenon DEF n, s
  <2> QED BY <1>5, <2>1, <2>4, <2>5, <2>6, Zenon DEF ReadsIn
<1> QED BY <1>3, <1>4, <1>5, Zenon

(* A write that went out. *)
LEMMA WriteZeroGood ==
    ASSUME NEW k \in BOOLEAN, cf.over_tls = k, NEW t, TunnelInv(k, t), Alive(t),
           NEW c \in Sides, t.wreq[c], NEW o
    PROVE  GoodStep(k, t, do_next(socket_write_done_cb(t, c, "zero"), c, "zero", o))
<1> DEFINE s == socket_write_done_cb(t, c, "zero")
           n == do_next(s, c, "zero", o)
           e == o.dec = "data"
<1>1. IsTunnel(s) /\ WriteEnded(t, c, s)
  BY WriteDoneEffect, Zenon
<1> HIDE DEF s
<1>2. s.stage = t.stage
  BY <1>1, Zenon DEF WriteEnded, Linked
<1>3. CASE t.stage = "streaming"
  <2>1. k = FALSE /\ Streaming(t)
    BY <1>3, ConnWhere, Zenon DEF PlainStages, Streaming
  <2>2. n = tunnel_traditional_streaming(s, c, e)
    BY <1>2, <1>3, Zenon DEF do_next
  <2> HIDE DEF e, n
  <2>3. GoodStep(FALSE, t, tunnel_traditional_streaming(s, c, e))
    BY <1>1, <2>1, WrittenGood, Zenon
  <2> QED BY <2>1, <2>2, <2>3, Zenon DEF n, s
<1>4. CASE t.stage # "streaming"
  <2> DEFINE u == written(s, c, c)
  <2>1. (t.stage \in WritesIn /\ c = "in") \/ (t.stage \in WritesOut /\ c = "out")
    BY <1>4, WritesWhere, Zenon
  <2>2. t.stage \notin {"streaming", "tls_streaming"}
    BY <2>1, Zenon DEF WritesIn, WritesOut
  <2>3. Settled(k, u) /\ Linked(t, u) /\ Fresh(t)
    BY <1>1, <2>2, WriteSettles, Zenon
  <2>4. u.stage = t.stage /\ u.conn = t.conn
    BY <2>3, Zenon DEF Linked
  <2>5. CASE t.stage = "handshake_replied"
    <3>1. n = do_wait_s5_request(u)
      BY <1>2, <2>1, <2>5, Zenon DEF do_next, WritesOut
    <3>2. t.conn = "none"
      BY <2>5, ConnWhere, Zenon
    <3> HIDE DEF n, u
    <3>3. GoodStep(k, t, do_wait_s5_request(u))
      BY <2>3, <2>4, <2>5, <3>2, WaitRequestGood, Zenon
    <3> QED BY <3>1, <3>3, Zenon DEF n, s
  <2>6. CASE t.stage = "s5_udp_accoc"
    <3>1. n = tunnel_shutdown(u)
      BY <1>2, <2>1, <2>6, Zenon DEF do_next, WritesOut
    <3> HIDE DEF n, u
    <3>2. GoodStep(k, t, tunnel_shutdown(u))
      BY <2>3, SettledShutdown, Zenon
    <3> QED BY <3>1, <3>2, Zenon DEF n, s
  <2>7. CASE t.stage = "auth_complition_done"
    <3>1. n = IF k THEN tunnel_tls_do_launch_streaming(u) ELSE do_launch_streaming(u)
      BY <1>2, <2>1, <2>7, Zenon DEF do_next, WritesOut
    <3>2. t.conn = IF k THEN "none" ELSE "up"
      BY <2>7, ConnWhere, Zenon
    <3> HIDE DEF n, u
    <3>3. CASE k = TRUE
      <4>1. GoodStep(TRUE, t, tunnel_tls_do_launch_streaming(u))
        BY <2>3, <2>4, <2>7, <3>2, <3>3, TlsLaunchGood, Zenon
      <4> QED BY <3>1, <3>3, <4>1, Zenon DEF n, s
    <3>4. CASE k = FALSE
      <4>1. GoodStep(FALSE, t, do_launch_streaming(u))
        BY <2>3, <2>4, <3>2, <3>4, LaunchGood, Zenon
      <4> QED BY <3>1, <3>4, <4>1, Zenon DEF n, s
    <3> QED BY <3>3, <3>4, Zenon
  <2>8. CASE t.stage = "kill"
    <3>1. n = tunnel_shutdown(s)
      BY <1>2, <2>8, Zenon DEF do_next
    <3>2. Working(k, s) /\ SameCounts(t, s)
      <4>1. Working(k, t) /\ IsTunnel(t) /\ Fixed(t, s) /\ Linked(t, s)
            /\ \A d \in Sides : t.rd[d] \in {"stop", "busy"} /\ t.wr[d] \in {"stop", "busy"}
        BY <1>1, LiveFacts, Zenon DEF WriteEnded
      <4>2. t.wr \in [Sides -> SockStates]
        BY <4>1, Zenon DEF IsTunnel
      <4>3. \A d \in Sides : s.rd[d] # "dead" /\ s.wr[d] # "dead"
        BY <1>1, <4>1, <4>2, Zenon DEF WriteEnded
      <4>4. Working(k, s)
        BY <1>1, <4>1, <4>3, WorkingKept, Zenon
      <4> QED BY <4>1, <4>4, Zenon DEF Fixed, SameCounts
    <3> HIDE DEF n
    <3>3. GoodStep(k, t, tunnel_shutdown(s))
      BY <3>2, ShutdownGood, Zenon
    <3> QED BY <3>1, <3>3, Zenon DEF n, s
  <2>9. CASE t.stage \in WritesOut
    <3>1. c = "out" /\ k = FALSE /\ t.conn = "up"
      BY <2>1, <2>9, ConnWhere, Zenon DEF WritesIn, WritesOut, PlainStages
    <3>2. CASE t.stage = "ssr_auth_sent"
      <4>1. n = do_ssr_auth_sent(u)
        BY <1>2, <3>1, <3>2, Zenon DEF do_next
      <4> HIDE DEF n, u
      <4>2. GoodStep(FALSE, t, do_ssr_auth_sent(u))
        BY <2>3, <2>4, <3>1, AuthSentGood, Zenon
      <4> QED BY <3>1, <4>1, <4>2, Zenon DEF n, s
    <3>3. CASE t.stage = "ssr_receipt_of_feedback_sent"
      <4>1. n = do_socks5_reply_success(u)
        BY <1>2, <3>1, <3>3, Zenon DEF do_next
      <4> HIDE DEF n, u
      <4>2. u.conn = (IF k THEN "none" ELSE "up") /\ u.tls # "connecting"
        <5>1. TlsInv(FALSE, u)
          BY <2>3, <3>1, Zenon DEF Settled, Working
        <5> QED BY <2>4, <3>1, <5>1, Zenon DEF TlsInv
      <4>3. GoodStep(k, t, do_socks5_reply_success(u))
        BY <2>3, <4>2, SuccessGood, Zenon
      <4> QED BY <4>1, <4>3, Zenon DEF n, s
    <3> QED BY <2>9, <3>2, <3>3, Zenon DEF WritesOut
  <2> QED BY <2>1, <2>5, <2>6, <2>7, <2>8, <2>9, Zenon DEF WritesIn
<1> QED BY <1>3, <1>4, Zenon

(* A connection that came up. *)
LEMMA ConnectZeroGood ==
    ASSUME NEW k \in BOOLEAN, NEW t, TunnelInv(k, t), Alive(t), t.conn = "pending", NEW o
    PROVE  GoodStep(k, t, do_next(socket_connect_done_cb(t, "zero"), "out", "zero", o))
<1> DEFINE s == socket_connect_done_cb(t, "zero")
<1>1. /\ k = FALSE /\ Settled(FALSE, s) /\ s.conn = "up"
      /\ s.stage = "connecting_ssr_server" /\ Fresh(t)
  BY ConnectSettles, Zenon
<1> HIDE DEF s
<1>2. do_next(s, "out", "zero", o) = do_connect_ssr_server_done(s, "zero", o.dec)
  BY <1>1, Zenon DEF do_next
<1>3. GoodStep(FALSE, t, do_connect_ssr_server_done(s, "zero", o.dec))
  BY <1>1, ConnectedGood, Zenon
<1> QED BY <1>1, <1>2, <1>3, Zenon DEF s

(* A lookup that was answered. *)
LEMMA LookupZeroGood ==
    ASSUME NEW k \in BOOLEAN, NEW t, TunnelInv(k, t), Alive(t), t.gai, NEW ip \in Ips,
           NEW o, o.err \in BOOLEAN
    PROVE  GoodStep(k, t, do_next(socket_getaddrinfo_done_cb(t, "zero", ip), "out", "zero", o))
<1> DEFINE s == socket_getaddrinfo_done_cb(t, "zero", ip)
<1>1. /\ k = FALSE /\ Settled(FALSE, s) /\ s.conn = "none" /\ s.addr.ip \in Ips
      /\ s.stage = "resolve_ssr_server_host_done" /\ Fresh(t)
  <2>1. /\ k = FALSE /\ Settled(FALSE, s) /\ s.conn = "none" /\ s.stage = t.stage
        /\ t.stage = "resolve_ssr_server_host_done" /\ s.addr.ip = ip /\ Fresh(t)
    BY LookupSettles, Zenon
  <2> HIDE DEF s
  <2> QED BY <2>1, Zenon
<1> HIDE DEF s
<1>2. do_next(s, "out", "zero", o) = do_resolve_ssr_server_host_aftercare(s, "zero", o.err)
  BY <1>1, Zenon DEF do_next
<1>3. GoodStep(FALSE, t, do_resolve_ssr_server_host_aftercare(s, "zero", o.err))
  BY <1>1, ResolvedGood, Zenon
<1> QED BY <1>1, <1>2, <1>3, Zenon DEF s

(* What a failed operation leaves behind before tunnel_shutdown. *)
Ceased(t, s) ==
    /\ IsTunnel(s) /\ SameHandles(t, s) /\ SameCounts(t, s) /\ s.failed = t.failed
    /\ s.rd = t.rd /\ s.wr = t.wr /\ s.stage = t.stage /\ s.tls = t.tls
    /\ s.conn = t.conn \/ s.conn = "none"

LEMMA CeasedGood ==
    ASSUME NEW k \in BOOLEAN, NEW t, TunnelInv(k, t), Alive(t), NEW s, Ceased(t, s)
    PROVE  GoodStep(k, t, tunnel_shutdown(s))
<1>1. /\ Working(k, t) /\ TlsInv(k, t) /\ t.failed \subseteq Tolerated(k, t)
      /\ t.conn # "none" => t.addr \in ServerAddress
      /\ \A c \in Sides : t.rd[c] # "dead" /\ t.wr[c] # "dead"
      /\ t.ref_count = 0 /\ t.closing = {} /\ ~t.freed
  BY LiveFacts, Zenon DEF Working
<1>2. Alive(s)
  BY Zenon DEF Ceased, SameHandles, Alive
<1>3. s.failed \subseteq Tolerated(k, s)
  <2>1. Tolerated(k, s) = Tolerated(k, t)
    BY <1>2, Zenon DEF Tolerated
  <2> QED BY <1>1, <2>1, Zenon DEF Ceased
<1>4. TlsInv(k, s)
  BY <1>1, Zenon DEF TlsInv, Ceased
<1>5. s.conn # "none" => s.addr \in ServerAddress
  BY <1>1, Zenon DEF Ceased, SameHandles
<1>6. Working(k, s)
  BY <1>1, <1>2, <1>3, <1>4, <1>5, Zenon DEF Working, Ceased, SameHandles
<1> QED BY <1>6, ShutdownGood, Zenon DEF Ceased

(* A failed callback, or the timer, shuts a live tunnel down. *)
LEMMA FailedGood ==
    ASSUME NEW k \in BOOLEAN, NEW t, TunnelInv(k, t), Alive(t), NEW c \in Sides, NEW ip
    PROVE  /\ GoodStep(k, t, socket_read_done_cb(t, c, "neg"))
           /\ GoodStep(k, t, socket_write_done_cb(t, c, "neg"))
           /\ GoodStep(k, t, socket_connect_done_cb(t, "neg"))
           /\ GoodStep(k, t, socket_getaddrinfo_done_cb(t, "neg", ip))
           /\ GoodStep(k, t, socket_timer_expire_cb(t, c))
<1> DEFINE r == [t EXCEPT !.reading[c] = FALSE, !.timer[c] = FALSE]
           w == [[t EXCEPT !.wreq[c] = FALSE] EXCEPT !.timer[c] = FALSE]
           n == [[t EXCEPT !.conn = "none"] EXCEPT !.timer["out"] = FALSE]
           g == [[t EXCEPT !.gai = FALSE] EXCEPT !.timer["out"] = FALSE]
           x == [t EXCEPT !.timer[c] = FALSE]
<1>1. IsTunnel(t) /\ ~t.terminated
  BY Zenon DEF TunnelInv, Alive
<1>2. /\ socket_read_done_cb(t, c, "neg") = tunnel_shutdown(r)
      /\ socket_write_done_cb(t, c, "neg") = tunnel_shutdown(w)
  BY <1>1, Zenon DEF socket_read_done_cb, socket_write_done_cb, socket_timer_stop, tunnel_is_dead
<1>3. /\ socket_connect_done_cb(t, "neg") = tunnel_shutdown(n)
      /\ socket_getaddrinfo_done_cb(t, "neg", ip) = tunnel_shutdown(g)
      /\ socket_timer_expire_cb(t, c) = tunnel_shutdown(x)
  BY <1>1, Zenon DEF socket_connect_done_cb, socket_getaddrinfo_done_cb,
              socket_timer_expire_cb, socket_timer_stop, tunnel_is_dead
<1>4. IsTunnel(t) /\ "out" \in Sides
  BY <1>1, Zenon DEF Sides
<1>5. Ceased(t, r)
  BY ONLY <1>4, c \in Sides, Zenon DEF Ceased, IsTunnel, SameHandles, SameCounts
<1>6. Ceased(t, w)
  BY ONLY <1>4, c \in Sides, Zenon DEF Ceased, IsTunnel, SameHandles, SameCounts
<1>7. Ceased(t, n)
  BY ONLY <1>4, Zenon DEF Ceased, IsTunnel, SameHandles, SameCounts, Connections
<1>8. Ceased(t, g)
  BY ONLY <1>4, Zenon DEF Ceased, IsTunnel, SameHandles, SameCounts
<1>9. Ceased(t, x)
  BY ONLY <1>4, c \in Sides, Zenon DEF Ceased, IsTunnel, SameHandles, SameCounts
<1> HIDE DEF r, w, n, g, x
<1>10. /\ GoodStep(k, t, tunnel_shutdown(r)) /\ GoodStep(k, t, tunnel_shutdown(w))
       /\ GoodStep(k, t, tunnel_shutdown(n)) /\ GoodStep(k, t, tunnel_shutdown(g))
       /\ GoodStep(k, t, tunnel_shutdown(x))
  BY <1>5, <1>6, <1>7, <1>8, <1>9, CeasedGood, Zenon
<1> QED BY <1>2, <1>3, <1>10, Zenon

-----------------------------------------------------------------------------
(* The callbacks of a tunnel that was shut down. *)

Gone(k, t) == TunnelInv(k, t) /\ t.terminated /\ DeadInv(t)

LEMMA GoneBorn ==
    ASSUME NEW k, NEW t, Gone(k, t)
    PROVE  t.stage # "unborn"
<1>1. t.stage = "unborn" => t = Unborn
  BY Zenon DEF Gone, TunnelInv
<1>2. ~Unborn.terminated
  BY Zenon DEF Unborn, NewTunnel
<1> QED BY <1>1, <1>2, Zenon DEF Gone

(* A step of a dead tunnel that keeps what DeadInv is about. *)
LEMMA DeadKept ==
    ASSUME NEW k \in BOOLEAN, NEW t, Gone(k, t), NEW u, IsTunnel(u),
           u.stage # "unborn", u.terminated, SameCounts(t, u),
           u.failed \subseteq Tolerated(k, t), TlsInv(k, u),
           u.conn # "none" => u.addr \in ServerAddress,
           DeadInv(u) \/ (k /\ u.failed \cap Fatal # {})
    PROVE  GoodStep(k, t, u)
<1>1. ~Alive(t) /\ ~Alive(u)
  BY Zenon DEF Gone, Alive
<1>2. Tolerated(k, u) = Tolerated(k, t)
  BY <1>1, Zenon DEF Tolerated
<1>3. TunnelInv(k, u)
  BY <1>1, <1>2, Zenon DEF TunnelInv
<1>4. RelayStep(t, u)
  BY <1>1, Zenon DEF RelayStep, RelayPhase, Gone
<1> QED BY <1>1, <1>3, <1>4, Zenon DEF GoodStep

(* Nothing is read and no timer runs; late answers change only their mark. *)
LEMMA DeadCallbacks ==
    ASSUME NEW k \in BOOLEAN, NEW t, Gone(k, t), NEW c \in Sides, NEW s \in {"neg", "zero"}, NEW ip
    PROVE  /\ ~t.reading[c] /\ ~t.timer[c]
           /\ GoodStep(k, t, socket_write_done_cb(t, c, s))
           /\ t.conn # "none" => GoodStep(k, t, socket_connect_done_cb(t, s))
           /\ GoodStep(k, t, socket_getaddrinfo_done_cb(t, s, ip))
<1> DEFINE x == IF s = "neg" THEN "none" ELSE "up"
           w == [t EXCEPT !.wreq[c] = FALSE]
           n == [t EXCEPT !.conn = x]
           g == [t EXCEPT !.gai = FALSE]
<1>1. /\ IsTunnel(t) /\ t.terminated /\ DeadInv(t) /\ TlsInv(k, t)
      /\ t.failed \subseteq Tolerated(k, t)
      /\ t.conn # "none" => t.addr \in ServerAddress
  BY Zenon DEF Gone, TunnelInv
<1>2. ~t.reading[c] /\ ~t.timer[c]
  BY <1>1, Zenon DEF DeadInv, Both
<1>3. /\ socket_write_done_cb(t, c, s) = w
      /\ socket_connect_done_cb(t, s) = n
      /\ socket_getaddrinfo_done_cb(t, s, ip) = g
  BY <1>1, Zenon DEF socket_write_done_cb, socket_connect_done_cb, socket_getaddrinfo_done_cb,
              tunnel_is_dead
<1>4. x \in Connections
  BY Zenon DEF Connections
<1> HIDE DEF x
<1>5. IsTunnel(t)
  BY <1>1, Zenon
<1> DEFINE Kept(u) == /\ IsTunnel(u) /\ u.stage = t.stage /\ u.tls = t.tls /\ u.addr = t.addr
                      /\ u.terminated = t.terminated /\ SameCounts(t, u)
                      /\ u.failed = t.failed /\ u.rd = t.rd /\ u.wr = t.wr
                      /\ u.reading = t.reading /\ u.timer = t.timer
                      /\ u.ref_count = t.ref_count /\ u.closing = t.closing
<1>6. Kept(w) /\ w.conn = t.conn
  BY ONLY <1>5, c \in Sides, Zenon DEF IsTunnel, SameCounts
<1>7. Kept(n)
  BY ONLY <1>4, <1>5, Zenon DEF IsTunnel, SameCounts
<1>8. Kept(g) /\ g.conn = t.conn
  BY ONLY <1>5, Zenon DEF IsTunnel, SameCounts
<1> HIDE DEF w, n, g
<1>9. ASSUME NEW u, Kept(u), u.conn # "none" => t.addr \in ServerAddress
      PROVE  GoodStep(k, t, u)
  <2>1. DeadInv(u) /\ TlsInv(k, u)
    BY <1>1, <1>9, Zenon DEF DeadInv, TlsInv
  <2>2. u.failed \subseteq Tolerated(k, t) /\ (u.conn # "none" => u.addr \in ServerAddress)
    BY <1>1, <1>9, Zenon
  <2>3. IsTunnel(u) /\ u.stage # "unborn" /\ u.terminated /\ SameCounts(t, u)
    BY <1>1, <1>9, GoneBorn, Zenon
  <2> QED BY <2>1, <2>2, <2>3, DeadKept, Zenon
<1> HIDE DEF Kept
<1>10. /\ GoodStep(k, t, w) /\ GoodStep(k, t, g)
       /\ t.conn # "none" => GoodStep(k, t, n)
  BY <1>1, <1>6, <1>7, <1>8, <1>9, Zenon
<1> QED BY <1>2, <1>3, <1>10, Zenon

(* A close callback drops one handle and one reference. *)
LEMMA CloseGood ==
    ASSUME NEW k \in BOOLEAN, NEW t, Gone(k, t), NEW h \in t.closing
    PROVE  GoodStep(k, t, socket_close_done_cb(t, h))
<1> DEFINE u == [[t EXCEPT !.closing = @ \ {h}]
                    EXCEPT !.ref_count = @ - 1, !.freed = (t.ref_count = 1)]
<1>1. /\ IsTunnel(t) /\ t.terminated /\ DeadInv(t) /\ TlsInv(k, t)
      /\ t.failed \subseteq Tolerated(k, t)
      /\ t.conn # "none" => t.addr \in ServerAddress
  BY Zenon DEF Gone, TunnelInv
<1>2. /\ t.closing \subseteq Handles /\ t.ref_count = HandleCount(t.closing)
      /\ HandleCount(t.closing) \in Nat /\ HandleCount(t.closing \ {h}) \in Nat
      /\ HandleCount(t.closing \ {h}) = HandleCount(t.closing) - 1
  <2>1. t.closing \subseteq Handles /\ t.ref_count = HandleCount(t.closing)
    BY <1>1, Zenon DEF IsTunnel, DeadInv
  <2>2. t.closing \in SUBSET Handles /\ t.closing \ {h} \in SUBSET Handles
    BY <2>1, Zenon
  <2> QED BY <2>1, <2>2, HandleCounts, Zenon
<1>3. t.ref_count - 1 \in Nat /\ t.closing \ {h} \subseteq Handles /\ (t.ref_count = 1) \in BOOLEAN
  BY <1>2, Zenon
<1>4. socket_close_done_cb(t, h) = u
  BY <1>1, Zenon DEF socket_close_done_cb, tunnel_release, IsTunnel
<1>5. /\ IsTunnel(u) /\ u.stage = t.stage /\ u.tls = t.tls /\ u.addr = t.addr
      /\ u.conn = t.conn /\ u.terminated = t.terminated /\ SameCounts(t, u)
      /\ u.failed = t.failed /\ u.rd = t.rd /\ u.wr = t.wr
      /\ u.reading = t.reading /\ u.timer = t.timer
      /\ u.ref_count = t.ref_count - 1 /\ u.closing = t.closing \ {h}
  <2>1. IsTunnel(t)
    BY <1>1, Zenon
  <2> QED BY ONLY <1>3, <2>1, Zenon DEF IsTunnel, SameCounts
<1> HIDE DEF u
<1>6. DeadInv(u) /\ TlsInv(k, u)
  <2>1. u.ref_count = HandleCount(u.closing)
    BY <1>2, <1>5, Zenon
  <2> QED BY <1>1, <1>5, <2>1, Zenon DEF DeadInv, TlsInv
<1>7. u.failed \subseteq Tolerated(k, t) /\ (u.conn # "none" => u.addr \in ServerAddress)
  BY <1>1, <1>5, Zenon
<1>8. u.stage # "unborn" /\ u.terminated
  BY <1>1, <1>5, GoneBorn, Zenon
<1> QED BY <1>4, <1>5, <1>6, <1>7, <1>8, DeadKept, Zenon

-----------------------------------------------------------------------------
(* The uv-mbed callbacks, which exist only over TLS. *)

(* A live tunnel whose TLS connection alone changes. *)
LEMMA TlsLiveGood ==
    ASSUME NEW t, TunnelInv(TRUE, t), Alive(t), NEW u, TlsOnly(t, u),
           u.tls = t.tls \/ u.tls \in {"closing", "closed"}
    PROVE  GoodStep(TRUE, t, u)
<1>1. /\ LiveInv(TRUE, t) /\ TlsInv(TRUE, t) /\ t.failed \subseteq Tolerated(TRUE, t)
  BY LiveFacts, Zenon DEF TunnelInv
<1>2. SameHandles(t, u) /\ SameStage(t, u) /\ u.failed \subseteq Tolerated(TRUE, t) /\ IsTunnel(u)
  BY <1>1, Zenon DEF TlsOnly, SameHandles, Fixed
<1>3. TlsInv(TRUE, u)
  BY <1>1, <1>2, Zenon DEF TlsInv, SameStage
<1>4. Busy(u)
  BY <1>1, Zenon DEF LiveInv, Busy, TlsOnly
<1>5. StageShape(u)
  <2>1. StageShape(t)
    BY <1>1, Zenon DEF LiveInv
  <2> QED BY <2>1, Zenon DEF StageShape, Shape, Direction, TlsOnly, SameStage, Fixed
<1>6. TunnelInv(TRUE, u) /\ Alive(u) /\ u.stage # "unborn"
  BY <1>2, <1>3, <1>4, <1>5, StaysLive, Zenon
<1> QED BY <1>6, Zenon DEF GoodStep

(* The TLS stages that wait for uv-mbed find the tunnel settled. *)
LEMMA TlsIdle ==
    ASSUME NEW t, TunnelInv(TRUE, t), Alive(t),
           t.stage \in {"tls_connecting", "tls_first_package"}
    PROVE  Settled(TRUE, t) /\ Fresh(t) /\ t.conn = "none" /\ ~t.gai
<1>1. t.stage \in WaitsIdle /\ t.stage \in TlsStages /\ t.stage # "resolve_ssr_server_host_done"
  BY Zenon DEF WaitsIdle, TlsStages
<1>2. /\ Fresh(t) /\ Working(TRUE, t) /\ IsTunnel(t)
      /\ \A c \in Sides : /\ t.rd[c] = "stop" /\ t.wr[c] = "stop"
                          /\ ~t.wreq[c] /\ ~t.reading[c]
  BY <1>1, IdleFacts, Zenon
<1>3. t.conn = "none"
  BY <1>1, ConnWhere, Zenon
<1>4. ~t.gai
  BY <1>1, LiveFacts, Zenon DEF LiveInv, ServerLink
<1>5. t.conn # "pending"
  BY <1>3, Zenon
<1> QED BY <1>2, <1>3, <1>4, <1>5, Zenon DEF Settled, Idle

(* The TLS handshake is over: the first package is sent, or the connection   *)
(* closed.                                                                   *)
LEMMA EstablishedGood ==
    ASSUME NEW t, TunnelInv(TRUE, t), Alive(t), t.tls = "connecting", NEW dec
    PROVE  GoodStep(TRUE, t, tunnel_tls_on_connection_established([t EXCEPT !.tls = "up"], dec))
<1> DEFINE s == [t EXCEPT !.tls = "up"]
           p == AllStop(s)
           a == Check(s, "stage.all_stop", p)
           d == tls_client_shutdown(a)
           u == MovedTo(a, "tls_first_package")
<1>1. /\ t.stage = "tls_connecting" /\ Settled(TRUE, t) /\ Fresh(t) /\ t.conn = "none" /\ ~t.gai
      /\ IsTunnel(t)
  <2>1. t.stage = "tls_connecting"
    BY ConnWhere, Zenon
  <2>2. t.stage \in {"tls_connecting", "tls_first_package"}
    BY <2>1, Zenon
  <2> QED BY <2>1, <2>2, TlsIdle, Zenon DEF TunnelInv
<1>2. tunnel_tls_on_connection_established(s, dec) = IF dec = "error" THEN d ELSE u
  BY Zenon DEF tunnel_tls_on_connection_established, Stop, MovedTo
<1>3. TlsOnly(t, s) /\ s.tls = "up"
  <2>1. IsTunnel(t)
    BY <1>1, Zenon
  <2> QED BY ONLY <2>1, Zenon DEF IsTunnel, TlsOnly, Fixed, SameStage, TlsStates
<1> HIDE DEF s
<1>4. p = TRUE
  BY <1>1, <1>3, Zenon DEF AllStop, TlsOnly, Settled, Idle
<1> HIDE DEF p
<1>5. IsTunnel(a) /\ AsBefore(s, a)
  BY <1>3, <1>4, CheckHolds, Zenon DEF TlsOnly
<1> HIDE DEF a
<1>6. TlsOnly(t, a) /\ a.tls = "up"
  <2>1. Fixed(t, s) /\ SameStage(t, s) /\ Fixed(s, a) /\ Linked(s, a)
    BY <1>3, <1>5, Zenon DEF TlsOnly, AsBefore
  <2>2. Fixed(t, a) /\ SameStage(t, a) /\ a.tls = "up"
    BY <1>3, <2>1, Zenon DEF Fixed, SameStage, Linked
  <2> QED BY <1>3, <1>5, <2>2, Zenon DEF TlsOnly, AsBefore
<1>7. CASE dec = "error"
  <2>1. TlsOnly(a, d) /\ d.tls = "closing"
    <3>1. TlsOnly(a, d)
      BY <1>5, TlsShutdownEffect, Zenon
    <3>2. IsTunnel(a) /\ a.tls = "up"
      BY <1>5, <1>6, Zenon
    <3>3. d.tls = "closing"
      BY ONLY <3>2, Zenon DEF tls_client_shutdown, IsTunnel
    <3> QED BY <3>1, <3>3, Zenon
  <2> HIDE DEF d
  <2>2. TlsOnly(t, d)
    BY <1>6, <2>1, Zenon DEF TlsOnly, Fixed, SameStage
  <2>3. GoodStep(TRUE, t, d)
    BY <2>1, <2>2, TlsLiveGood, Zenon
  <2> QED BY <1>2, <1>7, <2>3, Zenon DEF s
<1>8. CASE dec # "error"
  <2>1. IsTunnel(u) /\ OnlyStage(a, "tls_first_package", u)
    BY <1>5, StageMoved, Zenon DEF Stages
  <2> HIDE DEF u
  <2>2. /\ Fixed(t, u) /\ u.rd = t.rd /\ u.wr = t.wr /\ u.wreq = t.wreq
        /\ u.reading = t.reading /\ u.stage = "tls_first_package" /\ u.tls = "up"
        /\ u.conn = "none" /\ ~u.gai
    <3>1. Fixed(t, a) /\ SameStage(t, a) /\ Fixed(a, u)
      BY <1>6, <2>1, Zenon DEF TlsOnly, OnlyStage
    <3>2. Fixed(t, u)
      BY <3>1, Zenon DEF Fixed
    <3> QED BY <1>1, <1>6, <2>1, <3>1, <3>2, Zenon DEF TlsOnly, OnlyStage, SameStage
  <2>3. ServerLink(TRUE, u) /\ u.stage \in WaitsIdle
    BY <2>2, Zenon DEF ServerLink, WaitsIdle, WritesOut
  <2>4. TlsInv(TRUE, u)
    BY <2>2, Zenon DEF TlsInv, PlainStages, WritesOut
  <2>5. u.conn # "none" => u.addr \in ServerAddress
    BY <2>2, Zenon
  <2>6. GoodStep(TRUE, t, u)
    BY <1>1, <2>1, <2>2, <2>3, <2>4, <2>5, IdleArrives, Zenon
  <2> QED BY <1>2, <1>8, <2>6, Zenon DEF s
<1> QED BY <1>7, <1>8, Zenon

(* Data of the server: the first package is answered, later data is noted. *)
LEMMA TlsDataGood ==
    ASSUME NEW t, TunnelInv(TRUE, t), Alive(t), t.tls = "up", NEW dec
    PROVE  GoodStep(TRUE, t, tunnel_tls_on_data_received(t, dec))
<1> DEFINE x == Check(t, "tls_data.unreachable", FALSE)
           d == tls_client_shutdown(t)
<1>1. tunnel_tls_on_data_received(t, dec) =
         IF t.stage # "tls_first_package" THEN x
         ELSE IF dec = "error" THEN d ELSE do_socks5_reply_success(t)
  BY Zenon DEF tunnel_tls_on_data_received
<1>2. IsTunnel(t) /\ LiveInv(TRUE, t) /\ TlsInv(TRUE, t) /\ t.failed \subseteq Tolerated(TRUE, t)
  BY LiveFacts, Zenon DEF TunnelInv
<1>3. GoodStep(TRUE, t, d)
  <2>1. TlsOnly(t, d) /\ (d.tls = t.tls \/ d.tls = "closing")
    BY <1>2, TlsShutdownEffect, Zenon
  <2> HIDE DEF d
  <2>2. d.tls = t.tls \/ d.tls \in {"closing", "closed"}
    BY <2>1, Zenon
  <2> QED BY <2>1, <2>2, TlsLiveGood, Zenon
<1>4. t.stage = "tls_first_package" => GoodStep(TRUE, t, do_socks5_reply_success(t))
  <2>1. SUFFICES ASSUME t.stage = "tls_first_package"
                 PROVE  GoodStep(TRUE, t, do_socks5_reply_success(t))
    BY Zenon
  <2>2. t.stage \in {"tls_connecting", "tls_first_package"}
    BY <2>1, Zenon
  <2>3. Settled(TRUE, t) /\ Fresh(t) /\ t.conn = "none"
    BY <2>2, TlsIdle, Zenon
  <2>4. t.conn = (IF TRUE THEN "none" ELSE "up") /\ t.tls # "connecting"
    BY <2>3, Zenon
  <2> QED BY <2>3, <2>4, SuccessGood, Zenon
<1>5. GoodStep(TRUE, t, x)
  <2>1. /\ IsTunnel(x) /\ x.failed = t.failed \cup {"tls_data.unreachable"}
        /\ SameHandles(t, x) /\ Linked(t, x) /\ x.taken = t.taken /\ x.delivered = t.delivered
        /\ x.rd = t.rd /\ x.wr = t.wr /\ x.wreq = t.wreq /\ x.reading = t.reading
    BY ONLY <1>2, Zenon DEF IsTunnel, Check, ASSERT, ClientAsserts, SameHandles, Linked
  <2> HIDE DEF x
  <2>2. x.failed \subseteq Tolerated(TRUE, t)
    BY <1>2, <2>1, Zenon DEF Tolerated
  <2>3. SameStage(t, x) /\ TlsInv(TRUE, x)
    BY <1>2, <2>1, Zenon DEF Linked, SameStage, TlsInv
  <2>4. Busy(x)
    BY <1>2, <2>1, Zenon DEF LiveInv, Busy
  <2>5. StageShape(x)
    <3>1. StageShape(t)
      BY <1>2, Zenon DEF LiveInv
    <3> QED BY <2>1, <3>1, Zenon DEF StageShape, Shape, Direction, Linked
  <2>6. TunnelInv(TRUE, x) /\ Alive(x) /\ x.stage # "unborn"
    BY <2>1, <2>2, <2>3, <2>4, <2>5, StaysLive, Zenon
  <2> QED BY <2>6, Zenon DEF GoodStep
<1> HIDE DEF x, d
<1> QED BY <1>1, <1>3, <1>4, <1>5, Zenon

(* The TLS connection is closed: the tunnel is shut down with it. *)
LEMMA TlsClosedGood ==
    ASSUME NEW t, TunnelInv(TRUE, t), Alive(t), t.tls = "closing"
    PROVE  GoodStep(TRUE, t, [tunnel_shutdown(t) EXCEPT !.tls = "closed"])
<1> DEFINE s == tunnel_shutdown(t)
           u == [s EXCEPT !.tls = "closed"]
<1>1. Working(TRUE, t) /\ SameCounts(t, t)
  BY LiveFacts, Zenon DEF SameCounts
<1>2. TunnelInv(TRUE, s) /\ s.stage # "unborn" /\ (Alive(s) => Alive(t))
  BY <1>1, ShutdownGood, Zenon DEF GoodStep
<1>3. s.terminated /\ s.rd = Both("dead") /\ s.wr = Both("dead")
      /\ s.reading = Both(FALSE) /\ s.timer = Both(FALSE)
      /\ s.closing = Handles /\ s.ref_count = 4
  <2>1. /\ IsTunnel(t) /\ ~t.terminated /\ t.ref_count = 0
        /\ \A c \in Sides : t.rd[c] # "dead" /\ t.wr[c] # "dead"
    BY <1>1, Zenon DEF Working, Alive
  <2> QED BY <2>1, ShutdownEffect, Zenon
<1> HIDE DEF s
<1>4. Gone(TRUE, s)
  BY <1>2, <1>3, HandleCounts, Zenon DEF Gone, DeadInv
<1>5. TlsOnly(s, u) /\ u.tls = "closed" /\ u.timer = s.timer
  <2>1. IsTunnel(s)
    BY <1>2, Zenon DEF TunnelInv
  <2> QED BY ONLY <2>1, Zenon DEF IsTunnel, TlsOnly, Fixed, SameStage, TlsStates
<1> HIDE DEF u
<1>6. /\ IsTunnel(u) /\ u.stage # "unborn" /\ u.terminated /\ SameCounts(s, u)
      /\ u.failed \subseteq Tolerated(TRUE, s)
      /\ u.conn # "none" => u.addr \in ServerAddress
  BY <1>2, <1>3, <1>5, Zenon DEF TunnelInv, TlsOnly, Fixed, SameStage, SameCounts
<1>7. DeadInv(u)
  BY <1>4, <1>5, Zenon DEF Gone, DeadInv, TlsOnly, Fixed
<1>8. TlsInv(TRUE, u)
  <2>1. TlsInv(TRUE, s)
    BY <1>2, Zenon DEF TunnelInv
  <2> QED BY <1>5, <2>1, Zenon DEF TlsInv, TlsOnly, SameStage
<1>9. GoodStep(TRUE, s, u)
  BY <1>4, <1>6, <1>7, <1>8, DeadKept, Zenon
<1> QED BY <1>9, Zenon DEF GoodStep, u, s

(* A dead tunnel whose sockets and handles are left as they are. *)
LEMMA TlsDeadGood ==
    ASSUME NEW t, Gone(TRUE, t), NEW u, IsTunnel(u), SameHandles(t, u), SameCounts(t, u),
           u.conn = t.conn, u.stage # "unborn", TlsInv(TRUE, u),
           u.failed \subseteq Tolerated(TRUE, t),
           \/ u.failed \cap Fatal # {}
           \/ /\ u.rd = t.rd /\ u.wr = t.wr
              /\ u.reading = t.reading /\ u.timer = t.timer
    PROVE  GoodStep(TRUE, t, u)
<1>1. u.terminated /\ (u.conn # "none" => u.addr \in ServerAddress)
  BY Zenon DEF Gone, TunnelInv, SameHandles
<1>2. DeadInv(u) \/ u.failed \cap Fatal # {}
  BY Zenon DEF Gone, DeadInv, SameHandles
<1> QED BY <1>1, <1>2, DeadKept, Zenon

(* What a dead tunnel has failed is tolerated, whatever TLS adds to it. *)
LEMMA DeadTolerates ==
    ASSUME NEW t, Gone(TRUE, t), NEW e,
           e \subseteq Fatal \cup {"tls_data.unreachable", "stage.all_stop", "write.wrstate_stop"}
    PROVE  t.failed \cup e \subseteq Tolerated(TRUE, t)
<1>1. ~Alive(t) /\ t.failed \subseteq Tolerated(TRUE, t)
  BY Zenon DEF Gone, TunnelInv, Alive
<1>2. e \subseteq Tolerated(TRUE, t)
  BY <1>1, Zenon DEF Tolerated
<1> QED BY <1>1, <1>2, Zenon

(* The same callbacks once the tunnel was shut down but is not freed. *)
LEMMA TlsDeadCallbacks ==
    ASSUME NEW t, Gone(TRUE, t), NEW dec
    PROVE  /\ t.tls = "connecting" => GoodStep(TRUE, t,
                 tunnel_tls_on_connection_established([t EXCEPT !.tls = "up"], dec))
           /\ GoodStep(TRUE, t, tls_client_shutdown(t))
           /\ t.tls = "closing" =>
                 GoodStep(TRUE, t, [tunnel_shutdown(t) EXCEPT !.tls = "closed"])
<1>1. /\ IsTunnel(t) /\ t.terminated /\ TlsInv(TRUE, t) /\ t.stage # "unborn"
  BY GoneBorn, Zenon DEF Gone, TunnelInv
<1>2. t.failed \cup {} \subseteq Tolerated(TRUE, t)
  BY DeadTolerates, Zenon
<1>3. t.failed \cup {"stage.all_stop"} \subseteq Tolerated(TRUE, t)
  BY DeadTolerates, Zenon
<1>4. ASSUME NEW x \in {"closing", "closed", t.tls}
      PROVE  GoodStep(TRUE, t, [t EXCEPT !.tls = x])
  <2> DEFINE u == [t EXCEPT !.tls = x]
  <2>1. IsTunnel(t) /\ x \in TlsStates
    BY <1>1, Zenon DEF IsTunnel, TlsStates
  <2>2. /\ TlsOnly(t, u) /\ u.timer = t.timer /\ u.tls = x
    BY ONLY <2>1, Zenon DEF TlsOnly, IsTunnel, Fixed, SameStage
  <2> HIDE DEF u
  <2>3. /\ IsTunnel(u) /\ SameHandles(t, u) /\ SameCounts(t, u) /\ u.conn = t.conn
        /\ u.stage # "unborn" /\ u.failed = t.failed
        /\ u.rd = t.rd /\ u.wr = t.wr /\ u.reading = t.reading
    BY <1>1, <2>2, Zenon DEF TlsOnly, SameHandles, SameCounts, Fixed, SameStage
  <2>4. TlsInv(TRUE, u)
    <3>1. u.tls \in {"closing", "closed"} \/ u.tls = t.tls
      BY <2>2, Zenon
    <3>2. u.stage = t.stage
      BY <2>2, Zenon DEF TlsOnly, SameStage
    <3> QED BY <1>1, <3>1, <3>2, Zenon DEF TlsInv
  <2>5. u.failed \subseteq Tolerated(TRUE, t)
    BY <1>2, <2>3, Zenon
  <2>6. GoodStep(TRUE, t, u)
    BY <2>2, <2>3, <2>4, <2>5, TlsDeadGood, Zenon
  <2> QED BY <2>6, Zenon DEF u
<1>5. GoodStep(TRUE, t, tls_client_shutdown(t))
  <2> DEFINE x == IF t.tls \in {"connecting", "up"} THEN "closing" ELSE t.tls
  <2>1. tls_client_shutdown(t) = [t EXCEPT !.tls = x] /\ x \in {"closing", "closed", t.tls}
    BY Zenon DEF tls_client_shutdown
  <2> HIDE DEF x
  <2> QED BY <1>4, <2>1, Zenon
<1>6. GoodStep(TRUE, t, [tunnel_shutdown(t) EXCEPT !.tls = "closed"])
  <2>1. tunnel_shutdown(t) = t
    BY <1>1, Zenon DEF tunnel_shutdown, tunnel_is_dead
  <2>2. GoodStep(TRUE, t, [t EXCEPT !.tls = "closed"])
    BY <1>4, Zenon
  <2> QED BY <2>1, <2>2, Zenon
<1>7. ASSUME t.tls = "connecting"
      PROVE  GoodStep(TRUE, t,
                tunnel_tls_on_connection_established([t EXCEPT !.tls = "up"], dec))
  <2> DEFINE s == [t EXCEPT !.tls = "up"]
             p == AllStop(s)
             e == ASSERT("stage.all_stop", p)
             a == [s EXCEPT !.failed = @ \cup e]
             d == tls_client_shutdown(a)
             m == MovedTo(a, "tls_first_package")
  <2>1. tunnel_tls_on_connection_established(s, dec) = IF dec = "error" THEN d ELSE m
    BY Zenon DEF tunnel_tls_on_connection_established, Stop, MovedTo, Check
  <2>2. e \subseteq {"stage.all_stop"} /\ e \subseteq TunnelAsserts \cup ClientAsserts
    BY Zenon DEF ASSERT, ClientAsserts
  <2> HIDE DEF p, e
  <2>3. /\ IsTunnel(a) /\ SameHandles(t, a) /\ SameCounts(t, a) /\ SameStage(t, a)
        /\ a.rd = t.rd /\ a.wr = t.wr /\ a.reading = t.reading /\ a.timer = t.timer
        /\ a.tls = "up" /\ a.failed = t.failed \cup e
    <3>0. IsTunnel(t)
      BY <1>1, Zenon
    <3>1. TlsOnly(t, s) /\ s.tls = "up" /\ s.timer = t.timer
      BY ONLY <3>0, Zenon DEF IsTunnel, TlsOnly, Fixed, SameStage, TlsStates
    <3> HIDE DEF s
    <3>2. IsTunnel(s)
      BY <3>1, Zenon DEF TlsOnly
    <3>3. /\ IsTunnel(a) /\ SameHandles(s, a) /\ SameCounts(s, a) /\ Linked(s, a)
          /\ a.rd = s.rd /\ a.wr = s.wr /\ a.reading = s.reading /\ a.timer = s.timer
          /\ a.failed = s.failed \cup e
      BY ONLY <2>2, <3>2, Zenon DEF IsTunnel, SameHandles, SameCounts, Linked
    <3> HIDE DEF a
    <3>4. Fixed(t, s) /\ SameStage(t, s) /\ s.rd = t.rd /\ s.wr = t.wr /\ s.reading = t.reading
      BY <3>1, Zenon DEF TlsOnly
    <3> QED BY <3>1, <3>3, <3>4, Zenon
              DEF Fixed, SameHandles, SameCounts, SameStage, Linked
  <2> HIDE DEF a
  <2>4. a.failed \subseteq Tolerated(TRUE, t) /\ a.stage = "tls_connecting" /\ a.conn = t.conn
    <3>1. t.failed \cup e \subseteq t.failed \cup {"stage.all_stop"}
      BY <2>2, Zenon
    <3>2. t.stage = "tls_connecting"
      BY <1>1, <1>7, Zenon DEF TlsInv
    <3> QED BY <1>3, <2>3, <3>1, <3>2, Zenon DEF SameStage
  <2>5. GoodStep(TRUE, t, d)
    <3>1. IsTunnel(a) /\ a.tls = "up"
      BY <2>3, Zenon
    <3>2. TlsOnly(a, d) /\ d.timer = a.timer /\ d.tls = "closing"
      BY ONLY <3>1, Zenon DEF tls_client_shutdown, TlsOnly, IsTunnel, Fixed, SameStage, TlsStates
    <3> HIDE DEF d
    <3>3. /\ IsTunnel(d) /\ Fixed(a, d) /\ SameStage(a, d) /\ d.rd = a.rd /\ d.wr = a.wr
          /\ d.reading = a.reading
      BY <3>2, Zenon DEF TlsOnly
    <3>4. /\ SameHandles(t, d) /\ SameCounts(t, d) /\ d.conn = t.conn
          /\ d.failed \subseteq Tolerated(TRUE, t) /\ d.stage = "tls_connecting"
          /\ d.rd = t.rd /\ d.wr = t.wr /\ d.reading = t.reading /\ d.timer = t.timer
      BY <2>3, <2>4, <3>2, <3>3, Zenon DEF Fixed, SameHandles, SameCounts, SameStage
    <3>5. TlsInv(TRUE, d) /\ d.stage # "unborn"
      BY <3>2, <3>4, Zenon DEF TlsInv, PlainStages, WritesOut
    <3> QED BY <3>3, <3>4, <3>5, TlsDeadGood, Zenon
  <2>6. GoodStep(TRUE, t, m)
    <3>1. IsTunnel(a)
      BY <2>3, Zenon
    <3>2. /\ IsTunnel(m) /\ OnlyStage(a, "tls_first_package", m) /\ m.timer = a.timer
      BY ONLY <3>1, Zenon DEF MovedTo, OnlyStage, IsTunnel, Fixed, Stages
    <3> HIDE DEF m
    <3>3. /\ Fixed(a, m) /\ m.rd = a.rd /\ m.wr = a.wr /\ m.reading = a.reading
          /\ m.stage = "tls_first_package" /\ m.tls = "up" /\ m.conn = a.conn
      BY <2>3, <3>2, Zenon DEF OnlyStage
    <3>4. /\ SameHandles(t, m) /\ SameCounts(t, m) /\ m.conn = t.conn
          /\ m.failed \subseteq Tolerated(TRUE, t)
          /\ m.rd = t.rd /\ m.wr = t.wr /\ m.reading = t.reading /\ m.timer = t.timer
      BY <2>3, <2>4, <3>2, <3>3, Zenon DEF Fixed, SameHandles, SameCounts
    <3>5. TlsInv(TRUE, m) /\ m.stage # "unborn"
      BY <3>3, Zenon DEF TlsInv, PlainStages, WritesOut
    <3> QED BY <3>2, <3>4, <3>5, TlsDeadGood, Zenon
  <2> HIDE DEF d, m
  <2> QED BY <2>1, <2>5, <2>6, Zenon DEF s
<1> QED BY <1>5, <1>6, <1>7, Zenon

(* A failed assertion of a dead tunnel: only failed changes. *)
Noted(t, e) == [t EXCEPT !.failed = @ \cup e]

LEMMA NotedEffect ==
    ASSUME NEW t, IsTunnel(t), NEW e, e \subseteq TunnelAsserts \cup ClientAsserts
    PROVE  LET u == Noted(t, e)
           IN  /\ IsTunnel(u) /\ SameHandles(t, u) /\ SameCounts(t, u) /\ Linked(t, u)
               /\ u.rd = t.rd /\ u.wr = t.wr /\ u.reading = t.reading /\ u.timer = t.timer
               /\ u.failed = t.failed \cup e
  BY Zenon DEF Noted, IsTunnel, SameHandles, SameCounts, Linked

LEMMA TlsDeadNoted ==
    ASSUME NEW t, Gone(TRUE, t), NEW n \in {"tls_data.unreachable", "tls.tunnel_exists"}
    PROVE  GoodStep(TRUE, t, Check(t, n, FALSE))
<1> DEFINE u == Noted(t, {n})
<1>1. /\ IsTunnel(t) /\ TlsInv(TRUE, t) /\ t.stage # "unborn"
  BY GoneBorn, Zenon DEF Gone, TunnelInv
<1>2. Check(t, n, FALSE) = u
  BY Zenon DEF Check, ASSERT, Noted
<1>3. {n} \subseteq TunnelAsserts \cup ClientAsserts
  BY Zenon DEF ClientAsserts
<1>4. /\ IsTunnel(u) /\ SameHandles(t, u) /\ SameCounts(t, u) /\ Linked(t, u)
      /\ u.rd = t.rd /\ u.wr = t.wr /\ u.reading = t.reading /\ u.timer = t.timer
      /\ u.failed = t.failed \cup {n}
  BY <1>1, <1>3, NotedEffect, Zenon
<1> HIDE DEF u
<1>5. {n} \subseteq Fatal \cup {"tls_data.unreachable", "stage.all_stop", "write.wrstate_stop"}
  BY Zenon DEF Fatal
<1>6. u.failed \subseteq Tolerated(TRUE, t)
  BY <1>4, <1>5, DeadTolerates, Zenon
<1>7. u.stage # "unborn" /\ u.conn = t.conn /\ TlsInv(TRUE, u)
  BY <1>1, <1>4, Zenon DEF Linked, TlsInv
<1> QED BY <1>2, <1>4, <1>6, <1>7, TlsDeadGood, Zenon

(* The first package comes after the tunnel was shut down: uv_write fails. *)
LEMMA TlsDeadData ==
    ASSUME NEW t, Gone(TRUE, t), t.tls = "up", NEW dec
    PROVE  GoodStep(TRUE, t, tunnel_tls_on_data_received(t, dec))
<1> DEFINE p == AllStop(t)
           e == ASSERT("stage.all_stop", p)
           a == Noted(t, e)
           q == a.wr["in"] = "stop"
           f == ASSERT("write.wrstate_stop", q)
           z == StreamUsable(a, "in")
           g == ASSERT("write.uv_write", z)
           w == [a EXCEPT !.wr["in"] = "busy", !.wreq["in"] = TRUE, !.timer["in"] = TRUE,
                          !.failed = @ \cup f \cup g]
           u == MovedTo(w, "auth_complition_done")
<1>1. /\ IsTunnel(t) /\ TlsInv(TRUE, t) /\ t.stage # "unborn" /\ t.terminated
  BY GoneBorn, Zenon DEF Gone, TunnelInv
<1>2. tunnel_tls_on_data_received(t, dec) =
         IF t.stage # "tls_first_package" THEN Check(t, "tls_data.unreachable", FALSE)
         ELSE IF dec = "error" THEN tls_client_shutdown(t) ELSE do_socks5_reply_success(t)
  BY Zenon DEF tunnel_tls_on_data_received
<1>3. do_socks5_reply_success(t) = u
  BY Zenon DEF do_socks5_reply_success, Stop, Check, Noted, socket_write, MovedTo
<1>4. e \subseteq {"stage.all_stop"} /\ e \subseteq TunnelAsserts \cup ClientAsserts
  BY Zenon DEF ASSERT, ClientAsserts
<1> HIDE DEF p, e
<1>5. /\ IsTunnel(a) /\ SameHandles(t, a) /\ SameCounts(t, a) /\ Linked(t, a)
      /\ a.failed = t.failed \cup e
  BY <1>1, <1>4, NotedEffect, Zenon
<1> HIDE DEF a
<1>6. /\ f \subseteq {"write.wrstate_stop"} /\ g = {"write.uv_write"}
      /\ f \cup g \subseteq TunnelAsserts \cup ClientAsserts
  BY <1>1, <1>5, Zenon DEF ASSERT, TunnelAsserts, StreamUsable, SameHandles
<1> HIDE DEF q, f, z, g
<1>7. /\ IsTunnel(w) /\ SameHandles(a, w) /\ SameCounts(a, w) /\ Linked(a, w)
      /\ w.failed = a.failed \cup f \cup g
  <2>1. IsTunnel(a)
    BY <1>5, Zenon
  <2> QED BY ONLY <1>6, <2>1, Zenon
          DEF IsTunnel, SameHandles, SameCounts, Linked, Sides, SockStates
<1> HIDE DEF w
<1>8. IsTunnel(u) /\ OnlyStage(w, "auth_complition_done", u)
  BY <1>7, StageMoved, Zenon DEF Stages
<1> HIDE DEF u
<1>9. /\ SameHandles(t, u) /\ SameCounts(t, u) /\ u.conn = t.conn /\ u.tls = "up"
      /\ u.stage = "auth_complition_done"
  <2>1. Fixed(w, u) /\ u.conn = w.conn /\ u.tls = w.tls /\ u.stage = "auth_complition_done"
    BY <1>8, Zenon DEF OnlyStage
  <2>2. SameHandles(t, w) /\ SameCounts(t, w) /\ Linked(t, w)
    BY <1>5, <1>7, Zenon DEF SameHandles, SameCounts, Linked
  <2> QED BY <2>1, <2>2, Zenon DEF Fixed, SameHandles, SameCounts, Linked
<1>10. u.failed = t.failed \cup (e \cup f \cup g)
  <2>1. u.failed = w.failed
    BY <1>8, Zenon DEF OnlyStage, Fixed
  <2> QED BY <1>5, <1>7, <2>1, Zenon
<1>11. e \cup f \cup g \subseteq
          Fatal \cup {"tls_data.unreachable", "stage.all_stop", "write.wrstate_stop"}
  BY <1>4, <1>6, Zenon DEF Fatal
<1>12. u.failed \subseteq Tolerated(TRUE, t)
  BY <1>10, <1>11, DeadTolerates, Zenon
<1>13. u.failed \cap Fatal # {}
  BY <1>6, <1>10, Zenon DEF Fatal
<1>14. TlsInv(TRUE, u) /\ u.stage # "unborn"
  BY <1>9, Zenon DEF TlsInv, PlainStages, WritesOut
<1>15. GoodStep(TRUE, t, u)
  BY <1>8, <1>9, <1>12, <1>13, <1>14, TlsDeadGood, Zenon
<1>16. GoodStep(TRUE, t, Check(t, "tls_data.unreachable", FALSE))
  BY TlsDeadNoted, Zenon
<1>17. GoodStep(TRUE, t, tls_client_shutdown(t))
  BY TlsDeadCallbacks, Zenon
<1> QED BY <1>2, <1>3, <1>15, <1>16, <1>17, Zenon

-----------------------------------------------------------------------------
(* The actions of Next that belong to one tunnel. *)

(* One tunnel takes a good step; what leaves tunnel_set is dead. *)
StepsTo(i, u) ==
    /\ GoodStep(cf.over_tls, tun[i], u)
    /\ tun' = [tun EXCEPT ![i] = u]
    /\ tunnel_set' = tunnel_set \/ (tunnel_set' = tunnel_set \ {i} /\ ~Alive(u))
    /\ EnvUnchanged

Steps(i) == \E u : StepsTo(i, u)

LEMMA OnlySteps ==
    ASSUME NEW i, NEW u, OnlyTunnel(i, u), GoodStep(cf.over_tls, tun[i], u)
    PROVE  Steps(i)
<1>1. StepsTo(i, u)
  BY Zenon DEF OnlyTunnel, StepsTo
<1> QED BY <1>1, Zenon DEF Steps

(* A tunnel is unborn, alive, or dead with a process that goes on. *)
LEMMA Lives ==
    ASSUME ClientInv, ~Aborted, NEW i \in Tunnels
    PROVE  /\ cf.over_tls \in BOOLEAN /\ TunnelInv(cf.over_tls, tun[i])
           /\ tun[i] = Unborn \/ Alive(tun[i]) \/ Gone(cf.over_tls, tun[i])
<1>1. cf.over_tls \in BOOLEAN
  BY Zenon DEF ClientInv, TypeOK, AllConfigs
<1>2. TunnelInv(cf.over_tls, tun[i])
  BY Zenon DEF ClientInv
<1>3. tun[i].failed \cap Fatal = {}
  BY Zenon DEF Aborted
<1>4. (tun[i].stage = "unborn" => tun[i] = Unborn) /\ (tun[i].terminated => DeadInv(tun[i]))
  BY <1>2, <1>3, Zenon DEF TunnelInv
<1> QED BY <1>1, <1>2, <1>4, Zenon DEF Gone, Alive

(* Nothing can happen to a tunnel that does not exist but its connection. *)
LEMMA UnbornWaits ==
    /\ \A c \in Sides : ~Unborn.reading[c] /\ ~Unborn.wreq[c] /\ ~Unborn.timer[c]
    /\ Unborn.conn = "none" /\ ~Unborn.gai /\ Unborn.closing = {} /\ Unborn.tls = "none"
    /\ Unborn.stage = "unborn" /\ ~Unborn.terminated
    /\ Unborn.taken = Both(0) /\ Unborn.delivered = Both(0) /\ ~Unborn.freed
  BY Zenon DEF Unborn, NewTunnel, Both

LEMMA ReadDoneSteps ==
    ASSUME ClientInv, ~Aborted, NEW i \in Tunnels, NEW c \in Sides, ReadDone(i, c)
    PROVE  Steps(i)
<1> DEFINE t == tun[i]
           k == cf.over_tls
<1>1. k \in BOOLEAN /\ TunnelInv(k, t) /\ (t = Unborn \/ Alive(t) \/ Gone(k, t))
  BY Lives, Zenon
<1>2. t.reading[c]
  BY Zenon DEF ReadDone
<1>3. PICK n \in Results, o \in Inputs(t) :
         OnlyTunnel(i, IF Continues(t, n) /\ n = "pos"
                       THEN do_next(socket_read_done_cb(t, c, n), c, n, o)
                       ELSE socket_read_done_cb(t, c, n))
  BY Zenon DEF ReadDone
<1>4. Alive(t) /\ ~t.terminated
  <2>1. ~Gone(k, t)
    <3>1. "neg" \in {"neg", "zero"}
      BY Zenon
    <3> QED BY <1>1, <1>2, <3>1, DeadCallbacks, Zenon
  <2>2. t # Unborn
    BY <1>2, UnbornWaits, Zenon
  <2> QED BY <1>1, <2>1, <2>2, Zenon DEF Alive
<1> HIDE DEF t, k
<1>5. CASE n = "pos"
  <2>1. OnlyTunnel(i, do_next(socket_read_done_cb(t, c, "pos"), c, "pos", o))
    <3>1. Continues(t, n) /\ n = "pos"
      BY <1>4, <1>5, Zenon DEF Continues, tunnel_is_dead
    <3> QED BY <1>3, <1>5, <3>1, Zenon
  <2>2. GoodStep(k, t, do_next(socket_read_done_cb(t, c, "pos"), c, "pos", o))
    BY <1>1, <1>2, <1>3, <1>4, ReadPosGood, Zenon DEF k
  <2> QED BY <2>1, <2>2, OnlySteps, Zenon DEF t, k
<1>6. CASE n # "pos"
  <2>1. OnlyTunnel(i, socket_read_done_cb(t, c, n)) /\ (n = "neg" \/ n = "zero")
    BY <1>3, <1>6, Zenon DEF Results
  <2>2. GoodStep(k, t, socket_read_done_cb(t, c, "zero"))
    BY <1>1, <1>4, ReadNothingGood, Zenon
  <2>3. GoodStep(k, t, socket_read_done_cb(t, c, "neg"))
    BY <1>1, <1>4, FailedGood, Zenon
  <2>4. GoodStep(k, t, socket_read_done_cb(t, c, n))
    BY <2>1, <2>2, <2>3, Zenon
  <2> QED BY <2>1, <2>4, OnlySteps, Zenon DEF t, k
<1> QED BY <1>5, <1>6, Zenon

LEMMA WriteDoneSteps ==
    ASSUME ClientInv, ~Aborted, NEW i \in Tunnels, NEW c \in Sides, WriteDone(i, c)
    PROVE  Steps(i)
<1> DEFINE t == tun[i]
           k == cf.over_tls
<1>1. k \in BOOLEAN /\ TunnelInv(k, t) /\ (t = Unborn \/ Alive(t) \/ Gone(k, t))
  BY Lives, Zenon
<1>2. t.wreq[c]
  BY Zenon DEF WriteDone
<1>3. PICK s \in {"neg", "zero"}, o \in NoData :
         OnlyTunnel(i, IF Continues(t, s)
                       THEN do_next(socket_write_done_cb(t, c, s), c, s, o)
                       ELSE socket_write_done_cb(t, c, s))
  BY Zenon DEF WriteDone
<1>4. t # Unborn
  BY <1>2, UnbornWaits, Zenon
<1>5. CASE Gone(k, t)
  <2>1. OnlyTunnel(i, socket_write_done_cb(t, c, s))
    BY <1>3, <1>5, Zenon DEF Gone, Continues, tunnel_is_dead
  <2>2. GoodStep(k, t, socket_write_done_cb(t, c, s))
    BY <1>1, <1>5, DeadCallbacks, Zenon
  <2> QED BY <2>1, <2>2, OnlySteps, Zenon
<1>6. CASE Alive(t)
  <2>1. ~t.terminated
    BY <1>6, Zenon DEF Alive
  <2> HIDE DEF t, k
  <2>2. CASE s = "neg"
    <3>1. OnlyTunnel(i, socket_write_done_cb(t, c, "neg"))
      BY <1>3, <2>2, Zenon DEF Continues
    <3>2. GoodStep(k, t, socket_write_done_cb(t, c, "neg"))
      BY <1>1, <1>6, FailedGood, Zenon
    <3> QED BY <3>1, <3>2, OnlySteps, Zenon DEF t, k
  <2>3. CASE s = "zero"
    <3>1. OnlyTunnel(i, do_next(socket_write_done_cb(t, c, "zero"), c, "zero", o))
      <4>1. Continues(t, s)
        BY <2>1, <2>3, Zenon DEF Continues, tunnel_is_dead
      <4> QED BY <1>3, <2>3, <4>1, Zenon
    <3>2. GoodStep(k, t, do_next(socket_write_done_cb(t, c, "zero"), c, "zero", o))
      BY <1>1, <1>2, <1>6, WriteZeroGood, Zenon DEF k
    <3> QED BY <3>1, <3>2, OnlySteps, Zenon DEF t, k
  <2> QED BY <1>3, <2>2, <2>3, Zenon
<1> QED BY <1>1, <1>4, <1>5, <1>6, Zenon

LEMMA ConnectDoneSteps ==
    ASSUME ClientInv, ~Aborted, NEW i \in Tunnels, ConnectDone(i)
    PROVE  Steps(i)
<1> DEFINE t == tun[i]
           k == cf.over_tls
<1>1. k \in BOOLEAN /\ TunnelInv(k, t) /\ (t = Unborn \/ Alive(t) \/ Gone(k, t))
  BY Lives, Zenon
<1>2. t.conn = "pending" /\ t.conn # "none" /\ "in" \in Sides
  BY Zenon DEF ConnectDone, Sides
<1>3. PICK s \in {"neg", "zero"}, o \in NoData :
         OnlyTunnel(i, IF Continues(t, s)
                       THEN do_next(socket_connect_done_cb(t, s), "out", s, o)
                       ELSE socket_connect_done_cb(t, s))
  BY Zenon DEF ConnectDone
<1>4. t # Unborn
  BY <1>2, UnbornWaits, Zenon
<1>5. CASE Gone(k, t)
  <2>1. OnlyTunnel(i, socket_connect_done_cb(t, s))
    BY <1>3, <1>5, Zenon DEF Gone, Continues, tunnel_is_dead
  <2>2. GoodStep(k, t, socket_connect_done_cb(t, s))
    BY <1>1, <1>2, <1>5, DeadCallbacks, Zenon
  <2> QED BY <2>1, <2>2, OnlySteps, Zenon
<1>6. CASE Alive(t)
  <2>1. ~t.terminated
    BY <1>6, Zenon DEF Alive
  <2> HIDE DEF t, k
  <2>2. CASE s = "neg"
    <3>1. OnlyTunnel(i, socket_connect_done_cb(t, "neg"))
      BY <1>3, <2>2, Zenon DEF Continues
    <3>2. GoodStep(k, t, socket_connect_done_cb(t, "neg"))
      BY <1>1, <1>2, <1>6, FailedGood, Zenon
    <3> QED BY <3>1, <3>2, OnlySteps, Zenon DEF t, k
  <2>3. CASE s = "zero"
    <3>1. OnlyTunnel(i, do_next(socket_connect_done_cb(t, "zero"), "out", "zero", o))
      <4>1. Continues(t, s)
        BY <2>1, <2>3, Zenon DEF Continues, tunnel_is_dead
      <4> QED BY <1>3, <2>3, <4>1, Zenon
    <3>2. GoodStep(k, t, do_next(socket_connect_done_cb(t, "zero"), "out", "zero", o))
      BY <1>1, <1>2, <1>6, ConnectZeroGood, Zenon
    <3> QED BY <3>1, <3>2, OnlySteps, Zenon DEF t, k
  <2> QED BY <1>3, <2>2, <2>3, Zenon
<1> QED BY <1>1, <1>4, <1>5, <1>6, Zenon

LEMMA GetaddrinfoDoneSteps ==
    ASSUME ClientInv, ~Aborted, NEW i \in Tunnels, GetaddrinfoDone(i)
    PROVE  Steps(i)
<1> DEFINE t == tun[i]
           k == cf.over_tls
<1>1. k \in BOOLEAN /\ TunnelInv(k, t) /\ (t = Unborn \/ Alive(t) \/ Gone(k, t))
  BY Lives, Zenon
<1>2. t.gai /\ "in" \in Sides
  BY Zenon DEF GetaddrinfoDone, Sides
<1>3. PICK s \in {"neg", "zero"}, a \in Ips, o \in NoData :
         OnlyTunnel(i, IF Continues(t, s)
                       THEN do_next(socket_getaddrinfo_done_cb(t, s, a), "out", s, o)
                       ELSE socket_getaddrinfo_done_cb(t, s, a))
  BY Zenon DEF GetaddrinfoDone
<1>4. t # Unborn /\ o.err \in BOOLEAN
  <2>1. t # Unborn
    BY <1>2, UnbornWaits, Zenon
  <2>2. o.err \in BOOLEAN
    BY <1>3, Zenon DEF NoData
  <2> QED BY <2>1, <2>2, Zenon
<1>5. CASE Gone(k, t)
  <2>1. OnlyTunnel(i, socket_getaddrinfo_done_cb(t, s, a))
    BY <1>3, <1>5, Zenon DEF Gone, Continues, tunnel_is_dead
  <2>2. GoodStep(k, t, socket_getaddrinfo_done_cb(t, s, a))
    BY <1>1, <1>2, <1>5, DeadCallbacks, Zenon
  <2> QED BY <2>1, <2>2, OnlySteps, Zenon
<1>6. CASE Alive(t)
  <2>1. ~t.terminated
    BY <1>6, Zenon DEF Alive
  <2> HIDE DEF t, k
  <2>2. CASE s = "neg"
    <3>1. OnlyTunnel(i, socket_getaddrinfo_done_cb(t, "neg", a))
      BY <1>3, <2>2, Zenon DEF Continues
    <3>2. GoodStep(k, t, socket_getaddrinfo_done_cb(t, "neg", a))
      BY <1>1, <1>2, <1>6, FailedGood, Zenon
    <3> QED BY <3>1, <3>2, OnlySteps, Zenon DEF t, k
  <2>3. CASE s = "zero"
    <3>1. OnlyTunnel(i, do_next(socket_getaddrinfo_done_cb(t, "zero", a), "out", "zero", o))
      <4>1. Continues(t, s)
        BY <2>1, <2>3, Zenon DEF Continues, tunnel_is_dead
      <4> QED BY <1>3, <2>3, <4>1, Zenon
    <3>2. GoodStep(k, t, do_next(socket_getaddrinfo_done_cb(t, "zero", a), "out", "zero", o))
      BY <1>1, <1>2, <1>3, <1>4, <1>6, LookupZeroGood
    <3> QED BY <3>1, <3>2, OnlySteps, Zenon DEF t, k
  <2> QED BY <1>3, <2>2, <2>3, Zenon
<1> QED BY <1>1, <1>4, <1>5, <1>6, Zenon

LEMMA TimerSteps ==
    ASSUME ClientInv, ~Aborted, NEW i \in Tunnels, NEW c \in Sides, TimerExpire(i, c)
    PROVE  Steps(i)
<1> DEFINE t == tun[i]
           k == cf.over_tls
<1>1. k \in BOOLEAN /\ TunnelInv(k, t) /\ (t = Unborn \/ Alive(t) \/ Gone(k, t))
  BY Lives, Zenon
<1>2. t.timer[c] /\ OnlyTunnel(i, socket_timer_expire_cb(t, c)) /\ "neg" \in {"neg", "zero"}
  BY Zenon DEF TimerExpire
<1>3. Alive(t)
  BY <1>1, <1>2, DeadCallbacks, UnbornWaits, Zenon
<1>4. GoodStep(k, t, socket_timer_expire_cb(t, c))
  BY <1>1, <1>3, FailedGood, Zenon
<1> QED BY <1>2, <1>4, OnlySteps, Zenon

LEMMA CloseDoneSteps ==
    ASSUME ClientInv, ~Aborted, NEW i \in Tunnels, NEW h, CloseDone(i, h)
    PROVE  Steps(i)
<1> DEFINE t == tun[i]
           k == cf.over_tls
           u == socket_close_done_cb(t, h)
<1>1. k \in BOOLEAN /\ TunnelInv(k, t) /\ (t = Unborn \/ Alive(t) \/ Gone(k, t))
  BY Lives, Zenon
<1>2. /\ h \in t.closing /\ tun' = [tun EXCEPT ![i] = u]
      /\ tunnel_set' = (IF u.freed THEN tunnel_set \ {i} ELSE tunnel_set)
      /\ EnvUnchanged
  BY Zenon DEF CloseDone, CloseReady, tunnel_dying
<1>3. Gone(k, t)
  <2>1. t # Unborn
    BY <1>2, UnbornWaits, Zenon
  <2>2. Alive(t) => t.closing = {}
    BY <1>1, LiveFacts, Zenon DEF LiveInv
  <2> QED BY <1>1, <1>2, <2>1, <2>2, Zenon
<1>4. GoodStep(k, t, u)
  BY <1>1, <1>2, <1>3, CloseGood, Zenon
<1> HIDE DEF u
<1>5. ~Alive(u)
  BY <1>3, <1>4, Zenon DEF GoodStep, Gone, Alive
<1>6. StepsTo(i, u)
  BY <1>2, <1>4, <1>5, Zenon DEF StepsTo
<1> QED BY <1>6, Zenon DEF Steps

(* A uv-mbed callback of a tunnel that was freed uses memory that is gone. *)
LEMMA TlsCallbackSteps ==
    ASSUME ClientInv, ~Aborted, NEW i \in Tunnels, tun[i].tls # "none",
           NEW u, TlsCallback(i, u),
           cf.over_tls = TRUE /\ TunnelInv(TRUE, tun[i]) =>
               /\ Alive(tun[i]) => GoodStep(TRUE, tun[i], u)
               /\ Gone(TRUE, tun[i]) => GoodStep(TRUE, tun[i], u)
    PROVE  Steps(i)
<1> DEFINE t == tun[i]
           x == Check(t, "tls.tunnel_exists", FALSE)
<1>1. /\ cf.over_tls \in BOOLEAN /\ TunnelInv(cf.over_tls, t)
      /\ t = Unborn \/ Alive(t) \/ Gone(cf.over_tls, t)
  BY Lives, Zenon
<1>2. t # Unborn
  BY UnbornWaits, Zenon
<1>3. cf.over_tls = TRUE
  BY <1>1, Zenon DEF TunnelInv, TlsInv
<1>4. CASE t.freed
  <2>1. ~Alive(t)
    BY <1>1, <1>4, LiveFacts, Zenon DEF LiveInv
  <2>2. Gone(TRUE, t)
    BY <1>1, <1>2, <1>3, <2>1, Zenon
  <2>3. GoodStep(TRUE, t, x)
    BY <2>2, TlsDeadNoted, Zenon
  <2>4. OnlyTunnel(i, x)
    BY <1>4, Zenon DEF TlsCallback
  <2> QED BY <1>3, <2>3, <2>4, OnlySteps, Zenon
<1>5. CASE ~t.freed
  <2>1. GoodStep(cf.over_tls, t, u)
    BY <1>1, <1>2, <1>3, Zenon
  <2>2. OnlyTunnel(i, u)
    BY <1>5, Zenon DEF TlsCallback
  <2> QED BY <2>1, <2>2, OnlySteps, Zenon
<1> QED BY <1>4, <1>5, Zenon

LEMMA TlsShutdownSteps ==
    ASSUME ClientInv, ~Aborted, NEW i \in Tunnels, tun[i].tls # "none",
           TlsCallback(i, tls_client_shutdown(tun[i]))
    PROVE  Steps(i)
<1> DEFINE t == tun[i]
           u == tls_client_shutdown(t)
<1>1. TunnelInv(TRUE, t) /\ Alive(t) => GoodStep(TRUE, t, u)
  <2>1. SUFFICES ASSUME TunnelInv(TRUE, t), Alive(t) PROVE GoodStep(TRUE, t, u)
    BY Zenon
  <2>2. IsTunnel(t)
    BY <2>1, Zenon DEF TunnelInv
  <2>3. TlsOnly(t, u) /\ (u.tls = t.tls \/ u.tls = "closing")
    BY <2>2, TlsShutdownEffect, Zenon
  <2> HIDE DEF u
  <2>4. u.tls = t.tls \/ u.tls \in {"closing", "closed"}
    BY <2>3, Zenon
  <2> QED BY <2>1, <2>3, <2>4, TlsLiveGood, Zenon
<1>2. Gone(TRUE, t) => GoodStep(TRUE, t, u)
  BY TlsDeadCallbacks, Zenon
<1> QED BY <1>1, <1>2, TlsCallbackSteps, Zenon

LEMMA TlsSteps ==
    ASSUME ClientInv, ~Aborted, NEW i \in Tunnels,
           TlsConnectDone(i) \/ TlsDataReceived(i) \/ TlsFailed(i) \/ TlsCloseDone(i)
    PROVE  Steps(i)
<1> DEFINE t == tun[i]
<1>1. CASE TlsConnectDone(i)
  <2>1. t.tls = "connecting" /\ t.tls # "none"
    BY <1>1, Zenon DEF TlsConnectDone
  <2>2. PICK ok \in BOOLEAN, dec \in {"error", "data"} :
           TlsCallback(i, IF ok THEN tunnel_tls_on_connection_established(
                                        [t EXCEPT !.tls = "up"], dec)
                          ELSE tls_client_shutdown(t))
    BY <1>1, Zenon DEF TlsConnectDone
  <2> DEFINE u == tunnel_tls_on_connection_established([t EXCEPT !.tls = "up"], dec)
  <2>3. CASE ok = FALSE
    <3>1. TlsCallback(i, tls_client_shutdown(tun[i]))
      BY <2>2, <2>3, Zenon
    <3> QED BY <2>1, <3>1, TlsShutdownSteps, Zenon
  <2>4. CASE ok = TRUE
    <3>1. TlsCallback(i, u)
      BY <2>2, <2>4, Zenon
    <3>2. TunnelInv(TRUE, t) /\ Alive(t) => GoodStep(TRUE, t, u)
      BY <2>1, EstablishedGood, Zenon
    <3>3. Gone(TRUE, t) => GoodStep(TRUE, t, u)
      BY <2>1, TlsDeadCallbacks, Zenon
    <3> HIDE DEF u
    <3> QED BY <2>1, <3>1, <3>2, <3>3, TlsCallbackSteps, Zenon
  <2> QED BY <2>2, <2>3, <2>4, Zenon
<1>2. CASE TlsDataReceived(i)
  <2>1. t.tls = "up" /\ t.tls # "none"
    BY <1>2, Zenon DEF TlsDataReceived
  <2>2. PICK dec \in {"error", "data"} : TlsCallback(i, tunnel_tls_on_data_received(t, dec))
    BY <1>2, Zenon DEF TlsDataReceived
  <2> DEFINE u == tunnel_tls_on_data_received(t, dec)
  <2>3. TunnelInv(TRUE, t) /\ Alive(t) => GoodStep(TRUE, t, u)
    BY <2>1, TlsDataGood, Zenon
  <2>4. Gone(TRUE, t) => GoodStep(TRUE, t, u)
    BY <2>1, TlsDeadData, Zenon
  <2>5. TlsCallback(i, u)
    BY <2>2, Zenon
  <2> HIDE DEF u
  <2> QED BY <2>1, <2>3, <2>4, <2>5, TlsCallbackSteps, Zenon
<1>3. CASE TlsFailed(i)
  <2>1. t.tls # "none" /\ TlsCallback(i, tls_client_shutdown(tun[i]))
    BY <1>3, Zenon DEF TlsFailed
  <2> QED BY <2>1, TlsShutdownSteps, Zenon
<1>4. CASE TlsCloseDone(i)
  <2> DEFINE u == [tunnel_shutdown(t) EXCEPT !.tls = "closed"]
  <2>1. t.tls = "closing" /\ t.tls # "none" /\ TlsCallback(i, u)
    BY <1>4, Zenon DEF TlsCloseDone
  <2>2. TunnelInv(TRUE, t) /\ Alive(t) => GoodStep(TRUE, t, u)
    BY <2>1, TlsClosedGood, Zenon
  <2>3. Gone(TRUE, t) => GoodStep(TRUE, t, u)
    BY <2>1, TlsDeadCallbacks, Zenon
  <2> HIDE DEF u
  <2> QED BY <2>1, <2>2, <2>3, TlsCallbackSteps, Zenon
<1> QED BY <1>1, <1>2, <1>3, <1>4, Zenon

-----------------------------------------------------------------------------
(* The system. *)

RelaySteps == \A j \in Tunnels : cf.over_tls \/ RelayStep(tun[j], tun'[j])

(* A good step of one tunnel keeps the invariant of all. *)
LEMMA StepsKeep ==
    ASSUME ClientInv, NEW i \in Tunnels, Steps(i)
    PROVE  ClientInv' /\ RelaySteps
<1>1. PICK u : StepsTo(i, u)
  BY Zenon DEF Steps
<1>2. /\ TunnelInv(cf.over_tls, u) /\ (cf.over_tls \/ RelayStep(tun[i], u))
      /\ u.stage # "unborn" /\ (Alive(u) => Alive(tun[i]))
  BY <1>1, Zenon DEF StepsTo, GoodStep
<1>3. /\ tun' = [tun EXCEPT ![i] = u] /\ cf' = cf /\ boot' = boot
      /\ listeners' = listeners /\ shutting_down' = shutting_down /\ loop' = loop
      /\ tunnel_set' = tunnel_set \/ (tunnel_set' = tunnel_set \ {i} /\ ~Alive(u))
  BY <1>1, Zenon DEF StepsTo, EnvUnchanged
<1>4. /\ TypeOK /\ NoneLeftBehind /\ DOMAIN tun = Tunnels
      /\ \A j \in Tunnels : TunnelInv(cf.over_tls, tun[j])
      /\ \A j \in Tunnels : Alive(tun[j]) => j \in tunnel_set
      /\ \A j \in tunnel_set : tun[j].stage # "unborn"
      /\ boot = "resolving" => \A n \in Listeners : listeners[n] = "none"
  BY Zenon DEF ClientInv, TypeOK
<1>5. /\ DOMAIN tun' = Tunnels /\ tun'[i] = u
      /\ \A j \in Tunnels : j # i => tun'[j] = tun[j]
  BY <1>3, <1>4, Zenon
<1>6. \A j \in Tunnels : TunnelInv(cf.over_tls, tun'[j])
  BY <1>2, <1>4, <1>5, Zenon
<1>7. \A j \in Tunnels : Alive(tun'[j]) => Alive(tun[j])
  BY <1>2, <1>5, Zenon
<1>8. tunnel_set' \subseteq Tunnels /\ tunnel_set' \subseteq tunnel_set
  <2>1. tunnel_set \subseteq Tunnels
    BY <1>4, Zenon DEF TypeOK
  <2>2. tunnel_set' = tunnel_set \/ tunnel_set' = tunnel_set \ {i}
    BY <1>3, Zenon
  <2> QED BY ONLY <2>1, <2>2, Zenon
<1>9. \A j \in Tunnels : Alive(tun'[j]) => j \in tunnel_set'
  <2>1. TAKE j \in Tunnels
  <2>2. HAVE Alive(tun'[j])
  <2>3. j \in tunnel_set
    BY <1>4, <1>7, <2>2, Zenon
  <2>4. CASE j = i
    BY <1>3, <1>5, <2>2, <2>3, <2>4, Zenon
  <2>5. CASE j # i
    BY <1>3, <2>3, <2>5, Zenon
  <2> QED BY <2>4, <2>5, Zenon
<1>10. \A j \in tunnel_set' : tun'[j].stage # "unborn"
  BY <1>2, <1>4, <1>5, <1>8, Zenon DEF TypeOK
<1>11. TypeOK'
  <2>1. \A j \in Tunnels : IsTunnel(tun'[j])
    BY <1>6, Zenon DEF TunnelInv
  <2> QED BY <1>3, <1>4, <1>5, <1>8, <2>1, Zenon DEF TypeOK
<1>12. NoneLeftBehind'
  BY <1>3, <1>4, <1>7, Zenon DEF NoneLeftBehind
<1>13. ClientInv'
  BY <1>3, <1>4, <1>6, <1>9, <1>10, <1>11, <1>12, Zenon DEF ClientInv
<1>14. RelaySteps
  <2>1. \A t : RelayStep(t, t)
    BY Zenon DEF RelayStep, SameCounts
  <2> QED BY <1>2, <1>5, <2>1, Zenon DEF RelaySteps
<1> QED BY <1>13, <1>14, Zenon

(* A new connection is a tunnel of the handshake. *)
LEMMA Born ==
    ASSUME NEW k \in BOOLEAN
    PROVE  LET u == socket_read(NewTunnel, "in", TRUE)
           IN  /\ TunnelInv(k, u) /\ u.stage # "unborn" /\ Alive(u) /\ RelayStep(Unborn, u)
<1> DEFINE t == NewTunnel
           u == socket_read(t, "in", TRUE)
<1>1. /\ IsTunnel(t) /\ t.stage = "handshake" /\ ~t.terminated /\ t.tls = "none"
      /\ t.conn = "none" /\ ~t.gai /\ t.failed = {} /\ t.ref_count = 0
      /\ t.closing = {} /\ ~t.freed /\ t.taken = Both(0) /\ t.delivered = Both(0)
      /\ t.rd = Both("stop") /\ t.wr = Both("stop")
      /\ t.wreq = Both(FALSE) /\ t.reading = Both(FALSE)
  <2>1. /\ t.stage = "handshake" /\ ~t.terminated /\ t.tls = "none"
        /\ t.conn = "none" /\ ~t.gai /\ t.failed = {} /\ t.ref_count = 0
        /\ t.closing = {} /\ ~t.freed /\ t.taken = Both(0) /\ t.delivered = Both(0)
        /\ t.rd = Both("stop") /\ t.wr = Both("stop")
        /\ t.wreq = Both(FALSE) /\ t.reading = Both(FALSE)
    BY Zenon DEF NewTunnel
  <2>2. /\ t.addr = [ip |-> NoIp, port |-> 0] /\ t.timer = Both(FALSE) /\ t.more = 0
        /\ t.terminated = FALSE /\ t.freed = FALSE /\ t.gai = FALSE
        /\ DOMAIN t = {"stage", "addr", "tls", "more", "rd", "wr", "reading", "timer",
                       "wreq", "conn", "gai", "terminated", "ref_count", "closing",
                       "freed", "taken", "delivered", "failed"}
    BY Zenon DEF NewTunnel
  <2> HIDE DEF t
  <2>3. t.addr \in [ip : Ips \cup {NoIp}, port : {0, RemotePort}]
    BY <2>2
  <2>4. /\ t.rd \in [Sides -> SockStates] /\ t.wr \in [Sides -> SockStates]
        /\ t.reading \in [Sides -> BOOLEAN] /\ t.timer \in [Sides -> BOOLEAN]
        /\ t.wreq \in [Sides -> BOOLEAN]
        /\ t.taken \in [Sides -> Nat] /\ t.delivered \in [Sides -> Nat]
    BY <2>1, <2>2 DEF Both, SockStates
  <2>5. /\ t.stage \in Stages /\ t.tls \in TlsStates /\ t.more \in Nat
        /\ t.conn \in Connections /\ t.ref_count \in Nat
    BY <2>1, <2>2 DEF Stages, TlsStates, Connections
  <2>6. /\ t.gai \in BOOLEAN /\ t.terminated \in BOOLEAN /\ t.freed \in BOOLEAN
        /\ t.closing \subseteq Handles /\ t.failed \subseteq TunnelAsserts \cup ClientAsserts
    BY <2>1, <2>2, Zenon
  <2>7. IsTunnel(t)
    BY <2>2, <2>3, <2>4, <2>5, <2>6, Zenon DEF IsTunnel
  <2> QED BY <2>1, <2>7, Zenon
<1> HIDE DEF t
<1>2. t.rd["in"] = "stop" /\ StreamUsable(t, "in") /\ "in" \in Sides
  BY <1>1, Zenon DEF Both, Sides, StreamUsable
<1>3. IsTunnel(u) /\ ReadStarted(t, "in", u)
  BY <1>1, <1>2, ReadEffect, Zenon
<1> HIDE DEF u
<1>4. /\ u.stage = "handshake" /\ ~u.terminated /\ u.tls = "none"
      /\ u.conn = "none" /\ ~u.gai /\ u.failed = {} /\ u.ref_count = 0
      /\ u.closing = {} /\ ~u.freed /\ u.taken = Both(0) /\ u.delivered = Both(0)
      /\ u.wr = Both("stop") /\ u.wreq = Both(FALSE)
  <2>1. Fixed(t, u) /\ Linked(t, u) /\ u.wr = t.wr /\ u.wreq = t.wreq
    BY <1>3, Zenon DEF ReadStarted
  <2> QED BY <1>1, <2>1, Zenon DEF Fixed, Linked
<1>5. u.rd["in"] = "busy" /\ u.rd["out"] = "stop" /\ ~u.reading["out"]
  BY <1>1, <1>3 DEF ReadStarted, Both, Sides
<1>6. Busy(u) /\ Shape(u, "busy", "stop", "stop", "stop")
  BY <1>4, <1>5, Zenon DEF Busy, Shape, Both, Sides
<1>7. StageShape(u)
  BY <1>4, <1>6, Zenon DEF StageShape, WritesIn, WritesOut, WaitsIdle
<1>8. ServerLink(k, u) /\ TlsInv(k, u)
  BY <1>4, Zenon DEF ServerLink, TlsInv, WritesOut, TlsStages, PlainStages
<1>9. LiveInv(k, u)
  BY <1>4, <1>6, <1>7, <1>8, Zenon DEF LiveInv, Busy
<1>10. Alive(u) /\ u.stage # "unborn"
  BY <1>4, Zenon DEF Alive
<1>11. u.failed \subseteq Tolerated(k, u)
  BY <1>4, Zenon
<1>12. TunnelInv(k, u)
  BY <1>3, <1>4, <1>8, <1>9, <1>10, <1>11, Zenon DEF TunnelInv
<1>13. RelayStep(Unborn, u)
  BY <1>4, UnbornWaits, Zenon DEF RelayStep, RelayPhase, SameCounts
<1> QED BY <1>10, <1>12, <1>13, Zenon DEF u, t

LEMMA ConnectionKeeps ==
    ASSUME ClientInv, NEW i \in Tunnels, Connection(i)
    PROVE  ClientInv' /\ RelaySteps
<1> DEFINE u == socket_read(NewTunnel, "in", TRUE)
<1>1. cf.over_tls \in BOOLEAN
  BY Zenon DEF ClientInv, TypeOK, AllConfigs
<1>2. /\ TunnelInv(cf.over_tls, u) /\ u.stage # "unborn" /\ Alive(u) /\ RelayStep(Unborn, u)
  BY <1>1, Born, Zenon
<1>3. /\ tun' = [tun EXCEPT ![i] = u] /\ cf' = cf /\ boot' = boot
      /\ listeners' = listeners /\ shutting_down' = shutting_down /\ loop' = loop
      /\ tunnel_set' = tunnel_set \cup {i} /\ tun[i].stage = "unborn"
      /\ \E n \in Listeners : listeners[n] = "open"
  BY Zenon DEF Connection, EnvUnchanged
<1> HIDE DEF u
<1>4. /\ TypeOK /\ DOMAIN tun = Tunnels
      /\ \A j \in Tunnels : TunnelInv(cf.over_tls, tun[j])
      /\ \A j \in Tunnels : Alive(tun[j]) => j \in tunnel_set
      /\ \A j \in tunnel_set : tun[j].stage # "unborn"
      /\ boot = "resolving" => \A n \in Listeners : listeners[n] = "none"
      /\ tunnel_set \subseteq Tunnels
  BY Zenon DEF ClientInv, TypeOK
<1>5. /\ DOMAIN tun' = Tunnels /\ tun'[i] = u
      /\ \A j \in Tunnels : j # i => tun'[j] = tun[j]
  BY <1>3, <1>4, Zenon
<1>6. \A j \in Tunnels : TunnelInv(cf.over_tls, tun'[j])
  BY <1>2, <1>4, <1>5, Zenon
<1>7. tunnel_set' \subseteq Tunnels
  BY <1>3, <1>4, Zenon
<1>8. \A j \in Tunnels : Alive(tun'[j]) => j \in tunnel_set'
  BY <1>3, <1>4, <1>5, Zenon
<1>9. \A j \in tunnel_set' : tun'[j].stage # "unborn"
  BY <1>2, <1>3, <1>4, <1>5
<1>10. TypeOK'
  <2>1. \A j \in Tunnels : IsTunnel(tun'[j])
    BY <1>6, Zenon DEF TunnelInv
  <2> QED BY <1>3, <1>4, <1>5, <1>7, <2>1, Zenon DEF TypeOK
<1>11. NoneLeftBehind'
  BY <1>3, Zenon DEF NoneLeftBehind
<1>12. ClientInv'
  BY <1>3, <1>4, <1>6, <1>8, <1>9, <1>10, <1>11, Zenon DEF ClientInv
<1>13. RelaySteps
  <2>1. \A t : RelayStep(t, t)
    BY Zenon DEF RelayStep, SameCounts
  <2>2. tun[i] = Unborn
    BY <1>3, <1>4, Zenon DEF TunnelInv
  <2> QED BY <1>2, <1>5, <2>1, <2>2, Zenon DEF RelaySteps
<1> QED BY <1>12, <1>13, Zenon

(* client_shutdown leaves no tunnel alive. *)
LEMMA ShutdownAll ==
    ASSUME ClientInv, NEW j \in Tunnels
    PROVE  LET u == client_shutdown(tun)[j]
           IN  /\ TunnelInv(cf.over_tls, u) /\ ~Alive(u) /\ RelayStep(tun[j], u)
               /\ j \in tunnel_set => u.stage # "unborn"
<1> DEFINE t == tun[j]
           u == client_shutdown(tun)[j]
           k == cf.over_tls
<1>1. k \in BOOLEAN /\ TunnelInv(k, t) /\ (Alive(t) => j \in tunnel_set)
      /\ (j \in tunnel_set => t.stage # "unborn")
  BY Zenon DEF ClientInv, TypeOK, AllConfigs
<1>2. u = IF j \in tunnel_set THEN tunnel_shutdown(t) ELSE t
  BY Zenon DEF client_shutdown
<1>3. RelayStep(t, t)
  BY Zenon DEF RelayStep, SameCounts
<1> HIDE DEF u, k
<1>4. CASE j \notin tunnel_set
  BY <1>1, <1>2, <1>3, <1>4, Zenon DEF k, u
<1>5. CASE j \in tunnel_set /\ t.terminated
  <2>1. u = t
    BY <1>2, <1>5, Zenon DEF tunnel_shutdown, tunnel_is_dead
  <2>2. ~Alive(t)
    BY <1>5, Zenon DEF Alive
  <2> QED BY <1>1, <1>3, <2>1, <2>2, Zenon DEF k, u
<1>6. CASE j \in tunnel_set /\ ~t.terminated
  <2>1. Alive(t) /\ u = tunnel_shutdown(t)
    BY <1>1, <1>2, <1>6, Zenon DEF Alive
  <2> HIDE DEF t
  <2>2. Working(k, t) /\ SameCounts(t, t)
    BY <1>1, <2>1, LiveFacts, Zenon DEF SameCounts
  <2>3. /\ IsTunnel(t) /\ ~t.terminated /\ t.ref_count = 0
        /\ \A c \in Sides : t.rd[c] # "dead" /\ t.wr[c] # "dead"
    BY <2>2, Zenon DEF Working, Alive
  <2>4. TunnelInv(k, u) /\ u.stage # "unborn"
    BY <1>1, <2>1, <2>2, ShutdownGood, Zenon DEF GoodStep
  <2>5. u.terminated /\ SameCounts(t, u)
    BY <2>1, <2>3, ShutdownEffect, Zenon
  <2>6. ~Alive(u)
    BY <2>5, Zenon DEF Alive
  <2>7. RelayStep(t, u)
    BY <2>3, <2>5, Zenon DEF RelayStep, RelayPhase
  <2> QED BY <2>4, <2>6, <2>7, Zenon DEF k, u, t
<1> QED BY <1>4, <1>5, <1>6, Zenon

(* A step of the listeners, with or without ssr_run_loop_shutdown. *)
LEMMA ListenersKeep ==
    ASSUME ClientInv, cf' = cf, tunnel_set' = tunnel_set, loop' \in {"running", "exited"},
           boot' \in {"resolving", "done"}, listeners' \in [Listeners -> ListenerStates],
           boot' = "resolving" => \A n \in Listeners : listeners'[n] = "none",
           \/ tun' = tun /\ shutting_down' = shutting_down /\ NoneLeftBehind'
           \/ tun' = client_shutdown(tun) /\ shutting_down' = TRUE
    PROVE  ClientInv' /\ RelaySteps
<1>1. /\ TypeOK /\ DOMAIN tun = Tunnels
      /\ \A j \in Tunnels : TunnelInv(cf.over_tls, tun[j])
      /\ \A j \in Tunnels : Alive(tun[j]) => j \in tunnel_set
      /\ \A j \in tunnel_set : tun[j].stage # "unborn"
      /\ tunnel_set \subseteq Tunnels /\ shutting_down \in BOOLEAN /\ cf \in AllConfigs
  BY Zenon DEF ClientInv, TypeOK
<1>2. /\ DOMAIN tun' = Tunnels /\ shutting_down' \in BOOLEAN /\ NoneLeftBehind' /\ RelaySteps
      /\ \A j \in Tunnels : TunnelInv(cf.over_tls, tun'[j])
      /\ \A j \in Tunnels : Alive(tun'[j]) => j \in tunnel_set
      /\ \A j \in tunnel_set : tun'[j].stage # "unborn"
  <2>1. CASE tun' = tun /\ shutting_down' = shutting_down /\ NoneLeftBehind'
    <3>1. \A t : RelayStep(t, t)
      BY Zenon DEF RelayStep, SameCounts
    <3> QED BY <1>1, <2>1, <3>1, Zenon DEF RelaySteps
  <2>2. CASE tun' = client_shutdown(tun) /\ shutting_down' = TRUE
    <3>1. DOMAIN tun' = Tunnels
      BY <2>2, Zenon DEF client_shutdown
    <3>2. \A j \in Tunnels : /\ TunnelInv(cf.over_tls, tun'[j]) /\ ~Alive(tun'[j])
                             /\ RelayStep(tun[j], tun'[j])
                             /\ j \in tunnel_set => tun'[j].stage # "unborn"
      BY <2>2, ShutdownAll, Zenon
    <3>3. NoneLeftBehind'
      BY <3>2, Zenon DEF NoneLeftBehind
    <3>4. \A j \in tunnel_set : tun'[j].stage # "unborn"
      BY <1>1, <3>2, Zenon
    <3> QED BY <2>2, <3>1, <3>2, <3>3, <3>4, Zenon DEF RelaySteps
  <2> QED BY <2>1, <2>2, Zenon
<1>3. TypeOK'
  <2>1. \A j \in Tunnels : IsTunnel(tun'[j])
    BY <1>2, Zenon DEF TunnelInv
  <2> QED BY <1>1, <1>2, <2>1, Zenon DEF TypeOK
<1> QED BY <1>2, <1>3, Zenon DEF ClientInv

LEMMA ListenHostKeeps ==
    ASSUME ClientInv, ListenHostResolved
    PROVE  ClientInv' /\ RelaySteps
<1>1. /\ boot = "resolving" /\ boot' = "done" /\ cf' = cf /\ tunnel_set' = tunnel_set
      /\ loop' = loop /\ loop \in {"running", "exited"}
  BY Zenon DEF ListenHostResolved, ClientInv, TypeOK
<1> DEFINE L(n, k) == [j \in Listeners |-> IF j < k /\ j <= n THEN "open"
                                           ELSE IF j = k /\ j <= n THEN "unbound"
                                           ELSE "none"]
<1>2. \E n \in 0..MaxListeners : \E k \in 1..(n + 1) :
         IF k <= n THEN ssr_run_loop_shutdown(L(n, k))
         ELSE listeners' = L(n, k) /\ UNCHANGED <<tun, shutting_down>>
  BY Zenon DEF ListenHostResolved
<1>3. PICK n \in 0..MaxListeners : \E k \in 1..(n + 1) :
         IF k <= n THEN ssr_run_loop_shutdown(L(n, k))
         ELSE listeners' = L(n, k) /\ UNCHANGED <<tun, shutting_down>>
  BY <1>2, Zenon
<1>4. PICK k \in 1..(n + 1) :
         IF k <= n THEN ssr_run_loop_shutdown(L(n, k))
         ELSE listeners' = L(n, k) /\ UNCHANGED <<tun, shutting_down>>
  BY <1>3, Zenon
<1> DEFINE ls == L(n, k)
<1>5. ls \in [Listeners -> ListenerStates]
  BY Zenon DEF ListenerStates
<1>6. \/ listeners' = ls /\ tun' = tun /\ shutting_down' = shutting_down
      \/ listeners' = Closed(ls) /\ tun' = client_shutdown(tun) /\ shutting_down' = TRUE
  <2> HIDE DEF L
  <2>1. IF k <= n THEN ssr_run_loop_shutdown(ls)
        ELSE listeners' = ls /\ UNCHANGED <<tun, shutting_down>>
    BY <1>4, Zenon
  <2> HIDE DEF ls
  <2> QED BY <2>1, Zenon DEF ssr_run_loop_shutdown
<1> HIDE DEF ls
<1>7. Closed(ls) \in [Listeners -> ListenerStates]
  BY <1>5, Zenon DEF Closed, ListenerStates
<1>8. listeners' \in [Listeners -> ListenerStates] /\ boot' # "resolving"
      /\ boot' \in {"resolving", "done"} /\ loop' \in {"running", "exited"}
  BY <1>1, <1>5, <1>6, <1>7
<1>9. shutting_down => \A i \in Tunnels : ~Alive(tun[i])
  BY <1>1, Zenon DEF ClientInv, NoneLeftBehind
<1>10. tun' = tun /\ shutting_down' = shutting_down => NoneLeftBehind'
  BY <1>9, Zenon DEF NoneLeftBehind
<1> QED BY <1>1, <1>6, <1>8, <1>10, ListenersKeep, Zenon

LEMMA SignalKeeps ==
    ASSUME ClientInv, SignalQuit
    PROVE  ClientInv' /\ RelaySteps
<1>1. /\ boot' = boot /\ cf' = cf /\ tunnel_set' = tunnel_set /\ loop' = loop
      /\ listeners' = Closed(listeners) /\ tun' = client_shutdown(tun)
      /\ shutting_down' = TRUE
  BY Zenon DEF SignalQuit, ssr_run_loop_shutdown
<1>2. /\ loop' \in {"running", "exited"} /\ boot' \in {"resolving", "done"}
      /\ listeners \in [Listeners -> ListenerStates]
      /\ boot = "resolving" => \A n \in Listeners : listeners[n] = "none"
  BY <1>1, Zenon DEF ClientInv, TypeOK
<1>3. listeners' \in [Listeners -> ListenerStates]
  BY <1>1, <1>2, Zenon DEF Closed, ListenerStates
<1>4. boot' = "resolving" => \A n \in Listeners : listeners'[n] = "none"
  BY <1>1, <1>2, Zenon DEF Closed
<1> QED BY <1>1, <1>2, <1>3, <1>4, ListenersKeep, Zenon

LEMMA ListenerClosedKeeps ==
    ASSUME ClientInv, NEW n \in Listeners, ListenerClosed(n)
    PROVE  ClientInv' /\ RelaySteps
<1>1. /\ boot' = boot /\ cf' = cf /\ tunnel_set' = tunnel_set /\ loop' = loop
      /\ listeners' = [listeners EXCEPT ![n] = "closed"] /\ listeners[n] = "closing"
      /\ tun' = tun /\ shutting_down' = shutting_down
  BY Zenon DEF ListenerClosed
<1>2. /\ loop' \in {"running", "exited"} /\ boot' \in {"resolving", "done"}
      /\ listeners \in [Listeners -> ListenerStates] /\ NoneLeftBehind
      /\ boot = "resolving" => \A m \in Listeners : listeners[m] = "none"
  BY <1>1, Zenon DEF ClientInv, TypeOK
<1>3. listeners' \in [Listeners -> ListenerStates]
  BY <1>1, <1>2, Zenon DEF ListenerStates
<1>4. boot' # "resolving"
  BY <1>1, <1>2, Zenon
<1>5. \A m \in Listeners : listeners'[m] # "open" => listeners[m] # "open"
  BY <1>1, <1>2, Zenon
<1>6. NoneLeftBehind'
  BY <1>1, <1>2, <1>5, Zenon DEF NoneLeftBehind
<1> QED BY <1>1, <1>2, <1>3, <1>4, <1>6, ListenersKeep, Zenon

LEMMA LoopExitKeeps ==
    ASSUME ClientInv, LoopExit
    PROVE  ClientInv' /\ RelaySteps
<1>1. /\ boot' = boot /\ cf' = cf /\ tunnel_set' = tunnel_set /\ loop' = "exited"
      /\ listeners' = listeners /\ tun' = tun /\ shutting_down' = shutting_down
  BY Zenon DEF LoopExit
<1>2. /\ loop' \in {"running", "exited"} /\ boot' \in {"resolving", "done"}
      /\ listeners' \in [Listeners -> ListenerStates]
      /\ boot' = "resolving" => \A m \in Listeners : listeners'[m] = "none"
  BY <1>1, Zenon DEF ClientInv, TypeOK
<1>3. NoneLeftBehind'
  BY <1>1, Zenon DEF ClientInv, NoneLeftBehind
<1> QED BY <1>1, <1>2, <1>3, ListenersKeep, Zenon

(* Every step keeps the invariant and is a step of every tunnel's Relay. *)
LEMMA NextKeeps ==
    ASSUME ClientInv, [Next]_vars
    PROVE  ClientInv' /\ RelaySteps
<1>1. ASSUME ~Aborted, NEW i \in Tunnels, TunnelNext(i)
      PROVE  ClientInv' /\ RelaySteps
  <2>1. CASE Connection(i)
    BY <2>1, ConnectionKeeps, Zenon
  <2>2. CASE ~Connection(i)
    <3>1. Steps(i)
      BY <1>1, <2>2, ReadDoneSteps, WriteDoneSteps, TimerSteps, ConnectDoneSteps,
         GetaddrinfoDoneSteps, CloseDoneSteps, TlsSteps, Zenon DEF TunnelNext
    <3> QED BY <3>1, StepsKeep, Zenon
  <2> QED BY <2>1, <2>2, Zenon
<1>2. ASSUME UNCHANGED vars PROVE ClientInv' /\ RelaySteps
  <2>1. /\ boot' = boot /\ cf' = cf /\ tunnel_set' = tunnel_set /\ loop' = loop
        /\ listeners' = listeners /\ tun' = tun /\ shutting_down' = shutting_down
    BY <1>2, Zenon DEF vars
  <2>2. /\ loop' \in {"running", "exited"} /\ boot' \in {"resolving", "done"}
        /\ listeners' \in [Listeners -> ListenerStates]
        /\ boot' = "resolving" => \A m \in Listeners : listeners'[m] = "none"
    BY <2>1, Zenon DEF ClientInv, TypeOK
  <2>3. NoneLeftBehind'
    BY <2>1, Zenon DEF ClientInv, NoneLeftBehind
  <2> QED BY <2>1, <2>2, <2>3, ListenersKeep, Zenon
<1>3. \/ UNCHANGED vars
      \/ ~Aborted /\ \E i \in Tunnels : TunnelNext(i)
      \/ ListenHostResolved \/ SignalQuit \/ LoopExit
      \/ \E n \in Listeners : ListenerClosed(n)
  BY Zenon DEF Next, Polling, Ended
<1> QED BY <1>1, <1>2, <1>3, ListenHostKeeps, SignalKeeps, ListenerClosedKeeps,
           LoopExitKeeps, Zenon

(* A tunnel that was never accepted satisfies the invariant. *)
LEMMA UnbornGood ==
    ASSUME NEW k \in BOOLEAN
    PROVE  TunnelInv(k, Unborn) /\ ~Alive(Unborn)
<1> DEFINE t == Unborn
<1>1. /\ t.stage = "unborn" /\ t.terminated = FALSE /\ t.tls = "none" /\ t.more = 0
      /\ t.conn = "none" /\ t.gai = FALSE /\ t.failed = {} /\ t.ref_count = 0
      /\ t.closing = {} /\ t.freed = FALSE /\ t.taken = Both(0) /\ t.delivered = Both(0)
      /\ t.rd = Both("stop") /\ t.wr = Both("stop")
      /\ t.wreq = Both(FALSE) /\ t.reading = Both(FALSE) /\ t.timer = Both(FALSE)
      /\ t.addr = [ip |-> NoIp, port |-> 0]
      /\ DOMAIN t = {"stage", "addr", "tls", "more", "rd", "wr", "reading", "timer",
                     "wreq", "conn", "gai", "terminated", "ref_count", "closing",
                     "freed", "taken", "delivered", "failed"}
  BY Zenon DEF Unborn, NewTunnel
<1> HIDE DEF t
<1>2. t.addr \in [ip : Ips \cup {NoIp}, port : {0, RemotePort}]
  BY <1>1
<1>3. /\ t.rd \in [Sides -> SockStates] /\ t.wr \in [Sides -> SockStates]
      /\ t.reading \in [Sides -> BOOLEAN] /\ t.timer \in [Sides -> BOOLEAN]
      /\ t.wreq \in [Sides -> BOOLEAN]
      /\ t.taken \in [Sides -> Nat] /\ t.delivered \in [Sides -> Nat]
  BY <1>1 DEF Both, SockStates
<1>4. /\ t.stage \in Stages /\ t.tls \in TlsStates /\ t.more \in Nat
      /\ t.conn \in Connections /\ t.ref_count \in Nat
  BY <1>1 DEF Stages, TlsStates, Connections
<1>5. /\ t.gai \in BOOLEAN /\ t.terminated \in BOOLEAN /\ t.freed \in BOOLEAN
      /\ t.closing \subseteq Handles /\ t.failed \subseteq TunnelAsserts \cup ClientAsserts
  BY <1>1, Zenon
<1>6. IsTunnel(t)
  BY <1>1, <1>2, <1>3, <1>4, <1>5, Zenon DEF IsTunnel
<1>7. TlsInv(k, t)
  BY <1>1, Zenon DEF TlsInv, TlsStages, PlainStages, WritesOut
<1>8. t.failed \subseteq Tolerated(k, t) /\ ~Alive(t) /\ ~t.terminated
  BY <1>1, Zenon DEF Alive
<1> QED BY <1>1, <1>6, <1>7, <1>8, Zenon DEF TunnelInv, t

(* The invariant holds when the client starts. *)
LEMMA InitGood ==
    ASSUME Init
    PROVE  ClientInv
<1>1. /\ tun = [i \in Tunnels |-> Unborn] /\ cf \in Configs /\ tunnel_set = {}
      /\ boot = "resolving" /\ listeners = [n \in Listeners |-> "none"]
      /\ shutting_down = FALSE /\ loop = "running"
  BY Zenon DEF Init
<1>2. cf \in AllConfigs
  BY <1>1, ConstantsAssumption, Zenon
<1>3. cf.over_tls \in BOOLEAN
  BY <1>2, Zenon DEF AllConfigs
<1>4. TunnelInv(cf.over_tls, Unborn) /\ ~Alive(Unborn)
  BY <1>3, UnbornGood, Zenon
<1>5. DOMAIN tun = Tunnels /\ \A i \in Tunnels : tun[i] = Unborn
  BY <1>1, Zenon
<1>6. \A i \in Tunnels : TunnelInv(cf.over_tls, tun[i]) /\ ~Alive(tun[i])
  BY <1>4, <1>5, Zenon
<1>7. \A i \in Tunnels : IsTunnel(tun[i])
  BY <1>6, Zenon DEF TunnelInv
<1>8. /\ listeners \in [Listeners -> ListenerStates]
      /\ \A n \in Listeners : listeners[n] = "none"
  BY <1>1, Zenon DEF ListenerStates
<1>9. TypeOK
  BY <1>1, <1>2, <1>5, <1>7, <1>8, Zenon DEF TypeOK
<1>10. NoneLeftBehind
  BY <1>6, Zenon DEF NoneLeftBehind
<1> QED BY <1>1, <1>6, <1>8, <1>9, <1>10, Zenon DEF ClientInv

-----------------------------------------------------------------------------
(***************************************************************************)
(* Between two callbacks of ssr-client every tunnel is as its stage of     *)
(* do_next says, for any number of tunnels, listeners and chunks: the      *)
(* inductive invariant of client.c on top of tunnel.c.                     *)
(***************************************************************************)
THEOREM ClientInvariant == Spec => []ClientInv
<1>1. Init => ClientInv
  BY InitGood, Zenon
<1>2. ClientInv /\ [Next]_vars => ClientInv'
  BY NextKeeps, Zenon
<1> QED BY <1>1, <1>2, PTL DEF Spec

(***************************************************************************)
(* No ASSERT or VERIFY of tunnel.c and client.c about the state of a       *)
(* socket fails while the tunnel lives; without TLS none fails later, in   *)
(* the callbacks that tunnel_shutdown left behind, either.                 *)
(***************************************************************************)
THEOREM AssertsAlwaysHold == Spec => []AssertsHold
<1>1. ClientInv => AssertsHold
  BY Zenon DEF ClientInv, TunnelInv, AssertsHold, Tolerated
<1> QED BY <1>1, ClientInvariant, PTL

(***************************************************************************)
(* A tunnel of the client reaches no address but one of the configured     *)
(* server at its port, and none is left alive once the signal handler has  *)
(* closed the listeners (listener.c, client_shutdown).                     *)
(***************************************************************************)
THEOREM TunnelsAlwaysAccounted == Spec => []TunnelsAccounted
<1>1. ClientInv => ConnectsToServer
  BY Zenon DEF ClientInv, TunnelInv, ConnectsToServer, ServerAddress
<1>2. ClientInv => TunnelsAccounted
  BY <1>1, Zenon DEF ClientInv, TunnelsAccounted
<1> QED BY <1>2, ClientInvariant, PTL

(***************************************************************************)
(* Without TLS every tunnel of the client is a pipe per direction that     *)
(* holds one chunk: it implements Relay (tunnel_traditional_streaming as   *)
(* client.c drives it).                                                    *)
(***************************************************************************)
THEOREM ClientImplementsRelay == Spec => ImplementsRelay
<1> DEFINE B == \A i \in Tunnels : cf.over_tls \/ [Pipe(i)!RelayNext]_(Pipe(i)!relayVars)
<1>1. Init => \A i \in Tunnels : Pipe(i)!RelayInit
  <2>1. Init => \A i \in Tunnels : tun[i] = Unborn
    BY Zenon DEF Init
  <2> QED BY <2>1, UnbornWaits, Zenon DEF Pipe!RelayInit, Pipe!Ends, RelayPhase, Both, Sides
<1>2. ClientInv /\ [Next]_vars => [B]_vars
  <2> SUFFICES ASSUME ClientInv, [Next]_vars, NEW i \in Tunnels, ~cf.over_tls
               PROVE  [Pipe(i)!RelayNext]_(Pipe(i)!relayVars)
    BY Zenon
  <2>1. RelayStep(tun[i], tun'[i])
    BY NextKeeps, Zenon DEF RelaySteps
  <2> QED BY ZenonT(30), <2>1 DEF RelayStep, SameCounts, Pipe!RelayNext, Pipe!relayVars, Pipe!Open,
             Pipe!Close, Pipe!Take, Pipe!Deliver, Pipe!Ends, Pipe!Opposite, Sides, Other
<1>3. Spec => [][B]_vars
  BY <1>2, ClientInvariant, PTL DEF Spec
<1>4. Spec => \A i \in Tunnels : Pipe(i)!RelayInit
  BY <1>1, Zenon DEF Spec
<1> QED BY <1>3, <1>4, Zenon DEF ImplementsRelay
=============================================================================
