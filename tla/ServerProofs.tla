---------------------------- MODULE ServerProofs ----------------------------
(***************************************************************************)
(* Proofs about Server, for every set of tunnels, hosts, addresses and     *)
(* ports: ServerInv is inductive, and from it the safety properties, the   *)
(* quiet of dead tunnels and the refinement of Relay.                      *)
(*                                                                         *)
(* First the stages of do_next: a tunnel that enters a stage in the shape  *)
(* the stage before it left satisfies TunnelInv when the stage is done     *)
(* with it.  Streaming, and the read callback, keep TunnelInv and take     *)
(* steps of the Relay only.  Then the other callbacks: write, connect,     *)
(* lookup, timer, close, and the accepted connection; then the actions.    *)
(***************************************************************************)
EXTENDS Server, TLAPS

(***************************************************************************)
(* What a step of one tunnel may do: keep the invariant, keep a dead       *)
(* tunnel quiet, and be a step of the Relay or none.                       *)
(***************************************************************************)
Quiet(t, u) ==
    t.terminated =>
        /\ u.terminated
        /\ u.stage = t.stage
        /\ u.conn = "pending" => t.conn = "pending"
        /\ u.gai => t.gai
        /\ \A c \in Sides : /\ ~u.reading[c] /\ ~u.timer[c]
                            /\ u.wreq[c] => t.wreq[c]

SameCounts(t, u) == u.taken = t.taken /\ u.delivered = t.delivered

RelayStep(t, u) ==
    \/ RelayPhase(u) = RelayPhase(t) /\ SameCounts(t, u)
    \/ RelayPhase(t) # "closed" /\ RelayPhase(u) = "closed" /\ SameCounts(t, u)
    \/ /\ RelayPhase(t) = "setup" /\ RelayPhase(u) = "open"
       /\ u.taken \in {t.taken, [t.taken EXCEPT !["in"] = @ + 1]}
       /\ u.delivered = t.delivered
    \/ /\ RelayPhase(t) = "open" /\ RelayPhase(u) = "open"
       /\ \E c \in Sides :
            \/ /\ t.taken[c] = t.delivered[Other(c)]
               /\ u.taken = [t.taken EXCEPT ![c] = @ + 1]
               /\ u.delivered = t.delivered
            \/ /\ t.taken[Other(c)] = t.delivered[c] + 1
               /\ u.delivered = [t.delivered EXCEPT ![c] = @ + 1]
               /\ u.taken = t.taken

(* The tunnel is not freed by the step. *)
Stays(t, u) ==
    u.stage # "unborn" /\ (IF t.terminated THEN u.freed = t.freed ELSE ~u.freed)

GoodStep(t, u) ==
    TunnelInv(u) /\ Quiet(t, u) /\ RelayStep(t, u) /\ Stays(t, u)

(* A tunnel in the middle of a callback: live, whatever its sockets do. *)
Working(t) ==
    /\ IsTunnel(t)
    /\ t.failed \subseteq {"init_package.result"}
    /\ DestInv(t)
    /\ Alive(t)
    /\ t.ref_count = 0 /\ t.closing = {} /\ ~t.freed
    /\ \A c \in Sides : t.rd[c] # "dead" /\ t.wr[c] # "dead"

(* The fields no socket operation touches. *)
Frame(t, u) ==
    /\ u.stage = t.stage /\ u.obfs = t.obfs
    /\ u.init_pkg = t.init_pkg /\ u.addr = t.addr
    /\ u.conn = t.conn /\ u.gai = t.gai /\ u.freed = t.freed
    /\ u.taken = t.taken /\ u.delivered = t.delivered /\ u.failed = t.failed

Alike(t, u) ==
    /\ Frame(t, u)
    /\ u.terminated = t.terminated
    /\ u.ref_count = t.ref_count /\ u.closing = t.closing

-----------------------------------------------------------------------------
(* What the socket operations do when their assertions hold. *)

(* socket_read on a usable, stopped side marks it busy and touches no other
   state. *)
LEMMA ReadEffect ==
    ASSUME NEW t, IsTunnel(t), NEW c \in Sides, NEW k \in BOOLEAN,
           t.rd[c] = "stop", StreamUsable(t, c)
    PROVE  LET u == socket_read(t, c, k)
           IN  /\ IsTunnel(u) /\ Alike(t, u)
               /\ u.wr = t.wr /\ u.wreq = t.wreq
               /\ u.rd = [t.rd EXCEPT ![c] = "busy"]
               /\ u.reading = [t.reading EXCEPT ![c] = TRUE]
<1>1. CASE k = TRUE
  BY <1>1, SMT DEF socket_read, ASSERT, IsTunnel, Alike, Frame, Sides, SockStates
<1>2. CASE k = FALSE
  BY <1>2, SMT DEF socket_read, ASSERT, IsTunnel, Alike, Frame, Sides, SockStates
<1> QED BY ZenonT(30), <1>1, <1>2

(* socket_write on a usable, stopped side marks it busy and touches no
   other state. *)
LEMMA WriteEffect ==
    ASSUME NEW t, IsTunnel(t), NEW c \in Sides,
           t.wr[c] = "stop", StreamUsable(t, c)
    PROVE  LET u == socket_write(t, c)
           IN  /\ IsTunnel(u) /\ Alike(t, u)
               /\ u.rd = t.rd /\ u.reading = t.reading
               /\ u.wr = [t.wr EXCEPT ![c] = "busy"]
               /\ u.wreq = [t.wreq EXCEPT ![c] = TRUE]
  BY SMT DEF socket_write, ASSERT, IsTunnel, Alike, Frame, Sides, SockStates

(* tunnel_shutdown of a live tunnel stops everything and closes four
   handles. *)
LEMMA ShutdownEffect ==
    ASSUME NEW t, Working(t)
    PROVE  LET u == tunnel_shutdown(t)
           IN  /\ IsTunnel(u) /\ Frame(t, u) /\ u.terminated
               /\ u.rd = Both("dead") /\ u.wr = Both("dead")
               /\ u.reading = Both(FALSE) /\ u.timer = Both(FALSE)
               /\ u.wreq = t.wreq
               /\ u.closing = Handles /\ u.ref_count = 4
<1>1. /\ IsTunnel(t) /\ ~t.terminated /\ t.ref_count = 0
      /\ \A c \in Sides : t.rd[c] # "dead" /\ t.wr[c] # "dead"
  BY Zenon DEF Working, Alive
<1> QED
  BY <1>1, SMT DEF tunnel_shutdown, tunnel_is_dead, socket_close_both, ASSERT,
     IsTunnel, Frame, Sides, Both, SockStates

(* The two sockets of a tunnel have four libuv handles between them. *)
LEMMA HandleCounts ==
    /\ HandleCount(Handles) = 4
    /\ \A c \in SUBSET Handles :
          /\ HandleCount(c) \in Nat /\ (HandleCount(c) = 0 <=> c = {})
          /\ \A h \in c : HandleCount(c \ {h}) = HandleCount(c) - 1
<1> DEFINE h1 == <<"in", "tcp">>
           h2 == <<"in", "timer">>
           h3 == <<"out", "tcp">>
           h4 == <<"out", "timer">>
<1>1. Handles = {h1, h2, h3, h4}
  BY DEF Handles, Sides
<1>2. h1 # h2 /\ h1 # h3 /\ h1 # h4 /\ h2 # h3 /\ h2 # h4 /\ h3 # h4
  BY Zenon
<1>3. \A c : HandleCount(c) = (IF h1 \in c THEN 1 ELSE 0) + (IF h2 \in c THEN 1 ELSE 0)
                             + (IF h3 \in c THEN 1 ELSE 0) + (IF h4 \in c THEN 1 ELSE 0)
  BY Zenon DEF HandleCount
<1> HIDE DEF h1, h2, h3, h4
<1>4. HandleCount(Handles) = 4
  BY <1>1, <1>3
<1>5. ASSUME NEW c \in SUBSET Handles
      PROVE  HandleCount(c) \in Nat /\ (HandleCount(c) = 0 <=> c = {})
  BY <1>1, <1>3
<1>6. ASSUME NEW c \in SUBSET Handles, NEW h \in c
      PROVE  HandleCount(c \ {h}) = HandleCount(c) - 1
  <2>1. h \in {h1, h2, h3, h4}
    BY <1>1, Zenon
  <2> QED BY <1>2, <1>3, <2>1
<1> QED BY <1>4, <1>5, <1>6, Zenon

(* tunnel_shutdown of a live tunnel leaves a dead one that satisfies
   TunnelInv. *)
LEMMA ShutdownInv ==
    ASSUME NEW t, Working(t)
    PROVE  /\ TunnelInv(tunnel_shutdown(t))
           /\ tunnel_shutdown(t).terminated
           /\ SameCounts(t, tunnel_shutdown(t))
<1> DEFINE u == tunnel_shutdown(t)
<1>1. /\ IsTunnel(u) /\ Frame(t, u) /\ u.terminated
      /\ u.rd = Both("dead") /\ u.wr = Both("dead")
      /\ u.reading = Both(FALSE) /\ u.timer = Both(FALSE)
      /\ u.closing = Handles /\ u.ref_count = 4
  BY ZenonT(30), ShutdownEffect
<1> HIDE DEF u
<1>2. <<"in", "tcp">> \in Handles /\ <<"out", "tcp">> \in Handles
  BY Zenon DEF Handles, Sides
<1>3. DeadInv(u)
  BY <1>1, <1>2, HandleCounts, Zenon DEF DeadInv, Frame, Working, Sides
<1>4. DestInv(u)
  BY <1>1, Zenon DEF DestInv, Working, Frame
<1>5. TunnelInv(u)
  BY <1>1, <1>3, <1>4, Zenon DEF TunnelInv, Working, Alive, Frame
<1> QED
  BY <1>1, <1>5, Zenon DEF u, SameCounts, Frame

-----------------------------------------------------------------------------
(***************************************************************************)
(* The handshake stages.  t0 is the tunnel before the callback, t the      *)
(* tunnel the callback has made of it so far.                              *)
(***************************************************************************)
Before(t0) ==
    /\ Alive(t0) /\ t0.stage \notin {"launch_streaming", "streaming"}
    /\ t0.taken = Both(0) /\ t0.delivered = Both(0)

(* No read, write, lookup or connect is pending. *)
Settled(t) ==
    /\ Working(t) /\ AllStop(t)
    /\ t.stage \notin {"launch_streaming", "streaming"}
    /\ t.conn = "none" /\ ~t.gai
    /\ t.taken = Both(0) /\ t.delivered = Both(0)
    /\ \A c \in Sides : ~t.wreq[c] /\ ~t.reading[c]

(* tunnel_shutdown is a good step from any live tunnel with the same
   counts. *)
LEMMA ShutdownGood ==
    ASSUME NEW t, Working(t), NEW t0, Alive(t0), SameCounts(t0, t)
    PROVE  GoodStep(t0, tunnel_shutdown(t))
<1> DEFINE u == tunnel_shutdown(t)
<1>1. TunnelInv(u) /\ u.terminated /\ SameCounts(t, u)
  BY ShutdownInv, Zenon
<1> HIDE DEF u
<1>2. RelayStep(t0, u)
  BY <1>1, Zenon DEF RelayStep, RelayPhase, SameCounts, Alive
<1>3. Quiet(t0, u)
  BY Zenon DEF Quiet, Alive
<1>4. Stays(t0, u)
  BY ZenonT(30), ShutdownEffect DEF u, Frame, Working, Alive, Stays
<1> QED BY <1>1, <1>2, <1>3, <1>4, Zenon DEF GoodStep, u

(* do_connect_host_start is good once the address is an answer for the
   host. *)
LEMMA ConnectStartGood ==
    ASSUME NEW t, Settled(t), NEW t0, Before(t0), NEW err \in BOOLEAN,
           t.addr.port = t.init_pkg.port, IsAnswer(t.init_pkg.name, t.addr.ip)
    PROVE  GoodStep(t0, do_connect_host_start(t, err))
<1> DEFINE a == [Check(t, "connect_host_start.all_stop", AllStop(t))
                    EXCEPT !.stage = "connect_host"]
           s == socket_timer_start(a, "out")
           u == [s EXCEPT !.conn = "pending"]
<1>1. IsTunnel(t) /\ AllStop(t)
  BY Zenon DEF Settled, Working
<1>2. /\ IsTunnel(a) /\ a.stage = "connect_host" /\ a.failed = t.failed
      /\ a.rd = t.rd /\ a.wr = t.wr /\ a.reading = t.reading /\ a.wreq = t.wreq
      /\ a.init_pkg = t.init_pkg /\ a.addr = t.addr /\ a.conn = t.conn
      /\ a.gai = t.gai /\ a.terminated = t.terminated /\ a.closing = t.closing
      /\ a.ref_count = t.ref_count /\ a.freed = t.freed /\ SameCounts(t, a)
  BY <1>1, Zenon DEF Check, ASSERT, IsTunnel, SameCounts, Stages
<1> HIDE DEF a
<1>3. /\ IsTunnel(s) /\ Alike(a, s) /\ s.rd = a.rd /\ s.wr = a.wr
      /\ s.reading = a.reading /\ s.wreq = a.wreq
  BY <1>2, Zenon DEF socket_timer_start, IsTunnel, Sides, Alike, Frame
<1> HIDE DEF s
<1>4. Working(s) /\ SameCounts(t0, s) /\ Alive(t0)
  <2>1. DestInv(s)
    BY <1>2, <1>3, Zenon DEF Settled, Alike, Frame, DestInv
  <2>2. Alive(s) /\ s.ref_count = 0 /\ s.closing = {} /\ ~s.freed
    BY <1>2, <1>3, Zenon DEF Working, Settled, Alike, Frame, Alive
  <2>3. s.failed \subseteq {"init_package.result"}
    BY <1>2, <1>3, Zenon DEF Working, Settled, Alike, Frame
  <2>4. \A c \in Sides : s.rd[c] # "dead" /\ s.wr[c] # "dead"
    BY ZenonT(30), <1>1, <1>2, <1>3 DEF AllStop
  <2>5. SameCounts(t0, s) /\ Alive(t0)
    BY <1>2, <1>3 DEF Settled, Alike, Frame, SameCounts, Before
  <2> QED BY <1>3, <2>1, <2>2, <2>3, <2>4, <2>5, Zenon DEF Working
<1>5. CASE err = TRUE
  <2>1. do_connect_host_start(t, err) = tunnel_shutdown(s)
    BY <1>5, Zenon DEF do_connect_host_start, socket_connect, s, a
  <2> QED BY <2>1, <1>4, ShutdownGood, Zenon
<1>6. CASE err = FALSE
  <2>1. do_connect_host_start(t, err) = u
    BY <1>6, Zenon DEF do_connect_host_start, socket_connect, s, a
  <2>2. /\ IsTunnel(u) /\ u.conn = "pending" /\ u.stage = "connect_host"
        /\ u.failed = s.failed /\ u.rd = s.rd /\ u.wr = s.wr /\ u.gai = s.gai
        /\ u.reading = s.reading /\ u.wreq = s.wreq /\ u.init_pkg = s.init_pkg
        /\ u.addr = s.addr /\ u.terminated = s.terminated /\ u.closing = s.closing
        /\ u.ref_count = s.ref_count /\ u.freed = s.freed /\ SameCounts(s, u)
    BY <1>2, <1>3, SMT DEF IsTunnel, Connections, SameCounts, Alike, Frame
  <2> HIDE DEF u
  <2>3. LiveInv(u)
    <3>1. AllStop(u) /\ u.taken = Both(0) /\ u.delivered = Both(0)
      BY <1>2, <1>3, <2>2 DEF Settled, AllStop, Alike, Frame, SameCounts
    <3>2. StageShape(u)
      BY <2>2, <3>1, Zenon DEF StageShape
    <3>3. \A c \in Sides : ~u.wreq[c] /\ ~u.reading[c]
      BY ZenonT(30), <1>2, <1>3, <2>2 DEF Settled
    <3>4. u.ref_count = 0 /\ u.closing = {} /\ ~u.freed /\ ~u.gai
      BY <1>2, <1>3, <2>2 DEF Settled, Working, Alike, Frame
    <3> QED
      BY <2>2, <3>1, <3>2, <3>3, <3>4, Zenon DEF LiveInv, AllStop
  <2>4. DestInv(u)
    BY <1>2, <1>3, <2>2 DEF DestInv, Settled, Alike, Frame
  <2>5. TunnelInv(u)
    BY <1>2, <1>3, <1>4, <2>2, <2>3, <2>4, Zenon DEF TunnelInv, Working, Alike, Frame, Alive
  <2>6. Quiet(t0, u) /\ RelayStep(t0, u)
    BY <1>2, <1>3, <1>4, <2>2 DEF Quiet, RelayStep, RelayPhase, SameCounts, Before,
       Alive, Alike, Frame
  <2>7. Stays(t0, u)
    BY <1>4, <2>2, Zenon DEF Stays, Working, Alive
  <2> QED BY <2>1, <2>5, <2>6, <2>7, Zenon DEF GoodStep
<1> QED BY ZenonT(30), <1>5, <1>6

(* A complete header names a host or an address, and a port. *)
LEMMA CompletePackage ==
    ASSUME NEW p \in Packages, p.hdr = "complete"
    PROVE  p.name \in Hosts \cup Ips /\ p.port \in Ports /\ p.payload \in BOOLEAN
  BY DEF Packages, NoPkg

(* The address and the package of a settled tunnel may be replaced. *)
LEMMA SettledAddr ==
    ASSUME NEW t, Settled(t), NEW a \in Addresses
    PROVE  LET b == [t EXCEPT !.addr = a]
           IN  Settled(b) /\ b.addr = a /\ b.init_pkg = t.init_pkg
<1> DEFINE b == [t EXCEPT !.addr = a]
<1>1. IsTunnel(t)
  BY Zenon DEF Settled, Working
<1>2. /\ IsTunnel(b) /\ b.addr = a /\ b.init_pkg = t.init_pkg
      /\ b.stage = t.stage /\ b.rd = t.rd /\ b.wr = t.wr /\ b.reading = t.reading
      /\ b.wreq = t.wreq /\ b.conn = t.conn /\ b.gai = t.gai
      /\ b.terminated = t.terminated /\ b.closing = t.closing
      /\ b.ref_count = t.ref_count /\ b.freed = t.freed
      /\ b.taken = t.taken /\ b.delivered = t.delivered /\ b.failed = t.failed
  BY <1>1, Zenon DEF IsTunnel
<1> HIDE DEF b
<1>3. Settled(b)
  BY <1>2 DEF Settled, Working, AllStop, Alive, DestInv
<1> QED BY <1>2, <1>3, Zenon DEF b

(* The first package of a settled tunnel may be replaced. *)
LEMMA SettledPackage ==
    ASSUME NEW t, Settled(t), NEW p, p \in Packages,
           NEW f, \A x \in f : x = "init_package.result"
    PROVE  LET b == [t EXCEPT !.failed = @ \cup f, !.init_pkg = p]
           IN  Settled(b) /\ b.init_pkg = p /\ b.obfs = t.obfs /\ b.stage = t.stage
<1> DEFINE b == [t EXCEPT !.failed = @ \cup f, !.init_pkg = p]
<1>1. IsTunnel(t)
  BY Zenon DEF Settled, Working
<1>2. f \subseteq ServerAsserts
  BY Zenon DEF ServerAsserts
<1>3. /\ IsTunnel(b) /\ b.addr = t.addr /\ b.init_pkg = p /\ b.obfs = t.obfs
      /\ b.stage = t.stage /\ b.rd = t.rd /\ b.wr = t.wr /\ b.reading = t.reading
      /\ b.wreq = t.wreq /\ b.conn = t.conn /\ b.gai = t.gai
      /\ b.terminated = t.terminated /\ b.closing = t.closing
      /\ b.ref_count = t.ref_count /\ b.freed = t.freed
      /\ b.taken = t.taken /\ b.delivered = t.delivered
      /\ b.failed = t.failed \cup f
  BY <1>1, <1>2, Zenon DEF IsTunnel
<1> HIDE DEF b
<1>4. Settled(b)
  BY <1>3 DEF Settled, Working, AllStop, Alive, DestInv
<1> QED BY <1>3, <1>4, Zenon DEF b

(* What do_parse may find in the cache. *)
GoodCache(ips) ==
    \A h \in Hosts : /\ ips[h] \in Addresses
                     /\ ips[h] # NoAddr => ips[h].ip \in Answers[h]

(* do_parse's branch that starts socket_getaddrinfo is good. *)
LEMMA LookupGood ==
    ASSUME NEW t, Settled(t), NEW t0, Before(t0),
           t.init_pkg.name \in Hosts, t.init_pkg.port \in Ports
    PROVE  GoodStep(t0, socket_getaddrinfo(
                [t EXCEPT !.stage = "resolve_host", !.addr.port = t.init_pkg.port],
                "out"))
<1> DEFINE s == [t EXCEPT !.stage = "resolve_host", !.addr.port = t.init_pkg.port]
           u == socket_getaddrinfo(s, "out")
<1>1. IsTunnel(t)
  BY Zenon DEF Settled, Working
<1>2. [t.addr EXCEPT !.port = t.init_pkg.port] \in Addresses
      /\ [t.addr EXCEPT !.port = t.init_pkg.port].port = t.init_pkg.port
  BY <1>1, Zenon DEF IsTunnel, Addresses
<1>a. s.addr = [t.addr EXCEPT !.port = t.init_pkg.port]
  BY <1>1, Zenon DEF IsTunnel
<1>b. s.addr \in Addresses /\ s.addr.port = t.init_pkg.port
  BY ZenonT(30), <1>2, <1>a
<1>c. /\ DOMAIN s = DOMAIN t
      /\ s.stage = "resolve_host" /\ s.failed = t.failed
      /\ s.rd = t.rd /\ s.wr = t.wr /\ s.reading = t.reading /\ s.wreq = t.wreq
      /\ s.init_pkg = t.init_pkg /\ s.timer = t.timer /\ s.gai = t.gai
      /\ s.obfs = t.obfs
      /\ s.conn = t.conn /\ s.terminated = t.terminated /\ s.closing = t.closing
      /\ s.ref_count = t.ref_count /\ s.freed = t.freed
      /\ s.taken = t.taken /\ s.delivered = t.delivered
  BY <1>1, Zenon DEF IsTunnel
<1> HIDE DEF s
<1>3. /\ IsTunnel(s) /\ s.stage = "resolve_host" /\ s.failed = t.failed
      /\ s.rd = t.rd /\ s.wr = t.wr /\ s.reading = t.reading /\ s.wreq = t.wreq
      /\ s.init_pkg = t.init_pkg /\ s.addr.port = t.init_pkg.port
      /\ s.conn = t.conn /\ s.terminated = t.terminated /\ s.closing = t.closing
      /\ s.ref_count = t.ref_count /\ s.freed = t.freed /\ SameCounts(t, s)
  BY <1>1, <1>b, <1>c, Zenon DEF IsTunnel, SameCounts, Stages
<1>4. /\ IsTunnel(u) /\ u.stage = s.stage /\ u.failed = s.failed /\ u.gai
      /\ u.rd = s.rd /\ u.wr = s.wr /\ u.reading = s.reading /\ u.wreq = s.wreq
      /\ u.init_pkg = s.init_pkg /\ u.addr = s.addr
      /\ u.conn = s.conn /\ u.terminated = s.terminated /\ u.closing = s.closing
      /\ u.ref_count = s.ref_count /\ u.freed = s.freed /\ SameCounts(s, u)
  BY <1>3, SMT DEF socket_getaddrinfo, socket_timer_start, IsTunnel, SameCounts, Sides
<1> HIDE DEF u
<1>5. LiveInv(u)
  <2>1. AllStop(u) /\ u.taken = Both(0) /\ u.delivered = Both(0)
    BY <1>3, <1>4 DEF Settled, AllStop, SameCounts
  <2>2. StageShape(u)
    BY <1>3, <1>4, <2>1, Zenon DEF StageShape
  <2>3. \A c \in Sides : ~u.wreq[c] /\ ~u.reading[c]
    BY ZenonT(30), <1>3, <1>4 DEF Settled
  <2>4. u.ref_count = 0 /\ u.closing = {} /\ ~u.freed /\ u.conn = "none"
    BY <1>3, <1>4 DEF Settled, Working
  <2> QED BY <1>3, <1>4, <2>1, <2>2, <2>3, <2>4, Zenon DEF LiveInv, AllStop
<1>6. DestInv(u)
  BY <1>3, <1>4 DEF DestInv, Settled
<1>7. ~u.terminated /\ u.failed \subseteq {"init_package.result"}
  BY <1>3, <1>4 DEF Settled, Working, Alive
<1>8. TunnelInv(u)
  BY <1>3, <1>4, <1>5, <1>6, <1>7, Zenon DEF TunnelInv
<1>9. Quiet(t0, u) /\ RelayStep(t0, u)
  BY <1>3, <1>4, <1>7 DEF Quiet, RelayStep, RelayPhase, SameCounts, Before, Alive,
     Settled
<1>10. Stays(t0, u)
  BY <1>3, <1>4, Zenon DEF Stays, Settled, Working, Before, Alive
<1> QED BY <1>8, <1>9, <1>10, Zenon DEF GoodStep, u, s

(* do_parse is good: a literal, a cached or a looked-up destination. *)
LEMMA ParseGood ==
    ASSUME NEW t, Settled(t), NEW t0, Before(t0), NEW err \in BOOLEAN,
           NEW ips, GoodCache(ips), t.init_pkg.hdr = "complete"
    PROVE  GoodStep(t0, do_parse(t, ips, err))
<1> DEFINE name == t.init_pkg.name
           port == t.init_pkg.port
<1>1. name \in Hosts \cup Ips /\ port \in Ports
  BY CompletePackage, Zenon DEF Settled, Working, IsTunnel
<1>2. SameCounts(t0, t) /\ Alive(t0) /\ Working(t)
  BY Zenon DEF Before, Settled, SameCounts
<1>3. ASSUME NEW a \in Addresses, a.port = port, IsAnswer(name, a.ip)
      PROVE  GoodStep(t0, do_connect_host_start([t EXCEPT !.addr = a], err))
  <2> DEFINE b == [t EXCEPT !.addr = a]
  <2>1. Settled(b) /\ b.addr = a /\ b.init_pkg = t.init_pkg
    BY SettledAddr, Zenon
  <2> HIDE DEF b
  <2> QED BY ZenonT(30), <1>3, <2>1, ConnectStartGood DEF b
<1>4. CASE name \in Ips
  <2> DEFINE a == [ip |-> name, port |-> port]
  <2>1. a \in Addresses /\ a.port = port /\ IsAnswer(name, a.ip)
    BY <1>1, <1>4, ConstantsAssumption, Zenon DEF Addresses, IsAnswer
  <2> QED BY <1>3, <1>4, <2>1, Zenon DEF do_parse
<1>5. CASE name \notin Ips /\ ips[name] # NoAddr
  <2> DEFINE a == [ips[name] EXCEPT !.port = port]
  <2>1. name \in Hosts /\ ips[name] \in Addresses /\ ips[name].ip \in Answers[name]
    BY <1>1, <1>5, Zenon DEF GoodCache
  <2>2. a \in Addresses /\ a.port = port /\ a.ip = ips[name].ip
    BY <1>1, <2>1, Zenon DEF Addresses
  <2>3. IsAnswer(name, a.ip)
    BY <2>1, <2>2, Zenon DEF IsAnswer
  <2> QED BY ZenonT(30), <1>3, <1>5, <2>2, <2>3 DEF do_parse
<1>6. CASE name \notin Ips /\ ips[name] = NoAddr /\ name \in BadHosts
  BY <1>2, <1>6, ShutdownGood, Zenon DEF do_parse
<1>7. CASE name \notin Ips /\ ips[name] = NoAddr /\ name \notin BadHosts
  BY ZenonT(30), <1>1, <1>7, LookupGood DEF do_parse
<1> QED BY <1>4, <1>5, <1>6, <1>7, Zenon

(* do_prepare_parse is good, whether the header is complete or not. *)
LEMMA PrepareParseGood ==
    ASSUME NEW t, Settled(t), NEW t0, Before(t0), NEW err \in BOOLEAN,
           NEW ips, GoodCache(ips)
    PROVE  GoodStep(t0, do_prepare_parse(t, ips, err))
<1>1. SameCounts(t0, t) /\ Alive(t0) /\ Working(t)
  BY Zenon DEF Before, Settled, SameCounts
<1>2. CASE t.init_pkg.hdr = "complete"
  BY <1>2, ParseGood, Zenon DEF do_prepare_parse
<1>3. CASE t.init_pkg.hdr # "complete"
  BY <1>1, <1>3, ShutdownGood, Zenon DEF do_prepare_parse
<1> QED BY <1>2, <1>3, Zenon

(* A tunnel that changes its stage, and its obfs state, and nothing else. *)
Moved(w, u) ==
    /\ u.init_pkg = w.init_pkg /\ u.addr = w.addr /\ u.rd = w.rd /\ u.wr = w.wr
    /\ u.reading = w.reading /\ u.wreq = w.wreq /\ u.conn = w.conn
    /\ u.gai = w.gai /\ u.terminated = w.terminated
    /\ u.ref_count = w.ref_count /\ u.closing = w.closing /\ u.freed = w.freed
    /\ u.taken = w.taken /\ u.delivered = w.delivered /\ u.failed = w.failed

(* Setting the stage leaves every socket as it is. *)
LEMMA StageMoved ==
    ASSUME NEW w, IsTunnel(w), NEW s \in Stages
    PROVE  LET u == [w EXCEPT !.stage = s]
           IN  IsTunnel(u) /\ Moved(w, u) /\ u.stage = s /\ u.obfs = w.obfs
  BY Zenon DEF IsTunnel, Moved

(* Setting the stage and ending the obfuscation handshake leaves every
   socket as it is. *)
LEMMA StageObfsMoved ==
    ASSUME NEW w, IsTunnel(w), NEW s \in Stages
    PROVE  LET u == [w EXCEPT !.stage = s, !.obfs = "plain"]
           IN  IsTunnel(u) /\ Moved(w, u) /\ u.stage = s /\ u.obfs = "plain"
  BY Zenon DEF IsTunnel, Moved, ObfsStates

(* The incoming socket of a settled tunnel may be read and written. *)
LEMMA SettledUsable ==
    ASSUME NEW t, Settled(t)
    PROVE  /\ IsTunnel(t) /\ StreamUsable(t, "in")
           /\ t.rd["in"] = "stop" /\ t.wr["in"] = "stop"
  BY Zenon DEF Settled, Working, AllStop, StreamUsable, Alive, Sides

(* Answering the client with a receipt or a confirmation is good. *)
LEMMA SendGood ==
    ASSUME NEW t, Settled(t), NEW t0, Before(t0), NEW u, IsTunnel(u),
           Moved(socket_write(t, "in"), u),
           u.stage \in {"receipt_done", "confirm_done"},
           u.stage = "receipt_done" => u.obfs = "plain"
    PROVE  GoodStep(t0, u)
<1> DEFINE w == socket_write(t, "in")
<1>1. /\ IsTunnel(w) /\ Alike(t, w) /\ w.rd = t.rd /\ w.reading = t.reading
      /\ w.wr = [t.wr EXCEPT !["in"] = "busy"]
      /\ w.wreq = [t.wreq EXCEPT !["in"] = TRUE]
  BY ZenonT(30), SettledUsable, WriteEffect DEF Sides
<1>2. Moved(w, u)
  BY Zenon
<1> HIDE DEF w
<1>3. /\ u.ref_count = 0 /\ u.closing = {} /\ ~u.freed /\ ~u.gai /\ u.conn = "none"
      /\ ~u.terminated /\ u.failed \subseteq {"init_package.result"}
      /\ u.taken = Both(0) /\ u.delivered = Both(0)
  BY <1>1, <1>2 DEF Settled, Working, Alive, Moved, Alike, Frame
<1>4. /\ t.wr \in [Sides -> SockStates] /\ t.wreq \in [Sides -> BOOLEAN]
      /\ \A c \in Sides : t.rd[c] = "stop" /\ t.wr[c] = "stop"
      /\ \A c \in Sides : ~t.wreq[c] /\ ~t.reading[c]
  BY Zenon DEF Settled, AllStop, Working, IsTunnel
<1>5. /\ u.rd = t.rd /\ u.reading = t.reading
      /\ u.wr = [t.wr EXCEPT !["in"] = "busy"]
      /\ u.wreq = [t.wreq EXCEPT !["in"] = TRUE]
  BY <1>1, <1>2 DEF Moved
<1>6. Shape(u, "stop", "busy", "stop", "stop")
  BY <1>4, <1>5, Zenon DEF Shape, Sides
<1>7. StageShape(u)
  BY <1>3, <1>6, Zenon DEF StageShape
<1>8. \A c \in Sides : (u.wreq[c] <=> u.wr[c] = "busy") /\ ~u.reading[c]
  BY <1>4, <1>5 DEF Sides
<1>9. LiveInv(u)
  BY <1>3, <1>7, <1>8, Zenon DEF LiveInv
<1>10. TunnelInv(u)
  BY <1>3, <1>9, Zenon DEF TunnelInv, DestInv
<1>11. Quiet(t0, u) /\ RelayStep(t0, u)
  BY <1>3, Zenon DEF Quiet, RelayStep, RelayPhase, SameCounts, Before, Alive
<1>12. Stays(t0, u)
  BY <1>3, Zenon DEF Stays, Before, Alive
<1> QED BY <1>10, <1>11, <1>12, Zenon DEF GoodStep

(* do_init_package is good whatever the cipher makes of the first package. *)
LEMMA InitPackageGood ==
    ASSUME NEW t, Settled(t), NEW t0, Before(t0), NEW ips, GoodCache(ips), NEW o,
           o.dec \in {"null", "empty", "receipt", "data", "confirm"},
           o.pkg \in Packages, o.err \in BOOLEAN
    PROVE  GoodStep(t0, do_init_package(t, "pos", o, ips))
<1> DEFINE f == ASSERT("init_package.result", o.dec # "null")
           p == [t EXCEPT !.failed = @ \cup f, !.init_pkg = o.pkg]
<1>1. \A x \in f : x = "init_package.result"
  BY Zenon DEF ASSERT
<1>2. Settled(p)
  BY ZenonT(30), <1>1, SettledPackage
<1>3. do_init_package(t, "pos", o, ips) =
        IF o.dec = "receipt"
        THEN [socket_write(t, "in") EXCEPT !.stage = "receipt_done",
                                           !.obfs = "plain"]
        ELSE IF o.dec = "confirm"
        THEN [socket_write(p, "in") EXCEPT !.stage = "confirm_done"]
        ELSE do_prepare_parse(p, ips, o.err)
  BY Zenon DEF do_init_package
<1> HIDE DEF p
<1>4. CASE o.dec = "receipt"
  <2>1. IsTunnel(socket_write(t, "in"))
    BY ZenonT(30), SettledUsable, WriteEffect DEF Sides
  <2> DEFINE u == [socket_write(t, "in") EXCEPT !.stage = "receipt_done",
                                                !.obfs = "plain"]
  <2>2. /\ IsTunnel(u) /\ Moved(socket_write(t, "in"), u)
        /\ u.stage = "receipt_done" /\ u.obfs = "plain"
    BY ZenonT(30), <2>1, StageObfsMoved DEF Stages
  <2>3. do_init_package(t, "pos", o, ips) = u
    BY <1>3, <1>4, Zenon
  <2> HIDE DEF u
  <2>4. GoodStep(t0, u)
    BY <2>2, SendGood, Zenon
  <2> QED BY <2>3, <2>4, Zenon
<1>5. CASE o.dec = "confirm"
  <2>1. IsTunnel(socket_write(p, "in"))
    BY ZenonT(30), <1>2, SettledUsable, WriteEffect DEF Sides
  <2> DEFINE u == [socket_write(p, "in") EXCEPT !.stage = "confirm_done"]
  <2>2. /\ IsTunnel(u) /\ Moved(socket_write(p, "in"), u)
        /\ u.stage = "confirm_done"
    BY ZenonT(30), <2>1, StageMoved DEF Stages
  <2>3. do_init_package(t, "pos", o, ips) = u
    BY <1>3, <1>5, Zenon
  <2> HIDE DEF u
  <2>4. GoodStep(t0, u)
    BY <1>2, <2>2, SendGood, Zenon
  <2> QED BY <2>3, <2>4, Zenon
<1>6. CASE o.dec \notin {"receipt", "confirm"}
  BY <1>2, <1>3, <1>6, PrepareParseGood, Zenon
<1> QED BY <1>4, <1>5, <1>6, Zenon

(* do_client_feedback is good whatever the cipher makes of the feedback. *)
LEMMA ClientFeedbackGood ==
    ASSUME NEW t, Settled(t), NEW t0, Before(t0), NEW ips, GoodCache(ips), NEW o,
           o.dec \in {"null", "empty", "data", "confirm"},
           o.pkg \in Packages, o.err \in BOOLEAN
    PROVE  GoodStep(t0, do_client_feedback(t, "pos", o, ips))
<1> DEFINE a == Check(t, "client_feedback.no_receipt", o.dec # "receipt")
           p == [a EXCEPT !.init_pkg = o.pkg]
<1>1. IsTunnel(t) /\ SameCounts(t0, t) /\ Alive(t0)
  BY Zenon DEF Settled, Working, SameCounts, Before
<1>2. Settled(a)
  <2>1. /\ IsTunnel(a) /\ Moved(t, a) /\ a.stage = t.stage
    BY <1>1, SMT DEF Check, ASSERT, IsTunnel, Moved
  <2> HIDE DEF a
  <2> QED BY <2>1 DEF Settled, Working, AllStop, Alive, DestInv, Moved
<1>3. do_client_feedback(t, "pos", o, ips) =
        IF o.dec \notin {"data", "confirm"} THEN tunnel_shutdown(a)
        ELSE IF o.dec = "confirm"
        THEN [socket_write(p, "in") EXCEPT !.stage = "confirm_done"]
        ELSE do_prepare_parse(p, ips, o.err)
  BY Zenon DEF do_client_feedback
<1> HIDE DEF a
<1>4. Settled(p)
  <2>1. IsTunnel(a)
    BY <1>2, Zenon DEF Settled, Working
  <2>2. IsTunnel(p) /\ p.stage = a.stage /\ p.rd = a.rd /\ p.wr = a.wr
        /\ p.reading = a.reading /\ p.wreq = a.wreq /\ p.conn = a.conn
        /\ p.gai = a.gai /\ p.terminated = a.terminated
        /\ p.ref_count = a.ref_count /\ p.closing = a.closing /\ p.freed = a.freed
        /\ p.taken = a.taken /\ p.delivered = a.delivered /\ p.failed = a.failed
    BY <2>1, SMT DEF IsTunnel
  <2> HIDE DEF p
  <2> QED BY <1>2, <2>2 DEF Settled, Working, AllStop, Alive, DestInv
<1> HIDE DEF p
<1>5. CASE o.dec \notin {"data", "confirm"}
  <2>1. Working(a) /\ SameCounts(t0, a)
    BY <1>2, Zenon DEF Settled, SameCounts, Before
  <2> QED BY <1>1, <1>3, <1>5, <2>1, ShutdownGood, Zenon
<1>6. CASE o.dec = "confirm"
  <2>1. IsTunnel(socket_write(p, "in"))
    BY ZenonT(30), <1>4, SettledUsable, WriteEffect DEF Sides
  <2> DEFINE u == [socket_write(p, "in") EXCEPT !.stage = "confirm_done"]
  <2>2. /\ IsTunnel(u) /\ Moved(socket_write(p, "in"), u)
        /\ u.stage = "confirm_done"
    BY ZenonT(30), <2>1, StageMoved DEF Stages
  <2>3. do_client_feedback(t, "pos", o, ips) = u
    BY <1>3, <1>6, Zenon
  <2> HIDE DEF u
  <2>4. GoodStep(t0, u)
    BY <1>4, <2>2, SendGood, Zenon
  <2> QED BY <2>3, <2>4, Zenon
<1>7. CASE o.dec = "data"
  BY <1>3, <1>4, <1>7, PrepareParseGood, Zenon
<1> QED BY <1>5, <1>6, <1>7, Zenon

(* Reading the client's feedback after the receipt is written is good. *)
LEMMA AwaitFeedbackGood ==
    ASSUME NEW t, Settled(t), NEW t0, Before(t0), t.obfs = "plain"
    PROVE  GoodStep(t0, [socket_read(t, "in", TRUE)
                            EXCEPT !.stage = "client_feedback"])
<1> DEFINE w == socket_read(t, "in", TRUE)
           u == [w EXCEPT !.stage = "client_feedback"]
<1>1. /\ IsTunnel(w) /\ Alike(t, w) /\ w.wr = t.wr /\ w.wreq = t.wreq
      /\ w.rd = [t.rd EXCEPT !["in"] = "busy"]
      /\ w.reading = [t.reading EXCEPT !["in"] = TRUE]
  BY ZenonT(30), SettledUsable, ReadEffect DEF Sides
<1> HIDE DEF w
<1>2. IsTunnel(u) /\ Moved(w, u) /\ u.stage = "client_feedback" /\ u.obfs = w.obfs
  BY ZenonT(30), <1>1, StageMoved DEF Stages
<1> HIDE DEF u
<1>3. /\ u.ref_count = 0 /\ u.closing = {} /\ ~u.freed /\ ~u.gai /\ u.conn = "none"
      /\ ~u.terminated /\ u.failed \subseteq {"init_package.result"}
      /\ u.taken = Both(0) /\ u.delivered = Both(0) /\ u.obfs = "plain"
  BY <1>1, <1>2 DEF Settled, Working, Alive, Moved, Alike, Frame
<1>4. /\ t.rd \in [Sides -> SockStates] /\ t.reading \in [Sides -> BOOLEAN]
      /\ \A c \in Sides : t.rd[c] = "stop" /\ t.wr[c] = "stop"
      /\ \A c \in Sides : ~t.wreq[c] /\ ~t.reading[c]
  BY Zenon DEF Settled, AllStop, Working, IsTunnel
<1>5. /\ u.wr = t.wr /\ u.wreq = t.wreq
      /\ u.rd = [t.rd EXCEPT !["in"] = "busy"]
      /\ u.reading = [t.reading EXCEPT !["in"] = TRUE]
  BY <1>1, <1>2, Zenon DEF Moved
<1>6. Shape(u, "busy", "stop", "stop", "stop")
  BY <1>4, <1>5, Zenon DEF Shape, Sides
<1>7. StageShape(u)
  BY <1>2, <1>3, <1>6, Zenon DEF StageShape
<1>8. \A c \in Sides : ~u.wreq[c] /\ u.wr[c] # "busy"
                       /\ (u.reading[c] => u.rd[c] = "busy")
  BY <1>4, <1>5, Zenon DEF Sides
<1>9. LiveInv(u)
  BY <1>2, <1>3, <1>7, <1>8, Zenon DEF LiveInv
<1>10. TunnelInv(u)
  BY <1>2, <1>3, <1>9, Zenon DEF TunnelInv, DestInv
<1>11. Quiet(t0, u) /\ RelayStep(t0, u)
  BY <1>2, <1>3, Zenon DEF Quiet, RelayStep, RelayPhase, SameCounts, Before, Alive
<1>12. Stays(t0, u)
  BY <1>2, <1>3, Zenon DEF Stays, Before, Alive
<1> QED BY <1>10, <1>11, <1>12, Zenon DEF GoodStep, u, w

(* An assertion whose condition holds changes nothing. *)
LEMMA CheckHolds ==
    ASSUME NEW t, IsTunnel(t), NEW n, NEW cond, cond = TRUE
    PROVE  LET a == Check(t, n, cond)
           IN  /\ IsTunnel(a) /\ Moved(t, a) /\ a.timer = t.timer
               /\ a.stage = t.stage /\ a.obfs = t.obfs
  BY SMT DEF Check, ASSERT, IsTunnel, Moved

(* do_resolve_host_done is good: it connects to the answer of the lookup. *)
LEMMA ResolveDoneGood ==
    ASSUME NEW t, Settled(t), NEW t0, Before(t0), NEW err \in BOOLEAN,
           t.addr.port = t.init_pkg.port, IsAnswer(t.init_pkg.name, t.addr.ip)
    PROVE  GoodStep(t0, do_resolve_host_done(t, "zero", err))
<1> DEFINE ok == \A c \in Sides : t.rd[c] \in {"stop", "done"}
                                 /\ t.wr[c] \in {"stop", "done"}
           a == Check(t, "resolve_host_done.settled", ok)
<1>1. IsTunnel(t) /\ ok = TRUE
  BY Zenon DEF Settled, Working, AllStop
<1>2. do_resolve_host_done(t, "zero", err) = do_connect_host_start(a, err)
  BY Zenon DEF do_resolve_host_done
<1> HIDE DEF ok
<1>3. IsTunnel(a) /\ Moved(t, a) /\ a.stage = t.stage
  BY ZenonT(30), <1>1, CheckHolds
<1> HIDE DEF a
<1>4. Settled(a) /\ a.addr = t.addr /\ a.init_pkg = t.init_pkg
  BY <1>3 DEF Settled, Working, AllStop, Alive, DestInv, Moved
<1> QED BY <1>2, <1>4, ConnectStartGood, Zenon

-----------------------------------------------------------------------------
(* The outgoing socket is connected and nothing is pending. *)
Connected(t) ==
    /\ Working(t) /\ t.conn = "up" /\ ~t.gai
    /\ t.rd = Both("stop") /\ t.wr["in"] = "stop"
    /\ t.reading = Both(FALSE) /\ t.wreq = Both(FALSE)
    /\ t.delivered = Both(0) /\ t.taken["out"] = 0

(* do_launch_streaming is good: both directions start with nothing in
   flight. *)
LEMMA LaunchGood ==
    ASSUME NEW t, Connected(t), t.wr["out"] = "done",
           NEW t0, Alive(t0), t0.delivered = Both(0), t.taken = t0.taken,
           \/ t0.stage = "connect_host" /\ t0.taken = Both(0)
           \/ t0.stage = "launch_streaming" /\ t0.taken["in"] = 1
    PROVE  GoodStep(t0, do_launch_streaming(t, "zero"))
<1> DEFINE ok == /\ AllStop([t EXCEPT !.wr["out"] = "stop"])
                 /\ t.wr["out"] = "done"
           a == Check(t, "launch_streaming.out_written", ok)
           s == [a EXCEPT !.wr["out"] = "stop",
                          !.delivered["out"] = t.taken["in"]]
           x == socket_read(s, "in", FALSE)
           b == socket_read(x, "out", TRUE)
           u == [b EXCEPT !.stage = "streaming"]
<1>1. IsTunnel(t) /\ t.rd = Both("stop") /\ t.wr["in"] = "stop"
  BY Zenon DEF Connected, Working
<1>2. ok = TRUE
  BY <1>1, SMT DEF AllStop, Sides, Both, IsTunnel
<1>3. do_launch_streaming(t, "zero") = u
  BY Zenon DEF do_launch_streaming
<1> HIDE DEF ok
<1>4. IsTunnel(a) /\ Moved(t, a) /\ a.stage = t.stage /\ a.obfs = t.obfs
  BY <1>1, <1>2, SMT DEF Check, ASSERT, IsTunnel, Moved
<1> HIDE DEF a
<1>5. t.taken["in"] \in Nat
  BY <1>1, Zenon DEF IsTunnel, Sides
<1>6. /\ IsTunnel(s) /\ s.rd = a.rd /\ s.wr = [a.wr EXCEPT !["out"] = "stop"]
      /\ s.delivered = [a.delivered EXCEPT !["out"] = t.taken["in"]]
      /\ s.taken = a.taken /\ s.reading = a.reading /\ s.wreq = a.wreq
      /\ s.stage = a.stage /\ s.init_pkg = a.init_pkg /\ s.addr = a.addr
      /\ s.conn = a.conn /\ s.gai = a.gai /\ s.terminated = a.terminated
      /\ s.ref_count = a.ref_count /\ s.closing = a.closing /\ s.freed = a.freed
      /\ s.failed = a.failed
  BY <1>4, <1>5, SMT DEF IsTunnel, Sides, SockStates
<1> HIDE DEF s
<1>7. /\ StreamUsable(s, "in") /\ StreamUsable(s, "out")
      /\ s.rd["in"] = "stop" /\ s.rd["out"] = "stop"
  BY <1>4, <1>6 DEF Connected, Moved, StreamUsable, Working, Alive, Both, Sides
<1>8. /\ IsTunnel(x) /\ Alike(s, x) /\ x.wr = s.wr /\ x.wreq = s.wreq
      /\ x.rd = [s.rd EXCEPT !["in"] = "busy"]
      /\ x.reading = [s.reading EXCEPT !["in"] = TRUE]
  BY ZenonT(30), <1>6, <1>7, ReadEffect DEF Sides
<1> HIDE DEF x
<1>9. x.rd["out"] = "stop" /\ StreamUsable(x, "out")
  BY <1>6, <1>7, <1>8 DEF StreamUsable, Alike, Frame, IsTunnel, Sides
<1>10. /\ IsTunnel(b) /\ Alike(x, b) /\ b.wr = x.wr /\ b.wreq = x.wreq
       /\ b.rd = [x.rd EXCEPT !["out"] = "busy"]
       /\ b.reading = [x.reading EXCEPT !["out"] = TRUE]
  BY ZenonT(30), <1>8, <1>9, ReadEffect DEF Sides
<1> HIDE DEF b
<1>11. IsTunnel(u) /\ Moved(b, u) /\ u.stage = "streaming"
  BY ZenonT(30), <1>10, StageMoved DEF Stages
<1> HIDE DEF u
<1>12. /\ u.rd["in"] = "busy" /\ u.rd["out"] = "busy"
       /\ u.wr["in"] = "stop" /\ u.wr["out"] = "stop"
       /\ ~u.wreq["in"] /\ ~u.wreq["out"]
       /\ u.taken = t.taken
       /\ u.delivered = [t.delivered EXCEPT !["out"] = t.taken["in"]]
  <2>1. /\ u.rd = [[s.rd EXCEPT !["in"] = "busy"] EXCEPT !["out"] = "busy"]
        /\ u.wr = s.wr /\ u.wreq = s.wreq
        /\ u.taken = s.taken /\ u.delivered = s.delivered
    BY <1>8, <1>10, <1>11 DEF Moved, Alike, Frame
  <2>2. s.rd \in [Sides -> SockStates] /\ t.wr \in [Sides -> SockStates]
    BY <1>1, <1>6, Zenon DEF IsTunnel
  <2>3. /\ s.wr = [t.wr EXCEPT !["out"] = "stop"] /\ s.wreq = Both(FALSE)
        /\ s.taken = t.taken
        /\ s.delivered = [t.delivered EXCEPT !["out"] = t.taken["in"]]
    BY SMTT(30), <1>4, <1>6 DEF Moved, Connected
  <2> QED BY <1>1, <2>1, <2>2, <2>3 DEF Sides, Both
<1>13. /\ u.ref_count = 0 /\ u.closing = {} /\ ~u.freed /\ ~u.gai /\ u.conn = "up"
       /\ ~u.terminated /\ u.failed \subseteq {"init_package.result"}
       /\ u.init_pkg = t.init_pkg /\ u.addr = t.addr
  BY SMTT(30), <1>4, <1>6, <1>8, <1>10, <1>11 DEF Connected, Working, Alive, Moved, Alike, Frame
<1>14. /\ u.taken["out"] = u.delivered["in"] /\ u.taken["in"] = u.delivered["out"]
  <2>1. t.delivered = Both(0) /\ t.taken["out"] = 0
    BY Zenon DEF Connected
  <2> QED BY <1>12, <2>1 DEF Both, Sides
<1>15. StageShape(u)
  BY <1>11, <1>12, <1>14, Zenon DEF StageShape, Direction, Other
<1>16. LiveInv(u)
  BY <1>11, <1>12, <1>13, <1>15 DEF LiveInv, Sides
<1>17. TunnelInv(u)
  <2>1. DestInv(u)
    BY <1>13, Zenon DEF DestInv, Connected, Working
  <2> QED BY <1>11, <1>13, <1>16, <2>1 DEF TunnelInv
<1>18. RelayStep(t0, u)
  <2>1. u.taken = t0.taken /\ u.delivered = [Both(0) EXCEPT !["out"] = t0.taken["in"]]
    BY <1>12, Zenon DEF Connected
  <2>2. RelayPhase(u) = "open"
    BY <1>11, <1>13, Zenon DEF RelayPhase
  <2>3. CASE t0.stage = "connect_host" /\ t0.taken = Both(0)
    <3>1. u.delivered = t0.delivered
      BY <2>1, <2>3 DEF Both, Sides
    <3> QED BY <2>1, <2>2, <2>3, <3>1 DEF RelayStep, RelayPhase, Alive
  <2>4. CASE t0.stage = "launch_streaming" /\ t0.taken["in"] = 1
    <3>1. /\ u.delivered = [t0.delivered EXCEPT !["out"] = @ + 1]
          /\ t0.taken["in"] = t0.delivered["out"] + 1
      BY <2>1, <2>4 DEF Both, Sides
    <3>2. RelayPhase(t0) = "open"
      BY <2>4, Zenon DEF RelayPhase, Alive
    <3> QED BY <2>1, <2>2, <3>1, <3>2, Zenon DEF RelayStep, Sides, Other
  <2> QED BY <2>3, <2>4, Zenon
<1>19. Quiet(t0, u)
  BY Zenon DEF Quiet, Alive
<1>20. Stays(t0, u)
  BY <1>11, <1>13, Zenon DEF Stays, Alive
<1> QED BY <1>3, <1>17, <1>18, <1>19, <1>20, Zenon DEF GoodStep

(* do_connect_host_done is good, with and without a payload to send first. *)
LEMMA ConnectHostDoneGood ==
    ASSUME NEW t, Connected(t), t.wr["out"] = "stop", t.taken = Both(0),
           NEW t0, Alive(t0), t0.stage = "connect_host",
           t0.taken = Both(0), t0.delivered = Both(0)
    PROVE  GoodStep(t0, do_connect_host_done(t, "zero"))
<1> DEFINE ok == AllStop(t)
           a == Check(t, "connect_host_done.all_stop", ok)
           n == [a EXCEPT !.wr["out"] = "done"]
           y == [a EXCEPT !.taken["in"] = 1]
           w == socket_write(y, "out")
           u == [w EXCEPT !.stage = "launch_streaming"]
<1>1. IsTunnel(t) /\ ok = TRUE
  BY DEF Connected, Working, AllStop, Sides, Both
<1>2. do_connect_host_done(t, "zero") =
        IF t.init_pkg.payload THEN u ELSE do_launch_streaming(n, "zero")
  BY Zenon DEF do_connect_host_done
<1> HIDE DEF ok
<1>3. IsTunnel(a) /\ Moved(t, a) /\ a.stage = t.stage
  BY <1>1, SMT DEF Check, ASSERT, IsTunnel, Moved
<1> HIDE DEF a
<1>4. CASE ~t.init_pkg.payload
  <2>1. /\ IsTunnel(n) /\ n.wr = [a.wr EXCEPT !["out"] = "done"] /\ n.rd = a.rd
        /\ n.reading = a.reading /\ n.wreq = a.wreq /\ n.conn = a.conn
        /\ n.gai = a.gai /\ n.terminated = a.terminated /\ n.stage = a.stage
        /\ n.ref_count = a.ref_count /\ n.closing = a.closing /\ n.freed = a.freed
        /\ n.taken = a.taken /\ n.delivered = a.delivered /\ n.failed = a.failed
        /\ n.init_pkg = a.init_pkg /\ n.addr = a.addr
    BY <1>3, Zenon DEF IsTunnel, Sides, SockStates
  <2> HIDE DEF n
  <2>2. a.wr \in [Sides -> SockStates] /\ a.wr["in"] = "stop" /\ a.rd = Both("stop")
    BY <1>3 DEF IsTunnel, Connected, Moved
  <2>3. n.wr["out"] = "done" /\ n.wr["in"] = "stop" /\ n.rd = Both("stop")
    BY <2>1, <2>2, Zenon DEF Sides
  <2>4. DestInv(n)
    BY <1>3, <2>1 DEF DestInv, Moved, Connected, Working
  <2>5. \A c \in Sides : n.rd[c] # "dead" /\ n.wr[c] # "dead"
    BY <2>3, Zenon DEF Sides, Both
  <2>6. Connected(n) /\ n.taken = Both(0)
    BY <1>3, <2>1, <2>3, <2>4, <2>5 DEF Connected, Working, Alive, Moved
  <2> QED BY <1>2, <1>4, <2>3, <2>6, LaunchGood, Zenon
<1>5. CASE t.init_pkg.payload
  <2>1. /\ IsTunnel(y) /\ y.taken = [a.taken EXCEPT !["in"] = 1] /\ y.rd = a.rd
        /\ y.wr = a.wr
        /\ y.reading = a.reading /\ y.wreq = a.wreq /\ y.conn = a.conn
        /\ y.gai = a.gai /\ y.terminated = a.terminated /\ y.stage = a.stage
        /\ y.ref_count = a.ref_count /\ y.closing = a.closing /\ y.freed = a.freed
        /\ y.delivered = a.delivered /\ y.failed = a.failed
        /\ y.init_pkg = a.init_pkg /\ y.addr = a.addr
    BY <1>3, Zenon DEF IsTunnel, Sides
  <2> HIDE DEF y
  <2>2. y.wr["out"] = "stop" /\ StreamUsable(y, "out")
    BY <1>3, <2>1 DEF Connected, Moved, StreamUsable, Working, Alive
  <2>3. /\ IsTunnel(w) /\ Alike(y, w) /\ w.rd = y.rd /\ w.reading = y.reading
        /\ w.wr = [y.wr EXCEPT !["out"] = "busy"]
        /\ w.wreq = [y.wreq EXCEPT !["out"] = TRUE]
    BY ZenonT(30), <2>1, <2>2, WriteEffect DEF Sides
  <2> HIDE DEF w
  <2>4. IsTunnel(u) /\ Moved(w, u) /\ u.stage = "launch_streaming"
    BY ZenonT(30), <2>3, StageMoved DEF Stages
  <2> HIDE DEF u
  <2>5. /\ u.ref_count = 0 /\ u.closing = {} /\ ~u.freed /\ ~u.gai /\ u.conn = "up"
        /\ ~u.terminated /\ u.failed \subseteq {"init_package.result"}
        /\ u.init_pkg = t.init_pkg /\ u.addr = t.addr
        /\ u.rd = Both("stop") /\ u.reading = Both(FALSE) /\ u.delivered = Both(0)
        /\ u.wr = [t.wr EXCEPT !["out"] = "busy"]
        /\ u.wreq = [Both(FALSE) EXCEPT !["out"] = TRUE]
        /\ u.taken = [Both(0) EXCEPT !["in"] = 1]
    BY SMTT(30), <1>3, <2>1, <2>3, <2>4 DEF Connected, Working, Alive, Moved, Alike, Frame
  <2>6. t.wr \in [Sides -> SockStates] /\ t.wr["in"] = "stop"
    BY <1>1, Zenon DEF IsTunnel, Connected
  <2>7. Shape(u, "stop", "stop", "stop", "busy")
    BY <2>5, <2>6 DEF Shape, Both, Sides
  <2>8. u.taken["in"] = 1 /\ u.taken["out"] = 0
    BY <2>5, Zenon DEF Both, Sides
  <2>9. \A c \in Sides : (u.wreq[c] <=> u.wr[c] = "busy") /\ ~u.reading[c]
    BY <2>5, <2>6 DEF Both, Sides
  <2>10. StageShape(u)
    BY <2>4, <2>5, <2>7, <2>8, Zenon DEF StageShape
  <2>11. LiveInv(u)
    BY ZenonT(30), <2>4, <2>5, <2>9, <2>10 DEF LiveInv
  <2>12. DestInv(u)
    BY <2>5, Zenon DEF DestInv, Connected, Working
  <2>13. TunnelInv(u)
    BY <2>4, <2>5, <2>11, <2>12 DEF TunnelInv
  <2>14. u.taken = [t0.taken EXCEPT !["in"] = @ + 1]
    BY <2>5 DEF Both, Sides
  <2>15. RelayStep(t0, u) /\ Quiet(t0, u)
    BY <2>4, <2>5, <2>14, Zenon DEF RelayStep, RelayPhase, Quiet, Alive
  <2>16. Stays(t0, u)
    BY <2>4, <2>5, Zenon DEF Stays, Alive
  <2> QED BY <1>2, <1>5, <2>13, <2>15, <2>16, Zenon DEF GoodStep
<1> QED BY <1>4, <1>5, Zenon

-----------------------------------------------------------------------------
(* Streaming: what one callback does to the two sockets. *)

Streaming(t) == TunnelInv(t) /\ Alive(t) /\ t.stage = "streaming"

(* In a streaming tunnel both sockets are usable and neither is done. *)
LEMMA StreamingFacts ==
    ASSUME NEW t, Streaming(t)
    PROVE  /\ IsTunnel(t) /\ LiveInv(t) /\ t.conn = "up" /\ ~t.terminated
           /\ \A c \in Sides : Direction(t, c)
           /\ \A c \in Sides : StreamUsable(t, c)
           /\ \A c \in Sides : /\ t.rd[c] \in {"stop", "busy"}
                               /\ t.wr[c] \in {"stop", "busy"}
<1>1. IsTunnel(t) /\ LiveInv(t) /\ t.conn = "up" /\ ~t.terminated
  BY Zenon DEF Streaming, TunnelInv, LiveInv, Alive
<1>2. Direction(t, "in") /\ Direction(t, "out")
  BY <1>1, Zenon DEF Streaming, LiveInv, StageShape
<1> QED BY <1>1, <1>2 DEF Direction, Sides, Other, StreamUsable

(* A tunnel that streams on: both directions keep their shape. *)
LEMMA StreamOn ==
    ASSUME NEW t, Streaming(t), NEW u, IsTunnel(u), u.stage = "streaming",
           u.conn = t.conn, u.gai = t.gai, u.terminated = t.terminated,
           u.ref_count = t.ref_count, u.closing = t.closing, u.freed = t.freed,
           u.failed = t.failed, u.init_pkg = t.init_pkg, u.addr = t.addr,
           \A c \in Sides : Direction(u, c),
           \A c \in Sides : /\ u.wreq[c] <=> u.wr[c] = "busy"
                            /\ u.reading[c] => u.rd[c] = "busy"
    PROVE  TunnelInv(u) /\ Quiet(t, u)
<1>1. LiveInv(t) /\ ~t.terminated
  BY StreamingFacts, Zenon
<1>2. StageShape(u)
  BY Zenon DEF StageShape, Sides
<1>3. u.ref_count = 0 /\ u.closing = {} /\ ~u.freed /\ ~u.gai /\ u.conn = "up"
  BY <1>1 DEF LiveInv, Streaming
<1>4. LiveInv(u)
  BY <1>2, <1>3, Zenon DEF LiveInv
<1>5. DestInv(u) /\ u.failed \subseteq {"init_package.result"}
  BY Zenon DEF DestInv, Streaming, TunnelInv
<1> QED BY <1>1, <1>4, <1>5, Zenon DEF TunnelInv, Quiet

(* Both assertions at the head of tunnel_traditional_streaming hold. *)
Checked(s, c) ==
    [s EXCEPT !.failed = @
        \cup ASSERT("streaming.one_of_read_write_done",
                    (s.wr[c] = "done") # (s.rd[c] = "done"))
        \cup ASSERT("streaming.target_not_done",
                    s.wr[Other(c)] # "done" /\ s.rd[Other(c)] # "done")]

(* The two assertions at the head of tunnel_traditional_streaming hold. *)
LEMMA StreamingChecks ==
    ASSUME NEW s, IsTunnel(s), NEW c \in Sides,
           \/ s.wr[c] = "done" /\ s.rd[c] # "done"
           \/ s.wr[c] # "done" /\ s.rd[c] = "done",
           s.wr[Other(c)] # "done", s.rd[Other(c)] # "done"
    PROVE  /\ IsTunnel(Checked(s, c)) /\ Moved(s, Checked(s, c))
           /\ Checked(s, c).stage = s.stage
<1> DEFINE p == (s.wr[c] = "done") # (s.rd[c] = "done")
           q == s.wr[Other(c)] # "done" /\ s.rd[Other(c)] # "done"
<1>1. p = TRUE /\ q = TRUE
  BY Zenon
<1>2. Checked(s, c) = [s EXCEPT !.failed = @
                          \cup ASSERT("streaming.one_of_read_write_done", p)
                          \cup ASSERT("streaming.target_not_done", q)]
  BY Zenon DEF Checked
<1> HIDE DEF p, q
<1> QED BY <1>1, <1>2, SMT DEF ASSERT, IsTunnel, Moved

(* A finished write of a streaming tunnel is a good step. *)
LEMMA WrittenGood ==
    ASSUME NEW t, Streaming(t), NEW c \in Sides, t.wreq[c],
           NEW s, IsTunnel(s), s.stage = "streaming", s.conn = t.conn,
           s.gai = t.gai, s.terminated = t.terminated, s.ref_count = t.ref_count,
           s.closing = t.closing, s.freed = t.freed, s.failed = t.failed,
           s.init_pkg = t.init_pkg, s.addr = t.addr, s.rd = t.rd,
           s.reading = t.reading, s.wr = [t.wr EXCEPT ![c] = "done"],
           s.wreq = [t.wreq EXCEPT ![c] = FALSE], SameCounts(t, s), NEW e
    PROVE  GoodStep(t, tunnel_traditional_streaming(s, c, e))
<1> DEFINE o == Other(c)
<1>0. o \in Sides /\ o # c /\ Other(o) = c /\ \A d \in Sides : d = c \/ d = o
  BY Zenon DEF Other, Sides
<1>1. /\ IsTunnel(t) /\ LiveInv(t) /\ t.conn = "up" /\ ~t.terminated
      /\ Direction(t, c) /\ Direction(t, o)
      /\ t.rd[c] \in {"stop", "busy"} /\ t.rd[o] \in {"stop", "busy"}
      /\ t.wr[o] \in {"stop", "busy"}
  BY <1>0, StreamingFacts
<1>2. t.wr[c] = "busy"
  BY <1>1, Zenon DEF LiveInv
<1>3. t.rd[o] = "stop" /\ t.taken[o] = t.delivered[c] + 1
  BY <1>0, <1>1, <1>2 DEF Direction
<1>4. t.wr \in [Sides -> SockStates] /\ t.rd \in [Sides -> SockStates]
      /\ t.wreq \in [Sides -> BOOLEAN] /\ t.reading \in [Sides -> BOOLEAN]
      /\ t.taken \in [Sides -> Nat] /\ t.delivered \in [Sides -> Nat]
  BY <1>1, Zenon DEF IsTunnel
<1>5. s.wr[c] = "done" /\ s.rd[c] # "done" /\ s.wr[o] # "done" /\ s.rd[o] # "done"
  BY <1>0, <1>1, <1>4
<1> HIDE DEF o
<1> DEFINE a == Checked(s, c)
<1>6. /\ IsTunnel(a) /\ Moved(s, a) /\ a.stage = s.stage
      /\ tunnel_traditional_streaming(s, c, e) = streaming_written(a, c)
  <2>1. tunnel_traditional_streaming(s, c, e) = streaming_written(a, c)
    BY <1>5, Zenon DEF tunnel_traditional_streaming, Checked
  <2> QED BY ZenonT(30), <1>5, <2>1, StreamingChecks DEF o
<1> HIDE DEF a
<1> DEFINE b == [a EXCEPT !.wr[c] = "stop", !.delivered[c] = @ + 1]
           k == o = "out"
           u == socket_read(b, o, k)
<1>7. streaming_written(a, c) = IF b.rd[o] = "stop" THEN u ELSE b
  BY Zenon DEF streaming_written, o
<1>8. /\ IsTunnel(b) /\ b.wr = [a.wr EXCEPT ![c] = "stop"] /\ b.rd = a.rd
      /\ b.delivered = [a.delivered EXCEPT ![c] = @ + 1] /\ b.taken = a.taken
      /\ b.reading = a.reading /\ b.wreq = a.wreq /\ b.stage = a.stage
      /\ b.conn = a.conn /\ b.gai = a.gai /\ b.terminated = a.terminated
      /\ b.ref_count = a.ref_count /\ b.closing = a.closing /\ b.freed = a.freed
      /\ b.failed = a.failed /\ b.init_pkg = a.init_pkg /\ b.addr = a.addr
  BY <1>6, SMT DEF IsTunnel, SockStates
<1> HIDE DEF b
<1>9. b.rd[o] = "stop" /\ StreamUsable(b, o)
  BY <1>1, <1>3, <1>6, <1>8 DEF Moved, StreamUsable
<1>10. /\ IsTunnel(u) /\ Alike(b, u) /\ u.wr = b.wr /\ u.wreq = b.wreq
       /\ u.rd = [b.rd EXCEPT ![o] = "busy"]
       /\ u.reading = [b.reading EXCEPT ![o] = TRUE]
  <2>1. IsTunnel(b) /\ b.rd[o] = "stop" /\ StreamUsable(b, o)
    BY <1>8, <1>9, Zenon
  <2> HIDE DEF b
  <2>2. CASE o = "out"
    <3>1. u = socket_read(b, "out", TRUE)
      BY ZenonT(30), <2>2
    <3> HIDE DEF u
    <3> QED BY ZenonT(30), <2>1, <2>2, <3>1, ReadEffect DEF Sides
  <2>3. CASE o = "in"
    <3>1. u = socket_read(b, "in", FALSE)
      BY ZenonT(30), <2>3
    <3> HIDE DEF u
    <3> QED BY ZenonT(30), <2>1, <2>3, <3>1, ReadEffect DEF Sides
  <2> QED BY <1>0, <2>2, <2>3, Zenon DEF Sides
<1> HIDE DEF u
<1>11. /\ u.stage = "streaming" /\ u.conn = t.conn /\ u.gai = t.gai
       /\ u.terminated = t.terminated /\ u.ref_count = t.ref_count
       /\ u.closing = t.closing /\ u.freed = t.freed /\ u.failed = t.failed
       /\ u.init_pkg = t.init_pkg /\ u.addr = t.addr
       /\ u.rd = [t.rd EXCEPT ![o] = "busy"]
       /\ u.reading = [t.reading EXCEPT ![o] = TRUE]
       /\ u.wr = [[t.wr EXCEPT ![c] = "done"] EXCEPT ![c] = "stop"]
       /\ u.wreq = [t.wreq EXCEPT ![c] = FALSE]
       /\ u.taken = t.taken /\ u.delivered = [t.delivered EXCEPT ![c] = @ + 1]
  BY <1>6, <1>8, <1>10 DEF Moved, Alike, Frame, SameCounts
<1>12. /\ u.rd[o] = "busy" /\ u.rd[c] = t.rd[c]
       /\ u.wr[c] = "stop" /\ u.wr[o] = t.wr[o]
       /\ ~u.wreq[c] /\ u.wreq[o] = t.wreq[o] /\ u.reading[c] = t.reading[c]
       /\ u.delivered[c] = t.delivered[c] + 1 /\ u.delivered[o] = t.delivered[o]
       /\ u.taken[c] = t.taken[c] /\ u.taken[o] = t.taken[o]
  BY <1>0, <1>4, <1>11
<1>13. Direction(u, c) /\ Direction(u, o)
  BY <1>0, <1>1, <1>3, <1>12 DEF Direction, o
<1>14. \A d \in Sides : /\ Direction(u, d)
                        /\ u.wreq[d] <=> u.wr[d] = "busy"
                        /\ u.reading[d] => u.rd[d] = "busy"
  <2>1. (t.wreq[o] <=> t.wr[o] = "busy") /\ (t.reading[c] => t.rd[c] = "busy")
    BY <1>0, <1>1, Zenon DEF LiveInv
  <2>2. (u.wreq[c] <=> u.wr[c] = "busy") /\ (u.reading[c] => u.rd[c] = "busy")
    BY <1>12, <2>1
  <2>3. (u.wreq[o] <=> u.wr[o] = "busy") /\ (u.reading[o] => u.rd[o] = "busy")
    BY <1>12, <2>1
  <2> QED BY ZenonT(30), <1>0, <1>13, <2>2, <2>3
<1>15. TunnelInv(u) /\ Quiet(t, u)
  BY ZenonT(30), <1>10, <1>11, <1>14, StreamOn
<1>16. RelayStep(t, u)
  <2>1. RelayPhase(t) = "open" /\ RelayPhase(u) = "open"
    BY <1>1, <1>11, Zenon DEF RelayPhase, Streaming
  <2> QED BY <1>3, <1>11, <2>1, Zenon DEF RelayStep, o
<1>17. Stays(t, u)
  BY <1>1, <1>11 DEF Stays, LiveInv
<1> QED BY <1>5, <1>6, <1>7, <1>9, <1>15, <1>16, <1>17 DEF GoodStep

(* A finished read of a streaming tunnel is a good step. *)
LEMMA ReadGood ==
    ASSUME NEW t, Streaming(t), NEW c \in Sides, t.reading[c],
           NEW s, IsTunnel(s), s.stage = "streaming", s.conn = t.conn,
           s.gai = t.gai, s.terminated = t.terminated, s.ref_count = t.ref_count,
           s.closing = t.closing, s.freed = t.freed, s.failed = t.failed,
           s.init_pkg = t.init_pkg, s.addr = t.addr, s.wr = t.wr,
           s.wreq = t.wreq, s.rd = [t.rd EXCEPT ![c] = "done"],
           s.reading = [t.reading EXCEPT ![c] = FALSE], SameCounts(t, s),
           NEW e \in BOOLEAN
    PROVE  GoodStep(t, tunnel_traditional_streaming(s, c, e))
<1> DEFINE o == Other(c)
<1>0. o \in Sides /\ o # c /\ Other(o) = c /\ \A d \in Sides : d = c \/ d = o
  BY DEF Other, Sides
<1>1. /\ IsTunnel(t) /\ LiveInv(t) /\ t.conn = "up" /\ ~t.terminated
      /\ Direction(t, c) /\ Direction(t, o)
      /\ t.wr[c] \in {"stop", "busy"} /\ t.rd[o] \in {"stop", "busy"}
      /\ t.wr[o] \in {"stop", "busy"}
  BY <1>0, StreamingFacts
<1>2. t.rd[c] = "busy"
  BY <1>1, Zenon DEF LiveInv
<1>3. t.wr[o] = "stop" /\ t.taken[c] = t.delivered[o]
  BY <1>0, <1>1, <1>2, Zenon DEF Direction
<1>4. t.wr \in [Sides -> SockStates] /\ t.rd \in [Sides -> SockStates]
      /\ t.wreq \in [Sides -> BOOLEAN] /\ t.reading \in [Sides -> BOOLEAN]
      /\ t.taken \in [Sides -> Nat] /\ t.delivered \in [Sides -> Nat]
  BY <1>1, Zenon DEF IsTunnel
<1>5. s.rd[c] = "done" /\ s.wr[c] # "done" /\ s.wr[o] # "done" /\ s.rd[o] # "done"
  BY <1>0, <1>1, <1>4
<1> HIDE DEF o
<1> DEFINE a == Checked(s, c)
<1>6. /\ IsTunnel(a) /\ Moved(s, a) /\ a.stage = s.stage
      /\ tunnel_traditional_streaming(s, c, e) = streaming_read(a, c, e)
  <2>1. tunnel_traditional_streaming(s, c, e) = streaming_read(a, c, e)
    BY <1>5, Zenon DEF tunnel_traditional_streaming, Checked
  <2> QED BY ZenonT(30), <1>5, <2>1, StreamingChecks DEF o
<1> HIDE DEF a
<1> DEFINE ok == a.wr[o] = "stop"
           b == [a EXCEPT !.rd[c] = "stop", !.failed = @ \cup
                    ASSERT("streaming.target_wrstate_stop", ok)]
           y == [b EXCEPT !.taken[c] = @ + 1]
           u == socket_write(y, o)
<1>7. tunnel_traditional_streaming(s, c, e) = IF e THEN u ELSE tunnel_shutdown(b)
  <2>1. tunnel_traditional_streaming(s, c, e) = streaming_read(a, c, e)
    BY <1>5, <1>6, Zenon
  <2> QED BY <2>1, Zenon DEF streaming_read, o
<1>8. ok = TRUE
  BY <1>3, <1>6 DEF Moved
<1> HIDE DEF ok
<1>9. /\ IsTunnel(b) /\ b.rd = [a.rd EXCEPT ![c] = "stop"] /\ b.wr = a.wr
      /\ b.delivered = a.delivered /\ b.taken = a.taken
      /\ b.reading = a.reading /\ b.wreq = a.wreq /\ b.stage = a.stage
      /\ b.conn = a.conn /\ b.gai = a.gai /\ b.terminated = a.terminated
      /\ b.ref_count = a.ref_count /\ b.closing = a.closing /\ b.freed = a.freed
      /\ b.failed = a.failed /\ b.init_pkg = a.init_pkg /\ b.addr = a.addr
  BY <1>6, <1>8, SMT DEF IsTunnel, SockStates, ASSERT
<1> HIDE DEF b
<1>10. CASE e = FALSE
  <2>1. /\ b.rd = [[t.rd EXCEPT ![c] = "done"] EXCEPT ![c] = "stop"] /\ b.wr = t.wr
        /\ b.failed = t.failed /\ b.conn = t.conn /\ b.gai = t.gai
        /\ b.terminated = t.terminated /\ b.ref_count = t.ref_count
        /\ b.closing = t.closing /\ b.freed = t.freed /\ b.init_pkg = t.init_pkg
        /\ b.addr = t.addr /\ b.stage = "streaming" /\ SameCounts(t, b)
    BY <1>6, <1>9 DEF Moved, SameCounts
  <2>2. /\ b.rd[c] = "stop" /\ b.rd[o] = t.rd[o] /\ b.wr[c] = t.wr[c]
        /\ b.wr[o] = t.wr[o]
    BY <1>0, <1>4, <2>1
  <2>3. \A d \in Sides : b.rd[d] # "dead" /\ b.wr[d] # "dead"
    BY ZenonT(30), <1>0, <1>1, <2>2
  <2>4. DestInv(b) /\ b.failed \subseteq {"init_package.result"}
    BY <2>1 DEF DestInv, Streaming, TunnelInv
  <2>5. Working(b)
    BY <1>1, <1>9, <2>1, <2>3, <2>4 DEF Working, LiveInv, Alive
  <2>6. Alive(t)
    BY Zenon DEF Streaming
  <2> QED BY <1>7, <1>10, <2>1, <2>5, <2>6, ShutdownGood
<1>11. CASE e = TRUE
  <2>1. /\ IsTunnel(y) /\ y.taken = [b.taken EXCEPT ![c] = @ + 1]
        /\ y.delivered = b.delivered /\ y.rd = b.rd /\ y.wr = b.wr
        /\ y.reading = b.reading /\ y.wreq = b.wreq /\ y.stage = b.stage
        /\ y.conn = b.conn /\ y.gai = b.gai /\ y.terminated = b.terminated
        /\ y.ref_count = b.ref_count /\ y.closing = b.closing /\ y.freed = b.freed
        /\ y.failed = b.failed /\ y.init_pkg = b.init_pkg /\ y.addr = b.addr
    BY <1>9, SMTT(30) DEF IsTunnel
  <2> HIDE DEF y
  <2>2. y.wr[o] = "stop" /\ StreamUsable(y, o)
    <3>1. y.wr = t.wr /\ y.conn = t.conn /\ y.terminated = t.terminated
      <4>1. a.wr = t.wr /\ a.conn = t.conn /\ a.terminated = t.terminated
        BY <1>6 DEF Moved
      <4>2. b.wr = a.wr /\ b.conn = a.conn /\ b.terminated = a.terminated
        BY <1>9, Zenon
      <4>3. y.wr = b.wr /\ y.conn = b.conn /\ y.terminated = b.terminated
        BY <2>1, Zenon
      <4> QED BY <4>1, <4>2, <4>3, Zenon
    <3> QED BY <1>1, <1>3, <3>1, Zenon DEF StreamUsable
  <2>3. /\ IsTunnel(u) /\ Alike(y, u) /\ u.rd = y.rd /\ u.reading = y.reading
        /\ u.wr = [y.wr EXCEPT ![o] = "busy"]
        /\ u.wreq = [y.wreq EXCEPT ![o] = TRUE]
    <3>1. CASE o = "out"
      BY ZenonT(30), <2>1, <2>2, <3>1, WriteEffect DEF Sides
    <3>2. CASE o = "in"
      BY ZenonT(30), <2>1, <2>2, <3>2, WriteEffect DEF Sides
    <3> QED BY <1>0, <3>1, <3>2, Zenon DEF Sides
  <2> HIDE DEF u
  <2>4. /\ u.stage = "streaming" /\ u.conn = t.conn /\ u.gai = t.gai
        /\ u.terminated = t.terminated /\ u.ref_count = t.ref_count
        /\ u.closing = t.closing /\ u.freed = t.freed /\ u.failed = t.failed
        /\ u.init_pkg = t.init_pkg /\ u.addr = t.addr
        /\ u.rd = [[t.rd EXCEPT ![c] = "done"] EXCEPT ![c] = "stop"]
        /\ u.reading = [t.reading EXCEPT ![c] = FALSE]
        /\ u.wr = [t.wr EXCEPT ![o] = "busy"]
        /\ u.wreq = [t.wreq EXCEPT ![o] = TRUE]
        /\ u.delivered = t.delivered /\ u.taken = [t.taken EXCEPT ![c] = @ + 1]
    BY <1>6, <1>9, <2>1, <2>3 DEF Moved, Alike, Frame, SameCounts
  <2>5. /\ u.rd[c] = "stop" /\ u.rd[o] = t.rd[o]
        /\ u.wr[o] = "busy" /\ u.wr[c] = t.wr[c]
        /\ u.wreq[o] /\ u.wreq[c] = t.wreq[c]
        /\ ~u.reading[c] /\ u.reading[o] = t.reading[o]
        /\ u.delivered[c] = t.delivered[c] /\ u.delivered[o] = t.delivered[o]
        /\ u.taken[c] = t.taken[c] + 1 /\ u.taken[o] = t.taken[o]
    BY SMTT(30), <1>0, <1>4, <2>4
  <2>6. Direction(u, c) /\ Direction(u, o)
    <3>1. u.taken[c] \in Nat /\ u.delivered[o] \in Nat /\ u.taken[c] = u.delivered[o] + 1
      BY <1>0, <1>3, <1>4, <2>5
    <3>2. Direction(u, c)
      BY <1>0, <1>3, <2>5, <3>1, Zenon DEF Direction, o
    <3>3. Direction(u, o)
      BY <1>0, <1>1, <2>5 DEF Direction, o
    <3> QED BY <3>2, <3>3
  <2>7. (t.wreq[c] <=> t.wr[c] = "busy") /\ (t.reading[o] => t.rd[o] = "busy")
    BY <1>0, <1>1, Zenon DEF LiveInv
  <2>8. (u.wreq[c] <=> u.wr[c] = "busy") /\ (u.reading[c] => u.rd[c] = "busy")
    BY <2>5, <2>7
  <2>9. (u.wreq[o] <=> u.wr[o] = "busy") /\ (u.reading[o] => u.rd[o] = "busy")
    BY <2>5, <2>7
  <2>10. \A d \in Sides : /\ Direction(u, d)
                          /\ u.wreq[d] <=> u.wr[d] = "busy"
                          /\ u.reading[d] => u.rd[d] = "busy"
    BY ZenonT(30), <1>0, <2>6, <2>8, <2>9
  <2>11. TunnelInv(u) /\ Quiet(t, u)
    BY ZenonT(30), <2>3, <2>4, <2>10, StreamOn
  <2>12. RelayPhase(t) = "open" /\ RelayPhase(u) = "open"
    BY <1>1, <2>4 DEF RelayPhase, Streaming
  <2>13. RelayStep(t, u)
    BY <1>3, <2>4, <2>12, Zenon DEF RelayStep, o
  <2>14. Stays(t, u)
    BY <1>1, <2>4 DEF Stays, LiveInv
  <2> QED BY SMTT(30), <1>7, <1>11, <2>11, <2>13, <2>14 DEF GoodStep
<1> QED BY ZenonT(30), <1>10, <1>11

-----------------------------------------------------------------------------
(* The callbacks: each one takes a tunnel to a good one. *)

(* The type of what the environment may hand to a read callback. *)
LEMMA InputFacts ==
    ASSUME NEW t, NEW o \in Inputs(t)
    PROVE  /\ o.dec \in {"null", "empty", "receipt", "data", "confirm"}
           /\ o.pkg \in Packages /\ o.err \in BOOLEAN
           /\ o.dec = "receipt" => t.obfs = "tls"
<1>1. NoPkg \in Packages
  BY Zenon DEF Packages
<1> DEFINE none(d) == [dec |-> d, pkg |-> NoPkg, err |-> FALSE]
           more == [dec : {"data", "confirm"}, pkg : Packages, err : BOOLEAN]
<1>2. \/ \E d \in {"null", "empty", "data"} : o = none(d)
      \/ t.obfs = "tls" /\ o = none("receipt")
      \/ o \in more
  <2> HIDE DEF more
  <2>1. CASE t.stage = "streaming"
    BY <2>1, Zenon DEF Inputs
  <2>2. CASE t.stage # "streaming"
    BY <2>2, Zenon DEF Inputs, more
  <2> QED BY <2>1, <2>2, Zenon
<1>3. CASE o \in more
  BY <1>3, Zenon
<1>4. ASSUME NEW d, o = none(d)
      PROVE  o.dec = d /\ o.pkg \in Packages /\ o.err \in BOOLEAN
  BY <1>1, <1>4, Zenon
<1> QED BY <1>2, <1>3, <1>4

(* The type of what a callback without data hands to do_next. *)
LEMMA NoDataFacts ==
    ASSUME NEW o \in NoData
    PROVE  o.dec = "data" /\ o.pkg = NoPkg /\ o.err \in BOOLEAN
  BY Zenon DEF NoData

(* A pending read, write, lookup, connect or timer: the tunnel was born. *)
LEMMA Born ==
    ASSUME NEW t, TunnelInv(t),
           \/ \E c \in Sides : t.reading[c] \/ t.wreq[c] \/ t.timer[c]
           \/ t.gai \/ t.conn = "pending" \/ t.closing # {}
    PROVE  t.stage # "unborn"
<1>1. /\ \A c \in Sides : ~Unborn.reading[c] /\ ~Unborn.wreq[c] /\ ~Unborn.timer[c]
      /\ ~Unborn.gai /\ Unborn.conn # "pending" /\ Unborn.closing = {}
  BY Zenon DEF Unborn, NewTunnel, Both
<1> QED BY <1>1, Zenon DEF TunnelInv

(* Only a live tunnel reads, and its read state is busy. *)
LEMMA ReadingAlive ==
    ASSUME NEW t, TunnelInv(t), NEW c \in Sides, t.reading[c]
    PROVE  Alive(t) /\ LiveInv(t) /\ t.rd[c] = "busy"
<1>1. t.stage # "unborn"
  BY Born, Zenon
<1>2. ~t.terminated
  BY Zenon DEF TunnelInv, DeadInv, Both
<1> QED BY <1>1, <1>2 DEF TunnelInv, Alive, LiveInv

(* Between callbacks no socket of a live tunnel is done or dead. *)
LEMMA LiveFacts ==
    ASSUME NEW t, TunnelInv(t), Alive(t)
    PROVE  /\ IsTunnel(t) /\ LiveInv(t) /\ DestInv(t) /\ ~t.terminated
           /\ t.failed \subseteq {"init_package.result"}
           /\ \A d \in Sides : t.rd[d] # "dead" /\ t.wr[d] # "dead"
           /\ \A d \in Sides : t.rd[d] # "done" /\ t.wr[d] # "done"
<1>1. /\ IsTunnel(t) /\ LiveInv(t) /\ DestInv(t) /\ ~t.terminated
      /\ t.failed \subseteq {"init_package.result"} /\ StageShape(t)
      /\ t.stage \in Stages \ {"unborn"}
  BY Zenon DEF TunnelInv, Alive, LiveInv, IsTunnel
<1>2. CASE t.stage \in {"resolve_host", "connect_host"}
  BY <1>1, <1>2, Zenon DEF StageShape, AllStop
<1>3. CASE t.stage = "streaming"
  BY <1>1, <1>3, Zenon DEF StageShape, Direction, Other, Sides
<1>4. CASE t.stage \notin {"resolve_host", "connect_host", "streaming"}
  BY <1>1, <1>4 DEF StageShape, Shape, Sides, Stages
<1> QED BY <1>1, <1>2, <1>3, <1>4, Zenon

(* The first two lines of socket_read_done_cb: the read and timer stop. *)
LEMMA ReadStopped ==
    ASSUME NEW t, IsTunnel(t), NEW c \in Sides
    PROVE  LET s == [t EXCEPT !.reading[c] = FALSE, !.timer[c] = FALSE]
           IN  /\ IsTunnel(s) /\ Alike(t, s) /\ s.rd = t.rd /\ s.wr = t.wr
               /\ s.wreq = t.wreq /\ s.reading = [t.reading EXCEPT ![c] = FALSE]
  BY SMT DEF IsTunnel, Alike, Frame

(* A read callback with an error or with no data is a good step. *)
LEMMA ReadStoppedGood ==
    ASSUME NEW t, TunnelInv(t), Alive(t), NEW c \in Sides,
           NEW n \in {"neg", "zero"}
    PROVE  GoodStep(t, socket_read_done_cb(t, c, n))
<1> DEFINE s == [t EXCEPT !.reading[c] = FALSE, !.timer[c] = FALSE]
<1>1. /\ IsTunnel(t) /\ LiveInv(t) /\ DestInv(t) /\ ~t.terminated
      /\ t.failed \subseteq {"init_package.result"}
      /\ \A d \in Sides : t.rd[d] # "dead" /\ t.wr[d] # "dead"
  BY LiveFacts, Zenon
<1>2. /\ IsTunnel(s) /\ Alike(t, s) /\ s.rd = t.rd /\ s.wr = t.wr
      /\ s.wreq = t.wreq /\ s.reading = [t.reading EXCEPT ![c] = FALSE]
  BY ZenonT(30), <1>1, ReadStopped
<1>3. socket_read_done_cb(t, c, n) = IF n = "zero" THEN s ELSE tunnel_shutdown(s)
  BY <1>1 DEF socket_read_done_cb, tunnel_is_dead
<1> HIDE DEF s
<1>4. DestInv(s) /\ Alive(s) /\ s.failed \subseteq {"init_package.result"}
  BY <1>1, <1>2, Zenon DEF DestInv, Alike, Frame, Alive
<1>5. CASE n = "zero"
  <2>1. t.reading \in [Sides -> BOOLEAN]
    BY <1>1 DEF IsTunnel
  <2>2. \A d \in Sides : s.reading[d] => t.reading[d]
    BY <1>2, <2>1, Zenon
  <2>3. StageShape(s)
    <3>1. /\ s.rd = t.rd /\ s.wr = t.wr /\ s.stage = t.stage /\ s.obfs = t.obfs
          /\ s.taken = t.taken /\ s.delivered = t.delivered
      BY <1>2, Zenon DEF Alike, Frame
    <3>2. StageShape(t)
      BY <1>1, Zenon DEF LiveInv
    <3> QED
      BY <3>1, <3>2, SMTT(30) DEF StageShape, Shape, AllStop, Direction
  <2>4. LiveInv(s)
    BY <1>1, <1>2, <2>2, <2>3 DEF LiveInv, Alike, Frame
  <2>5. TunnelInv(s)
    BY <1>2, <1>4, <2>4, Zenon DEF TunnelInv, Alive
  <2>6. Quiet(t, s) /\ RelayStep(t, s)
    BY <1>1, <1>2 DEF Quiet, RelayStep, RelayPhase, SameCounts, Alike, Frame
  <2>7. Stays(t, s)
    BY <1>1, <1>2, <1>4 DEF Stays, Alike, Frame, LiveInv, Alive
  <2> QED BY <1>3, <1>5, <2>5, <2>6, <2>7, Zenon DEF GoodStep
<1>6. CASE n = "neg"
  <2>1. Working(s)
    BY <1>1, <1>2, <1>4 DEF Working, LiveInv, Alike, Frame
  <2>2. SameCounts(t, s)
    BY <1>2, Zenon DEF SameCounts, Alike, Frame
  <2> QED BY <1>3, <1>6, <2>1, <2>2, ShutdownGood, Zenon
<1> QED BY <1>5, <1>6, Zenon

(* A read callback with data sets the read state to done. *)
LEMMA ReadDoneEffect ==
    ASSUME NEW t, IsTunnel(t), ~t.terminated, NEW c \in Sides, t.rd[c] = "busy"
    PROVE  LET u == socket_read_done_cb(t, c, "pos")
           IN  /\ IsTunnel(u) /\ Alike(t, u) /\ u.wr = t.wr /\ u.wreq = t.wreq
               /\ u.rd = [t.rd EXCEPT ![c] = "done"]
               /\ u.reading = [t.reading EXCEPT ![c] = FALSE]
<1> DEFINE s == [t EXCEPT !.reading[c] = FALSE, !.timer[c] = FALSE]
           ok == t.rd[c] = "busy"
           u == [s EXCEPT !.rd[c] = "done", !.failed = @ \cup
                    ASSERT("read_cb.rdstate_busy", ok)]
<1>1. socket_read_done_cb(t, c, "pos") = u
  BY Zenon DEF socket_read_done_cb, tunnel_is_dead
<1>2. /\ IsTunnel(s) /\ Alike(t, s) /\ s.rd = t.rd /\ s.wr = t.wr
      /\ s.wreq = t.wreq /\ s.reading = [t.reading EXCEPT ![c] = FALSE]
  BY ZenonT(30), ReadStopped
<1> HIDE DEF s
<1>3. ok = TRUE
  BY Zenon
<1> HIDE DEF ok
<1>4. /\ IsTunnel(u) /\ Alike(s, u) /\ u.wr = s.wr /\ u.wreq = s.wreq
      /\ u.rd = [s.rd EXCEPT ![c] = "done"] /\ u.reading = s.reading
  <2>1. IsTunnel(s)
    BY <1>2, Zenon
  <2> QED BY <1>3, <2>1, SMT DEF IsTunnel, Alike, Frame, ASSERT, SockStates
<1> HIDE DEF u
<1> QED BY <1>1, <1>2, <1>4 DEF Alike, Frame

(* The handshake stages reset the socket that do_next finds done. *)
LEMMA IncomingRead ==
    ASSUME NEW s, IsTunnel(s), s.rd["in"] = "done", s.wr["in"] = "stop"
    PROVE  LET a == [IncomingAt(s, "in", "done", "stop") EXCEPT !.rd["in"] = "stop"]
           IN  /\ IsTunnel(a) /\ Alike(s, a) /\ a.wr = s.wr /\ a.wreq = s.wreq
               /\ a.rd = [s.rd EXCEPT !["in"] = "stop"] /\ a.reading = s.reading
<1> DEFINE ok == "in" = "in" /\ s.rd["in"] = "done" /\ s.wr["in"] = "stop"
           x == Check(s, "next.incoming", ok)
           a == [x EXCEPT !.rd["in"] = "stop"]
<1>1. ok = TRUE
  BY Zenon
<1>2. IncomingAt(s, "in", "done", "stop") = x
  BY Zenon DEF IncomingAt
<1> HIDE DEF ok
<1>3. /\ IsTunnel(x) /\ Alike(s, x) /\ x.rd = s.rd /\ x.wr = s.wr
      /\ x.wreq = s.wreq /\ x.reading = s.reading
  BY <1>1, SMT DEF Check, ASSERT, IsTunnel, Alike, Frame
<1> HIDE DEF x
<1>4. /\ IsTunnel(a) /\ Alike(x, a) /\ a.wr = x.wr /\ a.wreq = x.wreq
      /\ a.rd = [x.rd EXCEPT !["in"] = "stop"] /\ a.reading = x.reading
  BY <1>3, SMT DEF IsTunnel, Alike, Frame, Sides, SockStates
<1> HIDE DEF a
<1>5. Alike(s, a)
  BY <1>3, <1>4 DEF Alike, Frame
<1> QED BY <1>2, <1>3, <1>4, <1>5, Zenon DEF a

(* The assertions of a stage entered by a write hold, and the write state
   is reset. *)
LEMMA IncomingWritten ==
    ASSUME NEW s, IsTunnel(s), s.rd["in"] = "stop", s.wr["in"] = "done"
    PROVE  LET a == [IncomingAt(s, "in", "stop", "done") EXCEPT !.wr["in"] = "stop"]
           IN  /\ IsTunnel(a) /\ Alike(s, a) /\ a.rd = s.rd /\ a.wreq = s.wreq
               /\ a.wr = [s.wr EXCEPT !["in"] = "stop"] /\ a.reading = s.reading
<1> DEFINE ok == "in" = "in" /\ s.rd["in"] = "stop" /\ s.wr["in"] = "done"
           x == Check(s, "next.incoming", ok)
           a == [x EXCEPT !.wr["in"] = "stop"]
<1>1. ok = TRUE
  BY Zenon
<1>2. IncomingAt(s, "in", "stop", "done") = x
  BY DEF IncomingAt
<1> HIDE DEF ok
<1>3. /\ IsTunnel(x) /\ Alike(s, x) /\ x.rd = s.rd /\ x.wr = s.wr
      /\ x.wreq = s.wreq /\ x.reading = s.reading
  BY <1>1, SMT DEF Check, ASSERT, IsTunnel, Alike, Frame
<1> HIDE DEF x
<1>4. /\ IsTunnel(a) /\ Alike(x, a) /\ a.rd = x.rd /\ a.wreq = x.wreq
      /\ a.wr = [x.wr EXCEPT !["in"] = "stop"] /\ a.reading = x.reading
  BY <1>3, SMT DEF IsTunnel, Alike, Frame, Sides, SockStates
<1> HIDE DEF a
<1>5. Alike(s, a)
  BY <1>3, <1>4 DEF Alike, Frame
<1> QED BY <1>2, <1>3, <1>4, <1>5, Zenon DEF a

(* A read callback with data, and all of do_next after it, is a good step. *)
LEMMA ReadPosGood ==
    ASSUME NEW t, TunnelInv(t), NEW c \in Sides, t.reading[c],
           NEW o \in Inputs(t), NEW ips, GoodCache(ips)
    PROVE  GoodStep(t, do_next(socket_read_done_cb(t, c, "pos"), c, "pos", o, ips))
<1> DEFINE s == socket_read_done_cb(t, c, "pos")
           read == [IncomingAt(s, "in", "done", "stop") EXCEPT !.rd["in"] = "stop"]
<1>1. /\ Alive(t) /\ LiveInv(t) /\ t.rd[c] = "busy"
  BY ReadingAlive
<1>2. /\ IsTunnel(t) /\ DestInv(t) /\ ~t.terminated
      /\ t.failed \subseteq {"init_package.result"}
  BY <1>1, LiveFacts
<1>3. /\ IsTunnel(s) /\ Alike(t, s) /\ s.wr = t.wr /\ s.wreq = t.wreq
      /\ s.rd = [t.rd EXCEPT ![c] = "done"]
      /\ s.reading = [t.reading EXCEPT ![c] = FALSE]
  BY <1>1, <1>2, ReadDoneEffect
<1> HIDE DEF s
<1>4. CASE t.stage \in {"initial", "client_feedback"}
  <2>1. Shape(t, "busy", "stop", "stop", "stop")
    BY <1>1, <1>4 DEF LiveInv, StageShape
  <2>2. c = "in"
    BY <1>1, <2>1 DEF Shape, Sides
  <2>3. t.rd \in [Sides -> SockStates] /\ t.reading \in [Sides -> BOOLEAN]
    BY <1>2 DEF IsTunnel
  <2>4. s.rd["in"] = "done" /\ s.wr["in"] = "stop"
    BY <1>3, <2>1, <2>2, <2>3 DEF Shape, Sides
  <2>5. /\ IsTunnel(read) /\ Alike(s, read) /\ read.wr = s.wr /\ read.wreq = s.wreq
        /\ read.rd = [s.rd EXCEPT !["in"] = "stop"] /\ read.reading = s.reading
    BY ZenonT(30), <1>3, <2>4, IncomingRead
  <2>6. do_next(s, c, "pos", o, ips) =
           IF t.stage = "initial" THEN do_init_package(read, "pos", o, ips)
           ELSE do_client_feedback(read, "pos", o, ips)
    <3>1. s.stage = t.stage
      BY <1>3 DEF Alike, Frame
    <3> QED BY ZenonT(30), <1>4, <2>2, <3>1 DEF do_next
  <2> HIDE DEF read
  <2>7. /\ read.stage = t.stage /\ read.obfs = t.obfs /\ read.conn = t.conn
        /\ read.gai = t.gai /\ read.terminated = t.terminated
        /\ read.ref_count = t.ref_count /\ read.closing = t.closing
        /\ read.freed = t.freed /\ read.taken = t.taken
        /\ read.delivered = t.delivered /\ read.failed = t.failed
    BY <1>3, <2>5 DEF Alike, Frame
  <2>8. AllStop(read) /\ \A d \in Sides : ~read.reading[d] /\ ~read.wreq[d]
    <3>1. read.rd["in"] = "stop" /\ read.rd["out"] = "stop"
      BY <1>3, <2>1, <2>2, <2>3, <2>5 DEF Shape, Sides
    <3>2. read.wr["in"] = "stop" /\ read.wr["out"] = "stop"
      BY <1>3, <2>1, <2>5 DEF Shape
    <3>3. ~read.reading["in"] /\ ~read.reading["out"]
      <4>1. ~t.reading["out"]
        BY <1>1, <2>1 DEF LiveInv, Shape, Sides
      <4> QED BY <1>3, <2>2, <2>3, <2>5, <4>1 DEF Sides
    <3>4. ~read.wreq["in"] /\ ~read.wreq["out"]
      BY SMTT(30), <1>1, <1>3, <2>1, <2>5 DEF LiveInv, Shape, Sides
    <3> QED BY <3>1, <3>2, <3>3, <3>4 DEF AllStop, Sides
  <2>9. /\ t.conn = "none" /\ ~t.gai /\ t.taken = Both(0) /\ t.delivered = Both(0)
        /\ t.ref_count = 0 /\ t.closing = {} /\ ~t.freed
    <3>1. LiveInv(t) /\ t.conn \in Connections
      BY <1>1, <1>2, Zenon DEF IsTunnel
    <3>2. /\ t.ref_count = 0 /\ t.closing = {} /\ ~t.freed /\ ~t.gai
          /\ t.conn # "pending" /\ t.conn # "up" /\ StageShape(t)
      BY <1>4, <3>1 DEF LiveInv
    <3>3. t.conn = "none"
      BY <3>1, <3>2, Zenon DEF Connections
    <3>4. t.taken = Both(0) /\ t.delivered = Both(0)
      BY <1>4, <3>2 DEF StageShape
    <3> QED
      BY <3>2, <3>3, <3>4, Zenon
  <2>10. Working(read)
    BY <1>1, <1>2, <2>5, <2>7, <2>8, <2>9, SMTT(30) DEF Working, DestInv, Alive, AllStop
  <2>11. Settled(read)
    BY SMTT(30), <1>4, <2>7, <2>8, <2>9, <2>10 DEF Settled
  <2>12. Before(t)
    BY <1>1, <1>4, <2>9 DEF Before
  <2>13. /\ o.dec \in {"null", "empty", "receipt", "data", "confirm"}
         /\ o.pkg \in Packages /\ o.err \in BOOLEAN
         /\ o.dec = "receipt" => t.obfs = "tls"
    BY InputFacts
  <2>14. CASE t.stage = "initial"
    <3>1. GoodStep(t, do_init_package(read, "pos", o, ips))
      BY <2>11, <2>12, <2>13, InitPackageGood
    <3> QED BY <2>6, <2>14, <3>1 DEF s
  <2>15. CASE t.stage = "client_feedback"
    <3>1. t.obfs = "plain"
      BY <1>1, <2>15 DEF LiveInv
    <3>2. o.dec \in {"null", "empty", "data", "confirm"}
      BY <2>13, <3>1
    <3>3. GoodStep(t, do_client_feedback(read, "pos", o, ips))
      BY <2>11, <2>12, <2>13, <3>2, ClientFeedbackGood
    <3> QED BY <2>6, <2>15, <3>3 DEF s
  <2> QED BY <1>4, <2>14, <2>15
<1>5. CASE t.stage = "streaming"
  <2>1. Streaming(t)
    BY <1>1, <1>5 DEF Streaming
  <2>2. do_next(s, c, "pos", o, ips) =
           tunnel_traditional_streaming(s, c, o.dec = "data")
    BY <1>3, <1>5 DEF do_next, Alike, Frame
  <2>3. /\ s.stage = "streaming" /\ s.conn = t.conn
        /\ s.gai = t.gai /\ s.terminated = t.terminated /\ s.ref_count = t.ref_count
        /\ s.closing = t.closing /\ s.freed = t.freed /\ s.failed = t.failed
        /\ s.init_pkg = t.init_pkg /\ s.addr = t.addr /\ SameCounts(t, s)
    BY <1>3, <1>5 DEF Alike, Frame, SameCounts
  <2>4. CASE o.dec = "data"
    <3>1. do_next(s, c, "pos", o, ips) = tunnel_traditional_streaming(s, c, TRUE)
      BY ZenonT(30), <2>2, <2>4
    <3>2. GoodStep(t, tunnel_traditional_streaming(s, c, TRUE))
      BY ZenonT(30), <1>3, <2>1, <2>3, ReadGood
    <3> QED BY ZenonT(30), <3>1, <3>2 DEF s
  <2>5. CASE o.dec # "data"
    <3>1. do_next(s, c, "pos", o, ips) = tunnel_traditional_streaming(s, c, FALSE)
      BY ZenonT(30), <2>2, <2>5
    <3>2. GoodStep(t, tunnel_traditional_streaming(s, c, FALSE))
      BY ZenonT(30), <1>3, <2>1, <2>3, ReadGood
    <3> QED BY ZenonT(30), <3>1, <3>2 DEF s
  <2> QED BY <2>4, <2>5
<1>6. t.stage \in {"initial", "client_feedback", "streaming"}
  <2>1. t.stage \in Stages \ {"unborn"} /\ StageShape(t)
    BY <1>1, <1>2 DEF IsTunnel, Alive, LiveInv
  <2> QED BY <1>1, <2>1 DEF StageShape, Shape, AllStop, Stages, Sides
<1> QED BY <1>4, <1>5, <1>6 DEF s

-----------------------------------------------------------------------------
(* The callbacks other than the read callback. *)

(* Ending a write request and its timer touches no other state. *)
LEMMA WriteDoneEffect ==
    ASSUME NEW t, IsTunnel(t), NEW c \in Sides
    PROVE  LET r == [t EXCEPT !.wreq[c] = FALSE]
               s == socket_timer_stop(r, c)
           IN  /\ IsTunnel(r) /\ Alike(t, r) /\ r.rd = t.rd /\ r.wr = t.wr
               /\ r.reading = t.reading /\ r.timer = t.timer
               /\ r.wreq = [t.wreq EXCEPT ![c] = FALSE]
               /\ IsTunnel(s) /\ Alike(t, s) /\ s.rd = t.rd /\ s.wr = t.wr
               /\ s.reading = t.reading /\ s.wreq = [t.wreq EXCEPT ![c] = FALSE]
<1> DEFINE r == [t EXCEPT !.wreq[c] = FALSE]
           s == socket_timer_stop(r, c)
<1>1. /\ IsTunnel(r) /\ Alike(t, r) /\ r.rd = t.rd /\ r.wr = t.wr
      /\ r.reading = t.reading /\ r.timer = t.timer
      /\ r.wreq = [t.wreq EXCEPT ![c] = FALSE]
  BY Zenon DEF IsTunnel, Alike, Frame
<1> HIDE DEF r
<1>2. /\ IsTunnel(s) /\ Alike(r, s) /\ s.rd = r.rd /\ s.wr = r.wr
      /\ s.reading = r.reading /\ s.wreq = r.wreq
  <2>1. IsTunnel(r)
    BY <1>1, Zenon
  <2> QED BY <2>1, Zenon DEF IsTunnel, Alike, Frame, socket_timer_stop
<1> HIDE DEF s
<1>3. Alike(t, s)
  BY <1>1, <1>2, Zenon DEF Alike, Frame
<1> QED BY <1>1, <1>2, <1>3, Zenon DEF r, s

(* A write callback of a dead tunnel only takes note that it came. *)
LEMMA DeadWriteGood ==
    ASSUME NEW t, TunnelInv(t), t.terminated, NEW c \in Sides, NEW n
    PROVE  GoodStep(t, socket_write_done_cb(t, c, n))
<1> DEFINE r == [t EXCEPT !.wreq[c] = FALSE]
<1>1. socket_write_done_cb(t, c, n) = r
  BY Zenon DEF socket_write_done_cb, tunnel_is_dead
<1>2. /\ IsTunnel(t) /\ DeadInv(t) /\ DestInv(t)
      /\ t.failed \subseteq {"init_package.result"} /\ t.stage # "unborn"
  <2>1. Unborn.terminated = FALSE
    BY Zenon DEF Unborn, NewTunnel
  <2> QED BY <2>1, Zenon DEF TunnelInv
<1>3. /\ IsTunnel(r) /\ Alike(t, r) /\ r.rd = t.rd /\ r.wr = t.wr
      /\ r.reading = t.reading /\ r.timer = t.timer
      /\ r.wreq = [t.wreq EXCEPT ![c] = FALSE]
  BY ZenonT(30), <1>2, WriteDoneEffect
<1> HIDE DEF r
<1>4. t.wreq \in [Sides -> BOOLEAN]
  BY <1>2, Zenon DEF IsTunnel
<1>5. \A d \in Sides : r.wreq[d] => t.wreq[d]
  BY <1>3, <1>4, Zenon
<1>6. DeadInv(r)
  BY <1>2, <1>3, <1>5, Zenon DEF DeadInv, Alike, Frame
<1>7. TunnelInv(r)
  BY <1>2, <1>3, <1>6, Zenon DEF TunnelInv, Alike, Frame, DestInv, Alive
<1>8. RelayStep(t, r)
  BY <1>3, Zenon DEF RelayStep, RelayPhase, SameCounts, Alike, Frame
<1>9. \A d \in Sides : ~r.reading[d] /\ ~r.timer[d]
  BY <1>2, <1>3 DEF DeadInv, Both
<1>10. Quiet(t, r)
  BY <1>3, <1>5, <1>9, Zenon DEF Quiet, Alike, Frame
<1>11. Stays(t, r)
  BY <1>2, <1>3, Zenon DEF Stays, Alike, Frame
<1> QED BY <1>1, <1>7, <1>8, <1>10, <1>11, Zenon DEF GoodStep

(* A failed write shuts the tunnel down, which is a good step. *)
LEMMA FailedWriteGood ==
    ASSUME NEW t, TunnelInv(t), Alive(t), NEW c \in Sides
    PROVE  GoodStep(t, socket_write_done_cb(t, c, "neg"))
<1> DEFINE r == [t EXCEPT !.wreq[c] = FALSE]
           s == socket_timer_stop(r, c)
<1>1. /\ IsTunnel(t) /\ LiveInv(t) /\ DestInv(t) /\ ~t.terminated
      /\ t.failed \subseteq {"init_package.result"}
      /\ \A d \in Sides : t.rd[d] # "dead" /\ t.wr[d] # "dead"
  BY LiveFacts, Zenon
<1>2. socket_write_done_cb(t, c, "neg") = tunnel_shutdown(s)
  BY <1>1, Zenon DEF socket_write_done_cb, tunnel_is_dead
<1>3. /\ IsTunnel(s) /\ Alike(t, s) /\ s.rd = t.rd /\ s.wr = t.wr
  BY ZenonT(30), <1>1, WriteDoneEffect
<1> HIDE DEF s
<1>4. DestInv(s) /\ Alive(s) /\ s.failed \subseteq {"init_package.result"}
  BY <1>1, <1>3, Zenon DEF DestInv, Alike, Frame, Alive
<1>5. Working(s) /\ SameCounts(t, s)
  BY <1>1, <1>3, <1>4 DEF Working, LiveInv, Alike, Frame, SameCounts
<1> QED BY <1>2, <1>5, ShutdownGood, Zenon

(* A successful write callback sets the write state to done. *)
LEMMA WrittenEffect ==
    ASSUME NEW t, IsTunnel(t), ~t.terminated, NEW c \in Sides, t.wr[c] = "busy"
    PROVE  LET u == socket_write_done_cb(t, c, "zero")
           IN  /\ IsTunnel(u) /\ Alike(t, u) /\ u.rd = t.rd /\ u.reading = t.reading
               /\ u.wr = [t.wr EXCEPT ![c] = "done"]
               /\ u.wreq = [t.wreq EXCEPT ![c] = FALSE]
<1> DEFINE r == [t EXCEPT !.wreq[c] = FALSE]
           s == socket_timer_stop(r, c)
           ok == t.wr[c] = "busy"
           u == [s EXCEPT !.wr[c] = "done", !.failed = @ \cup
                    ASSERT("write_cb.wrstate_busy", ok)]
<1>1. socket_write_done_cb(t, c, "zero") = u
  BY Zenon DEF socket_write_done_cb, tunnel_is_dead
<1>2. /\ IsTunnel(s) /\ Alike(t, s) /\ s.rd = t.rd /\ s.wr = t.wr
      /\ s.reading = t.reading /\ s.wreq = [t.wreq EXCEPT ![c] = FALSE]
  BY WriteDoneEffect, Zenon
<1> HIDE DEF s
<1>3. ok = TRUE
  BY Zenon
<1> HIDE DEF ok
<1>4. /\ IsTunnel(u) /\ Alike(s, u) /\ u.rd = s.rd /\ u.wreq = s.wreq
      /\ u.wr = [s.wr EXCEPT ![c] = "done"] /\ u.reading = s.reading
  <2>1. IsTunnel(s)
    BY <1>2, Zenon
  <2> QED BY <1>3, <2>1, SMT DEF IsTunnel, Alike, Frame, ASSERT, SockStates
<1> HIDE DEF u
<1> QED BY <1>1, <1>2, <1>4 DEF Alike, Frame

(* A successful write callback, and all of do_next after it, is a good
   step. *)
LEMMA WriteZeroGood ==
    ASSUME NEW t, TunnelInv(t), Alive(t), NEW c \in Sides, t.wreq[c],
           NEW o \in NoData, NEW ips, GoodCache(ips)
    PROVE  GoodStep(t, do_next(socket_write_done_cb(t, c, "zero"),
                               c, "zero", o, ips))
<1> DEFINE s == socket_write_done_cb(t, c, "zero")
           written == [IncomingAt(s, "in", "stop", "done") EXCEPT !.wr["in"] = "stop"]
<1>1. /\ IsTunnel(t) /\ LiveInv(t) /\ DestInv(t) /\ ~t.terminated
      /\ t.failed \subseteq {"init_package.result"}
  BY LiveFacts, Zenon
<1>2. t.wr[c] = "busy"
  BY <1>1, Zenon DEF LiveInv
<1>3. /\ IsTunnel(s) /\ Alike(t, s) /\ s.rd = t.rd /\ s.reading = t.reading
      /\ s.wr = [t.wr EXCEPT ![c] = "done"]
      /\ s.wreq = [t.wreq EXCEPT ![c] = FALSE]
  BY <1>1, <1>2, WrittenEffect, Zenon
<1> HIDE DEF s
<1>4. /\ t.wr \in [Sides -> SockStates] /\ t.wreq \in [Sides -> BOOLEAN]
      /\ t.rd \in [Sides -> SockStates]
      /\ t.reading \in [Sides -> BOOLEAN]
  BY <1>1, Zenon DEF IsTunnel
<1>5. CASE t.stage \in {"receipt_done", "confirm_done"}
  <2>1. Shape(t, "stop", "busy", "stop", "stop")
    BY <1>1, <1>5, Zenon DEF LiveInv, StageShape
  <2>2. c = "in"
    BY <1>2, <2>1, Zenon DEF Shape, Sides
  <2>3. s.rd["in"] = "stop" /\ s.wr["in"] = "done"
    BY <1>3, <1>4, <2>1, <2>2, Zenon DEF Shape, Sides
  <2>4. /\ IsTunnel(written) /\ Alike(s, written) /\ written.rd = s.rd
        /\ written.wreq = s.wreq /\ written.reading = s.reading
        /\ written.wr = [s.wr EXCEPT !["in"] = "stop"]
    BY ZenonT(30), <1>3, <2>3, IncomingWritten
  <2>5. do_next(s, c, "zero", o, ips) =
           IF t.stage = "receipt_done"
           THEN [socket_read(written, "in", TRUE) EXCEPT !.stage = "client_feedback"]
           ELSE do_prepare_parse(written, ips, o.err)
    <3>1. s.stage = t.stage
      BY <1>3, Zenon DEF Alike, Frame
    <3> QED BY ZenonT(30), <1>5, <2>2, <3>1 DEF do_next
  <2> HIDE DEF written
  <2>6. /\ written.stage = t.stage /\ written.obfs = t.obfs /\ written.conn = t.conn
        /\ written.gai = t.gai /\ written.terminated = t.terminated
        /\ written.ref_count = t.ref_count /\ written.closing = t.closing
        /\ written.freed = t.freed /\ written.taken = t.taken
        /\ written.delivered = t.delivered /\ written.failed = t.failed
    BY <1>3, <2>4 DEF Alike, Frame
  <2>7. AllStop(written) /\ \A d \in Sides : ~written.reading[d] /\ ~written.wreq[d]
    <3>1. written.rd["in"] = "stop" /\ written.rd["out"] = "stop"
      BY <1>3, <2>1, <2>4 DEF Shape
    <3>2. written.wr["in"] = "stop" /\ written.wr["out"] = "stop"
      BY <1>3, <1>4, <2>1, <2>2, <2>4 DEF Shape, Sides
    <3>3. ~written.reading["in"] /\ ~written.reading["out"]
      BY <1>1, <1>3, <2>1, <2>4 DEF LiveInv, Shape, Sides
    <3>4. ~written.wreq["in"] /\ ~written.wreq["out"]
      <4>1. ~t.wreq["out"]
        BY <1>1, <2>1, Zenon DEF LiveInv, Shape, Sides
      <4> QED BY <1>3, <1>4, <2>2, <2>4, <4>1 DEF Sides
    <3> QED BY <3>1, <3>2, <3>3, <3>4, Zenon DEF AllStop, Sides
  <2>8. /\ t.conn = "none" /\ ~t.gai /\ t.taken = Both(0) /\ t.delivered = Both(0)
        /\ t.ref_count = 0 /\ t.closing = {} /\ ~t.freed
    <3>1. /\ t.ref_count = 0 /\ t.closing = {} /\ ~t.freed /\ StageShape(t)
          /\ t.gai <=> t.stage = "resolve_host"
          /\ t.conn = "pending" <=> t.stage = "connect_host"
          /\ t.conn = "up" <=> t.stage \in {"launch_streaming", "streaming"}
      BY <1>1, Zenon DEF LiveInv
    <3>2. t.conn \in Connections
      BY <1>1, Zenon DEF IsTunnel
    <3> QED BY <1>5, <3>1, <3>2 DEF StageShape, Connections
  <2>9. Working(written)
    BY <1>1, <2>4, <2>6, <2>7, <2>8 DEF Working, DestInv, Alive, AllStop
  <2>10. Settled(written)
    BY <1>5, <2>6, <2>7, <2>8, <2>9, Zenon DEF Settled
  <2>11. Before(t)
    BY <1>5, <2>8, Zenon DEF Before
  <2>12. CASE t.stage = "receipt_done"
    <3>1. written.obfs = "plain"
      BY <1>1, <2>6, <2>12 DEF LiveInv
    <3>2. GoodStep(t, [socket_read(written, "in", TRUE)
                          EXCEPT !.stage = "client_feedback"])
      BY ZenonT(30), <2>10, <2>11, <3>1, AwaitFeedbackGood
    <3> QED BY ZenonT(30), <2>5, <2>12, <3>2 DEF s
  <2>13. CASE t.stage = "confirm_done"
    <3>1. o.err \in BOOLEAN
      BY NoDataFacts, Zenon
    <3>2. GoodStep(t, do_prepare_parse(written, ips, o.err))
      BY <2>10, <2>11, <3>1, PrepareParseGood, Zenon
    <3> QED BY <2>5, <2>13, <3>2 DEF s
  <2> QED BY <1>5, <2>12, <2>13, Zenon
<1>6. CASE t.stage = "launch_streaming"
  <2>1. /\ Shape(t, "stop", "stop", "stop", "busy")
        /\ t.taken["in"] = 1 /\ t.taken["out"] = 0 /\ t.delivered = Both(0)
    BY <1>1, <1>6 DEF LiveInv, StageShape
  <2>2. c = "out"
    BY <1>2, <2>1, Zenon DEF Shape, Sides
  <2>3. s.wr["out"] = "done" /\ s.wr["in"] = "stop"
    BY <1>3, <1>4, <2>1, <2>2, Zenon DEF Shape, Sides
  <2>4. s.rd = Both("stop")
    BY <1>3, <1>4, <2>1 DEF Shape, Sides, Both
  <2>5. s.reading = Both(FALSE)
    <3>1. ~t.reading["in"] /\ ~t.reading["out"]
      BY <1>1, <2>1, Zenon DEF LiveInv, Shape, Sides
    <3> QED BY ZenonT(30), <1>3, <1>4, <3>1 DEF Both, Sides
  <2>6. s.wreq = Both(FALSE)
    <3>1. ~t.wreq["in"]
      BY <1>1, <2>1 DEF LiveInv, Shape, Sides
    <3> QED BY ZenonT(30), <1>3, <1>4, <2>2, <3>1 DEF Both, Sides
  <2>7. Connected(s)
    <3>1. /\ s.conn = "up" /\ ~s.gai /\ s.delivered = Both(0) /\ s.taken["out"] = 0
          /\ s.ref_count = 0 /\ s.closing = {} /\ ~s.freed
          /\ s.failed \subseteq {"init_package.result"} /\ Alive(s)
      BY <1>1, <1>3, <1>6, <2>1 DEF Alike, Frame, LiveInv, Alive
    <3>2. DestInv(s)
      BY <1>1, <1>3, Zenon DEF DestInv, Alike, Frame
    <3>3. \A d \in Sides : s.rd[d] # "dead" /\ s.wr[d] # "dead"
      BY <2>3, <2>4, Zenon DEF Both, Sides
    <3> QED BY ZenonT(30), <1>3, <2>3, <2>4, <2>5, <2>6, <3>1, <3>2, <3>3 DEF Connected, Working
  <2>8. s.taken = t.taken /\ s.stage = t.stage
    BY <1>3, Zenon DEF Alike, Frame
  <2>9. GoodStep(t, do_launch_streaming(s, "zero"))
    BY <1>6, <2>1, <2>3, <2>7, <2>8, LaunchGood
  <2>10. do_next(s, c, "zero", o, ips) = do_launch_streaming(s, "zero")
    BY <1>6, <2>8, Zenon DEF do_next
  <2> QED BY <2>9, <2>10, Zenon DEF s
<1>7. CASE t.stage = "streaming"
  <2>1. Streaming(t)
    BY <1>7, Zenon DEF Streaming
  <2>2. do_next(s, c, "zero", o, ips) =
           tunnel_traditional_streaming(s, c, o.dec = "data")
    BY <1>3, <1>7 DEF do_next, Alike, Frame
  <2>3. /\ s.stage = "streaming" /\ s.conn = t.conn
        /\ s.gai = t.gai /\ s.terminated = t.terminated /\ s.ref_count = t.ref_count
        /\ s.closing = t.closing /\ s.freed = t.freed /\ s.failed = t.failed
        /\ s.init_pkg = t.init_pkg /\ s.addr = t.addr /\ SameCounts(t, s)
    BY <1>3, <1>7, Zenon DEF Alike, Frame, SameCounts
  <2>4. do_next(s, c, "zero", o, ips) = tunnel_traditional_streaming(s, c, TRUE)
    BY ZenonT(30), <2>2, NoDataFacts
  <2>5. GoodStep(t, tunnel_traditional_streaming(s, c, TRUE))
    BY ZenonT(30), <1>3, <2>1, <2>3, WrittenGood
  <2> QED BY ZenonT(30), <2>4, <2>5 DEF s
<1>8. t.stage \in {"receipt_done", "confirm_done", "launch_streaming", "streaming"}
  <2>1. t.stage \in Stages \ {"unborn"} /\ StageShape(t)
    BY <1>1 DEF IsTunnel, Alive, LiveInv
  <2> QED BY <1>2, <2>1 DEF StageShape, Shape, AllStop, Stages, Sides
<1> QED BY <1>5, <1>6, <1>7, <1>8, Zenon

(* What TunnelInv says of a dead tunnel. *)
LEMMA TerminatedFacts ==
    ASSUME NEW t, TunnelInv(t), t.terminated
    PROVE  /\ IsTunnel(t) /\ DeadInv(t) /\ DestInv(t) /\ t.stage # "unborn"
           /\ t.failed \subseteq {"init_package.result"}
<1>1. Unborn.terminated = FALSE
  BY Zenon DEF Unborn, NewTunnel
<1> QED BY <1>1, Zenon DEF TunnelInv

(* A dead tunnel loses one pending request and changes nothing else. *)
LEMMA DeadRequestGood ==
    ASSUME NEW t, TunnelInv(t), t.terminated, NEW r, IsTunnel(r),
           r.stage = t.stage, r.init_pkg = t.init_pkg, r.addr = t.addr,
           r.rd = t.rd, r.wr = t.wr, r.reading = t.reading, r.timer = t.timer,
           r.wreq = t.wreq, r.terminated = t.terminated, r.freed = t.freed,
           r.ref_count = t.ref_count, r.closing = t.closing,
           SameCounts(t, r), r.failed = t.failed,
           r.conn = t.conn \/ (t.conn = "pending" /\ r.conn # "pending"),
           r.gai => t.gai
    PROVE  GoodStep(t, r)
<1>1. /\ DeadInv(t) /\ DestInv(t) /\ t.stage # "unborn"
      /\ t.failed \subseteq {"init_package.result"}
  BY TerminatedFacts, Zenon
<1>2. DeadInv(r)
  BY <1>1 DEF DeadInv
<1>3. DestInv(r)
  BY <1>1, Zenon DEF DestInv
<1>4. TunnelInv(r)
  BY <1>1, <1>2, <1>3 DEF TunnelInv, Alive
<1>5. \A d \in Sides : ~r.reading[d] /\ ~r.timer[d]
  BY <1>1 DEF DeadInv, Both
<1>6. Quiet(t, r)
  BY <1>1, <1>5, Zenon DEF Quiet
<1>7. RelayStep(t, r)
  BY Zenon DEF RelayStep, RelayPhase
<1>8. Stays(t, r)
  BY <1>1, Zenon DEF Stays
<1> QED BY <1>4, <1>6, <1>7, <1>8, Zenon DEF GoodStep

(* Ending a connect request and its timer touches no other state. *)
LEMMA ConnectedEffect ==
    ASSUME NEW t, IsTunnel(t), NEW k \in Connections
    PROVE  LET r == [t EXCEPT !.conn = k]
               s == socket_timer_stop(r, "out")
           IN  /\ IsTunnel(r) /\ r.conn = k
               /\ r.stage = t.stage /\ r.init_pkg = t.init_pkg /\ r.addr = t.addr
               /\ r.rd = t.rd /\ r.wr = t.wr /\ r.reading = t.reading
               /\ r.timer = t.timer /\ r.wreq = t.wreq /\ r.gai = t.gai
               /\ r.terminated = t.terminated /\ r.freed = t.freed
               /\ r.ref_count = t.ref_count /\ r.closing = t.closing
               /\ SameCounts(t, r) /\ r.failed = t.failed
               /\ IsTunnel(s) /\ Alike(r, s) /\ s.rd = r.rd /\ s.wr = r.wr
               /\ s.reading = r.reading /\ s.wreq = r.wreq
<1> DEFINE r == [t EXCEPT !.conn = k]
           s == socket_timer_stop(r, "out")
<1>1. /\ IsTunnel(r) /\ r.conn = k
      /\ r.stage = t.stage /\ r.init_pkg = t.init_pkg /\ r.addr = t.addr
      /\ r.rd = t.rd /\ r.wr = t.wr /\ r.reading = t.reading
      /\ r.timer = t.timer /\ r.wreq = t.wreq /\ r.gai = t.gai
      /\ r.terminated = t.terminated /\ r.freed = t.freed
      /\ r.ref_count = t.ref_count /\ r.closing = t.closing
      /\ SameCounts(t, r) /\ r.failed = t.failed
  BY SMT DEF IsTunnel, SameCounts
<1> HIDE DEF r
<1>2. /\ IsTunnel(s) /\ Alike(r, s) /\ s.rd = r.rd /\ s.wr = r.wr
      /\ s.reading = r.reading /\ s.wreq = r.wreq
  <2>1. IsTunnel(r)
    BY <1>1
  <2> QED BY <2>1, SMT DEF IsTunnel, Alike, Frame, socket_timer_stop, Sides
<1> HIDE DEF s
<1> QED BY <1>1, <1>2, Zenon DEF r, s

(* A connect callback, and all of do_next after it, is a good step. *)
LEMMA ConnectDoneGood ==
    ASSUME NEW t, TunnelInv(t), t.conn = "pending", NEW n \in {"neg", "zero"},
           NEW o \in NoData, NEW ips
    PROVE  GoodStep(t, IF Continues(t, n)
                       THEN do_next(socket_connect_done_cb(t, n), "out", n, o, ips)
                       ELSE socket_connect_done_cb(t, n))
<1> DEFINE k == IF n = "neg" THEN "none" ELSE "up"
           r == [t EXCEPT !.conn = k]
           s == socket_timer_stop(r, "out")
<1>1. t.stage # "unborn" /\ IsTunnel(t)
  BY Born, Zenon DEF TunnelInv
<1>2. k \in Connections /\ k # "pending" /\ (n = "zero" => k = "up")
  BY Zenon DEF Connections
<1>3. socket_connect_done_cb(t, n) = IF t.terminated THEN r
                                     ELSE IF n = "neg" THEN tunnel_shutdown(s) ELSE s
  BY Zenon DEF socket_connect_done_cb, tunnel_is_dead
<1> HIDE DEF k
<1>4. /\ IsTunnel(r) /\ r.conn = k
      /\ r.stage = t.stage /\ r.init_pkg = t.init_pkg /\ r.addr = t.addr
      /\ r.rd = t.rd /\ r.wr = t.wr /\ r.reading = t.reading
      /\ r.timer = t.timer /\ r.wreq = t.wreq /\ r.gai = t.gai
      /\ r.terminated = t.terminated /\ r.freed = t.freed
      /\ r.ref_count = t.ref_count /\ r.closing = t.closing
      /\ SameCounts(t, r) /\ r.failed = t.failed
      /\ IsTunnel(s) /\ Alike(r, s) /\ s.rd = r.rd /\ s.wr = r.wr
      /\ s.reading = r.reading /\ s.wreq = r.wreq
  BY <1>1, <1>2, ConnectedEffect
<1> HIDE DEF r, s
<1>5. CASE t.terminated
  <2>1. GoodStep(t, r)
    BY ZenonT(30), <1>2, <1>4, <1>5, DeadRequestGood
  <2> QED BY <1>3, <1>5, <2>1, Zenon DEF Continues, tunnel_is_dead
<1>6. CASE ~t.terminated
  <2>1. Alive(t)
    BY <1>1, <1>6, Zenon DEF Alive
  <2>2. /\ LiveInv(t) /\ DestInv(t) /\ t.failed \subseteq {"init_package.result"}
        /\ \A d \in Sides : t.rd[d] # "dead" /\ t.wr[d] # "dead"
    BY <2>1, LiveFacts, Zenon
  <2>3. t.stage = "connect_host"
    <3>1. t.conn = "pending" <=> t.stage = "connect_host"
      BY <2>2, Zenon DEF LiveInv
    <3> QED BY <1>1, <3>1, Zenon
  <2>4. /\ AllStop(t) /\ t.taken = Both(0) /\ t.delivered = Both(0)
    <3>1. StageShape(t)
      BY <2>2, Zenon DEF LiveInv
    <3> QED BY <2>3, <3>1, Zenon DEF StageShape
  <2>5. /\ Working(s) /\ SameCounts(t, s) /\ s.stage = "connect_host"
        /\ s.conn = k /\ s.gai = t.gai
    <3>1. DestInv(s)
      BY <1>4, <2>2 DEF DestInv, Alike, Frame
    <3>2. t.ref_count = 0 /\ t.closing = {} /\ ~t.freed
      BY <2>2, Zenon DEF LiveInv
    <3>3. Alive(s) /\ SameCounts(t, s) /\ s.stage = "connect_host"
          /\ s.conn = k /\ s.gai = t.gai
      BY <1>4, <2>1, <2>3, Zenon DEF Alike, Frame, Alive, SameCounts
    <3>4. /\ s.failed = t.failed /\ s.rd = t.rd /\ s.wr = t.wr
          /\ s.ref_count = t.ref_count /\ s.closing = t.closing /\ s.freed = t.freed
      BY <1>4, Zenon DEF Alike, Frame
    <3>5. \A d \in Sides : s.rd[d] # "dead" /\ s.wr[d] # "dead"
      BY <2>2, <3>4, Zenon
    <3>6. s.failed \subseteq {"init_package.result"}
      BY <2>2, <3>4, Zenon
    <3>7. s.ref_count = 0 /\ s.closing = {} /\ ~s.freed
      BY <3>2, <3>4, Zenon
    <3> QED BY <1>4, <3>1, <3>3, <3>5, <3>6, <3>7, Zenon DEF Working
  <2>6. CASE n = "neg"
    <3>1. GoodStep(t, tunnel_shutdown(s))
      BY <2>1, <2>5, ShutdownGood
    <3> QED BY <1>3, <1>6, <2>6, <3>1, Zenon DEF Continues
  <2>7. CASE n = "zero"
    <3>1. /\ t.rd \in [Sides -> SockStates] /\ t.wreq \in [Sides -> BOOLEAN]
          /\ t.reading \in [Sides -> BOOLEAN]
      BY <1>1 DEF IsTunnel
    <3>2. t.rd = Both("stop") /\ t.wr["in"] = "stop" /\ t.wr["out"] = "stop"
      BY <2>4, <3>1, Zenon DEF AllStop, Both, Sides
    <3>3. t.reading = Both(FALSE) /\ t.wreq = Both(FALSE)
      <4>1. /\ ~t.reading["in"] /\ ~t.reading["out"]
            /\ ~t.wreq["in"] /\ ~t.wreq["out"]
        BY <2>2, <2>4, Zenon DEF LiveInv, AllStop, Sides
      <4> QED BY ZenonT(30), <3>1, <4>1 DEF Both, Sides
    <3>4. ~t.gai
      BY <2>2, <2>3, Zenon DEF LiveInv
    <3>5. Both(0)["out"] = 0
      BY Zenon DEF Both, Sides
    <3>6. Connected(s) /\ s.wr["out"] = "stop" /\ s.taken = Both(0)
      BY SMTT(30), <1>2, <1>4, <2>4, <2>5, <2>7, <3>2, <3>3, <3>4, <3>5
         DEF Connected, SameCounts
    <3>7. GoodStep(t, do_connect_host_done(s, "zero"))
      BY <2>1, <2>3, <2>4, <3>6, ConnectHostDoneGood, Zenon
    <3>8. do_next(s, "out", "zero", o, ips) = do_connect_host_done(s, "zero")
      BY <2>5, Zenon DEF do_next
    <3> QED BY <1>3, <1>6, <2>7, <3>7, <3>8, Zenon DEF Continues, tunnel_is_dead
  <2> QED BY <2>6, <2>7
<1> QED BY <1>5, <1>6, Zenon

(* Ending a lookup and its timer touches no other state. *)
LEMMA LookupEffect ==
    ASSUME NEW t, IsTunnel(t)
    PROVE  LET r == [t EXCEPT !.gai = FALSE]
               s == socket_timer_stop(r, "out")
           IN  /\ IsTunnel(r) /\ ~r.gai
               /\ r.stage = t.stage /\ r.init_pkg = t.init_pkg /\ r.addr = t.addr
               /\ r.rd = t.rd /\ r.wr = t.wr /\ r.reading = t.reading
               /\ r.timer = t.timer /\ r.wreq = t.wreq /\ r.conn = t.conn
               /\ r.terminated = t.terminated /\ r.freed = t.freed
               /\ r.ref_count = t.ref_count /\ r.closing = t.closing
               /\ SameCounts(t, r) /\ r.failed = t.failed
               /\ IsTunnel(s) /\ Alike(r, s) /\ s.rd = r.rd /\ s.wr = r.wr
               /\ s.reading = r.reading /\ s.wreq = r.wreq
<1> DEFINE r == [t EXCEPT !.gai = FALSE]
           s == socket_timer_stop(r, "out")
<1>1. /\ IsTunnel(r) /\ ~r.gai
      /\ r.stage = t.stage /\ r.init_pkg = t.init_pkg /\ r.addr = t.addr
      /\ r.rd = t.rd /\ r.wr = t.wr /\ r.reading = t.reading
      /\ r.timer = t.timer /\ r.wreq = t.wreq /\ r.conn = t.conn
      /\ r.terminated = t.terminated /\ r.freed = t.freed
      /\ r.ref_count = t.ref_count /\ r.closing = t.closing
      /\ SameCounts(t, r) /\ r.failed = t.failed
  BY SMT DEF IsTunnel, SameCounts
<1> HIDE DEF r
<1>2. /\ IsTunnel(s) /\ Alike(r, s) /\ s.rd = r.rd /\ s.wr = r.wr
      /\ s.reading = r.reading /\ s.wreq = r.wreq
  <2>1. IsTunnel(r)
    BY <1>1
  <2> QED BY <2>1, SMT DEF IsTunnel, Alike, Frame, socket_timer_stop, Sides
<1> HIDE DEF s
<1> QED BY <1>1, <1>2 DEF r, s

(* A lookup callback is a good step and caches only answers for the host. *)
LEMMA LookupDoneGood ==
    ASSUME NEW t, TunnelInv(t), t.gai, NEW n \in {"neg", "zero"},
           NEW ip, t.init_pkg.name \in Hosts => ip \in Answers[t.init_pkg.name],
           NEW o \in NoData, NEW ips
    PROVE  LET g == socket_getaddrinfo_done_cb(t, n, ip)
           IN  /\ GoodStep(t, IF Continues(t, n)
                              THEN do_next(g, "out", n, o, ips) ELSE g)
               /\ Continues(t, n) => /\ g.init_pkg.name = t.init_pkg.name
                                     /\ g.init_pkg.name \in Hosts
                                     /\ g.addr \in Addresses
                                     /\ g.addr.ip \in Answers[t.init_pkg.name]
<1> DEFINE r == [t EXCEPT !.gai = FALSE]
           s == socket_timer_stop(r, "out")
           u == [s EXCEPT !.addr.ip = ip]
           g == socket_getaddrinfo_done_cb(t, n, ip)
<1>1. t.stage # "unborn" /\ IsTunnel(t) /\ DestInv(t)
  BY Born DEF TunnelInv
<1>2. g = IF t.terminated THEN r ELSE IF n = "neg" THEN tunnel_shutdown(s) ELSE u
  BY Zenon DEF socket_getaddrinfo_done_cb, tunnel_is_dead
<1>3. /\ IsTunnel(r) /\ ~r.gai
      /\ r.stage = t.stage /\ r.init_pkg = t.init_pkg /\ r.addr = t.addr
      /\ r.rd = t.rd /\ r.wr = t.wr /\ r.reading = t.reading
      /\ r.timer = t.timer /\ r.wreq = t.wreq /\ r.conn = t.conn
      /\ r.terminated = t.terminated /\ r.freed = t.freed
      /\ r.ref_count = t.ref_count /\ r.closing = t.closing
      /\ SameCounts(t, r) /\ r.failed = t.failed
      /\ IsTunnel(s) /\ Alike(r, s) /\ s.rd = r.rd /\ s.wr = r.wr
      /\ s.reading = r.reading /\ s.wreq = r.wreq
  BY <1>1, LookupEffect, Zenon
<1> HIDE DEF r, s, g
<1>4. CASE t.terminated
  <2>1. GoodStep(t, r)
    BY ZenonT(30), <1>3, <1>4, DeadRequestGood
  <2> QED BY <1>2, <1>4, <2>1, Zenon DEF Continues, tunnel_is_dead, g
<1>5. CASE ~t.terminated
  <2>1. Alive(t)
    BY <1>1, <1>5 DEF Alive
  <2>2. /\ LiveInv(t) /\ DestInv(t) /\ t.failed \subseteq {"init_package.result"}
        /\ \A d \in Sides : t.rd[d] # "dead" /\ t.wr[d] # "dead"
    BY <2>1, LiveFacts, Zenon
  <2>3. t.stage = "resolve_host"
    <3>1. t.gai <=> t.stage = "resolve_host"
      BY <2>2, Zenon DEF LiveInv
    <3> QED BY <1>1, <3>1, Zenon
  <2>4. /\ AllStop(t) /\ t.taken = Both(0) /\ t.delivered = Both(0)
    <3>1. StageShape(t)
      BY <2>2, ZenonT(30) DEF LiveInv
    <3> QED BY <2>3, <3>1, Zenon DEF StageShape
  <2>5. t.conn = "none"
    BY <1>1, <2>2, <2>3 DEF LiveInv, IsTunnel, Connections
  <2>6. \A d \in Sides : ~t.wreq[d] /\ ~t.reading[d]
    BY ZenonT(30), <2>2, <2>4 DEF LiveInv, AllStop
  <2>7. /\ Working(s) /\ SameCounts(t, s) /\ s.stage = "resolve_host"
        /\ s.conn = "none" /\ ~s.gai /\ s.addr = t.addr /\ s.init_pkg = t.init_pkg
    <3>1. DestInv(s)
      BY SMTT(30), <1>3, <2>2, <2>5 DEF DestInv, Alike, Frame
    <3>2. t.ref_count = 0 /\ t.closing = {} /\ ~t.freed
      BY <2>2, Zenon DEF LiveInv
    <3>3. Alive(s) /\ SameCounts(t, s) /\ s.stage = "resolve_host"
          /\ s.conn = "none" /\ ~s.gai /\ s.addr = t.addr /\ s.init_pkg = t.init_pkg
      BY <1>3, <2>1, <2>3, <2>5, ZenonT(30) DEF Alike, Frame, Alive, SameCounts
    <3>4. /\ s.failed = t.failed /\ s.rd = t.rd /\ s.wr = t.wr
          /\ s.ref_count = t.ref_count /\ s.closing = t.closing /\ s.freed = t.freed
      BY <1>3, Zenon DEF Alike, Frame
    <3>5. \A d \in Sides : s.rd[d] # "dead" /\ s.wr[d] # "dead"
      BY <2>2, <3>4, Zenon
    <3>6. s.failed \subseteq {"init_package.result"}
      BY <2>2, <3>4, Zenon
    <3>7. s.ref_count = 0 /\ s.closing = {} /\ ~s.freed
      BY <3>2, <3>4, Zenon
    <3> QED BY <1>3, <3>1, <3>3, <3>5, <3>6, <3>7, ZenonT(30) DEF Working
  <2>8. Settled(s)
    BY <1>3, <2>4, <2>6, <2>7 DEF Settled, AllStop, SameCounts
  <2>9. CASE n = "neg"
    <3>1. GoodStep(t, tunnel_shutdown(s))
      BY <2>1, <2>7, ShutdownGood, Zenon
    <3> QED BY <1>2, <1>5, <2>9, <3>1, Zenon DEF Continues, g
  <2>10. CASE n = "zero"
    <3> DEFINE a == [s.addr EXCEPT !.ip = ip]
    <3>1. t.init_pkg.name \in Hosts /\ t.addr.port = t.init_pkg.port
      BY <1>1, Zenon DEF DestInv
    <3>2. ip \in Answers[t.init_pkg.name] /\ ip \in Ips
      BY <3>1, ConstantsAssumption
    <3>3. a \in Addresses /\ a.ip = ip /\ a.port = t.addr.port
      BY SMTT(30), <1>1, <2>7, <3>2 DEF IsTunnel, Addresses
    <3>4. u = [s EXCEPT !.addr = a]
      BY Zenon
    <3> HIDE DEF a, u
    <3>5. Settled(u) /\ u.addr = a /\ u.init_pkg = s.init_pkg
      BY <2>8, <3>3, <3>4, SettledAddr
    <3>6. u.stage = "resolve_host"
      <4>1. IsTunnel(s)
        BY <1>3
      <4> QED BY <2>7, <3>4, <4>1, SMTT(30) DEF IsTunnel
    <3>7. u.addr.port = u.init_pkg.port /\ IsAnswer(u.init_pkg.name, u.addr.ip)
      BY <2>7, <3>1, <3>2, <3>3, <3>5, Zenon DEF IsAnswer
    <3>8. Before(t) /\ o.err \in BOOLEAN
      BY SMTT(30), <2>1, <2>3, <2>4, NoDataFacts DEF Before
    <3>9. GoodStep(t, do_resolve_host_done(u, "zero", o.err))
      BY <3>5, <3>7, <3>8, ResolveDoneGood
    <3>10. do_next(u, "out", "zero", o, ips) = do_resolve_host_done(u, "zero", o.err)
      BY <3>6 DEF do_next
    <3>11. g = u /\ Continues(t, n)
      BY <1>2, <1>5, <2>10 DEF Continues, tunnel_is_dead
    <3> QED BY SMTT(30), <2>7, <2>10, <3>1, <3>2, <3>3, <3>5, <3>9, <3>10, <3>11 DEF g
  <2> QED BY <2>9, <2>10
<1> QED BY <1>4, <1>5, Zenon

(* A timer callback is a good step. *)
LEMMA TimerGood ==
    ASSUME NEW t, TunnelInv(t), NEW c \in Sides, t.timer[c]
    PROVE  GoodStep(t, socket_timer_expire_cb(t, c))
<1> DEFINE s == [t EXCEPT !.timer[c] = FALSE]
<1>1. t.stage # "unborn"
  BY Born
<1>2. ~t.terminated
  BY Zenon DEF TunnelInv, DeadInv, Both
<1>3. Alive(t)
  BY <1>1, <1>2, Zenon DEF Alive
<1>4. /\ IsTunnel(t) /\ LiveInv(t) /\ DestInv(t)
      /\ t.failed \subseteq {"init_package.result"}
      /\ \A d \in Sides : t.rd[d] # "dead" /\ t.wr[d] # "dead"
  BY <1>3, LiveFacts, Zenon
<1>5. IsTunnel(s) /\ Alike(t, s) /\ s.rd = t.rd /\ s.wr = t.wr
  <2>1. IsTunnel(t)
    BY <1>4, Zenon
  <2> QED BY <2>1, SMT DEF IsTunnel, Alike, Frame
<1>6. socket_timer_expire_cb(t, c) = tunnel_shutdown(s)
  BY Zenon DEF socket_timer_expire_cb
<1> HIDE DEF s
<1>7. DestInv(s) /\ Alive(s) /\ s.failed \subseteq {"init_package.result"}
  BY <1>3, <1>4, <1>5, Zenon DEF DestInv, Alike, Frame, Alive
<1>8. Working(s) /\ SameCounts(t, s)
  <2>1. t.ref_count = 0 /\ t.closing = {} /\ ~t.freed
    BY <1>4, Zenon DEF LiveInv
  <2>2. /\ s.ref_count = t.ref_count /\ s.closing = t.closing /\ s.freed = t.freed
        /\ SameCounts(t, s)
    BY <1>5, Zenon DEF Alike, Frame, SameCounts
  <2>3. s.ref_count = 0 /\ s.closing = {} /\ ~s.freed
    BY <2>1, <2>2, Zenon
  <2>4. \A d \in Sides : s.rd[d] # "dead" /\ s.wr[d] # "dead"
    BY <1>4, <1>5, Zenon
  <2> QED BY <1>5, <1>7, <2>2, <2>3, <2>4, Zenon DEF Working
<1> QED BY <1>3, <1>6, <1>8, ShutdownGood

(* A close callback drops one handle and one reference, and frees on the
   last. *)
LEMMA CloseEffect ==
    ASSUME NEW t, IsTunnel(t), t.ref_count > 0, NEW h
    PROVE  LET u == socket_close_done_cb(t, h)
           IN  /\ IsTunnel(u) /\ u.stage = t.stage /\ u.init_pkg = t.init_pkg
               /\ u.addr = t.addr /\ u.rd = t.rd /\ u.wr = t.wr
               /\ u.reading = t.reading /\ u.timer = t.timer /\ u.wreq = t.wreq
               /\ u.conn = t.conn /\ u.gai = t.gai /\ u.terminated = t.terminated
               /\ SameCounts(t, u) /\ u.failed = t.failed
               /\ u.closing = t.closing \ {h} /\ u.ref_count = t.ref_count - 1
               /\ u.freed <=> t.ref_count = 1
<1> DEFINE a == [t EXCEPT !.closing = @ \ {h}]
           last == a.ref_count = 1
           u == [a EXCEPT !.ref_count = @ - 1, !.freed = last]
<1>1. socket_close_done_cb(t, h) = u
  BY Zenon DEF socket_close_done_cb, tunnel_release
<1>2. /\ IsTunnel(a) /\ a.stage = t.stage
      /\ a.init_pkg = t.init_pkg /\ a.addr = t.addr /\ a.rd = t.rd /\ a.wr = t.wr
      /\ a.reading = t.reading /\ a.timer = t.timer /\ a.wreq = t.wreq
      /\ a.conn = t.conn /\ a.gai = t.gai /\ a.terminated = t.terminated
      /\ SameCounts(t, a) /\ a.failed = t.failed
      /\ a.closing = t.closing \ {h} /\ a.ref_count = t.ref_count
  BY SMT DEF IsTunnel, SameCounts
<1>3. last \in BOOLEAN /\ (last <=> t.ref_count = 1)
  BY <1>2
<1> HIDE DEF a, last
<1>4. /\ IsTunnel(u) /\ u.stage = a.stage /\ u.init_pkg = a.init_pkg
      /\ u.addr = a.addr /\ u.rd = a.rd /\ u.wr = a.wr
      /\ u.reading = a.reading /\ u.timer = a.timer /\ u.wreq = a.wreq
      /\ u.conn = a.conn /\ u.gai = a.gai /\ u.terminated = a.terminated
      /\ u.taken = a.taken /\ u.delivered = a.delivered /\ u.failed = a.failed
      /\ u.closing = a.closing /\ u.ref_count = a.ref_count - 1
      /\ u.freed = last
  <2>1. IsTunnel(a) /\ a.ref_count > 0
    BY <1>2, ZenonT(30)
  <2> QED BY <1>3, <2>1, SMTT(30) DEF IsTunnel
<1> HIDE DEF u
<1> QED BY <1>1, <1>2, <1>3, <1>4 DEF SameCounts

(* A close callback is a good step, except that it may free the tunnel. *)
LEMMA CloseGood ==
    ASSUME NEW t, TunnelInv(t), NEW h \in Handles, CloseReady(t, h)
    PROVE  LET u == socket_close_done_cb(t, h)
           IN  /\ TunnelInv(u) /\ Quiet(t, u) /\ RelayStep(t, u)
               /\ u.stage = t.stage /\ t.stage # "unborn" /\ ~t.freed
<1> DEFINE u == socket_close_done_cb(t, h)
<1>1. h \in t.closing /\ t.stage # "unborn"
  <2>1. h \in t.closing
    BY ZenonT(30) DEF CloseReady
  <2> QED BY <2>1, Born
<1>2. t.terminated
  BY <1>1 DEF TunnelInv, LiveInv, Alive
<1>3. /\ IsTunnel(t) /\ DeadInv(t) /\ DestInv(t)
      /\ t.failed \subseteq {"init_package.result"}
  BY <1>2, TerminatedFacts, Zenon
<1>4. t.closing \in SUBSET Handles /\ t.ref_count \in Nat
  BY <1>3, Zenon DEF IsTunnel
<1>5. /\ HandleCount(t.closing \ {h}) = HandleCount(t.closing) - 1
      /\ t.closing \ {h} \in SUBSET Handles
  BY <1>1, <1>4, HandleCounts, Zenon
<1>6. t.ref_count = HandleCount(t.closing) /\ ~t.freed
  BY <1>1, <1>3, Zenon DEF DeadInv
<1>8. /\ HandleCount(t.closing \ {h}) \in Nat
      /\ (HandleCount(t.closing \ {h}) = 0) <=> (t.closing \ {h} = {})
  BY <1>5, HandleCounts, Zenon
<1>7. t.ref_count \in Nat /\ t.ref_count > 0
  BY <1>4, <1>5, <1>6, <1>8
<1>9. /\ IsTunnel(u) /\ u.stage = t.stage /\ u.init_pkg = t.init_pkg
      /\ u.addr = t.addr /\ u.rd = t.rd /\ u.wr = t.wr
      /\ u.reading = t.reading /\ u.timer = t.timer /\ u.wreq = t.wreq
      /\ u.conn = t.conn /\ u.gai = t.gai /\ u.terminated = t.terminated
      /\ SameCounts(t, u) /\ u.failed = t.failed
      /\ u.closing = t.closing \ {h} /\ u.ref_count = t.ref_count - 1
      /\ u.freed <=> t.ref_count = 1
  BY <1>3, <1>7, CloseEffect, Zenon
<1> HIDE DEF u
<1>10. u.ref_count = HandleCount(u.closing) /\ (u.freed <=> u.closing = {})
  BY SMTT(30), <1>5, <1>6, <1>7, <1>8, <1>9
<1>11. \A c \in Sides : <<c, "tcp">> \notin u.closing => ~u.wreq[c]
  <2> SUFFICES ASSUME NEW c \in Sides, <<c, "tcp">> \notin u.closing
               PROVE  ~t.wreq[c]
    BY <1>9
  <2>1. CASE h = <<c, "tcp">>
    BY <2>1, Zenon DEF CloseReady
  <2>2. CASE h # <<c, "tcp">>
    BY <1>3, <1>9, <2>2 DEF DeadInv
  <2> QED BY <2>1, <2>2
<1>12. <<"out", "tcp">> \notin u.closing => u.conn # "pending"
  <2>1. CASE h = <<"out", "tcp">>
    BY <1>9, <2>1 DEF CloseReady
  <2>2. CASE h # <<"out", "tcp">>
    <3>1. <<"out", "tcp">> \notin t.closing => t.conn # "pending"
      BY <1>3, Zenon DEF DeadInv
    <3> QED BY <1>9, <2>2, <3>1, Zenon
  <2> QED BY <2>1, <2>2, Zenon
<1>13. DeadInv(u)
  <2>1. /\ t.rd = Both("dead") /\ t.wr = Both("dead")
        /\ t.reading = Both(FALSE) /\ t.timer = Both(FALSE)
    BY <1>3, Zenon DEF DeadInv
  <2>2. /\ u.rd = Both("dead") /\ u.wr = Both("dead")
        /\ u.reading = Both(FALSE) /\ u.timer = Both(FALSE)
    BY <1>9, <2>1, Zenon
  <2> QED BY <1>10, <1>11, <1>12, <2>2, Zenon DEF DeadInv
<1>14. DestInv(u)
  BY <1>3, <1>9, Zenon DEF DestInv
<1>15. TunnelInv(u)
  BY <1>1, <1>2, <1>3, <1>9, <1>13, <1>14, Zenon DEF TunnelInv, Alive
<1>16. \A d \in Sides : ~u.reading[d] /\ ~u.timer[d]
  <2>1. u.reading = Both(FALSE) /\ u.timer = Both(FALSE)
    BY <1>13, Zenon DEF DeadInv
  <2> QED BY <2>1, Zenon DEF Both
<1>17. Quiet(t, u) /\ RelayStep(t, u)
  BY <1>2, <1>9, <1>16, Zenon DEF Quiet, RelayStep, RelayPhase
<1>18. TunnelInv(u) /\ Quiet(t, u) /\ RelayStep(t, u)
  BY <1>15, <1>17, ZenonT(30)
<1> QED BY SMTT(30), <1>1, <1>6, <1>9, <1>18 DEF u

(* A tunnel just created has its type and both sockets stopped. *)
LEMMA NewTunnelType ==
    ASSUME NEW k \in ObfsStates
    PROVE  /\ IsTunnel(NewTunnel(k)) /\ IsTunnel(Unborn)
           /\ NewTunnel(k).rd = Both("stop") /\ NewTunnel(k).wr = Both("stop")
<1>1. NoPkg \in Packages /\ NoAddr \in Addresses /\ "plain" \in ObfsStates
  BY Zenon DEF Packages, NoAddr, Addresses, ObfsStates
<1>2. /\ Both("stop") \in [Sides -> SockStates] /\ Both(FALSE) \in [Sides -> BOOLEAN]
      /\ Both(0) \in [Sides -> Nat]
  BY SMTT(30) DEF Both, SockStates
<1>3. IsTunnel(NewTunnel(k)) /\ IsTunnel(NewTunnel("plain"))
  BY ZenonT(30), <1>1, <1>2 DEF IsTunnel, NewTunnel, Stages, Connections
<1>4. IsTunnel(Unborn)
  <2> DEFINE n == NewTunnel("plain")
  <2>1. IsTunnel(n)
    BY <1>3
  <2> HIDE DEF n
  <2>2. IsTunnel([n EXCEPT !.stage = "unborn"])
    BY ZenonT(30), <2>1, StageMoved DEF Stages
  <2> QED BY <2>2 DEF Unborn, n
<1> QED BY <1>3, <1>4 DEF NewTunnel

(* Accepting a connection is a good step from no tunnel. *)
LEMMA ConnectionGood ==
    ASSUME NEW k \in ObfsStates
    PROVE  GoodStep(Unborn, socket_read(NewTunnel(k), "in", TRUE))
<1> DEFINE n == NewTunnel(k)
           u == socket_read(n, "in", TRUE)
<1>1. IsTunnel(n) /\ n.rd = Both("stop") /\ n.wr = Both("stop")
  BY NewTunnelType
<1>2. /\ n.stage = "initial" /\ n.reading = Both(FALSE) /\ n.wreq = Both(FALSE)
      /\ n.conn = "none" /\ ~n.gai /\ ~n.terminated /\ n.ref_count = 0
      /\ n.closing = {} /\ ~n.freed /\ n.taken = Both(0) /\ n.delivered = Both(0)
      /\ n.failed = {}
  BY ZenonT(30) DEF NewTunnel
<1>3. /\ Unborn.stage = "unborn" /\ ~Unborn.terminated
      /\ Unborn.taken = Both(0) /\ Unborn.delivered = Both(0)
  BY Zenon DEF Unborn, NewTunnel
<1> HIDE DEF n
<1>4. n.rd["in"] = "stop" /\ StreamUsable(n, "in")
  BY SMTT(30), <1>1, <1>2 DEF StreamUsable, Both, Sides
<1>5. /\ IsTunnel(u) /\ Alike(n, u) /\ u.wr = n.wr /\ u.wreq = n.wreq
      /\ u.rd = [n.rd EXCEPT !["in"] = "busy"]
      /\ u.reading = [n.reading EXCEPT !["in"] = TRUE]
  BY ZenonT(30), <1>1, <1>4, ReadEffect DEF Sides
<1> HIDE DEF u
<1>6. Shape(u, "busy", "stop", "stop", "stop")
  BY <1>1, <1>5 DEF Shape, Both, Sides
<1>7. \A c \in Sides : ~u.wreq[c] /\ u.wr[c] # "busy"
                       /\ (u.reading[c] => u.rd[c] = "busy")
  BY <1>1, <1>2, <1>5, ZenonT(30) DEF Both, Sides
<1>8. StageShape(u)
  BY SMTT(30), <1>2, <1>5, <1>6 DEF StageShape, Alike, Frame
<1>9. LiveInv(u)
  BY ZenonT(30), <1>2, <1>5, <1>7, <1>8 DEF LiveInv, Alike, Frame
<1>10. TunnelInv(u)
  BY <1>2, <1>5, <1>9, ZenonT(30) DEF TunnelInv, DestInv, Alike, Frame
<1>11. Quiet(Unborn, u) /\ RelayStep(Unborn, u) /\ Stays(Unborn, u)
  BY SMTT(30), <1>2, <1>3, <1>5 DEF Quiet, RelayStep, RelayPhase, SameCounts, Stays, Alike, Frame
<1> QED BY ZenonT(30), <1>10, <1>11 DEF GoodStep, u, n

(* A tunnel not yet created satisfies TunnelInv. *)
LEMMA UnbornInv == TunnelInv(Unborn)
<1>1. IsTunnel(Unborn)
  BY NewTunnelType, Zenon DEF ObfsStates
<1>2. /\ Unborn.stage = "unborn" /\ ~Unborn.terminated /\ Unborn.failed = {}
      /\ ~Unborn.gai /\ Unborn.conn = "none"
  BY Zenon DEF Unborn, NewTunnel
<1> QED BY <1>1, <1>2, Zenon DEF TunnelInv, Alive, DestInv

-----------------------------------------------------------------------------
(***************************************************************************)
(* ServerInv is inductive.  Tunnel i's step replaces tun[i] by a good one; *)
(* Kept collects what the step does to the rest of the state.              *)
(***************************************************************************)
Step(i) ==
    /\ TunnelInv(tun'[i]) /\ Quiet(tun[i], tun'[i]) /\ RelayStep(tun[i], tun'[i])
    /\ tun' = [tun EXCEPT ![i] = tun'[i]]

Kept ==
    /\ resolved_ips' \in [Hosts -> Addresses]
    /\ CacheInv'
    /\ TunnelSetExact'

(* An action that takes a good step of one tunnel keeps the rest of
   ServerInv. *)
LEMMA OnlyTunnelKept ==
    ASSUME ServerInv, NEW i \in Tunnels, NEW u,
           OnlyTunnel(i, u), GoodStep(tun[i], u), tun[i].stage # "unborn"
    PROVE  Step(i) /\ Kept
<1>1. /\ DOMAIN tun = Tunnels /\ tun' = [tun EXCEPT ![i] = u]
      /\ tunnel_set' = tunnel_set /\ resolved_ips' = resolved_ips
      /\ resolved_ips \in [Hosts -> Addresses] /\ CacheInv /\ TunnelSetExact
      /\ TunnelInv(tun[i])
  BY Zenon DEF ServerInv, TypeOK, OnlyTunnel
<1>2. tun'[i] = u /\ \A j \in Tunnels : j # i => tun'[j] = tun[j]
  BY <1>1, Zenon
<1>3. Step(i)
  BY <1>1, <1>2, Zenon DEF Step, GoodStep
<1>4. u.freed <=> tun[i].freed
  BY <1>1, Zenon DEF GoodStep, Stays, TunnelInv, Alive, LiveInv
<1>5. TunnelSetExact'
  <2>1. u.stage # "unborn"
    BY Zenon DEF GoodStep, Stays
  <2>2. \A j \in Tunnels : (tun'[j].stage # "unborn" /\ ~tun'[j].freed)
                             <=> (tun[j].stage # "unborn" /\ ~tun[j].freed)
    <3> TAKE j \in Tunnels
    <3>1. CASE j = i
      BY <1>2, <1>4, <2>1, <3>1, Zenon
    <3>2. CASE j # i
      BY <1>2, <3>2, Zenon
    <3> QED BY <3>1, <3>2, Zenon
  <2> QED BY <1>1, <2>2, Zenon DEF TunnelSetExact
<1>6. CacheInv'
  BY <1>1 DEF CacheInv
<1> QED BY <1>1, <1>3, <1>5, <1>6 DEF Kept

(* The cache of resolved addresses holds only answers for its hosts. *)
LEMMA CacheGood ==
    ASSUME ServerInv
    PROVE  GoodCache(resolved_ips)
  BY DEF ServerInv, TypeOK, CacheInv, GoodCache

(* tunnel_establish_init_cb keeps the invariant. *)
LEMMA ConnectionStep ==
    ASSUME ServerInv, NEW i \in Tunnels, Connection(i)
    PROVE  Step(i) /\ Kept
<1>1. /\ DOMAIN tun = Tunnels /\ tun[i].stage = "unborn" /\ TunnelInv(tun[i])
      /\ tunnel_set' = tunnel_set \cup {i} /\ resolved_ips' = resolved_ips
      /\ resolved_ips \in [Hosts -> Addresses] /\ CacheInv /\ TunnelSetExact
  BY Zenon DEF ServerInv, TypeOK, Connection
<1>2. PICK k \in ObfsStates :
         tun' = [tun EXCEPT ![i] = socket_read(NewTunnel(k), "in", TRUE)]
  BY ZenonT(30) DEF Connection
<1> DEFINE u == socket_read(NewTunnel(k), "in", TRUE)
<1>3. GoodStep(tun[i], u)
  <2>1. tun[i] = Unborn
    BY <1>1, Zenon DEF TunnelInv
  <2> QED BY ZenonT(30), <2>1, ConnectionGood
<1> HIDE DEF u
<1>4. tun' = [tun EXCEPT ![i] = u]
  BY <1>2, Zenon DEF u
<1>5. tun'[i] = u /\ \A j \in Tunnels : j # i => tun'[j] = tun[j]
  BY <1>1, <1>4, Zenon
<1>6. Step(i)
  BY ZenonT(30), <1>3, <1>4, <1>5 DEF Step, GoodStep
<1>7. u.stage # "unborn" /\ ~u.freed
  <2>1. ~Unborn.terminated
    BY Zenon DEF Unborn, NewTunnel
  <2> QED BY <1>1, <1>3, <2>1, Zenon DEF GoodStep, Stays, TunnelInv
<1>8. TunnelSetExact'
  BY <1>1, <1>5, <1>7, Zenon DEF TunnelSetExact
<1>9. CacheInv'
  BY <1>1, Zenon DEF CacheInv
<1> QED BY <1>1, <1>6, <1>8, <1>9 DEF Kept

(* A read callback keeps the invariant. *)
LEMMA ReadDoneStep ==
    ASSUME ServerInv, NEW i \in Tunnels, NEW c \in Sides, ReadDone(i, c)
    PROVE  Step(i) /\ Kept
<1> DEFINE t == tun[i]
<1>1. TunnelInv(t) /\ t.reading[c]
  BY Zenon DEF ServerInv, ReadDone
<1>2. Alive(t)
  BY <1>1, ReadingAlive, Zenon
<1>3. PICK n \in Results, o \in Inputs(t) :
         OnlyTunnel(i, IF Continues(t, n) /\ n = "pos"
                       THEN do_next(socket_read_done_cb(t, c, n), c, n, o, resolved_ips)
                       ELSE socket_read_done_cb(t, c, n))
  BY Zenon DEF ReadDone
<1> HIDE DEF t
<1>4. CASE n = "pos"
  <2>1. GoodStep(t, do_next(socket_read_done_cb(t, c, "pos"), c, "pos", o, resolved_ips))
    BY <1>1, CacheGood, ReadPosGood, Zenon
  <2>2. Continues(t, n)
    BY <1>2, <1>4, Zenon DEF Continues, tunnel_is_dead, Alive
  <2>3. OnlyTunnel(i, do_next(socket_read_done_cb(t, c, "pos"), c, "pos", o, resolved_ips))
    BY <1>3, <1>4, <2>2, Zenon
  <2> QED BY <1>2, <2>1, <2>3, OnlyTunnelKept, Zenon DEF t, Alive
<1>5. CASE n \in {"neg", "zero"}
  <2>1. GoodStep(t, socket_read_done_cb(t, c, n))
    BY <1>1, <1>2, <1>5, ReadStoppedGood, Zenon
  <2>2. OnlyTunnel(i, socket_read_done_cb(t, c, n))
    BY <1>3, <1>5, Zenon
  <2> QED BY <1>2, <2>1, <2>2, OnlyTunnelKept, Zenon DEF t, Alive
<1> QED BY <1>4, <1>5, Zenon DEF Results

(* A write callback keeps the invariant. *)
LEMMA WriteDoneStep ==
    ASSUME ServerInv, NEW i \in Tunnels, NEW c \in Sides, WriteDone(i, c)
    PROVE  Step(i) /\ Kept
<1> DEFINE t == tun[i]
<1>1. TunnelInv(t) /\ t.wreq[c]
  BY Zenon DEF ServerInv, WriteDone
<1>2. t.stage # "unborn"
  BY <1>1, Born, Zenon
<1>3. PICK n \in {"neg", "zero"}, o \in NoData :
         OnlyTunnel(i, IF Continues(t, n)
                       THEN do_next(socket_write_done_cb(t, c, n), c, n, o, resolved_ips)
                       ELSE socket_write_done_cb(t, c, n))
  BY Zenon DEF WriteDone
<1> DEFINE u == IF Continues(t, n)
                THEN do_next(socket_write_done_cb(t, c, n), c, n, o, resolved_ips)
                ELSE socket_write_done_cb(t, c, n)
<1> HIDE DEF t
<1>4. GoodStep(t, u)
  <2>1. CASE t.terminated
    <3>1. GoodStep(t, socket_write_done_cb(t, c, n))
      BY <1>1, <2>1, DeadWriteGood, Zenon
    <3> QED BY <2>1, <3>1, Zenon DEF Continues, tunnel_is_dead
  <2>2. CASE ~t.terminated /\ n = "neg"
    <3>1. GoodStep(t, socket_write_done_cb(t, c, "neg"))
      BY <1>1, <1>2, <2>2, FailedWriteGood, Zenon DEF Alive
    <3> QED BY <2>2, <3>1, Zenon DEF Continues
  <2>3. CASE ~t.terminated /\ n = "zero"
    <3>1. GoodStep(t, do_next(socket_write_done_cb(t, c, "zero"),
                              c, "zero", o, resolved_ips))
      BY <1>1, <1>2, <2>3, CacheGood, WriteZeroGood, Zenon DEF Alive
    <3> QED BY <2>3, <3>1, Zenon DEF Continues, tunnel_is_dead
  <2> QED BY <2>1, <2>2, <2>3, Zenon
<1> HIDE DEF u
<1> QED BY <1>2, <1>3, <1>4, OnlyTunnelKept, Zenon DEF t, u

(* A connect callback keeps the invariant. *)
LEMMA ConnectDoneStep ==
    ASSUME ServerInv, NEW i \in Tunnels, ConnectDone(i)
    PROVE  Step(i) /\ Kept
<1> DEFINE t == tun[i]
<1>1. TunnelInv(t) /\ t.conn = "pending"
  BY Zenon DEF ServerInv, ConnectDone
<1>2. t.stage # "unborn"
  BY <1>1, Born, Zenon
<1>3. PICK n \in {"neg", "zero"}, o \in NoData :
         OnlyTunnel(i, IF Continues(t, n)
                       THEN do_next(socket_connect_done_cb(t, n), "out", n, o, resolved_ips)
                       ELSE socket_connect_done_cb(t, n))
  BY Zenon DEF ConnectDone
<1> DEFINE u == IF Continues(t, n)
                THEN do_next(socket_connect_done_cb(t, n), "out", n, o, resolved_ips)
                ELSE socket_connect_done_cb(t, n)
<1> HIDE DEF t
<1>4. GoodStep(t, u)
  BY <1>1, ConnectDoneGood, Zenon
<1> HIDE DEF u
<1> QED BY <1>2, <1>3, <1>4, OnlyTunnelKept, Zenon DEF t, u

(* A timer callback keeps the invariant. *)
LEMMA TimerStep ==
    ASSUME ServerInv, NEW i \in Tunnels, NEW c \in Sides, TimerExpire(i, c)
    PROVE  Step(i) /\ Kept
<1>1. TunnelInv(tun[i]) /\ tun[i].timer[c]
  BY Zenon DEF ServerInv, TimerExpire
<1>2. tun[i].stage # "unborn"
  BY <1>1, Born, Zenon
<1>3. GoodStep(tun[i], socket_timer_expire_cb(tun[i], c))
  BY <1>1, TimerGood, Zenon
<1> QED BY <1>2, <1>3, OnlyTunnelKept, Zenon DEF TimerExpire

(* A lookup callback keeps the invariant, the cache entry it adds included. *)
LEMMA GetaddrinfoStep ==
    ASSUME ServerInv, NEW i \in Tunnels, GetaddrinfoDone(i)
    PROVE  Step(i) /\ Kept
<1> DEFINE t == tun[i]
<1>1. /\ TunnelInv(t) /\ t.gai /\ DOMAIN tun = Tunnels /\ tunnel_set' = tunnel_set
      /\ resolved_ips \in [Hosts -> Addresses] /\ CacheInv /\ TunnelSetExact
  BY Zenon DEF ServerInv, TypeOK, GetaddrinfoDone
<1>2. t.stage # "unborn"
  BY <1>1, Born, Zenon
<1>3. PICK n \in {"neg", "zero"}, ip \in Answers[t.init_pkg.name], o \in NoData :
         LET g  == socket_getaddrinfo_done_cb(t, n, ip)
             go == Continues(t, n)
         IN  /\ tun' = [tun EXCEPT ![i] =
                          IF go THEN do_next(g, "out", n, o, resolved_ips) ELSE g]
             /\ resolved_ips' =
                   IF go THEN resolved_ips_add(resolved_ips, g.init_pkg.name, g.addr)
                   ELSE resolved_ips
  BY ZenonT(30) DEF GetaddrinfoDone
<1> DEFINE g == socket_getaddrinfo_done_cb(t, n, ip)
           u == IF Continues(t, n) THEN do_next(g, "out", n, o, resolved_ips) ELSE g
<1>4. /\ tun' = [tun EXCEPT ![i] = u]
      /\ resolved_ips' = IF Continues(t, n)
                         THEN resolved_ips_add(resolved_ips, g.init_pkg.name, g.addr)
                         ELSE resolved_ips
  BY <1>3, Zenon
<1> HIDE DEF t
<1>5. /\ GoodStep(t, u)
      /\ Continues(t, n) => /\ g.init_pkg.name = t.init_pkg.name
                            /\ g.init_pkg.name \in Hosts
                            /\ g.addr \in Addresses
                            /\ g.addr.ip \in Answers[t.init_pkg.name]
  BY <1>1, LookupDoneGood, Zenon
<1> HIDE DEF g, u
<1>6. tun'[i] = u /\ \A j \in Tunnels : j # i => tun'[j] = tun[j]
  BY <1>1, <1>4, Zenon
<1>7. Step(i)
  BY ZenonT(30), <1>4, <1>5, <1>6 DEF Step, GoodStep, t
<1>8. u.freed <=> t.freed
  <2>1. Stays(t, u)
    BY <1>5, Zenon DEF GoodStep
  <2>2. TunnelInv(t)
    BY <1>1, Zenon
  <2>3. CASE t.terminated
    BY <2>1, <2>3, Zenon DEF Stays
  <2>4. CASE ~t.terminated
    <3>1. ~t.freed
      BY <2>2, <2>4, <1>2, ZenonT(30) DEF TunnelInv, Alive, LiveInv
    <3> QED
      BY <3>1, <2>1, <2>4, Zenon DEF Stays
  <2> QED
    BY <2>3, <2>4, Zenon
<1>9. TunnelSetExact'
  BY SMTT(30), <1>1, <1>2, <1>5, <1>6, <1>8 DEF TunnelSetExact, GoodStep, Stays, t
<1>10. resolved_ips' \in [Hosts -> Addresses] /\ CacheInv'
  <2>1. CASE ~Continues(t, n)
    BY <1>1, <1>4, <2>1, Zenon DEF CacheInv
  <2>2. CASE Continues(t, n)
    <3> DEFINE h == g.init_pkg.name
               a == g.addr
    <3>1. /\ h \in Hosts /\ a \in Addresses /\ a.ip \in Answers[h]
          /\ resolved_ips' = resolved_ips_add(resolved_ips, h, a)
      BY <1>4, <1>5, <2>2, Zenon
    <3> HIDE DEF h, a
    <3>2. resolved_ips' = resolved_ips \/ resolved_ips' = [resolved_ips EXCEPT ![h] = a]
      BY <3>1, Zenon DEF resolved_ips_add
    <3> QED BY <1>1, <3>1, <3>2, Zenon DEF CacheInv
  <2> QED BY <2>1, <2>2, Zenon
<1> QED BY <1>7, <1>9, <1>10, Zenon DEF Kept

(* A close callback keeps the invariant, the removal from the tunnel set
   included. *)
LEMMA CloseStep ==
    ASSUME ServerInv, NEW i \in Tunnels, NEW h \in Handles, CloseDone(i, h)
    PROVE  Step(i) /\ Kept
<1> DEFINE u == socket_close_done_cb(tun[i], h)
<1>1. /\ TunnelInv(tun[i]) /\ DOMAIN tun = Tunnels /\ CloseReady(tun[i], h)
      /\ tun' = [tun EXCEPT ![i] = u] /\ tunnel_set' = tunnel_dying(i, u)
      /\ resolved_ips' = resolved_ips
      /\ resolved_ips \in [Hosts -> Addresses] /\ CacheInv /\ TunnelSetExact
  BY Zenon DEF ServerInv, TypeOK, CloseDone
<1>2. /\ TunnelInv(u) /\ Quiet(tun[i], u) /\ RelayStep(tun[i], u)
      /\ u.stage = tun[i].stage /\ tun[i].stage # "unborn" /\ ~tun[i].freed
  BY <1>1, CloseGood, Zenon
<1> HIDE DEF u
<1>3. tun'[i] = u /\ \A j \in Tunnels : j # i => tun'[j] = tun[j]
  BY <1>1, Zenon
<1>4. Step(i)
  BY <1>1, <1>2, <1>3, Zenon DEF Step
<1>5. TunnelSetExact'
  BY <1>1, <1>2, <1>3, Zenon DEF TunnelSetExact, tunnel_dying
<1>6. CacheInv'
  BY <1>1, Zenon DEF CacheInv
<1> QED BY <1>1, <1>4, <1>5, <1>6, Zenon DEF Kept

(* Every action of one tunnel keeps the invariant. *)
LEMMA TunnelStep ==
    ASSUME ServerInv, NEW i \in Tunnels, TunnelNext(i)
    PROVE  Step(i) /\ Kept
<1>1. CASE Connection(i)
  BY <1>1, ConnectionStep, Zenon
<1>2. CASE \E c \in Sides : ReadDone(i, c)
  BY <1>2, ReadDoneStep, Zenon
<1>3. CASE \E c \in Sides : WriteDone(i, c)
  BY <1>3, WriteDoneStep, ZenonT(30)
<1>4. CASE \E c \in Sides : TimerExpire(i, c)
  BY <1>4, TimerStep, Zenon
<1>5. CASE ConnectDone(i)
  BY <1>5, ConnectDoneStep, Zenon
<1>6. CASE GetaddrinfoDone(i)
  BY <1>6, GetaddrinfoStep, Zenon
<1>7. CASE \E h \in Handles : CloseDone(i, h)
  BY <1>7, CloseStep, Zenon
<1> QED BY SMTT(30), <1>1, <1>2, <1>3, <1>4, <1>5, <1>6, <1>7 DEF TunnelNext

(* tunnel_shutdown of any tunnel that exists, as the signal handler calls it. *)
LEMMA ShutdownAnyGood ==
    ASSUME NEW t, TunnelInv(t), t.stage # "unborn"
    PROVE  GoodStep(t, tunnel_shutdown(t))
<1>1. CASE t.terminated
  <2>1. tunnel_shutdown(t) = t
    BY <1>1, Zenon DEF tunnel_shutdown, tunnel_is_dead
  <2>2. IsTunnel(t)
    BY Zenon DEF TunnelInv
  <2>3. GoodStep(t, t)
    BY <1>1, <2>2, DeadRequestGood, Zenon DEF SameCounts
  <2> QED BY <2>1, <2>3, Zenon
<1>2. CASE ~t.terminated
  <2>1. Alive(t)
    BY <1>2, Zenon DEF Alive
  <2>2. /\ IsTunnel(t) /\ LiveInv(t) /\ DestInv(t)
        /\ t.failed \subseteq {"init_package.result"}
        /\ \A d \in Sides : t.rd[d] # "dead" /\ t.wr[d] # "dead"
    BY <2>1, LiveFacts, Zenon
  <2>3. Working(t) /\ SameCounts(t, t)
    BY <2>1, <2>2, Zenon DEF Working, LiveInv, SameCounts
  <2> QED BY <2>1, <2>3, ShutdownGood, Zenon
<1> QED BY <1>1, <1>2, Zenon

(* A tunnel that does not change takes a good step. *)
LEMMA StutterGood ==
    ASSUME NEW t, TunnelInv(t)
    PROVE  Quiet(t, t) /\ RelayStep(t, t)
<1>1. t.terminated => \A c \in Sides : ~t.reading[c] /\ ~t.timer[c]
  BY ZenonT(30) DEF TunnelInv, DeadInv, Both
<1> QED BY <1>1, Zenon DEF Quiet, RelayStep, SameCounts

(* What the handlers outside the tunnels leave of the state. *)
LEMMA SignalStep ==
    ASSUME ServerInv, SignalQuit
    PROVE  /\ DOMAIN tun' = Tunnels /\ Kept
           /\ \A i \in Tunnels : /\ TunnelInv(tun'[i]) /\ Quiet(tun[i], tun'[i])
                                 /\ RelayStep(tun[i], tun'[i])
<1>1. /\ tunnel_set' = tunnel_set /\ resolved_ips' = resolved_ips
      /\ resolved_ips \in [Hosts -> Addresses] /\ CacheInv /\ TunnelSetExact
      /\ DOMAIN tun' = Tunnels
      /\ \A i \in Tunnels : tun'[i] = IF i \in tunnel_set
                                      THEN tunnel_shutdown(tun[i]) ELSE tun[i]
      /\ \A i \in Tunnels : TunnelInv(tun[i])
  BY Zenon DEF ServerInv, TypeOK, SignalQuit
<1>2. ASSUME NEW i \in Tunnels
      PROVE  /\ TunnelInv(tun'[i]) /\ Quiet(tun[i], tun'[i])
             /\ RelayStep(tun[i], tun'[i])
             /\ tun'[i].stage # "unborn" /\ ~tun'[i].freed
                   <=> tun[i].stage # "unborn" /\ ~tun[i].freed
  <2>1. CASE i \in tunnel_set
    <3>1. tun[i].stage # "unborn" /\ ~tun[i].freed
      BY <1>1, <2>1, Zenon DEF TunnelSetExact
    <3>2. GoodStep(tun[i], tunnel_shutdown(tun[i]))
      BY <1>1, <3>1, ShutdownAnyGood, Zenon
    <3>3. GoodStep(tun[i], tun'[i])
      BY <1>1, <2>1, <3>2, Zenon
    <3> QED BY <3>1, <3>3, Zenon DEF GoodStep, Stays
  <2>2. CASE i \notin tunnel_set
    <3>1. tun'[i] = tun[i] /\ TunnelInv(tun[i])
      BY <1>1, <2>2, Zenon
    <3> QED BY <3>1, StutterGood, Zenon
  <2> QED BY <2>1, <2>2, Zenon
<1>3. TunnelSetExact'
  BY <1>1, <1>2, Zenon DEF TunnelSetExact
<1>4. CacheInv'
  BY <1>1, Zenon DEF CacheInv
<1> QED BY <1>1, <1>2, <1>3, <1>4, Zenon DEF Kept

(* Every step of the server keeps ServerInv, and steps each tunnel as Quiet
   and RelayStep say. *)
LEMMA NextGood ==
    ASSUME ServerInv, [Next]_vars
    PROVE  /\ ServerInv'
           /\ \A i \in Tunnels : Quiet(tun[i], tun'[i]) /\ RelayStep(tun[i], tun'[i])
<1>1. /\ TypeOK /\ CacheInv /\ TunnelSetExact
      /\ \A i \in Tunnels : TunnelInv(tun[i])
  BY Zenon DEF ServerInv
<1>2. /\ listener' \in {"open", "closing", "closed"} /\ shutting_down' \in BOOLEAN
      /\ loop' \in {"running", "exited"}
  <2>1. CASE \E i \in Tunnels : TunnelNext(i)
    <3>1. PICK i \in Tunnels : TunnelNext(i)
      BY <2>1, Zenon
    <3>2. UNCHANGED <<listener, shutting_down, loop>>
      <4>1. CASE Connection(i)
        BY <4>1, Zenon DEF Connection, ServerUnchanged
      <4>2. CASE \E c \in Sides : ReadDone(i, c)
        BY <4>2, Zenon DEF ReadDone, OnlyTunnel, ServerUnchanged
      <4>3. CASE \E c \in Sides : WriteDone(i, c)
        BY <4>3, Zenon DEF WriteDone, OnlyTunnel, ServerUnchanged
      <4>4. CASE \E c \in Sides : TimerExpire(i, c)
        BY <4>4, Zenon DEF TimerExpire, OnlyTunnel, ServerUnchanged
      <4>5. CASE ConnectDone(i)
        BY <4>5, Zenon DEF ConnectDone, OnlyTunnel, ServerUnchanged
      <4>6. CASE GetaddrinfoDone(i)
        BY <4>6, Zenon DEF GetaddrinfoDone, ServerUnchanged
      <4>7. CASE \E h \in Handles : CloseDone(i, h)
        BY <4>7, Zenon DEF CloseDone, ServerUnchanged
      <4> QED BY SMTT(30), <3>1, <4>1, <4>2, <4>3, <4>4, <4>5, <4>6, <4>7 DEF TunnelNext
    <3> QED BY <1>1, <3>2, Zenon DEF TypeOK
  <2>2. CASE ~\E i \in Tunnels : TunnelNext(i)
    BY ZenonT(30), <1>1, <2>2 DEF TypeOK, Next, SignalQuit, ListenerClosed, LoopExit, Exited, vars
  <2> QED BY <2>1, <2>2, Zenon
<1>3. /\ DOMAIN tun' = Tunnels /\ Kept
      /\ \A i \in Tunnels : /\ TunnelInv(tun'[i]) /\ Quiet(tun[i], tun'[i])
                            /\ RelayStep(tun[i], tun'[i])
  <2>1. CASE \E i \in Tunnels : TunnelNext(i)
    <3>1. PICK i \in Tunnels : TunnelNext(i)
      BY <2>1, Zenon
    <3>2. Step(i) /\ Kept
      BY <3>1, TunnelStep, Zenon
    <3>3. DOMAIN tun' = Tunnels /\ \A j \in Tunnels : j # i => tun'[j] = tun[j]
      BY <1>1, <3>2, Zenon DEF Step, TypeOK
    <3>4. ASSUME NEW j \in Tunnels
          PROVE  /\ TunnelInv(tun'[j]) /\ Quiet(tun[j], tun'[j])
                 /\ RelayStep(tun[j], tun'[j])
      <4>1. CASE j = i
        BY <3>2, <4>1, Zenon DEF Step
      <4>2. CASE j # i
        <5>1. tun'[j] = tun[j] /\ TunnelInv(tun[j])
          BY <1>1, <3>3, <4>2, Zenon
        <5> QED BY <5>1, StutterGood, Zenon
      <4> QED BY <4>1, <4>2, Zenon
    <3> QED BY <3>2, <3>3, <3>4
  <2>2. CASE SignalQuit
    BY <2>2, SignalStep, Zenon
  <2>3. CASE UNCHANGED <<tun, tunnel_set, resolved_ips>>
    <3>1. Kept /\ DOMAIN tun' = Tunnels
      BY <1>1, <2>3, Zenon DEF Kept, TypeOK, CacheInv, TunnelSetExact
    <3>2. ASSUME NEW j \in Tunnels
          PROVE  /\ TunnelInv(tun'[j]) /\ Quiet(tun[j], tun'[j])
                 /\ RelayStep(tun[j], tun'[j])
      <4>1. tun'[j] = tun[j] /\ TunnelInv(tun[j])
        BY <1>1, <2>3, Zenon
      <4> QED BY <4>1, StutterGood, Zenon
    <3> QED BY <3>1, <3>2, Zenon
  <2> QED BY <2>1, <2>2, <2>3, Zenon DEF Next, ListenerClosed, LoopExit, Exited, vars
<1>4. TypeOK'
  <2>1. \A i \in Tunnels : IsTunnel(tun'[i])
    BY <1>3, Zenon DEF TunnelInv
  <2>2. tunnel_set' \subseteq Tunnels /\ resolved_ips' \in [Hosts -> Addresses]
    BY <1>3, Zenon DEF Kept, TunnelSetExact
  <2> QED BY <1>2, <1>3, <2>1, <2>2, Zenon DEF TypeOK
<1>5. ServerInv'
  BY <1>3, <1>4, Zenon DEF ServerInv, Kept
<1> QED BY <1>3, <1>5, Zenon

-----------------------------------------------------------------------------
(* ServerInv holds initially. *)
LEMMA InitGood ==
    ASSUME Init
    PROVE  ServerInv
<1>1. /\ tun = [i \in Tunnels |-> Unborn] /\ tunnel_set = {}
      /\ resolved_ips = [h \in Hosts |-> NoAddr]
      /\ listener = "open" /\ shutting_down = FALSE /\ loop = "running"
  BY Zenon DEF Init
<1>2. \A i \in Tunnels : TunnelInv(tun[i]) /\ tun[i].stage = "unborn"
  <2>1. Unborn.stage = "unborn"
    BY Zenon DEF Unborn, NewTunnel
  <2> QED BY <1>1, <2>1, UnbornInv, Zenon
<1>3. NoAddr \in Addresses
  BY Zenon DEF NoAddr, Addresses
<1>4. TypeOK
  <2>1. \A i \in Tunnels : IsTunnel(tun[i])
    BY <1>2, Zenon DEF TunnelInv
  <2> QED BY ZenonT(30), <1>1, <1>3, <2>1 DEF TypeOK
<1>5. CacheInv
  BY <1>1, Zenon DEF CacheInv
<1>6. TunnelSetExact
  BY <1>1, <1>2, Zenon DEF TunnelSetExact
<1> QED BY <1>2, <1>4, <1>5, <1>6, Zenon DEF ServerInv

(***************************************************************************)
(* Every reachable state satisfies the inductive invariant: each tunnel's  *)
(* sockets are as its stage says, whatever order libuv runs the callbacks  *)
(* in and however many tunnels share the loop.                             *)
(***************************************************************************)
THEOREM ServerInvariant == Spec => []ServerInv
<1>1. Init => ServerInv
  BY InitGood, Zenon
<1>2. ServerInv /\ [Next]_vars => ServerInv'
  BY NextGood, Zenon
<1> QED BY <1>1, <1>2, PTL DEF Spec

(* Every variable keeps its type. *)
THEOREM TypeCorrect == Spec => []TypeOK
<1>1. ServerInv => TypeOK
  BY Zenon DEF ServerInv
<1> QED BY <1>1, ServerInvariant, PTL

(***************************************************************************)
(* No socket-state ASSERT of tunnel.c and server.c can fail.               *)
(***************************************************************************)
THEOREM AssertionsHold == Spec => []AssertsHold
<1>1. ServerInv => AssertsHold
  BY Zenon DEF ServerInv, AssertsHold, TunnelInv
<1> QED BY <1>1, ServerInvariant, PTL

(***************************************************************************)
(* tunnel_traditional_streaming waits for data or EOF on a side only when  *)
(* all that was read from that side has been written to the other.         *)
(***************************************************************************)
THEOREM BackPressure == Spec => []FlushedBeforeRead
<1>1. ServerInv => FlushedBeforeRead
  <2> SUFFICES ASSUME ServerInv, NEW i \in Tunnels, NEW c \in Sides,
                      Alive(tun[i]), tun[i].stage = "streaming", tun[i].reading[c]
               PROVE  /\ tun[i].taken[c] = tun[i].delivered[Other(c)]
                      /\ ~tun[i].wreq[Other(c)]
    BY Zenon DEF FlushedBeforeRead
  <2>1. Streaming(tun[i])
    BY Zenon DEF Streaming, ServerInv
  <2>2. /\ LiveInv(tun[i]) /\ Direction(tun[i], c) /\ Other(c) \in Sides
    BY <2>1, StreamingFacts, Zenon DEF Other, Sides
  <2>3. tun[i].rd[c] = "busy"
    BY <2>2, Zenon DEF LiveInv
  <2>4. tun[i].wr[Other(c)] = "stop" /\ tun[i].taken[c] = tun[i].delivered[Other(c)]
    BY SMTT(30), <2>2, <2>3 DEF Direction
  <2> QED BY <2>2, <2>4, Zenon DEF LiveInv
<1> QED BY <1>1, ServerInvariant, PTL

(***************************************************************************)
(* env->tunnel_set holds exactly the tunnels that exist.                   *)
(***************************************************************************)
THEOREM TunnelSetIsExact == Spec => []TunnelSetExact
<1>1. ServerInv => TunnelSetExact
  BY DEF ServerInv
<1> QED BY <1>1, ServerInvariant, PTL

(***************************************************************************)
(* Whatever the cache of resolved names holds, a tunnel connects to the    *)
(* port its client named and to an answer for the name its client gave.    *)
(***************************************************************************)
THEOREM DestinationIsRight == Spec => []RightDestination
<1>1. ServerInv => RightDestination
  BY Zenon DEF ServerInv, RightDestination, TunnelInv, DestInv
<1> QED BY <1>1, ServerInvariant, PTL

(***************************************************************************)
(* After tunnel_shutdown no callback starts anything on the tunnel.        *)
(***************************************************************************)
THEOREM DeadIsQuiet == Spec => DeadStaysQuiet
<1> DEFINE A == \A i \in Tunnels : tun[i].terminated =>
                   /\ tun'[i].terminated
                   /\ tun'[i].stage = tun[i].stage
                   /\ tun'[i].conn = "pending" => tun[i].conn = "pending"
                   /\ tun'[i].gai => tun[i].gai
                   /\ \A c \in Sides : /\ ~tun'[i].reading[c] /\ ~tun'[i].timer[c]
                                       /\ tun'[i].wreq[c] => tun[i].wreq[c]
<1>1. ServerInv /\ [Next]_vars => [A]_vars
  BY NextGood, Zenon DEF Quiet
<1>2. Spec => [][A]_vars
  BY <1>1, ServerInvariant, PTL DEF Spec
<1> QED BY <1>2, Zenon DEF DeadStaysQuiet

(***************************************************************************)
(* Every tunnel of the server implements the Relay: the chunks of each     *)
(* direction pass one at a time, none lost, none repeated, until it is     *)
(* shut down.                                                              *)
(***************************************************************************)
THEOREM ServerImplementsRelay == Spec => ImplementsRelay
<1> DEFINE B == \A i \in Tunnels : [Pipe(i)!RelayNext]_(Pipe(i)!relayVars)
<1>1. Init => \A i \in Tunnels : Pipe(i)!RelayInit
  <2>1. /\ Unborn.stage = "unborn" /\ ~Unborn.terminated
        /\ Unborn.taken = Both(0) /\ Unborn.delivered = Both(0)
    BY Zenon DEF Unborn, NewTunnel
  <2>2. Init => \A i \in Tunnels : tun[i] = Unborn
    BY Zenon DEF Init
  <2> QED BY <2>1, <2>2, Zenon DEF Pipe!RelayInit, Pipe!Ends, RelayPhase, Both, Sides
<1>2. ServerInv /\ [Next]_vars => [B]_vars
  <2> SUFFICES ASSUME ServerInv, [Next]_vars, NEW i \in Tunnels
               PROVE  [Pipe(i)!RelayNext]_(Pipe(i)!relayVars)
    BY Zenon
  <2>1. RelayStep(tun[i], tun'[i])
    BY NextGood, Zenon
  <2> QED BY ZenonT(30), <2>1 DEF RelayStep, SameCounts, Pipe!RelayNext, Pipe!relayVars, Pipe!Open,
             Pipe!Close, Pipe!Take, Pipe!Deliver, Pipe!Ends, Pipe!Opposite, Sides, Other
<1>3. Spec => [][B]_vars
  BY <1>2, ServerInvariant, PTL DEF Spec
<1>4. Spec => \A i \in Tunnels : Pipe(i)!RelayInit
  BY <1>1, Zenon DEF Spec
<1> QED BY <1>3, <1>4, Zenon DEF ImplementsRelay

-----------------------------------------------------------------------------
(* What is left to prove needs the cardinality of finite sets. *)
INSTANCE FiniteSetTheorems

(* HandleCount is the cardinality of a set of handles. *)
LEMMA HandlesCounted ==
    ASSUME NEW c \in SUBSET Handles
    PROVE  HandleCount(c) = Cardinality(c)
<1> DEFINE h1 == <<"in", "tcp">>
           h2 == <<"in", "timer">>
           h3 == <<"out", "tcp">>
           h4 == <<"out", "timer">>
           c1 == c \cap {h1}
           c2 == c \cap {h1, h2}
           c3 == c \cap {h1, h2, h3}
           One(h) == IF h \in c THEN 1 ELSE 0
<1>1. Handles = {h1, h2, h3, h4}
  BY DEF Handles, Sides
<1>2. h1 # h2 /\ h1 # h3 /\ h1 # h4 /\ h2 # h3 /\ h2 # h4 /\ h3 # h4
  BY Zenon
<1>3. HandleCount(c) = One(h1) + One(h2) + One(h3) + One(h4)
  BY Zenon DEF HandleCount
<1> HIDE DEF h1, h2, h3, h4
(* An element more is one more. *)
<1> DEFINE Counts(S, n) == IsFiniteSet(S) /\ n \in Nat /\ Cardinality(S) = n
           Grows(S, h, T) == h \notin S /\ T = IF h \in c THEN S \cup {h} ELSE S
<1>4. ASSUME NEW S, NEW n, NEW h, NEW T, Counts(S, n), Grows(S, h, T)
      PROVE  Counts(T, n + One(h))
  <2>1. CASE h \in c
    <3>1. IsFiniteSet(S \cup {h}) /\ Cardinality(S \cup {h}) = Cardinality(S) + 1
      BY <1>4, FS_AddElement
    <3> QED BY <1>4, <2>1, <3>1
  <2>2. CASE h \notin c
    BY <1>4, <2>2
  <2> QED BY <2>1, <2>2, Zenon
<1>5. Counts({}, 0)
  BY FS_EmptySet
<1>6. Grows({}, h1, c1) /\ Grows(c1, h2, c2) /\ Grows(c2, h3, c3) /\ Grows(c3, h4, c)
  BY <1>1, <1>2
<1>7. \A h : One(h) \in Nat
  BY Zenon
<1>8. Counts(c, 0 + One(h1) + One(h2) + One(h3) + One(h4))
  <2> HIDE DEF Counts, Grows, c1, c2, c3, One
  <2>1. Counts(c1, 0 + One(h1))
    BY <1>4, <1>5, <1>6, Zenon
  <2>2. Counts(c2, 0 + One(h1) + One(h2))
    BY <1>4, <1>6, <2>1, Zenon
  <2>3. Counts(c3, 0 + One(h1) + One(h2) + One(h3))
    BY <1>4, <1>6, <2>2, Zenon
  <2> QED BY <1>4, <1>6, <2>3, Zenon
<1> HIDE DEF One
<1> QED BY <1>3, <1>7, <1>8

(***************************************************************************)
(* tunnel_release frees a tunnel at its last close callback, when libuv    *)
(* can run no other callback of it.                                        *)
(***************************************************************************)
THEOREM FreedByLastClose == Spec => []FreedLast
<1>1. ServerInv => FreedLast
  <2> SUFFICES ASSUME ServerInv, NEW i \in Tunnels
               PROVE  LET t == tun[i]
                      IN  /\ t.ref_count = Cardinality(t.closing)
                          /\ t.freed =>
                               /\ t.closing = {} /\ t.conn # "pending"
                               /\ \A c \in Sides : ~(t.reading[c] \/ t.timer[c] \/ t.wreq[c])
    BY Zenon DEF FreedLast
  <2> DEFINE t == tun[i]
  <2>1. TunnelInv(t) /\ Cardinality({}) = 0
    BY FS_EmptySet, Zenon DEF ServerInv
  <2>2. CASE t.stage = "unborn"
    <3>1. t = Unborn
      BY <2>1, <2>2 DEF TunnelInv
    <3>2. Unborn.ref_count = 0 /\ Unborn.closing = {} /\ ~Unborn.freed
      BY Zenon DEF Unborn, NewTunnel
    <3> QED BY <2>1, <3>1, <3>2
  <2>3. CASE Alive(t)
    <3>1. LiveInv(t)
      BY <2>1, <2>3, Zenon DEF TunnelInv
    <3>2. t.ref_count = 0 /\ t.closing = {} /\ ~t.freed
      BY <3>1, Zenon DEF LiveInv
    <3> QED BY <2>1, <3>2, Zenon
  <2>4. CASE t.terminated
    <3>1. IsTunnel(t) /\ DeadInv(t)
      BY <2>1, <2>4, TerminatedFacts, Zenon
    <3>2. HandleCount(t.closing) = Cardinality(t.closing)
      BY <3>1, HandlesCounted, Zenon DEF IsTunnel
    <3> QED BY <3>1, <3>2, Zenon DEF DeadInv, Both
  <2> QED BY <2>2, <2>3, <2>4 DEF Alive
<1> QED BY <1>1, ServerInvariant, PTL
=============================================================================
