----------------------------- MODULE TunnelOps -----------------------------
(***************************************************************************)
(* The tunnel engine of tunnel.c: two sockets (incoming, outgoing), each   *)
(* with a read state, a write state and one timer, and the reference       *)
(* count that frees the tunnel after its four libuv handles are closed.    *)
(*                                                                         *)
(* Every C function is an operator from a tunnel record to a tunnel        *)
(* record, so that the action of a libuv callback is the composition of    *)
(* all the calls the callback makes.  The record holds struct tunnel_ctx   *)
(* and its two struct socket_ctx, the part of libuv's state that decides   *)
(* which callbacks can still come (reading, timer, wreq, conn, gai,        *)
(* closing), and two counters of stream chunks (taken, delivered).         *)
(*                                                                         *)
(* An ASSERT whose condition is false adds its name to the field failed    *)
(* and execution goes on, as in a release build (NDEBUG); a debug build    *)
(* would abort there.  A VERIFY aborts in every build.                     *)
(***************************************************************************)
EXTENDS Naturals

Sides == {"in", "out"}

Other(c) == IF c = "in" THEN "out" ELSE "in"

SockStates == {"stop", "busy", "done", "dead"}

Results == {"neg", "zero", "pos"}

Handles == Sides \X {"tcp", "timer"}

Connections == {"none", "pending", "up"}

Both(x) == [c \in Sides |-> x]

(* The assertions of tunnel.c, by function. *)
TunnelAsserts ==
    {"read.rdstate_stop", "read.uv_read_start", "write.wrstate_stop",
     "write.uv_write", "close.not_dead", "read_cb.rdstate_busy",
     "write_cb.wrstate_busy", "streaming.target_wrstate_stop",
     "streaming.one_of_read_write_done", "streaming.target_not_done",
     "streaming.unreachable"}

ASSERT(name, cond) == IF cond THEN {} ELSE {name}

Check(t, name, cond) == [t EXCEPT !.failed = @ \cup ASSERT(name, cond)]

AllStop(t) == \A c \in Sides : t.rd[c] = "stop" /\ t.wr[c] = "stop"

(* libuv accepts a read or a write only on a connected, open stream. *)
StreamUsable(t, c) ==
    /\ ~t.terminated
    /\ c = "in" \/ t.conn = "up"

tunnel_is_dead(t) == t.terminated

socket_timer_start(t, c) == [t EXCEPT !.timer[c] = TRUE]

socket_timer_stop(t, c) == [t EXCEPT !.timer[c] = FALSE]

socket_read(t, c, check_timeout) ==
    [t EXCEPT !.reading[c] = TRUE, !.rd[c] = "busy",
              !.timer[c] = IF check_timeout THEN TRUE ELSE @,
              !.failed = @ \cup ASSERT("read.rdstate_stop", t.rd[c] = "stop")
                           \cup ASSERT("read.uv_read_start", StreamUsable(t, c))]

socket_write(t, c) ==
    [t EXCEPT !.wr[c] = "busy", !.wreq[c] = TRUE, !.timer[c] = TRUE,
              !.failed = @ \cup ASSERT("write.wrstate_stop", t.wr[c] = "stop")
                           \cup ASSERT("write.uv_write", StreamUsable(t, c))]

socket_getaddrinfo(t, c) ==
    [socket_timer_start(t, c) EXCEPT !.gai = TRUE]

socket_connect_untimed(t, c, err) ==   \* mutant: no timer guards the connect
    IF err THEN t ELSE [t EXCEPT !.conn = "pending"]

(* uv_tcp_connect may fail synchronously (err), leaving the timer armed. *)
socket_connect(t, c, err) ==
    LET s == socket_timer_start(t, c)
    IN  IF err THEN s ELSE [s EXCEPT !.conn = "pending"]

(* Both sockets are closed in one call: four uv_close, four references. *)
socket_close_both(t) ==
    [t EXCEPT !.rd = Both("dead"), !.wr = Both("dead"),
              !.reading = Both(FALSE), !.timer = Both(FALSE),
              !.closing = Handles, !.ref_count = @ + 4, !.terminated = TRUE,
              !.failed = @ \cup ASSERT("close.not_dead",
                    \A c \in Sides : t.rd[c] # "dead" /\ t.wr[c] # "dead")]

tunnel_shutdown(t) == IF tunnel_is_dead(t) THEN t ELSE socket_close_both(t)

tunnel_release_per_socket(t) ==   \* mutant: two references at a time
    [t EXCEPT !.ref_count = @ - 2, !.freed = (t.ref_count = 2)]

tunnel_release_early(t) ==   \* mutant: off by one
    [t EXCEPT !.ref_count = @ - 1, !.freed = (t.ref_count = 2)]

tunnel_release(t) ==
    [t EXCEPT !.ref_count = @ - 1, !.freed = (t.ref_count = 1)]

socket_close_done_cb(t, h) ==
    tunnel_release([t EXCEPT !.closing = @ \ {h}])

socket_timer_expire_cb(t, c) ==
    tunnel_shutdown([t EXCEPT !.timer[c] = FALSE])

(***************************************************************************)
(* The four completion callbacks, up to the call of the tunnel's own       *)
(* handler (tunnel_read_done, ...).  The caller applies that handler when  *)
(* Continues holds of the tunnel before the callback and of the result.    *)
(* The result (nread, status: negative, zero or positive) is kept in       *)
(* socket->result by the code; it is read only by the callback that sets   *)
(* it, so here it is an argument and not a field.                          *)
(***************************************************************************)
Continues_dead(t, result) == result # "neg"   \* mutant: no tunnel_is_dead

Continues(t, result) == ~tunnel_is_dead(t) /\ result # "neg"

socket_read_done_cb(t, c, nread) ==
    LET s == [t EXCEPT !.reading[c] = FALSE, !.timer[c] = FALSE]
    IN  IF tunnel_is_dead(t) THEN t
        ELSE IF nread = "zero" THEN s
        ELSE IF nread = "neg" THEN tunnel_shutdown(s)
        ELSE [s EXCEPT !.rd[c] = "done", !.failed = @ \cup
                 ASSERT("read_cb.rdstate_busy", t.rd[c] = "busy")]

socket_write_done_cb(t, c, status) ==
    LET r == [t EXCEPT !.wreq[c] = FALSE]
        s == socket_timer_stop(r, c)
    IN  IF tunnel_is_dead(t) THEN r
        ELSE IF status = "neg" THEN tunnel_shutdown(s)
        ELSE [s EXCEPT !.wr[c] = "done", !.failed = @ \cup
                 ASSERT("write_cb.wrstate_busy", t.wr[c] = "busy")]

socket_connect_done_cb(t, status) ==
    LET r == [t EXCEPT !.conn = IF status = "neg" THEN "none" ELSE "up"]
        s == socket_timer_stop(r, "out")
    IN  IF tunnel_is_dead(t) THEN r
        ELSE IF status = "neg" THEN tunnel_shutdown(s)
        ELSE s

(* The answer replaces the address but keeps the port set before. *)
socket_getaddrinfo_done_cb(t, status, ip) ==
    LET r == [t EXCEPT !.gai = FALSE]
        s == socket_timer_stop(r, "out")
    IN  IF tunnel_is_dead(t) THEN r
        ELSE IF status = "neg" THEN tunnel_shutdown(s)
        ELSE [s EXCEPT !.addr.ip = ip]

(***************************************************************************)
(* tunnel_traditional_streaming: entered with current socket c either      *)
(* written out (wr = done) or read (rd = done).  extracted says whether    *)
(* tunnel_extract_data returned a buffer.                                  *)
(***************************************************************************)
streaming_written(t, c) ==
    LET o == Other(c)
        s == [t EXCEPT !.wr[c] = "stop", !.delivered[c] = @ + 1]
    IN  IF s.rd[o] = "stop" THEN socket_read(s, o, o = "out") ELSE s

streaming_read_eager(t, c, extracted) ==   \* mutant: no back-pressure
    LET s == [t EXCEPT !.rd[c] = "stop", !.taken[c] = @ + 1]
    IN  socket_read(socket_write(s, Other(c)), c, FALSE)

streaming_read_dropped(t, c, extracted) ==   \* mutant: the chunk is lost
    socket_read([t EXCEPT !.rd[c] = "stop", !.taken[c] = @ + 1], c, FALSE)

streaming_read(t, c, extracted) ==
    LET o == Other(c)
        s == [t EXCEPT !.rd[c] = "stop", !.failed = @ \cup
                 ASSERT("streaming.target_wrstate_stop", t.wr[o] = "stop")]
    IN  IF extracted
        THEN socket_write([s EXCEPT !.taken[c] = @ + 1], o)
        ELSE tunnel_shutdown(s)

tunnel_traditional_streaming(t, c, extracted) ==
    LET o == Other(c)
        a == [t EXCEPT !.failed = @
                 \cup ASSERT("streaming.one_of_read_write_done",
                             (t.wr[c] = "done") # (t.rd[c] = "done"))
                 \cup ASSERT("streaming.target_not_done",
                             t.wr[o] # "done" /\ t.rd[o] # "done")]
    IN  IF t.wr[c] = "done" THEN streaming_written(a, c)
        ELSE IF t.rd[c] = "done" THEN streaming_read(a, c, extracted)
        ELSE Check(a, "streaming.unreachable", FALSE)
=============================================================================
