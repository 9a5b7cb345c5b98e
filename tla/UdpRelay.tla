------------------------------ MODULE UdpRelay ------------------------------
(***************************************************************************)
(* The UDP relay of udprelay.c as ssr-client and ssr-local build it        *)
(* (MODULE_LOCAL): a listener socket, and one association (udp_remote_ctx) *)
(* per datagram received, with a socket, a timer and a reference count.    *)
(* An association ends with its first answer, its timeout or the relay's   *)
(* shutdown.                                                               *)
(*                                                                         *)
(* A use of freed memory, or an allocation that cannot succeed, adds its   *)
(* name to failed and the process stops there.                             *)
(***************************************************************************)
EXTENDS Naturals, FiniteSets

CONSTANTS
    Remotes,      \* identities of the associations that can be made
    Packets,      \* datagrams a client sends: [len, atyp, name_len, frag]
    PacketSize,   \* packet_size
    HasIv,        \* whether the cipher has an IV (method above table)
    HasPlugin     \* whether the protocol plugin checks answers

ASSUME PacketsAssumption ==
    /\ Packets \subseteq [len : Nat, atyp : Nat, name_len : Nat, frag : Nat]
    /\ PacketSize \in Nat /\ HasIv \in BOOLEAN /\ HasPlugin \in BOOLEAN

VARIABLES
    remotes,       \* struct udp_remote_ctx_t, by identity
    connections,   \* server_ctx->connections
    server,        \* "open", "closing", "freed": server_ctx and its socket
    failed         \* what went wrong

vars == <<remotes, connections, server, failed>>

Handles == {"timer", "udp"}

NoRemote ==
    [phase |-> "none", timer |-> FALSE, recv |-> FALSE, again |-> FALSE,
     ref_count |-> 0, closing |-> {}, header |-> 0, room |-> 0]

Init ==
    /\ remotes = [r \in Remotes |-> NoRemote]
    /\ connections = {} /\ server = "open" /\ failed = {}

Running == failed = {}

(***************************************************************************)
(* The header of a datagram, after the three bytes RSV and FRAG.  buf_len  *)
(* is a size_t: for a datagram shorter than three bytes it wraps around.   *)
(* The buffer is zeroed, so what lies beyond the datagram reads as type 0. *)
(* The result is the header's length, 0 for a bad one.                     *)
(***************************************************************************)
SizeMax == 2^31 - 1     \* stands for any length larger than a datagram

buf_len(p) == IF p.len >= 3 THEN p.len - 3 ELSE SizeMax

addr_type(p) == IF p.len > 3 THEN p.atyp ELSE 0

name_len(p) == IF p.len > 4 THEN p.name_len ELSE 0

udprelay_parse_header_short(p) ==   \* mutant: the port is not counted
    CASE addr_type(p) = 1 -> IF buf_len(p) >= 4 + 1 THEN 1 + 4 + 2 ELSE 0
      [] addr_type(p) = 3 -> IF name_len(p) + 4 <= buf_len(p)
                             THEN 1 + 1 + name_len(p) + 2 ELSE 0
      [] addr_type(p) = 4 -> IF buf_len(p) >= 16 + 3 THEN 1 + 16 + 2 ELSE 0
      [] OTHER -> 0

udprelay_parse_header(p) ==
    CASE addr_type(p) = 1 -> IF buf_len(p) >= 4 + 3 THEN 1 + 4 + 2 ELSE 0
      [] addr_type(p) = 3 -> IF name_len(p) + 4 <= buf_len(p)
                             THEN 1 + 1 + name_len(p) + 2 ELSE 0
      [] addr_type(p) = 4 -> IF buf_len(p) >= 16 + 3 THEN 1 + 16 + 2 ELSE 0
      [] OTHER -> 0

(* The early exits before an association is made. *)
Dropped(p) ==
    \/ p.len = 0
    \/ p.len > PacketSize
    \/ udprelay_parse_header(p) = 0
    \/ p.frag # 0

(***************************************************************************)
(* udp_listener_recv_cb.  A datagram that is dropped changes nothing.  The *)
(* association is made, added and armed before the datagram is encrypted:  *)
(* when encryption fails or the result is too long nothing is sent, and    *)
(* the association waits for its timeout.  When the socket cannot be bound *)
(* the context and its handle stay behind, in no list.                     *)
(***************************************************************************)
udp_listener_recv_cb(r, p, bound) ==
    /\ Running /\ server = "open"
    /\ ~Dropped(p)
    /\ remotes[r].phase = "none"
    /\ remotes' = [remotes EXCEPT ![r] =
          IF bound
          THEN [NoRemote EXCEPT !.phase = "open", !.timer = TRUE, !.recv = TRUE,
                                !.header = udprelay_parse_header(p),
                                !.room = p.len - 3]
          ELSE [NoRemote EXCEPT !.phase = "leaked"]]
    /\ connections' = IF bound THEN connections \cup {r} ELSE connections
    /\ UNCHANGED <<server, failed>>

(***************************************************************************)
(* udp_remote_shutdown on association s of a relay whose connections are   *)
(* cs.  Once the relay is freed, the set it removes itself from is gone.   *)
(***************************************************************************)
Shut(s) ==
    [s EXCEPT !.phase = "closing", !.timer = FALSE, !.recv = FALSE,
              !.again = FALSE, !.ref_count = @ + 2, !.closing = Handles]

udp_remote_shutdown_twice(r) ==   \* mutant: stays in the set
    /\ remotes' = [remotes EXCEPT ![r] = Shut(@)]
    /\ failed' = IF server = "freed" THEN failed \cup {"use_after_free"} ELSE failed
    /\ UNCHANGED connections

udp_remote_shutdown(r) ==
    /\ remotes' = [remotes EXCEPT ![r] = Shut(@)]
    /\ connections' = connections \ {r}
    /\ failed' = IF server = "freed" THEN failed \cup {"use_after_free"} ELSE failed

(* What uv_udp_recv_start's callback can be called with: an answer that    *)
(* passes or fails the checks, an error, or (again) nothing more to read   *)
(* after an answer that left the socket reading.                           *)
Answers ==
    {"relayed", "bad_cipher", "bad_header", "too_long", "eperm", "error"}
    \cup IF HasPlugin THEN {"plugin_refused", "plugin_error"} ELSE {}

(***************************************************************************)
(* udp_remote_recv_cb.  Every path ends the association, except that of an *)
(* answer the plugin refuses: it stops the timer and returns.  libuv then  *)
(* calls once more with nothing read; a cipher with an IV rejects the      *)
(* empty buffer and the association ends, without one it is refused again. *)
(* A negative nread other than -1 is taken for a length.  Once the relay   *)
(* is freed the first use of server_ctx is the failure, whatever follows.  *)
(***************************************************************************)
udp_remote_recv_cb(r, answer) ==
    /\ Running /\ remotes[r].recv /\ ~remotes[r].again
    /\ CASE answer = "error" ->
              /\ failed' = failed \cup {"recv_error_as_length"}
              /\ UNCHANGED <<remotes, connections>>
         [] answer = "plugin_refused" /\ server # "freed" ->
              /\ remotes' = [remotes EXCEPT ![r].timer = FALSE,
                                            ![r].again = TRUE]
              /\ UNCHANGED <<connections, failed>>
         [] OTHER -> udp_remote_shutdown(r)
    /\ UNCHANGED server

RecvAgain_ignored(r) ==   \* mutant: the empty read is ignored
    /\ Running /\ remotes[r].recv /\ remotes[r].again
    /\ remotes' = [remotes EXCEPT ![r].again = FALSE]
    /\ UNCHANGED <<connections, failed, server>>

RecvAgain(r) ==
    /\ Running /\ remotes[r].recv /\ remotes[r].again
    /\ IF HasIv \/ server = "freed" THEN udp_remote_shutdown(r)
       ELSE /\ remotes' = [remotes EXCEPT ![r].again = FALSE]
            /\ UNCHANGED <<connections, failed>>
    /\ UNCHANGED server

udp_remote_timeout_cb(r) ==
    /\ Running /\ remotes[r].timer
    /\ udp_remote_shutdown(r)
    /\ UNCHANGED server

udp_remote_close_done_cb_late(r, h) ==   \* mutant: waits for one close more
    /\ Running /\ h \in remotes[r].closing
    /\ remotes' = [remotes EXCEPT ![r].closing = @ \ {h}, ![r].ref_count = @ - 1,
                      ![r].phase = IF remotes[r].ref_count <= 0 THEN "freed" ELSE @]
    /\ UNCHANGED <<connections, server, failed>>

udp_remote_close_done_cb(r, h) ==
    /\ Running /\ h \in remotes[r].closing
    /\ remotes' = [remotes EXCEPT ![r].closing = @ \ {h}, ![r].ref_count = @ - 1,
                      ![r].phase = IF remotes[r].ref_count <= 1 THEN "freed" ELSE @]
    /\ UNCHANGED <<connections, server, failed>>

(***************************************************************************)
(* udprelay_shutdown walks connections and shuts each association down,    *)
(* which removes, and frees, the very tree node the iterator stands on.    *)
(* The first one is reached; the step to the next reads freed memory, so   *)
(* the walk may go on, end early anywhere, or crash.                       *)
(***************************************************************************)
udprelay_shutdown(reached) ==
    /\ Running /\ server = "open"
    /\ reached \subseteq connections
    /\ connections # {} => reached # {}
    /\ remotes' = [r \in Remotes |-> IF r \in reached THEN Shut(remotes[r])
                                     ELSE remotes[r]]
    /\ connections' = connections \ reached
    /\ server' = "closing"
    /\ UNCHANGED failed

ShutdownCrash ==
    /\ Running /\ server = "open" /\ connections # {}
    /\ failed' = failed \cup {"walk_of_freed_node"}
    /\ UNCHANGED <<remotes, connections, server>>

udp_local_listener_close_done_cb ==
    /\ Running /\ server = "closing"
    /\ server' = "freed"
    /\ connections' = {}
    /\ UNCHANGED <<remotes, failed>>

(* The loop ends when the listener is closed and no association is open. *)
Quiet ==
    /\ server = "freed"
    /\ \A r \in Remotes : remotes[r].phase \in {"none", "freed", "leaked"}

LoopExit ==
    /\ ~Running \/ Quiet
    /\ UNCHANGED vars

Next ==
    \/ \E r \in Remotes :
          \/ \E p \in Packets, bound \in BOOLEAN : udp_listener_recv_cb(r, p, bound)
          \/ \E a \in Answers : udp_remote_recv_cb(r, a)
          \/ RecvAgain(r)
          \/ udp_remote_timeout_cb(r)
          \/ \E h \in Handles : udp_remote_close_done_cb(r, h)
    \/ \E reached \in SUBSET connections : udprelay_shutdown(reached)
    \/ ShutdownCrash
    \/ udp_local_listener_close_done_cb
    \/ LoopExit

Spec == Init /\ [][Next]_vars

(* libuv fires armed timers, calls back closed handles, and calls the      *)
(* receive callback until the socket is drained.  Nothing obliges a peer   *)
(* to send or a signal to come.                                            *)
FairSpec ==
    /\ Spec
    /\ \A r \in Remotes :
          /\ WF_vars(RecvAgain(r))
          /\ WF_vars(udp_remote_timeout_cb(r))
          /\ \A h \in Handles : WF_vars(udp_remote_close_done_cb(r, h))
    /\ WF_vars(udp_local_listener_close_done_cb)
-----------------------------------------------------------------------------
(* What struct udp_remote_ctx_t holds; a count of closes is at most 2. *)
IsRemote(s) ==
    /\ DOMAIN s = {"phase", "timer", "recv", "again", "ref_count", "closing",
                   "header", "room"}
    /\ s.phase \in {"none", "open", "closing", "freed", "leaked"}
    /\ s.timer \in BOOLEAN /\ s.recv \in BOOLEAN /\ s.again \in BOOLEAN
    /\ s.ref_count \in 0..2 /\ s.closing \subseteq Handles
    /\ s.header \in 0..PacketSize /\ s.room \in 0..PacketSize

TypeOK ==
    /\ DOMAIN remotes = Remotes
    /\ \A r \in Remotes : IsRemote(remotes[r])
    /\ connections \subseteq Remotes
    /\ server \in {"open", "closing", "freed"}

(* The set holds exactly the open associations while the relay is open, so *)
(* that none is shut down twice (cstl_set_container_remove asserts that    *)
(* the object is there) and none is missed by a shutdown; and              *)
(* udp_remote_close_done_cb frees an association when both its handles     *)
(* have closed, no earlier and no later.                                   *)
ConnectionsExact ==
    /\ TypeOK
    /\ Running /\ server = "open" =>
          connections = {r \in Remotes : remotes[r].phase = "open"}
    /\ \A r \in Remotes :
          /\ remotes[r].ref_count = Cardinality(remotes[r].closing)
          /\ remotes[r].phase = "closing" <=> remotes[r].closing # {}

(* The header udp_listener_recv_cb copies from a datagram lies inside it,  *)
(* also when the length left after RSV and FRAG wraps around.              *)
HeaderInPacket ==
    \A r \in Remotes : remotes[r].header <= remotes[r].room

(* Every association made is released: by an answer (udp_remote_recv_cb),  *)
(* its timeout (udp_remote_timeout_cb) or udprelay_shutdown.               *)
AssociationsEnd ==
    \A r \in Remotes :
        remotes[r].phase = "open" ~> (remotes[r].phase = "freed" \/ ~Running)

(* udprelay_shutdown ends: the listener and every association are freed,   *)
(* also one that the walk of the connections missed.                       *)
ShutdownCompletes == server = "closing" ~> (Quiet \/ ~Running)

(* "server has been closed": an association that outlives the relay knows  *)
(* it and does not touch the relay's memory.                               *)
ServerCtxAlive == "use_after_free" \notin failed

(* "error on recv, simply drop that packet": udp_remote_recv_cb never      *)
(* takes the error code of a failed receive for a length.                  *)
RecvErrorDropped == "recv_error_as_length" \notin failed
=============================================================================
