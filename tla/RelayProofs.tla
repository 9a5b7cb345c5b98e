---------------------------- MODULE RelayProofs ----------------------------
(***************************************************************************)
(* What the behaviours of MCRelays keep, from the invariants of the        *)
(* programs and of the resolver.                                           *)
(***************************************************************************)
EXTENDS MCRelays, StreamProofs, ResolverProofs

(* A step of the relays is a step of each of them, or leaves it alone. *)
LEMMA RelaysStep ==
    ASSUME [RelaysNext]_relaysVars
    PROVE  /\ ServerEvNext \/ UNCHANGED serverEvVars
           /\ RedirNext \/ UNCHANGED redirVars
           /\ UdnsNext \/ UNCHANGED udnsVars
<1>1. CASE RelaysNext
  BY <1>1, Zenon DEF RelaysNext, UdpStep, DnsStep
<1>2. CASE UNCHANGED relaysVars
  BY <1>2, Zenon DEF relaysVars
<1> QED
  BY <1>1, <1>2, Zenon

(* In the event-driven ss-server, in ss-redir and in ss-tunnel the bytes of *)
(* both directions arrive in order, none lost or sent twice, however long   *)
(* the streams and whatever the buffers' sizes, and what still has to be    *)
(* sent is watched for (server_recv_cb, remote_recv_cb and their send       *)
(* callbacks).  It rests on the system taking all or nothing of the first   *)
(* packet of a connection and of the plugin's answer: the code loses the    *)
(* rest of those.  All other sends may be taken in part.                    *)
THEOREM RelaysAlwaysKeep ==
    ASSUME PartialSends = {}, "part" \notin FastOpenSends
    PROVE  RelaysSpec => []RelaysKeep
<1> DEFINE I == ServerEvInv /\ RedirInv
<1>1. RelaysInit => I
  BY ServerEvStarts, RedirStarts, Zenon DEF RelaysInit
<1>2. ASSUME I, [RelaysNext]_relaysVars PROVE I'
  <2>1. ServerEvInv'
    BY <1>2, RelaysStep, ServerEvKeeps, Zenon
  <2>2. RedirInv'
    BY <1>2, RelaysStep, RedirKeeps, Zenon
  <2> QED
    BY <2>1, <2>2, Zenon
<1>3. I => RelaysKeep
  BY EndsFollow, StreamFollows, ForwardFollows, Zenon DEF RelaysKeep
<1>4. RelaysSpec => RelaysInit /\ [][RelaysNext]_relaysVars
  BY PTL DEF RelaysSpec
<1> HIDE DEF I
<1> QED
  BY <1>1, <1>2, <1>3, <1>4, PTL

(* The resolver's list holds the active queries, sorted by their deadlines; *)
(* outside its loops the timer is due no later than the first, whatever     *)
(* is submitted or cancelled from inside a callback; and a query ends once, *)
(* with NXDOMAIN only if every name of its search was denied                *)
(* (dns_request_utm, dns_send, dns_end_query, dns_next_srch).               *)
THEOREM ResolverAlwaysRight == RelaysSpec => []ResolverRight
<1>1. RelaysInit => UdnsInv
  BY ResolverStarts, Zenon DEF RelaysInit
<1>2. ASSUME UdnsInv, [RelaysNext]_relaysVars PROVE UdnsInv'
  BY <1>2, RelaysStep, ResolverKeeps, Zenon
<1>3. UdnsInv => ResolverRight
  BY ResolverFollows, Zenon DEF ResolverRight
<1>4. RelaysSpec => RelaysInit /\ [][RelaysNext]_relaysVars
  BY PTL DEF RelaysSpec
<1> QED
  BY <1>1, <1>2, <1>3, <1>4, PTL
=============================================================================
