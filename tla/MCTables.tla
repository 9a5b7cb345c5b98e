------------------------------ MODULE MCTables ------------------------------
(***************************************************************************)
(* The data structures and the parsers that only their caller drives, the  *)
(* start of the programs and ss-manager's table of them, for TLC.  They do *)
(* not share state; table says which of them a behaviour is about, and the *)
(* state of the others is fixed.                                           *)
(*                                                                         *)
(* Eight keys make a red-black tree of three black levels, whose removals  *)
(* pass through every case of the fix-up on both sides and recolour more   *)
(* than one level.  Three addresses and a cache of capacity three (which   *)
(* holds two) evict; the limit is two failures, an hour is two ticks.      *)
(* Either one connection sends twelve bytes over blocks of three, or five  *)
(* that send only their IV draw from four of them, with a cache of three.  *)
(* Both hash tables grow twice, over keys that collide before and after.   *)
(***************************************************************************)
EXTENDS CstlRb, BlockList, Cipher, IpSet, CorkTable, Uthash, Json, DnsNames, CorkGc,
        Manager, Startup

VARIABLE table

oldVars == <<tree, blockVars, cipherVars>>
libVars == <<ipVars, ctVars, utVars, jsonVars, gcVars>>
programVars == <<managerVars, startVars>>
tablesVars == <<table, oldVars, libVars, programVars, nm>>

MCLoads == {<<12>>, <<0, 0, 0, 0, 0>>}

CorkHash == [a |-> 0, b |-> 2, c |-> 1]
CacheHash == [a |-> 0, b |-> 2, c |-> 4, d |-> 1]

Text(head, chars, len, full) == [head |-> head, chars |-> chars, len |-> len, full |-> full]

\* Any short text of the structure's characters, of a number's and of a
\* string's; and longer ones after a head that nests, or that names a member.
MCTexts ==
    {Text(<<>>, {"{", "}", "[", "]", ",", ":", "\"", "1"}, 6, 5),
     Text(<<"{", "\"", "x", "\"", ":", "[", "t", "]">>,
          {"{", "}", "]", ",", ":", "\"", "1"}, 14, 0),
     Text(<<"[">>, {"0", "1", "-", "+", ".", "e", "]", ","}, 6, 5),
     Text(<<"{", "\"">>, {"\"", "\\", "u2", ":", "t", "}"}, 8, 0),
     Text(<<"\"">>, {"\"", "\\", "u1", "u2", "u3", " "}, 5, 5)}

\* One object of two fields and two of one, so that cycles share an object.
MCFields == <<2, 1, 1>>

\* Members of a configuration file, and the options of a command line.
Member(n, v) == [name |-> n, kind |-> "text", val |-> v, n |-> 0]

MCMembers ==
    {Member("remote_port", "f"), Member("password", "f"), Member("protocol", "verify_sha1"),
     Member("user", "f"), Member("mode", "udp_only"), Member("mode", "what"),
     Member("nameserver", "f"), Member("server", "host"),
     [name |-> "server", kind |-> "list", val |-> "ip6_bracket", n |-> 2],
     [name |-> "servers", kind |-> "list", val |-> "host", n |-> 2],
     [name |-> "timeout", kind |-> "bad", val |-> "f", n |-> 0]}

MCCmd ==
    {{"remote_port", "password"}, {"local_port", "tunnel"},
     {"remote_port", "password", "local_port", "tunnel"},
     {"remote_port", "user", "local_port", "password"}}

Init ==
    /\ table \in {"set", "block_list", "cipher", "ipset", "table", "cache", "json",
                  "names", "gc", "manager", "start"}
    /\ RbInit /\ BlockInit /\ CipherInit /\ TableInit /\ UtInit /\ GcInit
    /\ ManagerInit /\ StartInit /\ (table = "start" \/ boot.prog = "server")
    /\ table = "cipher" \/ (method = "core" /\ Len(conn) = 1)
    /\ IpInit /\ (table = "ipset" \/ ipKind = "set")
    /\ JsonInit /\ (table = "json" \/ js.from.len = 5)
    /\ IF table = "names" THEN NamesInit ELSE nm = NothingRead

(* The names and the answers are read whole: every one is a behaviour. *)
Next ==
    /\ UNCHANGED <<table, nm>>
    /\ \/ /\ UNCHANGED <<libVars, programVars>>
          /\ \/ table = "set" /\ RbNext /\ UNCHANGED <<blockVars, cipherVars>>
             \/ table = "block_list" /\ BlockNext /\ UNCHANGED <<tree, cipherVars>>
             \/ table = "cipher" /\ CipherNext /\ UNCHANGED <<tree, blockVars>>
       \/ /\ UNCHANGED <<oldVars, programVars>>
          /\ \/ table = "ipset" /\ IpNext /\ UNCHANGED <<ctVars, utVars, jsonVars, gcVars>>
             \/ table = "table" /\ TableNext /\ UNCHANGED <<ipVars, utVars, jsonVars, gcVars>>
             \/ table = "cache" /\ UtNext /\ UNCHANGED <<ipVars, ctVars, jsonVars, gcVars>>
             \/ table = "json" /\ JsonNext /\ UNCHANGED <<ipVars, ctVars, utVars, gcVars>>
             \/ table = "gc" /\ GcNext /\ UNCHANGED <<ipVars, ctVars, utVars, jsonVars>>
       \/ /\ UNCHANGED <<oldVars, libVars>>
          /\ \/ table = "manager" /\ ManagerNext /\ UNCHANGED startVars
             \/ table = "start" /\ StartNext /\ UNCHANGED managerVars

Spec == Init /\ [][Next]_tablesVars

\* The set of the tunnels (cstl_rb.c) is a red-black tree after any sequence
\* of insertions and removals, and holds exactly the keys inserted and not
\* removed since, each with its own node.
TreeExact == table = "set" => RbTypeOK /\ WellFormed /\ SetSemantics

\* Both hash tables find exactly what was stored last under each key, before,
\* during and after they grow: libcork's by its bins and its list in order of
\* insertion (hash-table.c), uthash by its buckets and the list on which the
\* cache evicts the least recently used (uthash.h under cache.c).
HashTablesExact == (table = "table" => TableExact) /\ (table = "cache" => TableIsCache)

\* The sets and maps of addresses (libipset) answer as a plain function of the
\* address would after any updates, in nodes shared as far as they can be, and
\* every iteration yields each address once.
AddressesExact == table = "ipset" => IpSetExact

\* What the resolver writes it reads back (udns_dn.c, udns_parse.c,
\* udns_rr_a.c): names survive the conversion to text and back in every size
\* of buffer, walking a compressed name ends where skipping it ends, and the
\* pass that copies addresses stores as many as the pass that counted.
DnsExact == table = "names" => NamesAgree /\ PacketNames /\ PassesAgree

\* A program runs with the settings of its command line and file wherever
\* each stood, and on a failure or at its end gives back what it had taken
\* (jconf.c, local.c, server.c, redir.c, tunnel-back.c).
StartsRight == table = "start" => ConfigEquivalent /\ ResourcesKept

(* No operation depends on which address a node has: two trees that differ *)
(* in addresses only have the same view, each node named by its key.  The  *)
(* sentinel's parent is left out: a removal writes it before reading it.   *)
KeyAt(p) == IF p = NULL THEN NULL ELSE tree.n[p].key

ByKey ==
    <<KeyAt(tree.root), Color(tree, Sentinel),
      {<<tree.n[a].key, Color(tree, a), KeyAt(tree.n[a].left),
         KeyAt(tree.n[a].right), KeyAt(tree.n[a].parent)>> : a \in tree.live},
      table, blockVars, cipherVars, libVars, programVars, nm>>
=============================================================================
