------------------------------- MODULE IpSet -------------------------------
(***************************************************************************)
(* libipset: sets of IP addresses and maps from IP addresses to integers,  *)
(* kept as reduced ordered binary decision diagrams (BDDs).  Variable 0 of *)
(* a diagram says whether the address is IPv4 (true) or IPv6 (false), and  *)
(* variable i is the i-th most significant bit.  All nodes of a set live   *)
(* in a cache that shares equal nodes, counts references and recycles      *)
(* freed indices through a free list; acl.c keeps its four address lists   *)
(* in such sets.                                                           *)
(*                                                                         *)
(* The widths of the two address families are constants.  A C function     *)
(* that changes the cache returns here the changed cache, with the node id *)
(* it yields where it yields one.  The chunked node array is one function  *)
(* from indices to nodes, and the hash table of nodes is a function from   *)
(* node contents to node ids.                                              *)
(***************************************************************************)
EXTENDS Integers, Sequences
LOCAL INSTANCE SequencesExt
LOCAL INSTANCE FiniteSetsExt
LOCAL INSTANCE FiniteSets
LOCAL INSTANCE Functions

CONSTANTS V4Bits,      \* IP_BIT_SIZE of an IPv4 address (32 in the code)
          V6Bits,      \* IP_BIT_SIZE of an IPv6 address (128 in the code)
          IpValues,    \* the values a map may store
          MaxUpdates   \* bound on the updates of one set or map

ASSUME IpSetAssumption ==
    /\ V4Bits \in Nat /\ V6Bits \in Nat /\ V4Bits <= V6Bits
    /\ {0, 1} \subseteq IpValues /\ IpValues \subseteq Nat
    /\ MaxUpdates \in Nat

(***************************************************************************)
(* Node ids: the value of a terminal, or the index of a nonterminal.       *)
(***************************************************************************)
IPSET_NULL_INDEX == -1

ipset_terminal_node_id(value) == 2 * value + 1
ipset_nonterminal_node_id(index) == 2 * index
IsTerminal(id) == id % 2 = 1
ValueOf(id) == id \div 2

ipset_node_cache_new ==
    [nodes |-> <<>>, free_list |-> IPSET_NULL_INDEX, table |-> <<>>]

NodeOf(cache, id) == cache.nodes[ValueOf(id) + 1]
Contents(node) == <<node.variable, node.low, node.high>>

(***************************************************************************)
(* The node cache.                                                         *)
(***************************************************************************)
ipset_node_cache_alloc_node(cache) ==
    IF cache.free_list = IPSET_NULL_INDEX
    THEN [index |-> Len(cache.nodes),
          cache |-> [cache EXCEPT !.nodes =
                        Append(@, [refcount |-> 0, variable |-> 0,
                                   low |-> 0, high |-> 0])]]
    ELSE [index |-> cache.free_list,
          cache |-> [cache EXCEPT !.free_list =
                        cache.nodes[cache.free_list + 1].refcount]]

ipset_node_incref(cache, id) ==
    IF IsTerminal(id) THEN cache
    ELSE [cache EXCEPT !.nodes[ValueOf(id) + 1].refcount = @ + 1]

RECURSIVE ipset_node_decref(_, _)
ipset_node_decref(cache, id) ==
    IF IsTerminal(id) THEN cache
    ELSE LET node == NodeOf(cache, id)
             less == [cache EXCEPT !.nodes[ValueOf(id) + 1].refcount = @ - 1]
             freed == ipset_node_decref(ipset_node_decref(less, node.low),
                                        node.high)
         IN IF node.refcount # 1 THEN less
            ELSE [freed EXCEPT
                    !.table = Restrict(@, DOMAIN @ \ {Contents(node)}),
                    !.nodes[ValueOf(id) + 1].refcount = freed.free_list,
                    !.free_list = ValueOf(id)]

\* A shared node is returned and the stolen references are not given back.
NonterminalKeepsReferences(cache, variable, low, high) ==
    LET key == <<variable, low, high>>
        made == ipset_node_cache_alloc_node(cache)
    IN IF low = high THEN [id |-> low, cache |-> ipset_node_decref(cache, high)]
       ELSE IF key \in DOMAIN cache.table
       THEN [id |-> cache.table[key],
             cache |-> ipset_node_incref(cache, cache.table[key])]
       ELSE [id |-> ipset_nonterminal_node_id(made.index),
             cache |-> [made.cache EXCEPT
                          !.nodes[made.index + 1] =
                              [refcount |-> 1, variable |-> variable,
                               low |-> low, high |-> high],
                          !.table = [k \in DOMAIN @ \cup {key} |->
                              IF k = key
                              THEN ipset_nonterminal_node_id(made.index)
                              ELSE @[k]]]]

\* Steals the references to low and high.
ipset_node_cache_nonterminal(cache, variable, low, high) ==
    LET key == <<variable, low, high>>
        made == ipset_node_cache_alloc_node(cache)
        new_id == ipset_nonterminal_node_id(made.index)
    IN IF low = high
       THEN [id |-> low, cache |-> ipset_node_decref(cache, high)]
       ELSE IF key \in DOMAIN cache.table
       THEN LET id == cache.table[key]
                more == ipset_node_incref(cache, id)
            IN [id |-> id,
                cache |-> ipset_node_decref(ipset_node_decref(more, low), high)]
       ELSE [id |-> new_id,
             cache |-> [made.cache EXCEPT
                          !.nodes[made.index + 1] =
                              [refcount |-> 1, variable |-> variable,
                               low |-> low, high |-> high],
                          !.table = [k \in DOMAIN @ \cup {key} |->
                              IF k = key THEN new_id ELSE @[k]]]]

RECURSIVE ipset_node_cache_nodes_equal(_, _, _, _)
ipset_node_cache_nodes_equal(cache1, id1, cache2, id2) ==
    IF IsTerminal(id1) \/ IsTerminal(id2)
    THEN IsTerminal(id1) /\ IsTerminal(id2) /\ id1 = id2
    ELSE LET node1 == NodeOf(cache1, id1)
             node2 == NodeOf(cache2, id2)
         IN /\ node1.variable = node2.variable
            /\ ipset_node_cache_nodes_equal(cache1, node1.low, cache2, node2.low)
            /\ ipset_node_cache_nodes_equal(cache1, node1.high, cache2, node2.high)

(***************************************************************************)
(* Evaluation and update.  An address is a version and its bits; its       *)
(* assignment gives each variable a truth value.                           *)
(***************************************************************************)
Address4 == {<<4, bits>> : bits \in [1..V4Bits -> BOOLEAN]}
Address6 == {<<6, bits>> : bits \in [1..V6Bits -> BOOLEAN]}
Addresses == Address4 \cup Address6
IP_BIT_SIZE(addr) == IF addr[1] = 4 THEN V4Bits ELSE V6Bits

ipset_ip_assignment(addr, var) == IF var = 0 THEN addr[1] = 4 ELSE addr[2][var]

RECURSIVE ipset_node_evaluate(_, _, _)
ipset_node_evaluate(cache, id, addr) ==
    IF IsTerminal(id) THEN ValueOf(id)
    ELSE LET node == NodeOf(cache, id)
         IN ipset_node_evaluate(cache,
                IF ipset_ip_assignment(addr, node.variable)
                THEN node.high ELSE node.low, addr)

\* f is the fake node [current_var, var_count, addr, value].
FakeTerminal0(f) == [f EXCEPT !.current_var = f.var_count, !.value = 0]

RECURSIVE ipset_apply_ite(_, _, _, _)
ipset_apply_ite(cache, f, g, h) ==
    LET node == NodeOf(cache, h)
        next == [f EXCEPT !.current_var = @ + 1]
        set == ipset_ip_assignment(f.addr, f.current_var)
        descends == ~ IsTerminal(h) /\ node.variable = f.current_var
        high == ipset_apply_ite(cache, IF set THEN next ELSE FakeTerminal0(f),
                                g, IF descends THEN node.high ELSE h)
        low == ipset_apply_ite(high.cache, IF set THEN FakeTerminal0(f) ELSE next,
                               g, IF descends THEN node.low ELSE h)
        onlyHigh == ipset_apply_ite(cache, f, g, node.high)
        onlyLow == ipset_apply_ite(onlyHigh.cache, f, g, node.low)
    IN IF f.current_var = f.var_count
       THEN IF f.value = 0 THEN [id |-> h, cache |-> ipset_node_incref(cache, h)]
            ELSE [id |-> ipset_terminal_node_id(g), cache |-> cache]
       ELSE IF h = ipset_terminal_node_id(g) THEN [id |-> h, cache |-> cache]
       ELSE IF ~ IsTerminal(h) /\ node.variable < f.current_var
       THEN ipset_node_cache_nonterminal(onlyLow.cache, node.variable,
                                         onlyLow.id, onlyHigh.id)
       ELSE ipset_node_cache_nonterminal(low.cache, f.current_var,
                                         low.id, high.id)

ipset_node_insert(cache, id, addr, var_count, value) ==
    ipset_apply_ite(cache,
                    [current_var |-> 0, var_count |-> var_count,
                     addr |-> addr, value |-> 1],
                    value, id)

(***************************************************************************)
(* Sets and maps.  A set is a map whose values are 0 and 1 and whose       *)
(* default is 0.  An update reports whether it left the diagram alone.     *)
(***************************************************************************)
ipset_init == [cache |-> ipset_node_cache_new,
               bdd |-> ipset_terminal_node_id(0),
               default_bdd |-> ipset_terminal_node_id(0)]
ipmap_init(default) == [cache |-> ipset_node_cache_new,
                        bdd |-> ipset_terminal_node_id(default),
                        default_bdd |-> ipset_terminal_node_id(default)]

\* The old diagram is given back once the new one holds its references.
Replace(set, addr, var_count, value) ==
    LET new == ipset_node_insert(set.cache, set.bdd, addr, var_count, value)
    IN [set EXCEPT !.cache = ipset_node_decref(new.cache, set.bdd),
                   !.bdd = new.id]

ipset_ip_add(set, addr) == Replace(set, addr, IP_BIT_SIZE(addr) + 1, 1)
ipset_ip_remove(set, addr) == Replace(set, addr, IP_BIT_SIZE(addr) + 1, 0)

\* A prefix longer than the address is an error that changes nothing.
ipset_ip_add_network(set, addr, prefix) ==
    IF prefix > IP_BIT_SIZE(addr) THEN set ELSE Replace(set, addr, prefix + 1, 1)
ipset_ip_remove_network(set, addr, prefix) ==
    IF prefix > IP_BIT_SIZE(addr) THEN set ELSE Replace(set, addr, prefix + 1, 0)

ipmap_ip_set(map, addr, value) == Replace(map, addr, IP_BIT_SIZE(addr) + 1, value)
ipmap_ip_set_network(map, addr, prefix, value) ==
    IF prefix > IP_BIT_SIZE(addr) THEN map
    ELSE Replace(map, addr, prefix + 1, value)

ipset_contains_ip(set, addr) == ipset_node_evaluate(set.cache, set.bdd, addr) # 0
ipmap_ip_get(map, addr) == ipset_node_evaluate(map.cache, map.bdd, addr)
ipset_is_empty(set) == set.bdd = ipset_terminal_node_id(0)
ipmap_is_empty(map) == map.bdd = map.default_bdd
ipset_is_equal(set1, set2) ==
    ipset_node_cache_nodes_equal(set1.cache, set1.bdd, set2.cache, set2.bdd)
ipset_done(set) == ipset_node_decref(set.cache, set.bdd)

\* The nonterminals reachable from a node, each once.
RECURSIVE VisitReachable(_, _, _)
VisitReachable(cache, queue, visited) ==
    IF queue = <<>> THEN visited
    ELSE LET curr == Last(queue)
             node == NodeOf(cache, curr)
             children == SelectSeq(<<node.low, node.high>>,
                                   LAMBDA id : ~ IsTerminal(id))
         IN IF curr \in visited THEN VisitReachable(cache, Front(queue), visited)
            ELSE VisitReachable(cache, Front(queue) \o children,
                                visited \cup {curr})
ipset_node_reachable_count(cache, id) ==
    Cardinality(VisitReachable(cache, IF IsTerminal(id) THEN <<>> ELSE <<id>>, {}))

(***************************************************************************)
(* Files.  A file is a sequence of fields, each with its width in bytes.   *)
(***************************************************************************)
MAGIC_NUMBER == "IP set"
Field(width, value) == [width |-> width, value |-> value]

write_header_v1(cache, root) ==
    LET count == ipset_node_reachable_count(cache, root)
        set_size == 6 + 2 + 8 + 4 + count * (1 + 4 + 4)
                    + (IF IsTerminal(root) THEN 4 ELSE 0)
    IN << Field(6, MAGIC_NUMBER), Field(2, 1), Field(8, set_size),
          Field(4, count) >>
write_footer_v1(root) ==
    IF IsTerminal(root) THEN << Field(4, ValueOf(root)) >> ELSE <<>>
write_terminal_v1(value) == <<>>
write_nonterminal_v1(id, variable, low, high) ==
    << Field(1, variable), Field(4, low), Field(4, high) >>

\* The clauses of a GraphViz script, by what they draw.
write_terminal_dot(value) ==
    IF value = 0 THEN <<>> ELSE << [box |-> value] >>
Edge(kind, id, to) ==
    IF to < 0 THEN [kind |-> kind, from |-> -id, node |-> -to]
    ELSE IF to = 0 THEN [kind |-> kind, from |-> -id, dummy |-> -id]
    ELSE [kind |-> kind, from |-> -id, box |-> to]
write_nonterminal_dot(id, variable, low, high) ==
    << [circle |-> -id, label |-> variable],
       Edge("low", id, low), Edge("high", id, high) >>

\* s is the save state: the ids given so far, the next one and the output.
RECURSIVE save_visit_node(_, _, _, _)
save_visit_node(cache, dot, s, id) ==
    LET value == ValueOf(id)
        node == NodeOf(cache, id)
        low == save_visit_node(cache, dot, s, node.low)
        high == save_visit_node(cache, dot, low, node.high)
        Known(t, n) == [k \in DOMAIN t.ids \cup {id} |->
                            IF k = id THEN n ELSE t.ids[k]]
    IN IF id \in DOMAIN s.ids THEN s
       ELSE IF IsTerminal(id)
       THEN [s EXCEPT !.ids = Known(s, value),
                      !.out = @ \o (IF dot THEN write_terminal_dot(value)
                                    ELSE write_terminal_v1(value))]
       ELSE [high EXCEPT
               !.ids = Known(high, high.next),
               !.next = @ - 1,
               !.out = @ \o (IF dot
                   THEN write_nonterminal_dot(high.next, node.variable,
                            high.ids[node.low], high.ids[node.high])
                   ELSE write_nonterminal_v1(high.next, node.variable,
                            high.ids[node.low], high.ids[node.high]))]

save_bdd(cache, dot, root) ==
    save_visit_node(cache, dot, [ids |-> <<>>, next |-> -1, out |-> <<>>], root).out

ipset_node_cache_save(cache, root) ==
    write_header_v1(cache, root) \o save_bdd(cache, FALSE, root)
        \o write_footer_v1(root)
ipset_node_cache_save_dot(cache, root) == save_bdd(cache, TRUE, root)

\* The nodes of a file from field n on; ids maps the serialized ids read so far.
\* A short read is an error; the caller then frees the set.
RECURSIVE LoadNodes(_, _, _, _, _)
LoadNodes(file, cache, ids, i, count) ==
    LET at == 4 + 3 * (i - 1)
        Id(field) == IF field.value >= 0 THEN ipset_terminal_node_id(field.value)
                     ELSE ids[-field.value]
        made == ipset_node_cache_nonterminal(cache, file[at + 1].value,
                    Id(file[at + 2]), Id(file[at + 3]))
    IN IF i > count
       THEN [error |-> FALSE, cache |-> cache, id |-> Last(ids),
             bytes_read |-> 4 + 9 * count]
       ELSE IF Len(file) < at + 3 THEN [error |-> TRUE]
       ELSE LoadNodes(file, made.cache, Append(ids, made.id), i + 1, count)

verify_cap(loaded, cap) ==
    IF loaded.error \/ loaded.bytes_read # cap THEN [error |-> TRUE] ELSE loaded

load_v1(file, cache) ==
    LET cap == file[3].value - 6 - 2 - 8
        count == file[4].value
    IN IF Len(file) < 4 THEN [error |-> TRUE]
       ELSE IF count = 0
       THEN IF Len(file) < 5 THEN [error |-> TRUE]
            ELSE verify_cap([error |-> FALSE, cache |-> cache, bytes_read |-> 8,
                             id |-> ipset_terminal_node_id(file[5].value)], cap)
       ELSE verify_cap(LoadNodes(file, cache, <<>>, 1, count), cap)

ipset_node_cache_load(file, cache) ==
    IF Len(file) < 2 THEN [error |-> TRUE]
    ELSE IF file[1].value # MAGIC_NUMBER \/ file[2].value # 1
    THEN [error |-> TRUE]
    ELSE load_v1(file, cache)

NoSet == [error |-> TRUE]
ipset_load(file) ==
    LET loaded == ipset_node_cache_load(file, ipset_node_cache_new)
    IN IF loaded.error THEN NoSet
       ELSE [error |-> FALSE, cache |-> loaded.cache, bdd |-> loaded.id,
             default_bdd |-> ipset_terminal_node_id(0)]

(***************************************************************************)
(* Assignments: the value of each variable along a path of the diagram,    *)
(* EITHER for a variable the path does not test.                           *)
(***************************************************************************)
IPSET_FALSE == 0
IPSET_TRUE == 1
IPSET_EITHER == 2

ipset_assignment_get(a, var) == IF var < Len(a) THEN a[var + 1] ELSE IPSET_EITHER
ipset_assignment_set(a, var, value) ==
    [i \in 1..Max({Len(a), var + 1}) |->
        IF i = var + 1 THEN value ELSE ipset_assignment_get(a, i - 1)]

\* The expansion of an assignment: every EITHER variable starts false.
ipset_assignment_expand(a, var_count) ==
    [finished |-> FALSE,
     values |-> [i \in 1..var_count |-> ipset_assignment_get(a, i - 1) = IPSET_TRUE],
     eithers |-> SelectSeq([i \in 1..var_count |-> i - 1],
                    LAMBDA v : ipset_assignment_get(a, v) = IPSET_EITHER)]

\* A binary counter over the EITHER variables, the last one moving fastest.
ipset_expanded_assignment_advance(exp) ==
    LET falses == {i \in DOMAIN exp.eithers : ~ exp.values[exp.eithers[i] + 1]}
        turned == Max(falses \cup {0})
        carried == {exp.eithers[i] + 1 : i \in (turned + 1)..Len(exp.eithers)}
    IN IF exp.finished THEN exp
       ELSE [exp EXCEPT
               !.finished = falses = {},
               !.values = [v \in DOMAIN @ |->
                   (v \notin carried /\ @[v])
                       \/ (turned # 0 /\ v = exp.eithers[turned] + 1)]]

(***************************************************************************)
(* The walk over the paths of a diagram, low edges first.                  *)
(***************************************************************************)
RECURSIVE add_node(_, _, _)
add_node(cache, it, id) ==
    IF IsTerminal(id) THEN [it EXCEPT !.value = ValueOf(id)]
    ELSE add_node(cache,
            [it EXCEPT !.stack = Append(@, id),
                       !.assignment = ipset_assignment_set(@,
                           NodeOf(cache, id).variable, IPSET_FALSE)],
            NodeOf(cache, id).low)

ipset_node_iterate(cache, root) ==
    add_node(cache, [finished |-> FALSE, stack |-> <<>>, assignment |-> <<>>,
                     value |-> 0], root)

RECURSIVE ipset_bdd_iterator_advance(_, _)
ipset_bdd_iterator_advance(cache, it) ==
    LET last == NodeOf(cache, Last(it.stack))
        Assign(value) == ipset_assignment_set(it.assignment, last.variable, value)
    IN IF it.finished THEN it
       ELSE IF it.stack = <<>> THEN [it EXCEPT !.finished = TRUE]
       ELSE IF ipset_assignment_get(it.assignment, last.variable) = IPSET_TRUE
       THEN ipset_bdd_iterator_advance(cache,
                [it EXCEPT !.stack = Front(@), !.assignment = Assign(IPSET_EITHER)])
       ELSE add_node(cache, [it EXCEPT !.assignment = Assign(IPSET_TRUE)], last.high)

(***************************************************************************)
(* The iterator over the addresses, or the networks, of a set.             *)
(***************************************************************************)
find_last_non_either_bit(a, start) ==
    Max({i \in 1..start : ipset_assignment_get(a, i) # IPSET_EITHER} \cup {0})

\* The current network: a version, as many leading bits as the prefix is long,
\* zeros after them, and the prefix.
create_ip_address(it) ==
    LET version == IF it.exp.values[1] THEN 4 ELSE 6
        size == IF version = 4 THEN V4Bits ELSE V6Bits
    IN [it EXCEPT !.network =
          [version |-> version, prefix |-> it.cidr_prefix,
           bits |-> [i \in 1..size |->
                        i <= it.cidr_prefix /\ it.exp.values[i + 1]]]]

expand(it, size) ==
    LET a == it.bdd_iterator.assignment
        last_bit == IF it.summarize THEN find_last_non_either_bit(a, size) ELSE size
    IN create_ip_address(
          [it EXCEPT !.exp = ipset_assignment_expand(a, last_bit + 1),
                     !.cidr_prefix = last_bit])
expand_ipv4(it) == expand(it, V4Bits)
expand_ipv6(it) == expand(it, V6Bits)

\* An assignment that does not test variable 0 is expanded for both families.
RECURSIVE process_assignment(_, _)
process_assignment(cache, it) ==
    LET walk == it.bdd_iterator
        type == ipset_assignment_get(walk.assignment, 0)
        Typed(state, value) == [it EXCEPT
            !.state = state,
            !.bdd_iterator.assignment = IF value = IPSET_EITHER THEN @
                                        ELSE ipset_assignment_set(@, 0, value)]
    IN IF walk.finished THEN [it EXCEPT !.finished = TRUE]
       ELSE IF walk.value # it.desired_value
       THEN process_assignment(cache,
                [it EXCEPT !.bdd_iterator = ipset_bdd_iterator_advance(cache, @)])
       ELSE CASE type = IPSET_FALSE -> expand_ipv6(Typed("normal", IPSET_EITHER))
              [] type = IPSET_TRUE -> expand_ipv4(Typed("normal", IPSET_EITHER))
              [] type = IPSET_EITHER -> expand_ipv4(Typed("ipv4", IPSET_TRUE))

AdvanceOnlyOnce(cache, it) ==
    process_assignment(cache,
        [it EXCEPT !.bdd_iterator = ipset_bdd_iterator_advance(cache, @)])

advance_assignment(cache, it) ==
    CASE it.state = "normal" ->
            process_assignment(cache,
                [it EXCEPT !.bdd_iterator = ipset_bdd_iterator_advance(cache, @)])
      [] it.state = "ipv4" ->
            expand_ipv6([it EXCEPT
                !.state = "ipv6",
                !.bdd_iterator.assignment = ipset_assignment_set(@, 0, IPSET_FALSE)])
      [] it.state = "ipv6" ->
            LET reset == [it.bdd_iterator EXCEPT
                    !.assignment = ipset_assignment_set(@, 0, IPSET_EITHER)]
            IN process_assignment(cache,
                   [it EXCEPT !.bdd_iterator =
                        ipset_bdd_iterator_advance(cache, reset)])

create_iterator(set, desired_value, summarize) ==
    process_assignment(set.cache,
        [finished |-> FALSE, desired_value |-> desired_value,
         summarize |-> summarize, state |-> "normal", network |-> <<>>,
         cidr_prefix |-> 0, exp |-> <<>>,
         bdd_iterator |-> ipset_node_iterate(set.cache, set.bdd)])

ipset_iterator_advance(cache, it) ==
    LET moved == [it EXCEPT !.exp = ipset_expanded_assignment_advance(@)]
    IN IF it.finished THEN it
       ELSE IF moved.exp.finished THEN advance_assignment(cache, moved)
       ELSE create_ip_address(moved)

(***************************************************************************)
(* A program that builds one set or map, iterates over it, saves it and    *)
(* loads it back.                                                          *)
(***************************************************************************)
VARIABLES ipKind,    \* "set" or "map"
          ipSet,     \* the set or map
          ipTold,    \* ghost: the value every address was last given
          ipUpdates, \* the number of updates made
          ipIter,    \* the iterator in use, or NoIterator
          ipSeen     \* the networks it has yielded
ipVars == <<ipKind, ipSet, ipTold, ipUpdates, ipIter, ipSeen>>

NoIterator == [none |-> TRUE]

Network(addr, prefix) ==
    {a \in Addresses : a[1] = addr[1] /\ \A i \in 1..prefix : a[2][i] = addr[2][i]}
Told(members, value) ==
    [a \in Addresses |-> IF a \in members THEN value ELSE ipTold[a]]

IpInit ==
    /\ ipKind \in {"set", "map"}
    /\ ipSet \in IF ipKind = "set" THEN {ipset_init}
                 ELSE {ipmap_init(v) : v \in IpValues}
    /\ ipTold = [a \in Addresses |-> ValueOf(ipSet.bdd)]
    /\ ipUpdates = 0
    /\ ipIter = NoIterator
    /\ ipSeen = <<>>

Updating ==
    /\ ipIter = NoIterator
    /\ ipUpdates < MaxUpdates
    /\ ipUpdates' = ipUpdates + 1
    /\ UNCHANGED <<ipKind, ipIter, ipSeen>>

IpSetAddr(addr, value) ==
    /\ Updating
    /\ ipSet' = CASE ipKind = "map" -> ipmap_ip_set(ipSet, addr, value)
                  [] ipKind = "set" /\ value = 1 -> ipset_ip_add(ipSet, addr)
                  [] ipKind = "set" /\ value = 0 -> ipset_ip_remove(ipSet, addr)
    /\ ipTold' = Told({addr}, value)

IpSetNetwork(addr, prefix, value) ==
    /\ Updating
    /\ ipSet' = CASE ipKind = "map" ->
                        ipmap_ip_set_network(ipSet, addr, prefix, value)
                  [] ipKind = "set" /\ value = 1 ->
                        ipset_ip_add_network(ipSet, addr, prefix)
                  [] ipKind = "set" /\ value = 0 ->
                        ipset_ip_remove_network(ipSet, addr, prefix)
    /\ ipTold' = IF prefix > IP_BIT_SIZE(addr) THEN ipTold
                 ELSE Told(Network(addr, prefix), value)

IpIterate(desired_value, summarize) ==
    /\ ipKind = "set" /\ ipIter = NoIterator
    /\ ipIter' = create_iterator(ipSet, desired_value, summarize)
    /\ ipSeen' = IF ipIter'.finished THEN <<>> ELSE <<ipIter'.network>>
    /\ UNCHANGED <<ipKind, ipSet, ipTold, ipUpdates>>

IpAdvance ==
    /\ ipIter # NoIterator /\ ~ ipIter.finished
    /\ ipIter' = ipset_iterator_advance(ipSet.cache, ipIter)
    /\ ipSeen' = IF ipIter'.finished THEN ipSeen ELSE Append(ipSeen, ipIter'.network)
    /\ UNCHANGED <<ipKind, ipSet, ipTold, ipUpdates>>

\* The iterator may be freed before it has finished.
IpIterFree ==
    /\ ipIter # NoIterator
    /\ ipIter' = NoIterator /\ ipSeen' = <<>>
    /\ UNCHANGED <<ipKind, ipSet, ipTold, ipUpdates>>

ValuesFor(kind) == IF kind = "set" THEN {0, 1} ELSE IpValues

IpNext ==
    \/ \E addr \in Addresses, value \in ValuesFor(ipKind) :
          \/ IpSetAddr(addr, value)
          \/ \E prefix \in 0..(V4Bits + 1) : IpSetNetwork(addr, prefix, value)
    \/ \E desired \in {0, 1}, summarize \in BOOLEAN : IpIterate(desired, summarize)
    \/ IpAdvance
    \/ IpIterFree

(***************************************************************************)
(* Properties.                                                             *)
(***************************************************************************)
Indices == 0..(Len(ipSet.cache.nodes) - 1)

RECURSIVE FreeChain(_, _)
FreeChain(cache, index) ==
    IF index = IPSET_NULL_INDEX THEN <<>>
    ELSE <<index>> \o FreeChain(cache, cache.nodes[index + 1].refcount)

LiveNodes == {ValueOf(id) : id \in Range(ipSet.cache.table)}
RefsTo(index) ==
    LET id == ipset_nonterminal_node_id(index)
        node == [i \in LiveNodes |-> ipSet.cache.nodes[i + 1]]
    IN Cardinality({i \in LiveNodes : node[i].low = id})
       + Cardinality({i \in LiveNodes : node[i].high = id})
       + (IF ipSet.bdd = id THEN 1 ELSE 0)

\* The node cache is exact after every update: a live node counts every edge
\* into it and the set's own hold, is stored under its own contents, is not
\* redundant and tests an earlier variable than its children; every other index
\* is on the free list once.  So the diagram is canonical, nothing leaks, and no
\* index is reused while it is referenced.
NodeCacheExact ==
    LET free == FreeChain(ipSet.cache, ipSet.cache.free_list)
        table == ipSet.cache.table
    IN /\ \A key \in DOMAIN table :
            LET node == NodeOf(ipSet.cache, table[key])
            IN /\ Contents(node) = key
               /\ node.low # node.high
               /\ node.refcount = RefsTo(ValueOf(table[key]))
               /\ \A child \in {node.low, node.high} :
                     IsTerminal(child)
                       \/ /\ child \in Range(table)
                          /\ NodeOf(ipSet.cache, child).variable > node.variable
       /\ IsTerminal(ipSet.bdd) \/ ipSet.bdd \in Range(table)
       /\ LiveNodes \cup Range(free) = Indices
       /\ Len(free) + Cardinality(DOMAIN table) = Len(ipSet.cache.nodes)
       /\ Cardinality(VisitReachable(ipSet.cache,
              IF IsTerminal(ipSet.bdd) THEN <<>> ELSE <<ipSet.bdd>>, {}))
          = Cardinality(LiveNodes)

\* What the set or map answers for every address, and whether it calls itself
\* empty, is what the updates told it.
ContentsExact ==
    /\ \A addr \in Addresses : ipmap_ip_get(ipSet, addr) = ipTold[addr]
    /\ ipmap_is_empty(ipSet)
         <=> \A addr \in Addresses : ipTold[addr] = ValueOf(ipSet.default_bdd)

NetworkMembers(n) == Network(<<n.version, n.bits>>, n.prefix)

\* An iterator yields no address twice and none outside the set (or outside its
\* complement, when the value asked for is 0), and once it has finished it has
\* yielded them all.
IteratorExact ==
    ipIter # NoIterator =>
      LET wanted == {a \in Addresses : ipTold[a] = ipIter.desired_value}
          yielded == UNION {NetworkMembers(ipSeen[i]) : i \in DOMAIN ipSeen}
      IN /\ yielded \subseteq wanted
         /\ \A i, j \in DOMAIN ipSeen : i # j =>
                NetworkMembers(ipSeen[i]) \cap NetworkMembers(ipSeen[j]) = {}
         /\ ipIter.finished => yielded = wanted

\* A saved set loads back as an equal one, with a cache of as many nodes as the
\* diagram has; a file cut short before any of its fields is refused.
FileRoundTrip ==
    LET file == ipset_node_cache_save(ipSet.cache, ipSet.bdd)
        loaded == ipset_load(file)
    IN /\ ~ loaded.error /\ ipset_is_equal(loaded, ipSet)
       /\ Len(loaded.cache.nodes) = Cardinality(LiveNodes)
       /\ \A n \in 0..(Len(file) - 1) : ipset_load(SubSeq(file, 1, n)).error

\* The GraphViz script draws every nonterminal of the diagram once, with both of
\* its edges, and a box for each value other than 0 that the diagram reaches.
DotExact ==
    LET script == Range(ipset_node_cache_save_dot(ipSet.cache, ipSet.bdd))
        circles == {c \in script : "circle" \in DOMAIN c}
        edges == {c \in script : "from" \in DOMAIN c}
        boxes == {c.box : c \in {d \in script \ edges : "box" \in DOMAIN d}}
    IN /\ Cardinality(circles) = Cardinality(LiveNodes)
       /\ Cardinality(edges) = 2 * Cardinality(circles)
       /\ boxes = Range(ipTold) \ {0}
       /\ \A e \in edges : "node" \in DOMAIN e => e.node < e.from

IpSetExact ==
    NodeCacheExact /\ ContentsExact /\ IteratorExact /\ FileRoundTrip /\ DotExact

IpSpec == IpInit /\ [][IpNext]_ipVars
=============================================================================
