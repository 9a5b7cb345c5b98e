------------------------------- MODULE Uthash -------------------------------
(***************************************************************************)
(* The uthash table (uthash.h) under the cache of cache.c: elements linked *)
(* in the order they were added (head, tail, next, prev) and chained in    *)
(* buckets that double when a chain grows too long.  An element is named   *)
(* by its key.  utOrder is the cache as LruCache has it, a sequence of     *)
(* entries; every action does to the table what its cache function does,   *)
(* and to utOrder what LruCache says the function does.                    *)
(***************************************************************************)
EXTENDS Integers, Sequences
LOCAL INSTANCE SequencesExt
LOCAL INSTANCE Functions
LRU == INSTANCE LruCache

CONSTANTS
    UtKeys,        \* keys, of strings
    UtHash,        \* the hash value of each key
    UtInitial,     \* HASH_INITIAL_NUM_BUCKETS
    UtThresh,      \* HASH_BKT_CAPACITY_THRESH
    UtMax          \* max_entries of the cache

ASSUME UthashAssumption ==
    /\ UtHash \in [UtKeys -> Nat] /\ "nil" \notin UtKeys
    /\ UtInitial \in Nat \ {0} /\ UtThresh \in Nat \ {0} /\ UtMax \in Nat

VARIABLES utTable, utOrder
utVars == <<utTable, utOrder>>

Buckets(n, x) == [i \in 0..(n - 1) |-> x]
Links == [k \in UtKeys |-> "nil"]

\* HASH_DELETE of the last element and HASH_CLEAR free the table.
NoTable ==
    [head |-> "nil", tail |-> "nil", next |-> Links, prev |-> Links,
     num_buckets |-> 0, chain |-> <<>>, expand_mult |-> <<>>, num_items |-> 0,
     ineff_expands |-> 0, noexpand |-> FALSE]

HASH_MAKE_TABLE(add) ==
    [NoTable EXCEPT !.head = add, !.tail = add, !.num_buckets = UtInitial,
                    !.chain = Buckets(UtInitial, <<>>),
                    !.expand_mult = Buckets(UtInitial, 0)]

HASH_TO_BKT(t, k) == UtHash[k] % t.num_buckets

HASH_FIND_IN_BKT(t, k) ==
    IF t.head # "nil" /\ \E i \in DOMAIN t.chain[HASH_TO_BKT(t, k)] :
                           t.chain[HASH_TO_BKT(t, k)][i] = k
    THEN k ELSE "nil"

HASH_APPEND_LIST(t, add) ==
    [t EXCEPT !.next = [@ EXCEPT ![t.tail] = add, ![add] = "nil"],
              !.prev[add] = t.tail, !.tail = add]

ExpandHalf(t) ==   \* mutant: only the first half of the buckets is moved
    [t EXCEPT !.num_buckets = 2 * @, !.expand_mult = Buckets(2 * t.num_buckets, 0),
              !.chain = [i \in 0..(2 * t.num_buckets - 1) |->
                           IF i < t.num_buckets THEN @[i] ELSE <<>>]]

\* Twice the buckets.  Two expansions in a row after which more than half
\* of the items are deeper than the ideal chain inhibit the next.
HASH_EXPAND_BUCKETS(t) ==
    LET n == 2 * t.num_buckets
        ideal == t.num_items \div n + (IF t.num_items % n # 0 THEN 1 ELSE 0)
        Move(acc, k) ==
            LET b == UtHash[k] % n
                count == Len(acc.chain[b]) + 1
                deep == count > ideal
            IN  [chain |-> [acc.chain EXCEPT ![b] = <<k>> \o @],
                 mult |-> IF deep THEN [acc.mult EXCEPT ![b] = count \div ideal]
                          ELSE acc.mult,
                 nonideal |-> acc.nonideal + (IF deep THEN 1 ELSE 0)]
        all == FlattenSeq([i \in 1..t.num_buckets |-> t.chain[i - 1]])
        moved == FoldLeft(Move, [chain |-> Buckets(n, <<>>), mult |-> Buckets(n, 0),
                                 nonideal |-> 0], all)
        ineff == IF moved.nonideal > t.num_items \div 2
                 THEN t.ineff_expands + 1 ELSE 0
    IN  [t EXCEPT !.num_buckets = n, !.chain = moved.chain,
                  !.expand_mult = moved.mult, !.ineff_expands = ineff,
                  !.noexpand = @ \/ ineff > 1]

HASH_ADD_TO_BKT(t, add) ==
    LET b == HASH_TO_BKT(t, add)
        u == [t EXCEPT !.chain[b] = <<add>> \o @]
    IN  IF Len(u.chain[b]) >= (u.expand_mult[b] + 1) * UtThresh /\ ~u.noexpand
        THEN HASH_EXPAND_BUCKETS(u) ELSE u

HASH_ADD_KEYPTR(t, add) ==
    LET u == IF t.head = "nil" THEN HASH_MAKE_TABLE(add)
             ELSE HASH_APPEND_LIST(t, add)
    IN  HASH_ADD_TO_BKT([u EXCEPT !.num_items = @ + 1], add)

HASH_DEL_IN_BKT(t, del) ==
    [t EXCEPT !.chain[HASH_TO_BKT(t, del)] = SelectSeq(@, LAMBDA k : k # del)]

DeleteKeepsTail(t, del) ==   \* mutant: the tail is not moved back
    LET p == t.prev[del]
        n == t.next[del]
        links == [t EXCEPT
            !.next = IF p = "nil" THEN @ ELSE [@ EXCEPT ![p] = n],
            !.head = IF p = "nil" THEN n ELSE @,
            !.prev = IF n = "nil" THEN @ ELSE [@ EXCEPT ![n] = p]]
    IN  IF p = "nil" /\ n = "nil" THEN NoTable
        ELSE [HASH_DEL_IN_BKT(links, del) EXCEPT !.num_items = @ - 1]

HASH_DELETE(t, del) ==
    LET p == t.prev[del]
        n == t.next[del]
        links == [t EXCEPT
            !.tail = IF @ = del THEN p ELSE @,
            !.next = IF p = "nil" THEN @ ELSE [@ EXCEPT ![p] = n],
            !.head = IF p = "nil" THEN n ELSE @,
            !.prev = IF n = "nil" THEN @ ELSE [@ EXCEPT ![n] = p]]
    IN  IF p = "nil" /\ n = "nil" THEN NoTable
        ELSE [HASH_DEL_IN_BKT(links, del) EXCEPT !.num_items = @ - 1]

\* HASH_ITER takes the successor before the body deletes the element.
DeleteFirst(t, n) ==
    FoldLeft(LAMBDA acc, i : [t |-> HASH_DELETE(acc.t, acc.el),
                              el |-> acc.t.next[acc.el]],
             [t |-> t, el |-> t.head], [i \in 1..n |-> i]).t

HASH_COUNT(t) == t.num_items

-----------------------------------------------------------------------------
UtInit == utTable = NoTable /\ utOrder = <<>>

\* cache_insert, of a key that cache_key_exist has missed.
UtInsert(k) ==
    /\ HASH_FIND_IN_BKT(utTable, k) = "nil"
    /\ LET t == HASH_ADD_KEYPTR(utTable, k) IN
        utTable' = IF HASH_COUNT(t) >= UtMax THEN HASH_DELETE(t, t.head) ELSE t
    /\ utOrder' = LRU!cache_insert(utOrder, UtMax, LRU!Entry(k, 0, 0)).cache

\* cache_lookup and cache_key_exist on a hit: out of the table and in again.
UtRefresh(k) ==
    /\ HASH_FIND_IN_BKT(utTable, k) # "nil"
    /\ utTable' = HASH_ADD_KEYPTR(HASH_DELETE(utTable, k), k)
    /\ utOrder' = LRU!cache_lookup(utOrder, k, 0)

UtRemove(k) ==
    /\ HASH_FIND_IN_BKT(utTable, k) # "nil"
    /\ utTable' = HASH_DELETE(utTable, k)
    /\ utOrder' = LRU!cache_remove(utOrder, k).cache

\* cache_clear of the n entries that are old, which come first; of all of
\* them cache_delete.
UtClear(n) ==
    /\ n \in 1..HASH_COUNT(utTable)
    /\ utTable' = DeleteFirst(utTable, n)
    /\ utOrder' = SubSeq(utOrder, n + 1, Len(utOrder))

UtNext ==
    \/ \E k \in UtKeys : UtInsert(k) \/ UtRefresh(k) \/ UtRemove(k)
    \/ \E n \in 1..UtMax : UtClear(n)

-----------------------------------------------------------------------------
\* The elements met by following next from the head.
RECURSIVE Walked(_, _)
Walked(t, k) == IF k = "nil" THEN <<>> ELSE <<k>> \o Walked(t, t.next[k])

\* After any calls the table is the cache: following next gives its entries
\* oldest first, prev leads back and tail is the newest; each key is found
\* exactly when it is in the cache, also after the buckets have doubled; and
\* num_items is the count that decides when cache_insert evicts.
TableIsCache ==
    LET keys == [i \in DOMAIN utOrder |-> utOrder[i].key] IN
    /\ Walked(utTable, utTable.head) = keys
    /\ utTable.num_items = Len(keys)
    /\ keys # <<>> => utTable.tail = Last(keys) /\ utTable.prev[keys[1]] = "nil"
    /\ \A i \in 2..Len(keys) : utTable.prev[keys[i]] = keys[i - 1]
    /\ \A k \in UtKeys :
        (HASH_FIND_IN_BKT(utTable, k) = k) <=> \E i \in DOMAIN keys : keys[i] = k
=============================================================================
