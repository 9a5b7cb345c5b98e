------------------------------ MODULE LruCache ------------------------------
(***************************************************************************)
(* cache.c: a uthash table whose iteration order is the order of insertion,*)
(* used as a least-recently-used cache.  A cache is the sequence of its    *)
(* entries in that order; every C function is an operator on it.  A        *)
(* function that frees payloads returns the entries it frees (free_cb is   *)
(* called on each of them) next to the cache.                              *)
(***************************************************************************)
EXTENDS Naturals, Sequences, FiniteSets

Entry(key, data, ts) == [key |-> key, data |-> data, ts |-> ts]

(* HASH_FIND: the entry of the key.  Both users of the cache insert a key  *)
(* only after cache_key_exist missed it, so there is at most one.          *)
Has(cache, key) == \E i \in DOMAIN cache : cache[i].key = key

Find(cache, key) == CHOOSE i \in DOMAIN cache : cache[i].key = key

(* The k-th smallest number of a set, and the entries at a set of          *)
(* positions in the order of the list: what HASH_ITER leaves, or frees.    *)
Nth(S, k) == CHOOSE i \in S : Cardinality({j \in S : j < i}) = k - 1

EntriesAt(cache, S) == [k \in 1..Cardinality(S) |-> cache[Nth(S, k)]]

Without(cache, key) == EntriesAt(cache, {i \in DOMAIN cache : cache[i].key # key})

(* A hit moves the entry to the end of the iteration order and stamps it. *)
Refreshed(cache, key, now) ==
    IF Has(cache, key)
    THEN Append(Without(cache, key),
                [cache[Find(cache, key)] EXCEPT !.ts = now])
    ELSE cache

cache_key_exist(cache, key, now) == Refreshed(cache, key, now)

cache_lookup(cache, key, now) == Refreshed(cache, key, now)

cache_remove(cache, key) ==
    [cache |-> Without(cache, key),
     freed |-> EntriesAt(cache, {i \in DOMAIN cache : cache[i].key = key})]

cache_clear(cache, age, now) ==
    LET old == {i \in DOMAIN cache : now > cache[i].ts + age}
    IN  [cache |-> EntriesAt(cache, DOMAIN cache \ old),
         freed |-> EntriesAt(cache, old)]

cache_insert_newest(cache, max_entries, e) ==   \* mutant: evicts the new entry
    IF Len(cache) + 1 >= max_entries
    THEN [cache |-> cache, freed |-> <<e>>]
    ELSE [cache |-> Append(cache, e), freed |-> <<>>]

(* The new entry is added first; the head goes when the count reaches      *)
(* max_entries.                                                            *)
cache_insert(cache, max_entries, e) ==
    LET c == Append(cache, e)
    IN  IF Len(c) >= max_entries
        THEN [cache |-> Tail(c), freed |-> <<Head(c)>>]
        ELSE [cache |-> c, freed |-> <<>>]
=============================================================================
