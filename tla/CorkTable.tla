----------------------------- MODULE CorkTable -----------------------------
(***************************************************************************)
(* libcork's hash table, on its circular doubly-linked lists.  An entry is *)
(* in two lists: the bin its hash selects and the insertion order of the   *)
(* table.  The BDD node cache of libipset, its file reader and its file    *)
(* writer are built on this table.                                         *)
(*                                                                         *)
(* A list is the sequence of its items; the sentinel head that makes a     *)
(* removal need no list is not represented.  Keys are C objects: two       *)
(* objects with the same name are equal to table->equals.  A key object is *)
(* its name and a serial number; values are the serial numbers.            *)
(***************************************************************************)
EXTENDS Integers, Sequences
LOCAL INSTANCE SequencesExt
LOCAL INSTANCE FiniteSetsExt
LOCAL INSTANCE FiniteSets
LOCAL INSTANCE Functions

CONSTANTS KeyNames,           \* the names keys may have
          KeyHash,            \* [KeyNames -> Nat]: table->hash
          InitialBins,        \* CORK_HASH_TABLE_DEFAULT_INITIAL_SIZE (8)
          MaxDensity,         \* CORK_HASH_TABLE_MAX_DENSITY (5)
          MaxKeys             \* bound on the key objects of a behaviour

ASSUME CorkTableAssumption ==
    /\ KeyHash \in [KeyNames -> Nat]
    /\ InitialBins \in Nat \ {0} /\ MaxDensity \in Nat /\ MaxKeys \in Nat

VARIABLES ctTable,   \* [bins, order, entries, entry_count]
          ctMade,    \* the number of key objects made
          ctFreed,   \* the keys the table has freed, in order
          ctBack,    \* the keys it has handed back to the caller
          ctMap,     \* ghost: what the callers have stored
          ctIter,    \* the iterator: the names it has still to visit, or Idle
          ctSeen     \* the names of the entries it has returned and that remain
ctVars == <<ctTable, ctMade, ctFreed, ctBack, ctMap, ctIter, ctSeen>>

Idle == <<"idle">>

(***************************************************************************)
(* Lists.                                                                  *)
(***************************************************************************)
cork_dllist_add(list, item) == Append(list, item)
cork_dllist_remove(list, item) == SelectSeq(list, LAMBDA i : i # item)

(***************************************************************************)
(* The table.                                                              *)
(***************************************************************************)
\* The power of two that is at least the requested size.
cork_hash_table_new_size(desired) ==
    LET below == Max({2^i : i \in {j \in 0..desired : 2^j <= desired}})
    IN IF below = desired THEN below ELSE 2 * below

bin_index(bins, hash) == (hash % Len(bins)) + 1

cork_hash_table_allocate_bins(desired) ==
    [i \in 1..cork_hash_table_new_size(desired) |-> <<>>]

cork_hash_table_new ==
    [bins |-> cork_hash_table_allocate_bins(InitialBins), order |-> <<>>,
     entries |-> [n \in {} |-> 0], entry_count |-> 0]

\* Mutant: the entries stay in the bins they were in.
EnsureSizeKeepsBins(t, desired) ==
    IF desired <= Len(t.bins) THEN t
    ELSE [t EXCEPT !.bins =
            [i \in 1..cork_hash_table_new_size(desired) |->
                IF i <= Len(t.bins) THEN t.bins[i] ELSE <<>>]]

\* Every entry moves, bin by bin, to the end of its new bin.
cork_hash_table_ensure_size(t, desired) ==
    IF desired <= Len(t.bins) THEN t
    ELSE [t EXCEPT !.bins =
            FoldLeft(LAMBDA bins, name :
                        [bins EXCEPT ![bin_index(bins, t.entries[name].hash)] =
                            cork_dllist_add(@, name)],
                     cork_hash_table_allocate_bins(desired),
                     FlattenSeq(t.bins))]

cork_hash_table_rehash(t) == cork_hash_table_ensure_size(t, Len(t.bins) + 1)

InBin(t, hash, name) ==
    \E i \in DOMAIN t.bins[bin_index(t.bins, hash)] :
        t.bins[bin_index(t.bins, hash)][i] = name

\* The entry for a key, or the empty record when no entry of its bin is equal.
cork_hash_table_get_entry(t, name) ==
    IF InBin(t, KeyHash[name], name) THEN t.entries[name] ELSE [none |-> TRUE]

cork_hash_table_new_entry(t, hash, key, value) ==
    [t EXCEPT !.order = cork_dllist_add(@, key.name),
              !.entries = [n \in DOMAIN @ \cup {key.name} |->
                  IF n = key.name
                  THEN [hash |-> hash, key |-> key, value |-> value] ELSE @[n]]]

\* The table grows before the entry that would exceed the density is added.
AddEntry(t, hash, key, value) ==
    LET grown == IF t.entry_count \div Len(t.bins) > MaxDensity
                 THEN cork_hash_table_rehash(t) ELSE t
        made == cork_hash_table_new_entry(grown, hash, key, value)
    IN [made EXCEPT !.bins[bin_index(made.bins, hash)] =
                        cork_dllist_add(@, key.name),
                    !.entry_count = @ + 1]

\* The found entry keeps its own key; a new one keeps the caller's.
cork_hash_table_get_or_create(t, key) ==
    LET hash == KeyHash[key.name]
    IN IF InBin(t, hash, key.name) THEN t ELSE AddEntry(t, hash, key, 0)

\* The found entry takes the caller's key and value and hands the old ones back.
cork_hash_table_put(t, key, value) ==
    LET hash == KeyHash[key.name]
    IN IF InBin(t, hash, key.name)
       THEN [t EXCEPT !.entries[key.name].key = key,
                      !.entries[key.name].value = value]
       ELSE AddEntry(t, hash, key, value)

cork_hash_table_free_entry(t, name) ==
    [t EXCEPT !.order = cork_dllist_remove(@, name),
              !.entries = Restrict(@, DOMAIN @ \ {name})]

cork_hash_table_delete_entry(t, name) ==
    LET hash == t.entries[name].hash
    IN cork_hash_table_free_entry(
          [t EXCEPT !.bins[bin_index(t.bins, hash)] = cork_dllist_remove(@, name),
                    !.entry_count = @ - 1], name)

cork_hash_table_delete(t, name) ==
    IF InBin(t, KeyHash[name], name)
    THEN cork_hash_table_delete_entry(t, name) ELSE t

cork_hash_table_clear(t) ==
    [t EXCEPT !.bins = [i \in DOMAIN @ |-> <<>>], !.order = <<>>,
              !.entries = [n \in {} |-> 0], !.entry_count = 0]

\* The callback's answers, in insertion order; after ABORT no entry is visited.
cork_hash_table_map(t, doomed, last) ==
    FoldLeft(LAMBDA u, i : IF t.order[i] \in doomed
                           THEN cork_hash_table_delete_entry(u, t.order[i]) ELSE u,
             t, [i \in 1..last |-> i])

(***************************************************************************)
(* The calls.  The table owns its keys: free_key is set, and a key that a  *)
(* put replaces belongs to the caller again.                               *)
(***************************************************************************)
TableInit ==
    /\ ctTable = cork_hash_table_new
    /\ ctMade = 0 /\ ctFreed = <<>> /\ ctBack = {}
    /\ ctMap = [n \in {} |-> 0]
    /\ ctIter = Idle /\ ctSeen = <<>>

NewKey(name) == [name |-> name, serial |-> ctMade + 1]
Stored(name, value) ==
    [n \in DOMAIN ctMap \cup {name} |-> IF n = name THEN value ELSE ctMap[n]]
\* An entry added during an iteration is visited at its end, unless the iterator
\* already points at the end of the list.
Visited(before, after) ==
    IF ctIter \in {Idle, <<>>} THEN ctIter
    ELSE ctIter \o SubSeq(after.order, Len(before.order) + 1, Len(after.order))

TablePut(name) ==
    /\ ctMade < MaxKeys
    /\ ctMade' = ctMade + 1
    /\ ctTable' = cork_hash_table_put(ctTable, NewKey(name), ctMade + 1)
    /\ ctBack' = IF InBin(ctTable, KeyHash[name], name)
                 THEN ctBack \cup {ctTable.entries[name].key} ELSE ctBack
    /\ ctMap' = Stored(name, ctMade + 1)
    /\ ctIter' = Visited(ctTable, ctTable')
    /\ UNCHANGED <<ctFreed, ctSeen>>

\* The caller of get_or_create stores its value in the entry, and takes its key
\* back when the entry already had one.
TableGetOrCreate(name) ==
    LET made == cork_hash_table_get_or_create(ctTable, NewKey(name))
    IN /\ ctMade < MaxKeys
       /\ ctMade' = ctMade + 1
       /\ ctTable' = [made EXCEPT !.entries[name].value = ctMade + 1]
       /\ ctBack' = IF made = ctTable THEN ctBack \cup {NewKey(name)} ELSE ctBack
       /\ ctMap' = Stored(name, ctMade + 1)
       /\ ctIter' = Visited(ctTable, made)
       /\ UNCHANGED <<ctFreed, ctSeen>>

\* While an iterator is in use, only entries it has passed are deleted: it holds
\* a pointer to the entry it will return next.
Passed(name) == ctIter # Idle => name \notin Range(ctIter)
FreeKeys(names) ==
    ctFreed' = ctFreed \o
        [i \in DOMAIN SelectSeq(ctTable.order, LAMBDA n : n \in names) |->
            ctTable.entries[SelectSeq(ctTable.order, LAMBDA n : n \in names)[i]].key]

TableDelete(name) ==
    /\ Passed(name)
    /\ ctTable' = cork_hash_table_delete(ctTable, name)
    /\ FreeKeys({name} \cap DOMAIN ctTable.entries)
    /\ ctMap' = Restrict(ctMap, DOMAIN ctMap \ {name})
    /\ ctSeen' = cork_dllist_remove(ctSeen, name)
    /\ UNCHANGED <<ctMade, ctBack, ctIter>>

TableMap(doomed, last) ==
    LET gone == doomed \cap {ctTable.order[i] : i \in 1..last}
    IN /\ ctIter = Idle
       /\ ctTable' = cork_hash_table_map(ctTable, doomed, last)
       /\ FreeKeys(gone)
       /\ ctMap' = Restrict(ctMap, DOMAIN ctMap \ gone)
       /\ UNCHANGED <<ctMade, ctBack, ctIter, ctSeen>>

TableClear ==
    /\ ctIter = Idle
    /\ ctTable' = cork_hash_table_clear(ctTable)
    /\ FreeKeys(DOMAIN ctTable.entries)
    /\ ctMap' = [n \in {} |-> 0]
    /\ UNCHANGED <<ctMade, ctBack, ctIter, ctSeen>>

TableEnsureSize ==
    /\ Len(ctTable.bins) <= 2 * InitialBins
    /\ ctTable' = cork_hash_table_ensure_size(ctTable, Len(ctTable.bins) + 1)
    /\ UNCHANGED <<ctMade, ctFreed, ctBack, ctMap, ctIter, ctSeen>>

cork_hash_table_iterator_init ==
    /\ ctIter = Idle
    /\ ctIter' = ctTable.order /\ ctSeen' = <<>>
    /\ UNCHANGED <<ctTable, ctMade, ctFreed, ctBack, ctMap>>

cork_hash_table_iterator_next ==
    /\ ctIter # Idle
    /\ IF ctIter = <<>> THEN ctIter' = Idle /\ ctSeen' = <<>>
       ELSE ctIter' = Tail(ctIter) /\ ctSeen' = Append(ctSeen, Head(ctIter))
    /\ UNCHANGED <<ctTable, ctMade, ctFreed, ctBack, ctMap>>

TableNext ==
    \/ \E name \in KeyNames :
          TablePut(name) \/ TableGetOrCreate(name) \/ TableDelete(name)
    \/ \E doomed \in SUBSET KeyNames, last \in 0..Len(ctTable.order) :
          TableMap(doomed, last)
    \/ TableClear
    \/ TableEnsureSize
    \/ cork_hash_table_iterator_init
    \/ cork_hash_table_iterator_next

(***************************************************************************)
(* Properties.                                                             *)
(***************************************************************************)
\* The table answers every get with what was last stored, however often it grew
\* in between; its count, its bins and its insertion order name the same
\* entries; every key object is in the table, freed by it once, or back with the
\* caller, never two of these; and an iterator never returns an entry twice nor
\* reaches one that is gone.
TableExact ==
    /\ \A name \in KeyNames :
         LET entry == cork_hash_table_get_entry(ctTable, name)
         IN IF name \in DOMAIN ctMap THEN entry # [none |-> TRUE]
                                          /\ entry.value = ctMap[name]
            ELSE entry = [none |-> TRUE]
    /\ ctTable.entry_count = Cardinality(DOMAIN ctMap)
    /\ Len(ctTable.order) = ctTable.entry_count
    /\ ToSet(FlattenSeq(ctTable.bins)) = ToSet(ctTable.order)
    /\ LET held == {ctTable.entries[n].key : n \in DOMAIN ctTable.entries}
       IN /\ Cardinality(ToSet(ctFreed)) = Len(ctFreed)
          /\ held \cap ToSet(ctFreed) = {} /\ held \cap ctBack = {}
          /\ ToSet(ctFreed) \cap ctBack = {}
          /\ Cardinality(held \cup ToSet(ctFreed) \cup ctBack) = ctMade
    /\ ctIter # Idle =>
         /\ ToSet(ctIter) \subseteq DOMAIN ctTable.entries
         /\ ToSet(ctIter) \cap ToSet(ctSeen) = {}

TableSpec == TableInit /\ [][TableNext]_ctVars
=============================================================================
