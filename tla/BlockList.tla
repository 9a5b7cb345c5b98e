------------------------------ MODULE BlockList -----------------------------
(***************************************************************************)
(* The block list of acl.c: addresses with a count of failures, kept in a  *)
(* cache, each with a firewall rule when a firewall is in use.  The cache  *)
(* frees an entry through free_firewall_rule, which removes the rule of    *)
(* the key and releases the count.                                         *)
(***************************************************************************)
EXTENDS LruCache, FiniteSets

CONSTANTS
    Peers,        \* peer addresses
    MaxEntries,   \* the capacity given to cache_create (256 in the code)
    MAX_TRIES,    \* failures an address is allowed (64 in the code)
    ErrLevels,    \* the err_level values of the callers
    Age,          \* the age in ticks that clear_block_list clears (an hour)
    MaxTime       \* bound on the clock

(* A cache of one entry would evict what it inserts. *)
ASSUME BlockAssumption ==
    /\ MaxEntries \in Nat /\ MaxEntries > 1
    /\ MAX_TRIES \in Nat /\ ErrLevels \subseteq Nat
    /\ Age \in Nat /\ MaxTime \in Nat

VARIABLES
    block_list,   \* the cache
    rules,        \* addresses with a DROP rule in the firewall
    blocked,      \* the last answer of check_block_list, and its address
    now,          \* _ev_time()
    ended         \* free_block_list has run, the last call of the program

blockVars == <<block_list, rules, blocked, now, ended>>

free_firewall_rule_kept(fw, freed) == fw   \* mutant: the rule stays

free_firewall_rule(fw, freed) == fw \ {freed[i].key : i \in DOMAIN freed}

Install(r) ==
    /\ block_list' = r.cache
    /\ rules' = free_firewall_rule(rules, r.freed)

BlockInit ==
    /\ block_list = <<>> /\ rules = {}
    /\ blocked = [addr |-> "none", answer |-> FALSE] /\ now = 0
    /\ ended = FALSE

(* Both the existence test and the lookup refresh the entry. *)
Touched(addr) ==
    cache_lookup(cache_key_exist(block_list, addr, now), addr, now)

Count(cache, addr) == cache[Find(cache, addr)].data

check_block_list(addr) ==
    /\ block_list' = Touched(addr)
    /\ blocked' = [addr |-> addr,
                   answer |-> Has(block_list, addr)
                              /\ Count(block_list, addr) > MAX_TRIES]
    /\ UNCHANGED <<rules, now, ended>>

Counted(c, addr, err_level) ==
    IF Count(c, addr) > MAX_TRIES THEN c
    ELSE [c EXCEPT ![Find(c, addr)].data = @ + err_level]

update_block_list(addr, err_level) ==
    /\ IF Has(block_list, addr)
       THEN /\ block_list' = Counted(Touched(addr), addr, err_level)
            /\ UNCHANGED rules
       ELSE IF err_level > 0
       THEN LET r == cache_insert(block_list, MaxEntries, Entry(addr, 1, now))
            IN  /\ block_list' = r.cache
                /\ rules' = free_firewall_rule(rules, r.freed) \cup {addr}
       ELSE UNCHANGED <<block_list, rules>>
    /\ UNCHANGED <<blocked, now, ended>>

remove_from_block_list(addr) ==
    /\ Install(cache_remove(block_list, addr))
    /\ UNCHANGED <<blocked, now, ended>>

clear_block_list ==
    /\ Install(cache_clear(block_list, Age, now))
    /\ UNCHANGED <<blocked, now, ended>>

(* reset_firewall drops the whole chain before the cache is cleared. *)
free_block_list ==
    /\ block_list' = cache_clear(block_list, 0, now).cache
    /\ rules' = {}
    /\ ended' = TRUE
    /\ UNCHANGED <<blocked, now>>

Tick ==
    /\ now < MaxTime /\ now' = now + 1
    /\ UNCHANGED <<block_list, rules, blocked, ended>>

BlockNext ==
    \/ /\ ~ended
       /\ \/ \E a \in Peers : \/ check_block_list(a)
                              \/ remove_from_block_list(a)
                              \/ \E l \in ErrLevels : update_block_list(a, l)
          \/ clear_block_list
          \/ free_block_list
          \/ Tick
    \/ ended /\ UNCHANGED blockVars

BlockSpec == BlockInit /\ [][BlockNext]_blockVars
-----------------------------------------------------------------------------
(* An entry of block_list has a count of at least one, and a stamp that    *)
(* lies not in the future.                                                 *)
BlockTypeOK ==
    /\ \A i \in DOMAIN block_list :
          block_list[i] \in [key : Peers, data : Nat \ {0}, ts : 0..now]
    /\ rules \subseteq Peers
    /\ blocked \in [addr : Peers \cup {"none"}, answer : BOOLEAN]

Listed == {block_list[i].key : i \in DOMAIN block_list}

(* A firewall rule exists for exactly the addresses listed: eviction,      *)
(* ageing and removal take the rule with the entry (free_firewall_rule),   *)
(* and one address never has two entries.  The list is in the order of     *)
(* last use, so that an insertion into a full list evicts the address      *)
(* unused for longest (cache_insert).  After free_block_list there is no   *)
(* rule left, though an entry may be.                                      *)
RulesMatch ==
    /\ BlockTypeOK
    /\ rules = IF ended THEN {} ELSE Listed
    /\ \A i, j \in DOMAIN block_list : i < j =>
          /\ block_list[i].key # block_list[j].key
          /\ block_list[i].ts <= block_list[j].ts

(* "Remove all items": free_block_list leaves the list empty. *)
FreeRemovesAll == ended => block_list = <<>>

(* "Amount of entries this cache object can hold": an insertion evicts     *)
(* nothing while the cache holds fewer than max_entries entries.           *)
HoldsMaxEntries ==
    [][(Listed' \ Listed) # {} /\ (Listed \ Listed') # {}
          => Len(block_list) = MaxEntries]_blockVars
=============================================================================
