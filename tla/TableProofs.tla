---------------------------- MODULE TableProofs -----------------------------
(***************************************************************************)
(* The tables of the programs, for any size of them.                       *)
(*                                                                         *)
(* The block list and its least-recently-used cache (acl.c, cache.c): a    *)
(* rule is in force for exactly the addresses it should be.  The lemmas on *)
(* LruCache count positions: Rank is the number of entries before one.     *)
(*                                                                         *)
(* The stream ciphers (encrypt.c): what is decrypted is what was encrypted, *)
(* block by block, and an IV is refused exactly when the cache still holds *)
(* it.                                                                     *)
(***************************************************************************)
EXTENDS BlockList, Cipher, TLAPS, FiniteSetTheorems

-----------------------------------------------------------------------------
(* The cache. *)

(* The rank of a position is below the size of the set, and positions of   *)
(* the same rank are the same.                                             *)
Rank(S, i) == Cardinality({j \in S : j < i})

LEMMA RankFacts ==
    ASSUME NEW n \in Nat, NEW S \in SUBSET (1..n)
    PROVE  /\ IsFiniteSet(S) /\ Cardinality(S) \in Nat
           /\ \A i \in S : Rank(S, i) \in 0..(Cardinality(S) - 1)
           /\ \A i, j \in S : i < j => Rank(S, i) < Rank(S, j)
<1>0. \A i \in S : i \in Nat
  BY SMT
<1>1. IsFiniteSet(S) /\ Cardinality(S) \in Nat
  <2>1. 1 \in Int /\ n \in Int
    OBVIOUS
  <2>2. IsFiniteSet(1..n)
    BY <2>1, FS_Interval, Zenon
  <2>3. IsFiniteSet(S)
    BY <2>2, FS_Subset, Zenon
  <2> QED BY <2>3, FS_CardinalityType, Zenon
<1>2. \A i \in S : Rank(S, i) \in Nat /\ Rank(S, i) < Cardinality(S)
  <2> TAKE i \in S
  <2> DEFINE R == {j \in S : j < i}
  <2>1. R \subseteq S /\ R # S
    OBVIOUS
  <2> QED BY <1>1, <2>1, FS_Subset, FS_CardinalityType DEF Rank
<1>3. ASSUME NEW i \in S, NEW j \in S, i < j
      PROVE  Rank(S, i) < Rank(S, j)
  <2> DEFINE R == {k \in S : k < i}
             Q == {k \in S : k < j}
  <2>0. \A k \in S : k < i => k < j
    BY <1>0, <1>3
  <2>1. R \subseteq Q /\ Q \subseteq S
    BY <2>0, Zenon
  <2>3. i \in Q /\ i \notin R
    BY <1>0, <1>3
  <2>2. IsFiniteSet(Q)
    BY <1>1, <2>1, FS_Subset
  <2>4. R # Q
    BY <2>3, Zenon
  <2> HIDE DEF R, Q
  <2>5. /\ Cardinality(R) <= Cardinality(Q) /\ Cardinality(R) # Cardinality(Q)
        /\ IsFiniteSet(R)
    BY <2>1, <2>2, <2>4, FS_Subset, Zenon
  <2>6. Cardinality(R) \in Nat /\ Cardinality(Q) \in Nat
    BY <2>2, <2>5, FS_CardinalityType, Zenon
  <2>7. Cardinality(R) < Cardinality(Q)
    BY <2>5, <2>6
  <2> QED BY <2>7, Zenon DEF Rank, R, Q
<1> QED BY <1>1, <1>2, <1>3

(* Nth names the members of a set in increasing order, and every one.      *)
LEMMA NthFacts ==
    ASSUME NEW n \in Nat, NEW S \in SUBSET (1..n)
    PROVE  /\ Cardinality(S) \in Nat
           /\ \A k \in 1..Cardinality(S) : Nth(S, k) \in S /\ Rank(S, Nth(S, k)) = k - 1
           /\ \A k, l \in 1..Cardinality(S) : k < l => Nth(S, k) < Nth(S, l)
           /\ \A i \in S : \E k \in 1..Cardinality(S) : Nth(S, k) = i
<1> DEFINE m == Cardinality(S)
<1>1. /\ IsFiniteSet(S) /\ m \in Nat
      /\ \A i \in S : Rank(S, i) \in 0..(m - 1)
      /\ \A i, j \in S : i < j => Rank(S, i) < Rank(S, j)
  BY RankFacts, Zenon
<1>2. \A i, j \in S : Rank(S, i) = Rank(S, j) => i = j
  BY <1>1
<1>3. \A k \in 1..m : \E i \in S : Rank(S, i) = k - 1
  <2> SUFFICES ASSUME NEW k \in 1..m, \A i \in S : Rank(S, i) # k - 1
               PROVE  FALSE
    OBVIOUS
  <2> DEFINE T == (0..(m - 1)) \ {k - 1}
             f == [i \in S |-> Rank(S, i)]
  <2>1. m \in Nat /\ 0 \in Int /\ m - 1 \in Int /\ m > 0
    BY <1>1
  <2>6. /\ IsFiniteSet(0..(m - 1))
        /\ Cardinality(0..(m - 1)) = IF 0 > m - 1 THEN 0 ELSE m - 1 - 0 + 1
    <3> HIDE DEF m
    <3> QED BY <2>1, FS_Interval, Zenon
  <2>7. Cardinality(0..(m - 1)) = m
    BY <2>1, <2>6
  <2>2. k - 1 \in 0..(m - 1)
    BY <1>1
  <2>3. IsFiniteSet(T) /\ Cardinality(T) = m - 1
    <3> DEFINE J == 0..(m - 1)
               p == k - 1
    <3>1. IsFiniteSet(J) /\ p \in J /\ Cardinality(J) = m /\ T = J \ {p}
      BY <2>2, <2>6, <2>7, Zenon
    <3> HIDE DEF J, p, T, m
    <3>2. /\ IsFiniteSet(J \ {p})
          /\ Cardinality(J \ {p}) = IF p \in J THEN Cardinality(J) - 1 ELSE Cardinality(J)
      BY <3>1, FS_RemoveElement, Zenon
    <3> QED BY <3>1, <3>2, Zenon
  <2>8. m - 1 < m
    BY <2>1
  <2>4. f \in [S -> T]
    BY <1>1
  <2>5. \E x, y \in S : x # y /\ f[x] = f[y]
    <3> HIDE DEF f, T
    <3>1. Cardinality(T) < Cardinality(S)
      BY <2>3, <2>8, Zenon
    <3> QED BY <1>1, <2>3, <2>4, <3>1, FS_PigeonHole, Zenon
  <2> QED BY <1>2, <2>5
<1>4. \A k \in 1..m : Nth(S, k) \in S /\ Rank(S, Nth(S, k)) = k - 1
  BY <1>3, Zenon DEF Nth, Rank
<1>5. ASSUME NEW k \in 1..m, NEW l \in 1..m, k < l
      PROVE  Nth(S, k) < Nth(S, l)
  <2>1. /\ Nth(S, k) \in S /\ Nth(S, l) \in S
        /\ Rank(S, Nth(S, k)) < Rank(S, Nth(S, l))
    BY <1>1, <1>4, <1>5
  <2> DEFINE a == Nth(S, k)
             b == Nth(S, l)
  <2> HIDE DEF a, b
  <2>2. a \in S /\ b \in S /\ Rank(S, a) < Rank(S, b)
    BY <2>1, Zenon DEF a, b
  <2>3. \A i \in S : i \in Nat
    BY SMT
  <2>4. a < b
    BY <1>1, <2>2, <2>3
  <2> QED BY <2>4, Zenon DEF a, b
<1>6. ASSUME NEW i \in S PROVE \E k \in 1..m : Nth(S, k) = i
  <2>1. Rank(S, i) + 1 \in 1..m /\ (Rank(S, i) + 1) - 1 = Rank(S, i)
    BY <1>1
  <2>2. Nth(S, Rank(S, i) + 1) = i
    BY <1>2, <1>4, <2>1, Zenon
  <2> QED BY <2>1, <2>2
<1> QED BY <1>1, <1>4, <1>5, <1>6

-----------------------------------------------------------------------------
(* The keys of a cache; one entry for each, in the order of their stamps;  *)
(* no stamp after now.                                                     *)
KeysOf(c) == {c[i].key : i \in DOMAIN c}

Ordered(c) ==
    \A i, j \in DOMAIN c : i < j => c[i].key # c[j].key /\ c[i].ts <= c[j].ts

Until(c, now_) == \A i \in DOMAIN c : c[i].ts <= now_

(* r is c at the positions S. *)
Picks(r, c, S) ==
    /\ Len(r) = Cardinality(S)
    /\ \A k \in 1..Len(r) : Nth(S, k) \in S /\ r[k] = c[Nth(S, k)]
    /\ \A k, l \in 1..Len(r) : k < l => Nth(S, k) < Nth(S, l)
    /\ \A i \in S : \E k \in 1..Len(r) : Nth(S, k) = i

LEMMA EntriesAtPicks ==
    ASSUME NEW E, NEW c \in Seq(E), NEW S \in SUBSET (1..Len(c))
    PROVE  EntriesAt(c, S) \in Seq(E) /\ Picks(EntriesAt(c, S), c, S)
<1> DEFINE m == Cardinality(S)
           r == EntriesAt(c, S)
<1>1. Len(c) \in Nat /\ \A i \in 1..Len(c) : c[i] \in E
  OBVIOUS
<1>2. /\ m \in Nat
      /\ \A k \in 1..m : Nth(S, k) \in S
      /\ \A k, l \in 1..m : k < l => Nth(S, k) < Nth(S, l)
      /\ \A i \in S : \E k \in 1..m : Nth(S, k) = i
  BY <1>1, NthFacts, Zenon
<1>3. r = [k \in 1..m |-> c[Nth(S, k)]]
  BY DEF EntriesAt
<1> HIDE DEF r, m
<1>4. \A k \in 1..m : c[Nth(S, k)] \in E
  BY <1>1, <1>2, Zenon
<1>5. r \in Seq(E) /\ Len(r) = m
  BY <1>2, <1>3, <1>4
<1>6. \A k \in 1..m : r[k] = c[Nth(S, k)]
  BY <1>3, Zenon
<1>7. Picks(r, c, S)
  BY <1>2, <1>5, <1>6, Zenon DEF Picks, m
<1> QED BY <1>5, <1>7, Zenon DEF r

(* What is picked from a cache in order is in order. *)
LEMMA PicksOrdered ==
    ASSUME NEW E, NEW c \in Seq(E), NEW S \in SUBSET (1..Len(c)),
           NEW r \in Seq(E), Picks(r, c, S), Ordered(c)
    PROVE  Ordered(r) /\ KeysOf(r) = {c[i].key : i \in S}
<1>1. DOMAIN c = 1..Len(c) /\ DOMAIN r = 1..Len(r)
  OBVIOUS
<1>2. /\ \A k \in 1..Len(r) : Nth(S, k) \in S /\ r[k] = c[Nth(S, k)]
      /\ \A k, l \in 1..Len(r) : k < l => Nth(S, k) < Nth(S, l)
      /\ \A i \in S : \E k \in 1..Len(r) : Nth(S, k) = i
  BY Zenon DEF Picks
<1>3. Ordered(r)
  <2> SUFFICES ASSUME NEW k \in 1..Len(r), NEW l \in 1..Len(r), k < l
               PROVE  r[k].key # r[l].key /\ r[k].ts <= r[l].ts
    BY <1>1, Zenon DEF Ordered
  <2>1. /\ Nth(S, k) \in 1..Len(c) /\ Nth(S, l) \in 1..Len(c)
        /\ Nth(S, k) < Nth(S, l)
    BY <1>2, Zenon
  <2>2. /\ c[Nth(S, k)].key # c[Nth(S, l)].key
        /\ c[Nth(S, k)].ts <= c[Nth(S, l)].ts
    BY <1>1, <2>1, Zenon DEF Ordered
  <2> QED BY <1>2, <2>2, Zenon
<1>4. KeysOf(r) = {c[i].key : i \in S}
  <2>1. \A k \in 1..Len(r) : \E i \in S : r[k].key = c[i].key
    BY <1>2, Zenon
  <2>2. ASSUME NEW i \in S PROVE \E k \in 1..Len(r) : c[i].key = r[k].key
    <3>1. PICK k \in 1..Len(r) : Nth(S, k) = i
      BY <1>2, Zenon
    <3>2. r[k] = c[i]
      BY <1>2, <3>1, Zenon
    <3> QED BY <3>2, Zenon
  <2> DEFINE D == 1..Len(r)
             a(k) == r[k].key
             b(i) == c[i].key
  <2>3. (\A k \in D : \E i \in S : a(k) = b(i)) /\ \A i \in S : \E k \in D : b(i) = a(k)
    BY <2>1, <2>2, Zenon
  <2> HIDE DEF D, a, b
  <2>4. {a(k) : k \in D} = {b(i) : i \in S}
    BY <2>3
  <2> QED BY <1>1, <2>4, Zenon DEF KeysOf, D, a, b
<1> QED BY <1>3, <1>4

(* c is cut into what stays, r, and what goes, f. *)
Parted(E, c, r, f) ==
    /\ r \in Seq(E) /\ Ordered(r) /\ f \in Seq(E)
    /\ KeysOf(r) = KeysOf(c) \ KeysOf(f)
    /\ \A i \in DOMAIN r : \E j \in DOMAIN c : r[i] = c[j]

(* Leaving a set of positions out leaves the keys of these out. *)
LEMMA ComplementKeys ==
    ASSUME NEW E, NEW c \in Seq(E), NEW S \in SUBSET (1..Len(c)), Ordered(c)
    PROVE  Parted(E, c, EntriesAt(c, (1..Len(c)) \ S), EntriesAt(c, S))
<1> DEFINE T == (1..Len(c)) \ S
           r == EntriesAt(c, T)
           f == EntriesAt(c, S)
<1>1. T \in SUBSET (1..Len(c))
  BY Zenon
<1> HIDE DEF T
<1>2. r \in Seq(E) /\ Picks(r, c, T) /\ f \in Seq(E) /\ Picks(f, c, S)
  BY <1>1, EntriesAtPicks, Zenon
<1> HIDE DEF r, f
<1>3. Ordered(r) /\ KeysOf(r) = {c[i].key : i \in T}
  BY <1>1, <1>2, PicksOrdered, Zenon
<1>4. KeysOf(f) = {c[i].key : i \in S}
  BY <1>2, PicksOrdered, Zenon
<1>5. DOMAIN c = 1..Len(c) /\ DOMAIN r = 1..Len(r)
  BY <1>2
<1>6. \A i, j \in 1..Len(c) : c[i].key = c[j].key => i = j
  <2> TAKE i, j \in 1..Len(c)
  <2>1. i < j \/ j < i \/ i = j
    OBVIOUS
  <2> QED BY <1>5, <2>1, Zenon DEF Ordered
<1>7. KeysOf(r) = KeysOf(c) \ KeysOf(f)
  <2> SUFFICES {c[i].key : i \in T}
                 = {c[i].key : i \in 1..Len(c)} \ {c[i].key : i \in S}
    BY <1>3, <1>4, <1>5, Zenon DEF KeysOf
  <2>1. \A i \in T : i \in 1..Len(c) /\ \A j \in S : c[i].key # c[j].key
    BY <1>6, Zenon DEF T
  <2>2. \A i \in 1..Len(c) : i \in T \/ i \in S
    BY Zenon DEF T
  <2> QED BY <2>1, <2>2
<1>8. \A i \in DOMAIN r : \E j \in DOMAIN c : r[i] = c[j]
  BY <1>1, <1>2, <1>5, Zenon DEF Picks
<1> QED BY <1>2, <1>3, <1>7, <1>8, Zenon DEF Parted, r, f, T

(* The entry HASH_FIND gives is the only one of its key. *)
LEMMA FindFacts ==
    ASSUME NEW E, NEW c \in Seq(E), Ordered(c), NEW key, Has(c, key)
    PROVE  /\ Find(c, key) \in 1..Len(c) /\ c[Find(c, key)].key = key
           /\ \A i \in 1..Len(c) : c[i].key = key => i = Find(c, key)
<1>1. DOMAIN c = 1..Len(c)
  OBVIOUS
<1> DEFINE f == Find(c, key)
<1>2. f \in 1..Len(c) /\ c[f].key = key
  BY <1>1, Zenon DEF Find, Has
<1> HIDE DEF f
<1>3. ASSUME NEW i \in 1..Len(c), c[i].key = key PROVE i = f
  <2>1. i < f \/ f < i \/ i = f
    BY <1>2
  <2> QED BY <1>1, <1>2, <1>3, <2>1, Zenon DEF Ordered
<1> QED BY <1>2, <1>3, Zenon DEF f

(* r is c without the entry of key. *)
Dropped(E, c, key, r) ==
    /\ r \in Seq(E) /\ Ordered(r) /\ KeysOf(r) = KeysOf(c) \ {key}
    /\ \A i \in DOMAIN r : \E j \in DOMAIN c : r[i] = c[j]
    /\ Has(c, key) => Len(r) = Len(c) - 1

(* HASH_DEL of the entry: the others stay, in order. *)
LEMMA WithoutFacts ==
    ASSUME NEW E, NEW c \in Seq(E), Ordered(c), NEW key
    PROVE  Dropped(E, c, key, Without(c, key))
<1> DEFINE S == {i \in 1..Len(c) : c[i].key = key}
           T == {i \in 1..Len(c) : c[i].key # key}
           r == Without(c, key)
           f == EntriesAt(c, S)
<1>1. S \in SUBSET (1..Len(c)) /\ T \in SUBSET (1..Len(c)) /\ T = (1..Len(c)) \ S
  BY Zenon
<1>2. r = EntriesAt(c, T) /\ DOMAIN c = 1..Len(c)
  <2>1. DOMAIN c = 1..Len(c)
    OBVIOUS
  <2> QED BY <2>1, Zenon DEF Without
<1>3. KeysOf(c) \cap {key} = {c[i].key : i \in S}
  BY <1>2 DEF KeysOf
<1>4. \A i \in S : c[i].key = key
  BY Zenon
<1>5. Has(c, key) => T = (1..Len(c)) \ {Find(c, key)} /\ Find(c, key) \in 1..Len(c)
  BY FindFacts, Zenon
<1> HIDE DEF S, T, r
<1>6. /\ r \in Seq(E) /\ Ordered(r) /\ f \in Seq(E)
      /\ KeysOf(r) = KeysOf(c) \ KeysOf(f)
      /\ \A i \in DOMAIN r : \E j \in DOMAIN c : r[i] = c[j]
  <2>1. Parted(E, c, EntriesAt(c, (1..Len(c)) \ S), f)
    BY <1>1, ComplementKeys, Zenon
  <2>2. Parted(E, c, r, f)
    BY <1>1, <1>2, <2>1, Zenon
  <2> HIDE DEF f
  <2> QED BY <2>2, Zenon DEF Parted
<1> HIDE DEF f
<1>7. KeysOf(f) = {c[i].key : i \in S}
  BY <1>1, <1>6, EntriesAtPicks, PicksOrdered, Zenon DEF f
<1>8. KeysOf(r) = KeysOf(c) \ {key}
  BY <1>3, <1>6, <1>7, Zenon
<1>9. ASSUME Has(c, key) PROVE Len(r) = Len(c) - 1
  <2>1. Len(r) = Cardinality(T)
    BY <1>1, <1>2, EntriesAtPicks, Zenon DEF Picks
  <2> DEFINE J == 1..Len(c)
             p == Find(c, key)
  <2>2. T = J \ {p} /\ p \in J
    BY <1>5, <1>9, Zenon
  <2>3. Len(c) \in Nat /\ 1 \in Int /\ Len(c) \in Int
    OBVIOUS
  <2>4. IsFiniteSet(J) /\ Cardinality(J) = IF 1 > Len(c) THEN 0 ELSE Len(c) - 1 + 1
    BY <2>3, FS_Interval, Zenon
  <2>5. Cardinality(J) = Len(c)
    BY <2>3, <2>4
  <2> HIDE DEF J, p
  <2>6. Cardinality(J \ {p}) = IF p \in J THEN Cardinality(J) - 1 ELSE Cardinality(J)
    BY <2>4, FS_RemoveElement, Zenon
  <2> QED BY <2>1, <2>2, <2>5, <2>6, Zenon
<1> QED BY <1>6, <1>8, <1>9, Zenon DEF Dropped, r

(* r is c with h at the end. *)
Appended(E, c, h, now_, r) ==
    /\ r \in Seq(E) /\ Ordered(r) /\ KeysOf(r) = KeysOf(c) \cup {h.key}
    /\ Until(r, now_) /\ Len(r) = Len(c) + 1 /\ r[Len(r)] = h
    /\ \A i \in 1..Len(c) : r[i] = c[i]

(* An entry put at the end: order, keys and stamps. *)
LEMMA AppendFacts ==
    ASSUME NEW E, NEW c \in Seq(E), Ordered(c), NEW h \in E, NEW now_,
           h.key \notin KeysOf(c), Until(c, now_), h.ts = now_, now_ \in Nat
    PROVE  Appended(E, c, h, now_, Append(c, h))
<1> DEFINE r == Append(c, h)
           n == Len(c)
<1>1. /\ r \in Seq(E) /\ Len(r) = n + 1 /\ r[n + 1] = h /\ n \in Nat
      /\ \A i \in 1..n : r[i] = c[i]
      /\ DOMAIN r = 1..(n + 1) /\ DOMAIN c = 1..n
  OBVIOUS
<1> HIDE DEF r, n
<1>2. \A i \in 1..(n + 1) : i \in 1..n \/ i = n + 1
  BY <1>1
<1>3. \A i, j \in 1..(n + 1) : i < j => i \in 1..n
  BY <1>1
<1>4. \A i \in 1..n : c[i].key # h.key /\ c[i].ts <= now_
  BY <1>1, Zenon DEF KeysOf, Until
<1>5. Ordered(r)
  <2> SUFFICES ASSUME NEW i \in 1..(n + 1), NEW j \in 1..(n + 1), i < j
               PROVE  r[i].key # r[j].key /\ r[i].ts <= r[j].ts
    BY <1>1, Zenon DEF Ordered
  <2>1. i \in 1..n /\ r[i] = c[i]
    BY <1>1, <1>3, Zenon
  <2>2. CASE j \in 1..n
    BY <1>1, <2>1, <2>2, Zenon DEF Ordered
  <2>3. CASE j = n + 1
    BY <1>1, <1>4, <2>1, <2>3, Zenon
  <2> QED BY <1>2, <2>2, <2>3, Zenon
<1>6. Until(r, now_)
  <2>1. now_ <= now_
    OBVIOUS
  <2> QED BY <1>1, <1>2, <1>4, <2>1, Zenon DEF Until
<1>7. KeysOf(r) = KeysOf(c) \cup {h.key}
  <2> DEFINE a(i) == r[i].key
             b(i) == c[i].key
             D == 1..(n + 1)
  <2>1. /\ \A i \in D : (i \in 1..n /\ a(i) = b(i)) \/ a(i) = h.key
        /\ \A i \in 1..n : i \in D /\ a(i) = b(i)
        /\ n + 1 \in D /\ a(n + 1) = h.key
    <3>1. \A i \in 1..n : i \in 1..(n + 1)
      BY <1>1
    <3>2. n + 1 \in 1..(n + 1)
      BY <1>1
    <3> QED BY <1>1, <1>2, <3>1, <3>2, Zenon
  <2> HIDE DEF a, b, D
  <2>2. {a(i) : i \in D} = {b(i) : i \in 1..n} \cup {h.key}
    BY <2>1
  <2> QED BY <1>1, <2>2, Zenon DEF KeysOf, a, b, D
<1> QED BY <1>1, <1>5, <1>6, <1>7, Zenon DEF Appended, r, n

(* r is c with the entry of key, as h, moved to the end. *)
Moved(E, c, h, now_, r) ==
    /\ r \in Seq(E) /\ Ordered(r) /\ KeysOf(r) = KeysOf(c)
    /\ Until(r, now_) /\ Len(r) = Len(c) /\ r[Len(r)] = h

(* A hit: the entry is last, with the stamp of now, and no key is lost. *)
LEMMA RefreshedFacts ==
    ASSUME NEW E, NEW c \in Seq(E), Ordered(c), NEW key, Has(c, key), NEW now_ \in Nat,
           Until(c, now_), NEW h \in E, h = [c[Find(c, key)] EXCEPT !.ts = now_],
           h.key = key, h.ts = now_
    PROVE  Moved(E, c, h, now_, Refreshed(c, key, now_))
<1> DEFINE w == Without(c, key)
           r == Append(w, h)
<1>0. Dropped(E, c, key, w)
  BY WithoutFacts, Zenon
<1> HIDE DEF w
<1>1. /\ w \in Seq(E) /\ Ordered(w) /\ KeysOf(w) = KeysOf(c) \ {key}
      /\ \A i \in DOMAIN w : \E j \in DOMAIN c : w[i] = c[j]
      /\ Len(w) = Len(c) - 1
  BY <1>0, Zenon DEF Dropped
<1>2. Refreshed(c, key, now_) = r
  BY Zenon DEF Refreshed, w
<1>3. Until(w, now_) /\ h.key \notin KeysOf(w)
  BY <1>1, Zenon DEF Until
<1>9. Appended(E, w, h, now_, r)
  BY <1>1, <1>3, AppendFacts, Zenon
<1> HIDE DEF r
<1>4. /\ r \in Seq(E) /\ Ordered(r) /\ KeysOf(r) = KeysOf(w) \cup {h.key}
      /\ Until(r, now_) /\ Len(r) = Len(w) + 1 /\ r[Len(r)] = h
  BY <1>9, Zenon DEF Appended
<1>5. key \in KeysOf(c)
  BY DEF Has, KeysOf
<1>6. KeysOf(r) = KeysOf(c)
  BY <1>1, <1>4, <1>5, Zenon
<1>7. Len(w) = Len(c) - 1 /\ Len(r) = Len(w) + 1 /\ Len(c) \in Nat
  BY <1>1, <1>4
<1>8. Len(r) = Len(c)
  BY <1>7
<1> QED BY <1>2, <1>4, <1>6, <1>8, Zenon DEF Moved

(* r is c with h inserted: f is what was evicted for it. *)
Inserted(E, c, h, now_, r, f) ==
    /\ r \in Seq(E) /\ Ordered(r) /\ Until(r, now_)
    /\ KeysOf(r) = (KeysOf(c) \cup {h.key}) \ KeysOf(f)
    /\ h.key \in KeysOf(r) /\ KeysOf(f) \subseteq KeysOf(c)

(* An insertion evicts the first entry or none, and never the new one. *)
LEMMA InsertFacts ==
    ASSUME NEW E, NEW c \in Seq(E), Ordered(c), NEW h \in E, NEW now_ \in Nat,
           h.key \notin KeysOf(c), Until(c, now_), h.ts = now_,
           NEW max \in Nat, max > 1
    PROVE  LET r == cache_insert(c, max, h)
           IN  Inserted(E, c, h, now_, r.cache, r.freed)
<1> DEFINE a == Append(c, h)
           n == Len(c)
<1>1. /\ a \in Seq(E) /\ Ordered(a) /\ KeysOf(a) = KeysOf(c) \cup {h.key}
      /\ Until(a, now_) /\ Len(a) = n + 1 /\ a[Len(a)] = h
      /\ \A i \in 1..n : a[i] = c[i]
  <2>1. Appended(E, c, h, now_, a)
    BY AppendFacts, Zenon
  <2> HIDE DEF a
  <2> QED BY <2>1, Zenon DEF Appended
<1> HIDE DEF a
<1>2. CASE Len(a) >= max
  <2> DEFINE r == Tail(a)
             f == <<Head(a)>>
  <2>1. cache_insert(c, max, h) = [cache |-> r, freed |-> f]
    BY <1>2, Zenon DEF cache_insert, a
  <2>2. n \in Nat /\ n + 1 >= max /\ n >= 1
    BY <1>1, <1>2
  <2>3. /\ r \in Seq(E) /\ Len(r) = n /\ DOMAIN r = 1..n
        /\ \A i \in 1..n : r[i] = a[i + 1]
        /\ DOMAIN a = 1..(n + 1) /\ Head(a) = a[1] /\ a[1] \in E
    BY <1>1, <2>2
  <2>4. f[1] = a[1] /\ DOMAIN f = {1}
    BY <2>3
  <2> HIDE DEF r, f
  <2>5. KeysOf(f) = {a[1].key}
    BY <2>4 DEF KeysOf
  <2>6. \A i \in 1..n : i + 1 \in 1..(n + 1) /\ 1 < i + 1 /\ 1 \in 1..(n + 1)
    BY <2>2
  <2>7. \A i \in 1..(n + 1) : i # 1 => i - 1 \in 1..n /\ (i - 1) + 1 = i
    BY <2>2
  <2>8. Ordered(r)
    <3> SUFFICES ASSUME NEW i \in 1..n, NEW j \in 1..n, i < j
                 PROVE  r[i].key # r[j].key /\ r[i].ts <= r[j].ts
      BY <2>3, Zenon DEF Ordered
    <3>1. i + 1 < j + 1
      BY <2>2
    <3>2. i + 1 \in DOMAIN a /\ j + 1 \in DOMAIN a
      BY <2>3, <2>6, Zenon
    <3>3. a[i + 1].key # a[j + 1].key /\ a[i + 1].ts <= a[j + 1].ts
      BY <1>1, <3>1, <3>2, Zenon DEF Ordered
    <3> QED BY <2>3, <3>3, Zenon
  <2>9. Until(r, now_)
    BY <1>1, <2>3, <2>6, Zenon DEF Until
  <2>10. ASSUME NEW i \in 1..n PROVE r[i].key # a[1].key
    <3>1. i + 1 \in DOMAIN a /\ 1 \in DOMAIN a /\ 1 < i + 1
      BY <2>3, <2>6, Zenon
    <3>2. a[1].key # a[i + 1].key
      BY <1>1, <3>1, Zenon DEF Ordered
    <3> QED BY <2>3, <3>2, Zenon
  <2>11. KeysOf(r) = KeysOf(a) \ {a[1].key}
    <3> DEFINE p(i) == r[i].key
               q(i) == a[i].key
               D == 1..(n + 1)
               X == 1..n
    <3>1. \A i \in X : i + 1 \in D /\ p(i) = q(i + 1) /\ p(i) # q(1)
      BY <2>3, <2>6, <2>10, Zenon
    <3>2. \A i \in D : q(i) = q(1) \/ \E j \in X : p(j) = q(i)
      <4> TAKE i \in D
      <4>1. CASE i = 1
        BY <4>1, Zenon
      <4>2. CASE i # 1
        <5>1. i - 1 \in X /\ r[i - 1] = a[(i - 1) + 1] /\ (i - 1) + 1 = i
          BY <2>3, <2>7, <4>2, Zenon
        <5>2. p(i - 1) = q(i)
          BY <5>1, Zenon
        <5> QED BY <5>1, <5>2, Zenon
      <4> QED BY <4>1, <4>2, Zenon
    <3> HIDE DEF p, q, D, X
    <3>3. {p(i) : i \in X} = {q(i) : i \in D} \ {q(1)}
      BY <3>1, <3>2
    <3> QED BY <2>3, <3>3, Zenon DEF KeysOf, p, q, D, X
  <2>12. a[1] = c[1] /\ 1 \in DOMAIN c
    BY <1>1, <2>2
  <2>13. a[1].key \in KeysOf(c)
    BY <2>12, Zenon DEF KeysOf
  <2>14. Inserted(E, c, h, now_, r, f)
    <3>1. h.key # a[1].key
      BY <2>13, Zenon
    <3> QED BY <1>1, <2>3, <2>5, <2>8, <2>9, <2>11, <2>13, <3>1, Zenon DEF Inserted
  <2> QED BY <2>1, <2>14
<1>3. CASE ~(Len(a) >= max)
  <2>1. cache_insert(c, max, h) = [cache |-> a, freed |-> <<>>]
    BY <1>3, Zenon DEF cache_insert, a
  <2>2. KeysOf(<<>>) = {}
    BY DEF KeysOf
  <2>3. Inserted(E, c, h, now_, a, <<>>)
    BY <1>1, <2>2, Zenon DEF Inserted
  <2> QED BY <2>1, <2>3
<1> QED BY <1>2, <1>3, Zenon

-----------------------------------------------------------------------------
(* The block list. *)
BlockEntries == [key : Peers, data : Nat \ {0}, ts : Nat]

BlockCache(c) == c \in Seq(BlockEntries) /\ Ordered(c) /\ Until(c, now)

BlockInv ==
    /\ now \in Nat /\ ended \in BOOLEAN
    /\ BlockCache(block_list)
    /\ rules = IF ended THEN {} ELSE KeysOf(block_list)
    /\ blocked \in [addr : Peers \cup {"none"}, answer : BOOLEAN]

LEMMA RefreshedBlock ==
    ASSUME NEW c, BlockCache(c), now \in Nat, NEW key
    PROVE  LET r == Refreshed(c, key, now)
           IN  BlockCache(r) /\ KeysOf(r) = KeysOf(c)
<1>1. CASE Has(c, key)
  <2> DEFINE e == c[Find(c, key)]
             h == [e EXCEPT !.ts = now]
             E == BlockEntries
  <2>1. c \in Seq(E) /\ Ordered(c) /\ Until(c, now)
    BY Zenon DEF BlockCache
  <2>2. Find(c, key) \in 1..Len(c) /\ e.key = key
    BY <1>1, <2>1, FindFacts, Zenon
  <2>3. e \in E
    BY <2>1, <2>2
  <2> HIDE DEF e
  <2>4. h \in E /\ h.key = key /\ h.ts = now
    BY <2>2, <2>3 DEF BlockEntries
  <2>5. h = [c[Find(c, key)] EXCEPT !.ts = now]
    BY Zenon DEF e
  <2> HIDE DEF h, E
  <2>6. Moved(E, c, h, now, Refreshed(c, key, now))
    BY <1>1, <2>1, <2>4, <2>5, RefreshedFacts, Zenon
  <2> QED BY <2>6, Zenon DEF Moved, BlockCache, E
<1>2. CASE ~Has(c, key)
  <2>1. Refreshed(c, key, now) = c
    BY <1>2, Zenon DEF Refreshed
  <2> QED BY <2>1, Zenon
<1> QED BY <1>1, <1>2, Zenon

LEMMA TouchedBlock ==
    ASSUME BlockInv, NEW addr
    PROVE  BlockCache(Touched(addr)) /\ KeysOf(Touched(addr)) = KeysOf(block_list)
<1> DEFINE r == Refreshed(block_list, addr, now)
           q == Refreshed(r, addr, now)
<1>1. now \in Nat /\ BlockCache(block_list)
  BY Zenon DEF BlockInv
<1>2. BlockCache(r) /\ KeysOf(r) = KeysOf(block_list)
  BY <1>1, RefreshedBlock, Zenon
<1> HIDE DEF r
<1>3. BlockCache(q) /\ KeysOf(q) = KeysOf(r)
  BY <1>1, <1>2, RefreshedBlock, Zenon
<1>4. Touched(addr) = q
  BY Zenon DEF Touched, cache_lookup, cache_key_exist, r
<1> QED BY <1>2, <1>3, <1>4, Zenon

(* Counting a failure changes neither keys nor stamps. *)
LEMMA CountedBlock ==
    ASSUME NEW c, BlockCache(c), NEW addr, Has(c, addr), NEW l \in Nat
    PROVE  BlockCache(Counted(c, addr, l)) /\ KeysOf(Counted(c, addr, l)) = KeysOf(c)
<1>1. CASE Count(c, addr) > MAX_TRIES
  <2>1. Counted(c, addr, l) = c
    BY <1>1, Zenon DEF Counted
  <2> QED BY <2>1, Zenon
<1>2. CASE ~(Count(c, addr) > MAX_TRIES)
  <2> DEFINE f == Find(c, addr)
             r == [c EXCEPT ![f].data = @ + l]
             n == Len(c)
             E == BlockEntries
  <2>1. c \in Seq(E) /\ Ordered(c) /\ Until(c, now)
    BY Zenon DEF BlockCache
  <2>2. f \in 1..n
    BY <2>1, FindFacts, Zenon
  <2>3. Counted(c, addr, l) = r
    BY <1>2, Zenon DEF Counted
  <2> HIDE DEF f
  <2>4. DOMAIN c = 1..n /\ n \in Nat /\ \A i \in 1..n : c[i] \in E
    BY <2>1
  <2>5. r = [i \in 1..n |-> IF i = f THEN [c[f] EXCEPT !.data = @ + l] ELSE c[i]]
    BY <2>2, <2>4, Zenon
  <2> HIDE DEF r, n
  <2>6. /\ [c[f] EXCEPT !.data = @ + l] \in E
        /\ [c[f] EXCEPT !.data = @ + l].key = c[f].key
        /\ [c[f] EXCEPT !.data = @ + l].ts = c[f].ts
    <3> DEFINE e == c[f]
    <3>1. e \in E
      BY <2>2, <2>4
    <3> HIDE DEF e
    <3>2. [e EXCEPT !.data = @ + l] \in E /\ [e EXCEPT !.data = @ + l].key = e.key
          /\ [e EXCEPT !.data = @ + l].ts = e.ts
      BY <3>1 DEF BlockEntries
    <3> QED BY <3>2, Zenon DEF e
  <2> HIDE DEF E
  <2>7. /\ DOMAIN r = 1..n
        /\ \A i \in 1..n : r[i] \in E /\ r[i].key = c[i].key /\ r[i].ts = c[i].ts
    BY <2>4, <2>5, <2>6, Zenon
  <2>8. r \in Seq(E)
    <3>1. r = [i \in 1..n |-> r[i]]
      BY <2>5, <2>7
    <3> QED BY <2>4, <2>7, <3>1
  <2>9. Ordered(r) /\ Until(r, now)
    <3>1. /\ \A i, j \in 1..n : i < j => c[i].key # c[j].key /\ c[i].ts <= c[j].ts
          /\ \A i \in 1..n : c[i].ts <= now
      BY <2>1, <2>4, Zenon DEF Ordered, Until
    <3>2. /\ \A i, j \in 1..n : i < j => r[i].key # r[j].key /\ r[i].ts <= r[j].ts
          /\ \A i \in 1..n : r[i].ts <= now
      <4>1. ASSUME NEW i \in 1..n PROVE r[i].key = c[i].key /\ r[i].ts = c[i].ts
        BY <2>7, Zenon
      <4>2. ASSUME NEW i \in 1..n, NEW j \in 1..n, i < j
            PROVE  r[i].key # r[j].key /\ r[i].ts <= r[j].ts
        <5>1. c[i].key # c[j].key /\ c[i].ts <= c[j].ts
          BY <3>1, <4>2, Zenon
        <5> QED BY <4>1, <5>1, Zenon
      <4>3. ASSUME NEW i \in 1..n PROVE r[i].ts <= now
        BY <3>1, <4>1, Zenon
      <4> QED BY <4>2, <4>3, Zenon
    <3> QED BY <2>7, <3>2, Zenon DEF Ordered, Until
  <2>10. KeysOf(r) = KeysOf(c)
    BY <2>4, <2>7 DEF KeysOf
  <2> QED BY <2>3, <2>8, <2>9, <2>10, Zenon DEF BlockCache, E
<1> QED BY <1>1, <1>2, Zenon

LEMMA ClearBlock ==
    ASSUME NEW c, BlockCache(c), NEW S \in SUBSET (1..Len(c))
    PROVE  LET r == EntriesAt(c, (1..Len(c)) \ S)
           IN  BlockCache(r) /\ KeysOf(r) = KeysOf(c) \ KeysOf(EntriesAt(c, S))
<1> DEFINE E == BlockEntries
           r == EntriesAt(c, (1..Len(c)) \ S)
           f == EntriesAt(c, S)
<1>1. c \in Seq(E) /\ Ordered(c) /\ Until(c, now)
  BY Zenon DEF BlockCache
<1> HIDE DEF E
<1>2. Parted(E, c, r, f)
  BY <1>1, ComplementKeys, Zenon
<1> HIDE DEF r, f
<1>3. Until(r, now)
  BY <1>1, <1>2, Zenon DEF Parted, Until
<1>4. BlockCache(r) /\ KeysOf(r) = KeysOf(c) \ KeysOf(f)
  BY <1>2, <1>3, Zenon DEF Parted, BlockCache, E
<1> QED BY <1>4, Zenon DEF r, f

LEMMA BlockStart == BlockInit => BlockInv
<1> SUFFICES ASSUME BlockInit PROVE BlockInv
  OBVIOUS
<1>1. block_list = <<>> /\ rules = {} /\ now = 0 /\ ended = FALSE
  BY DEF BlockInit
<1>2. blocked \in [addr : Peers \cup {"none"}, answer : BOOLEAN]
  BY DEF BlockInit
<1>3. KeysOf(<<>>) = {}
  BY DEF KeysOf
<1>4. BlockCache(block_list)
  BY <1>1 DEF BlockCache, Ordered, Until
<1> QED BY <1>1, <1>2, <1>3, <1>4, Zenon DEF BlockInv

(* Every operation of the block list keeps its invariant. *)
LEMMA BlockStep == BlockInv /\ [BlockNext]_blockVars => BlockInv'
<1> SUFFICES ASSUME BlockInv, [BlockNext]_blockVars PROVE BlockInv'
  OBVIOUS
<1> USE BlockAssumption
<1>0. /\ now \in Nat /\ ended \in BOOLEAN /\ BlockCache(block_list)
      /\ rules = IF ended THEN {} ELSE KeysOf(block_list)
      /\ blocked \in [addr : Peers \cup {"none"}, answer : BOOLEAN]
  BY Zenon DEF BlockInv
<1>1. ASSUME NEW a \in Peers, ~ended, check_block_list(a) PROVE BlockInv'
  <2>1. /\ block_list' = Touched(a) /\ rules' = rules /\ now' = now /\ ended' = ended
        /\ blocked' = [addr |-> a, answer |-> Has(block_list, a)
                                             /\ Count(block_list, a) > MAX_TRIES]
    BY <1>1, Zenon DEF check_block_list
  <2>2. BlockCache(Touched(a)) /\ KeysOf(Touched(a)) = KeysOf(block_list)
    BY TouchedBlock, Zenon
  <2>3. blocked' \in [addr : Peers \cup {"none"}, answer : BOOLEAN]
    <3> DEFINE b == Has(block_list, a) /\ Count(block_list, a) > MAX_TRIES
    <3>1. b \in BOOLEAN
      BY Zenon
    <3> HIDE DEF b
    <3> QED BY <2>1, <3>1 DEF b
  <2>4. BlockCache(block_list)'
    BY <2>1, <2>2, Zenon DEF BlockCache, Until
  <2>5. KeysOf(block_list') = KeysOf(block_list)
    BY <2>1, <2>2, Zenon
  <2> QED BY <1>0, <2>1, <2>3, <2>4, <2>5, Zenon DEF BlockInv, KeysOf
<1>2. ASSUME NEW a \in Peers, ~ended, remove_from_block_list(a) PROVE BlockInv'
  <2> DEFINE c == block_list
             S == {i \in 1..Len(c) : c[i].key = a}
             r == EntriesAt(c, (1..Len(c)) \ S)
             f == EntriesAt(c, S)
  <2>1. DOMAIN c = 1..Len(c)
    BY <1>0 DEF BlockCache
  <2>2. {i \in DOMAIN c : c[i].key # a} = (1..Len(c)) \ S /\ {i \in DOMAIN c : c[i].key = a} = S
    BY <2>1, Zenon
  <2>3. cache_remove(c, a) = [cache |-> r, freed |-> f]
    BY <2>2, Zenon DEF cache_remove, Without
  <2>4. S \in SUBSET (1..Len(c))
    BY Zenon
  <2> HIDE DEF S
  <2>5. BlockCache(r) /\ KeysOf(r) = KeysOf(c) \ KeysOf(f)
    BY <1>0, <2>4, ClearBlock, Zenon
  <2> HIDE DEF r, f
  <2>6. /\ block_list' = r /\ rules' = rules \ KeysOf(f) /\ now' = now
        /\ ended' = ended /\ blocked' = blocked
    BY <1>2, <2>3 DEF remove_from_block_list, Install, free_firewall_rule, KeysOf
  <2>7. BlockCache(block_list)'
    BY <2>5, <2>6, Zenon DEF BlockCache, Until
  <2>8. KeysOf(block_list') = KeysOf(block_list) \ KeysOf(f)
    BY <2>5, <2>6, Zenon
  <2> QED BY <1>0, <1>2, <2>6, <2>7, <2>8, Zenon DEF BlockInv, KeysOf
<1>3. ASSUME NEW a \in Peers, NEW l \in ErrLevels, ~ended, update_block_list(a, l)
      PROVE  BlockInv'
  <2>0. now' = now /\ ended' = ended /\ blocked' = blocked /\ l \in Nat
    BY <1>3, Zenon DEF update_block_list
  <2>1. CASE Has(block_list, a)
    <3> DEFINE c == Touched(a)
               r == Counted(c, a, l)
    <3>1. block_list' = r /\ rules' = rules
      BY <1>3, <2>1, Zenon DEF update_block_list
    <3>2. BlockCache(c) /\ KeysOf(c) = KeysOf(block_list)
      BY TouchedBlock, Zenon
    <3>3. Has(c, a)
      BY <2>1, <3>2 DEF Has, KeysOf
    <3> HIDE DEF c
    <3>4. BlockCache(r) /\ KeysOf(r) = KeysOf(c)
      BY <2>0, <3>2, <3>3, CountedBlock, Zenon
    <3>5. BlockCache(block_list)'
      BY <2>0, <3>1, <3>4, Zenon DEF BlockCache, Until
    <3>6. KeysOf(block_list') = KeysOf(block_list)
      BY <3>1, <3>2, <3>4, Zenon
    <3> QED BY <1>0, <2>0, <3>1, <3>5, <3>6, Zenon DEF BlockInv, KeysOf
  <2>2. CASE ~Has(block_list, a) /\ l > 0
    <3> DEFINE c == block_list
               h == Entry(a, 1, now)
               E == BlockEntries
               r == cache_insert(c, MaxEntries, h)
               b == r.cache
               f == r.freed
    <3>1. h \in E /\ h.key = a /\ h.ts = now
      BY <1>0 DEF Entry, BlockEntries
    <3>2. a \notin KeysOf(c)
      BY <2>2 DEF Has, KeysOf
    <3>3. c \in Seq(E) /\ Ordered(c) /\ Until(c, now)
      BY <1>0, Zenon DEF BlockCache
    <3> HIDE DEF h, E
    <3>4. Inserted(E, c, h, now, b, f)
      BY <1>0, <3>1, <3>2, <3>3, InsertFacts, Zenon
    <3> HIDE DEF b, f
    <3>5. block_list' = b /\ rules' = (rules \ KeysOf(f)) \cup {a}
      BY <1>3, <2>2 DEF update_block_list, free_firewall_rule, KeysOf, b, f, h
    <3>6. BlockCache(block_list)'
      BY <2>0, <3>4, <3>5, Zenon DEF BlockCache, Until, Inserted, E
    <3>7. /\ KeysOf(b) = (KeysOf(c) \cup {a}) \ KeysOf(f)
          /\ a \in KeysOf(b)
      BY <3>1, <3>4, Zenon DEF Inserted
    <3>8. KeysOf(block_list') = rules'
      BY <1>0, <1>3, <3>5, <3>7, Zenon
    <3> QED BY <1>0, <1>3, <2>0, <3>6, <3>8, Zenon DEF BlockInv, KeysOf
  <2>3. CASE ~Has(block_list, a) /\ ~(l > 0)
    <3>1. block_list' = block_list /\ rules' = rules
      BY <1>3, <2>3, Zenon DEF update_block_list
    <3> QED BY <1>0, <2>0, <3>1, Zenon DEF BlockInv, BlockCache, Until, KeysOf, Ordered
  <2> QED BY <2>1, <2>2, <2>3, Zenon
<1>4. ASSUME ~ended, clear_block_list PROVE BlockInv'
  <2> DEFINE c == block_list
             S == {i \in 1..Len(c) : now > c[i].ts + Age}
             r == EntriesAt(c, (1..Len(c)) \ S)
             f == EntriesAt(c, S)
  <2>1. DOMAIN c = 1..Len(c)
    BY <1>0 DEF BlockCache
  <2>2. cache_clear(c, Age, now) = [cache |-> r, freed |-> f]
    BY <2>1, Zenon DEF cache_clear
  <2>3. S \in SUBSET (1..Len(c))
    BY Zenon
  <2> HIDE DEF S
  <2>4. BlockCache(r) /\ KeysOf(r) = KeysOf(c) \ KeysOf(f)
    BY <1>0, <2>3, ClearBlock, Zenon
  <2> HIDE DEF r, f
  <2>5. /\ block_list' = r /\ rules' = rules \ KeysOf(f) /\ now' = now
        /\ ended' = ended /\ blocked' = blocked
    BY <1>4, <2>2 DEF clear_block_list, Install, free_firewall_rule, KeysOf
  <2>6. BlockCache(block_list)'
    BY <2>4, <2>5, Zenon DEF BlockCache, Until
  <2>7. KeysOf(block_list') = KeysOf(block_list) \ KeysOf(f)
    BY <2>4, <2>5, Zenon
  <2> QED BY <1>0, <1>4, <2>5, <2>6, <2>7, Zenon DEF BlockInv, KeysOf
<1>5. ASSUME ~ended, free_block_list PROVE BlockInv'
  <2> DEFINE c == block_list
             S == {i \in 1..Len(c) : now > c[i].ts + 0}
             r == EntriesAt(c, (1..Len(c)) \ S)
             f == EntriesAt(c, S)
  <2>1. DOMAIN c = 1..Len(c)
    BY <1>0 DEF BlockCache
  <2>2. cache_clear(c, 0, now) = [cache |-> r, freed |-> f]
    BY <2>1, Zenon DEF cache_clear
  <2>3. S \in SUBSET (1..Len(c))
    BY Zenon
  <2> HIDE DEF S
  <2>4. BlockCache(r)
    BY <1>0, <2>3, ClearBlock, Zenon
  <2> HIDE DEF r, f
  <2>5. /\ block_list' = r /\ rules' = {} /\ now' = now
        /\ ended' = TRUE /\ blocked' = blocked
    BY <1>5, <2>2 DEF free_block_list
  <2>6. BlockCache(block_list)'
    BY <2>4, <2>5, Zenon DEF BlockCache, Until
  <2> QED BY <1>0, <2>5, <2>6, Zenon DEF BlockInv
<1>6. ASSUME ~ended, Tick PROVE BlockInv'
  <2>1. /\ now' = now + 1 /\ block_list' = block_list /\ rules' = rules
        /\ blocked' = blocked /\ ended' = ended
    BY <1>6, Zenon DEF Tick
  <2>2. now' \in Nat
    BY <1>0, <2>1
  <2>3. Until(block_list', now')
    <3>1. block_list \in Seq(BlockEntries) /\ Until(block_list, now)
      BY <1>0, Zenon DEF BlockCache
    <3>4. \A i \in DOMAIN block_list : block_list[i] \in BlockEntries
      BY <3>1
    <3>5. \A e \in BlockEntries : e.ts \in Nat
      BY DEF BlockEntries
    <3>2. \A i \in DOMAIN block_list : block_list[i].ts \in Nat /\ block_list[i].ts <= now
      BY <3>1, <3>4, <3>5, Zenon DEF Until
    <3>3. \A i \in DOMAIN block_list : block_list[i].ts <= now'
      BY <1>0, <2>1, <3>2
    <3> QED BY <2>1, <3>3, Zenon DEF Until
  <2>4. BlockCache(block_list)'
    BY <1>0, <2>1, <2>3, Zenon DEF BlockCache
  <2> QED BY <1>0, <2>1, <2>2, <2>4, Zenon DEF BlockInv, KeysOf
<1>7. ASSUME UNCHANGED blockVars PROVE BlockInv'
  <2>1. /\ now' = now /\ block_list' = block_list /\ rules' = rules
        /\ blocked' = blocked /\ ended' = ended
    BY <1>7, Zenon DEF blockVars
  <2>2. BlockCache(block_list)'
    BY <1>0, <2>1, Zenon DEF BlockCache, Until
  <2> QED BY <1>0, <2>1, <2>2, Zenon DEF BlockInv, KeysOf
<1> QED BY <1>1, <1>2, <1>3, <1>4, <1>5, <1>6, <1>7, Zenon DEF BlockNext

LEMMA BlockInvImplies == BlockInv => RulesMatch
<1> SUFFICES ASSUME BlockInv PROVE RulesMatch
  OBVIOUS
<1>1. /\ now \in Nat /\ BlockCache(block_list)
      /\ rules = IF ended THEN {} ELSE KeysOf(block_list)
      /\ blocked \in [addr : Peers \cup {"none"}, answer : BOOLEAN]
  BY Zenon DEF BlockInv
<1>2. block_list \in Seq(BlockEntries) /\ Ordered(block_list) /\ Until(block_list, now)
  BY <1>1, Zenon DEF BlockCache
<1>3. \A i \in DOMAIN block_list : block_list[i] \in BlockEntries
  BY <1>2
<1>4. ASSUME NEW i \in DOMAIN block_list
      PROVE  block_list[i] \in [key : Peers, data : Nat \ {0}, ts : 0..now]
  <2> DEFINE e == block_list[i]
  <2>1. e \in BlockEntries /\ e.ts <= now
    BY <1>2, <1>3, Zenon DEF Until
  <2> HIDE DEF e
  <2>2. e.ts \in 0..now
    BY <1>1, <2>1 DEF BlockEntries
  <2>3. e \in [key : Peers, data : Nat \ {0}, ts : 0..now]
    BY <2>1, <2>2 DEF BlockEntries
  <2> QED BY <2>3, Zenon DEF e
<1>5. Listed = KeysOf(block_list)
  BY Zenon DEF Listed, KeysOf
<1>6. KeysOf(block_list) \subseteq Peers
  BY <1>3 DEF KeysOf, BlockEntries
<1>7. BlockTypeOK
  BY <1>1, <1>4, <1>6, Zenon DEF BlockTypeOK
<1> QED BY <1>1, <1>2, <1>5, <1>7, Zenon DEF RulesMatch, Ordered

(***************************************************************************)
(* The firewall has a rule for exactly the addresses on the block list,    *)
(* each listed once and in the order of last use, for every capacity of    *)
(* the list above one and every limit and age: an insertion that evicts,   *)
(* the hourly clearing and a removal all take the rule with the entry      *)
(* (acl.c over cache.c).                                                   *)
(***************************************************************************)
THEOREM RulesAlwaysMatch == BlockSpec => []RulesMatch
<1>1. BlockSpec => BlockInit /\ [][BlockNext]_blockVars
  BY PTL DEF BlockSpec
<1>2. BlockSpec => []BlockInv
  BY <1>1, BlockStart, BlockStep, PTL
<1> QED BY <1>2, BlockInvImplies, PTL

-----------------------------------------------------------------------------
(* The ciphers. *)

(* A fact about sequences. *)
LEMMA JoinOfWire ==
    ASSUME NEW S, NEW s \in Seq(S), NEW t \in Seq(S)
    PROVE  /\ s \o t \in Seq(S) /\ Len(s \o t) = Len(s) + Len(t)
           /\ \A i \in 1..(Len(s) + Len(t)) :
                 (s \o t)[i] = IF i <= Len(s) THEN s[i] ELSE t[i - Len(s)]
  OBVIOUS


Bytes == [kind : {"iv", "data"}, iv : Nat, at : Nat, byte : Nat]

(* h bytes of the IV, then m bytes of the stream after the first d. *)
WireIs(w, iv, h, d, m) ==
    /\ w \in Seq(Bytes) /\ Len(w) = h + m
    /\ \A i \in 1..h : w[i] = IvByte(iv)
    /\ \A i \in 1..m : w[h + i] = DataByte(iv, (d + i) - 1, d + i)

(* The library's counter and the padding give the same position. *)
LEMMA KeystreamIs ==
    ASSUME NEW ctx, ctx.counter \in Nat, NEW k \in Nat
    PROVE  Keystream(ctx, k) = ctx.counter + k
<1> DEFINE a == ctx.counter
           b == BlockSize
           q == a \div b
           r == a % b
<1>1. a \in Nat /\ b \in Nat /\ b > 0
  BY CipherAssumption
<1> HIDE DEF a, b
<1>2. q * b + r = a
  BY <1>1
<1>3. q * b \in Int /\ r \in Int
  BY <1>1
<1> HIDE DEF q, r
<1> DEFINE p == q * b
<1> HIDE DEF p
<1>4. p + r = a /\ p \in Int /\ r \in Int
  BY <1>2, <1>3, Zenon DEF p
<1>5. p + r + k = a + k
  BY <1>1, <1>4
<1> QED BY <1>5 DEF Keystream, p, q, r, a, b

LEMMA ByteTypes ==
    ASSUME NEW iv \in Nat, NEW at \in Nat, NEW n \in Nat
    PROVE  /\ IvByte(iv) \in Bytes /\ DataByte(iv, at, n) \in Bytes
           /\ IvByte(iv).kind = "iv" /\ DataByte(iv, at, n).kind = "data"
           /\ IvByte(iv).iv = iv /\ DataByte(iv, at, n).iv = iv
           /\ DataByte(iv, at, n).at = at /\ DataByte(iv, at, n).byte = n
  BY DEF IvByte, DataByte, Bytes

LEMMA WireFirst ==
    ASSUME NEW iv \in Nat
    PROVE  WireIs([i \in 1..IvLen |-> IvByte(iv)], iv, IvLen, 0, 0)
<1> DEFINE w == [i \in 1..IvLen |-> IvByte(iv)]
<1>1. IvLen \in Nat /\ IvByte(iv) \in Bytes
  BY CipherAssumption, ByteTypes
<1>2. w \in Seq(Bytes) /\ Len(w) = IvLen
  BY <1>1
<1>3. \A i \in 1..IvLen : w[i] = IvByte(iv)
  BY Zenon
<1> HIDE DEF w
<1>4. Len(w) = IvLen + 0 /\ 1..0 = {}
  BY <1>1, <1>2
<1>5. WireIs(w, iv, IvLen, 0, 0)
  BY <1>2, <1>3, <1>4, Zenon DEF WireIs
<1> QED BY <1>5, Zenon DEF w

(* The bytes of the stream after the first k, encrypted. *)
DataRun(x, iv, k, len) ==
    x = [i \in 1..len |-> DataByte(iv, k + (i - 1), k + i)]

(* ss_encrypt puts the next bytes at the end. *)
LEMMA WireExtend ==
    ASSUME NEW iv \in Nat, NEW h \in Nat, NEW d \in Nat, NEW m \in Nat,
           NEW w, WireIs(w, iv, h, d, m), NEW len \in Nat,
           NEW x, DataRun(x, iv, d + m, len)
    PROVE  WireIs(w \o x, iv, h, d, m + len)
<1>0. x = [i \in 1..len |-> DataByte(iv, (d + m) + (i - 1), (d + m) + i)]
  BY Zenon DEF DataRun
<1>1. w \in Seq(Bytes) /\ Len(w) = h + m
  BY Zenon DEF WireIs
<1>2. ASSUME NEW i \in 1..len
      PROVE  x[i] = DataByte(iv, (d + m) + (i - 1), (d + m) + i) /\ x[i] \in Bytes
  <2>1. (d + m) + (i - 1) \in Nat /\ (d + m) + i \in Nat
    OBVIOUS
  <2> QED BY <1>0, <2>1, ByteTypes, Zenon
<1>3. x \in Seq(Bytes) /\ Len(x) = len
  <2>1. x = [i \in 1..len |-> x[i]]
    BY <1>0
  <2>2. \A i \in 1..len : x[i] \in Bytes
    BY <1>2, Zenon
  <2>3. len \in Nat
    OBVIOUS
  <2> QED BY ONLY <2>1, <2>2, <2>3
<1> DEFINE y == w \o x
<1>4. /\ y \in Seq(Bytes) /\ Len(y) = h + m + len
      /\ \A i \in 1..(h + m) : y[i] = w[i]
      /\ \A i \in 1..len : y[h + m + i] = x[i]
  <2> DEFINE n == h + m
  <2>1. n \in Nat /\ Len(w) = n
    BY <1>1
  <2> HIDE DEF n
  <2>2. /\ y \in Seq(Bytes) /\ Len(y) = n + len
        /\ \A i \in 1..(n + len) : y[i] = IF i <= n THEN w[i] ELSE x[i - n]
    <3>1. /\ y \in Seq(Bytes) /\ Len(y) = Len(w) + Len(x)
          /\ \A i \in 1..(Len(w) + Len(x)) : y[i] = IF i <= Len(w) THEN w[i] ELSE x[i - Len(w)]
      BY <1>1, <1>3, JoinOfWire, Zenon
    <3> HIDE DEF y
    <3> QED BY <1>3, <2>1, <3>1, Zenon
  <2> HIDE DEF y
  <2>3. \A i \in 1..n : i \in 1..(n + len) /\ i <= n
    BY <2>1
  <2>4. \A i \in 1..len : n + i \in 1..(n + len) /\ ~(n + i <= n) /\ (n + i) - n = i
    BY <2>1
  <2>5. \A i \in 1..n : y[i] = w[i]
    BY <2>2, <2>3
  <2>6. \A i \in 1..len : y[n + i] = x[i]
    BY <2>2, <2>4
  <2> QED BY <2>2, <2>5, <2>6, Zenon DEF n
<1> HIDE DEF y
<1>5. \A i \in 1..h : y[i] = IvByte(iv)
  <2>1. \A i \in 1..h : i \in 1..(h + m)
    OBVIOUS
  <2> QED BY <1>4, <2>1, Zenon DEF WireIs
<1>6. ASSUME NEW i \in 1..(m + len)
      PROVE  y[h + i] = DataByte(iv, (d + i) - 1, d + i)
  <2>1. CASE i \in 1..m
    <3>1. h + i \in 1..(h + m)
      BY <2>1
    <3> QED BY <1>4, <2>1, <3>1, Zenon DEF WireIs
  <2>2. CASE i \notin 1..m
    <3> DEFINE k == i - m
    <3>1. /\ k \in 1..len /\ h + m + k = h + i
          /\ (d + m) + (k - 1) = (d + i) - 1 /\ (d + m) + k = d + i
      BY <2>2
    <3> HIDE DEF k
    <3>2. y[h + m + k] = x[k] /\ x[k] = DataByte(iv, (d + m) + (k - 1), (d + m) + k)
      BY <1>2, <1>4, <3>1, Zenon
    <3> QED BY <3>1, <3>2, Zenon
  <2> QED BY <2>1, <2>2, Zenon
<1>7. Len(y) = h + (m + len)
  BY <1>4
<1>8. WireIs(y, iv, h, d, m + len)
  BY <1>4, <1>5, <1>6, <1>7, Zenon DEF WireIs
<1> QED BY <1>8, Zenon DEF y

(* ss_decrypt takes a chunk that holds what there is of the IV. *)
LEMMA WireCut ==
    ASSUME NEW iv \in Nat, NEW h \in Nat, NEW d \in Nat, NEW m \in Nat,
           NEW w, WireIs(w, iv, h, d, m), NEW len \in h..(h + m)
    PROVE  WireIs(SubSeq(w, len + 1, Len(w)), iv, 0, d + (len - h), m - (len - h))
<1>1. w \in Seq(Bytes) /\ Len(w) = h + m
  BY Zenon DEF WireIs
<1> DEFINE y == SubSeq(w, len + 1, Len(w))
           n == m - (len - h)
           e == d + (len - h)
<1>2. /\ y \in Seq(Bytes) /\ Len(y) = n
      /\ \A i \in 1..n : y[i] = w[len + i]
  BY <1>1
<1> HIDE DEF y
<1>3. ASSUME NEW i \in 1..n PROVE y[0 + i] = DataByte(iv, (e + i) - 1, e + i)
  <2> DEFINE k == (len - h) + i
  <2>1. /\ k \in 1..m /\ h + k = len + i /\ (d + k) - 1 = (e + i) - 1
        /\ d + k = e + i /\ 0 + i = i
    OBVIOUS
  <2> HIDE DEF k, n, e
  <2>2. w[h + k] = DataByte(iv, (d + k) - 1, d + k)
    BY <2>1, Zenon DEF WireIs
  <2> QED BY <1>2, <2>1, <2>2, Zenon
<1>4. 0 + n = n /\ 1..0 = {}
  OBVIOUS
<1> HIDE DEF n, e
<1>5. WireIs(y, iv, 0, e, n)
  BY <1>2, <1>3, <1>4, Zenon DEF WireIs
<1> QED BY <1>5, Zenon DEF y, n, e

(* What update makes of the first len bytes of the wire, h of them IV. *)
PlainTaken(ctx, w, h, d, len) ==
    LET chunk == SubSeq(w, 1, len)
        x == SubSeq(chunk, h + 1, Len(chunk))
    IN  /\ Len(chunk) = len /\ Len(x) = len - h
        /\ Plain(ctx, x) = [i \in 1..(len - h) |-> d + i]

LEMMA PlainIs ==
    ASSUME NEW iv \in Nat, NEW h \in Nat, NEW d \in Nat, NEW m \in Nat,
           NEW w, WireIs(w, iv, h, d, m), NEW len \in h..(h + m),
           NEW ctx, ctx.iv = iv, ctx.counter = d
    PROVE  PlainTaken(ctx, w, h, d, len)
<1>1. w \in Seq(Bytes) /\ Len(w) = h + m
  BY Zenon DEF WireIs
<1> DEFINE chunk == SubSeq(w, 1, len)
           x == SubSeq(chunk, h + 1, Len(chunk))
           n == len - h
<1>2. /\ chunk \in Seq(Bytes) /\ Len(chunk) = len
      /\ \A i \in 1..len : chunk[i] = w[i]
  BY <1>1
<1> HIDE DEF chunk
<1>3. /\ x \in Seq(Bytes) /\ Len(x) = n /\ DOMAIN x = 1..n
      /\ \A i \in 1..n : x[i] = chunk[h + i]
  BY <1>2
<1> HIDE DEF x
<1>4. ASSUME NEW i \in 1..n
      PROVE  x[i].iv = iv /\ x[i].at = Keystream(ctx, i - 1) /\ x[i].byte = d + i
  <2>1. h + i \in 1..len /\ i \in 1..m /\ (d + i) - 1 \in Nat /\ d + i \in Nat /\ i - 1 \in Nat
    BY SMT
  <2>2. x[i] = w[h + i]
    BY <1>2, <1>3, <2>1, Zenon
  <2>3. w[h + i] = DataByte(iv, (d + i) - 1, d + i)
    BY <2>1, Zenon DEF WireIs
  <2>4. Keystream(ctx, i - 1) = d + (i - 1)
    BY <2>1, KeystreamIs, Zenon
  <2>5. d + (i - 1) = (d + i) - 1
    OBVIOUS
  <2>6. /\ DataByte(iv, (d + i) - 1, d + i).iv = iv
        /\ DataByte(iv, (d + i) - 1, d + i).at = (d + i) - 1
        /\ DataByte(iv, (d + i) - 1, d + i).byte = d + i
    BY DEF DataByte
  <2> QED BY <2>2, <2>3, <2>4, <2>5, <2>6, Zenon
<1>5. Plain(ctx, x) = [i \in 1..n |-> d + i]
  BY <1>3, <1>4, Zenon DEF Plain
<1>6. Len(chunk) = len /\ Len(x) = len - h /\ Plain(ctx, x) = [i \in 1..(len - h) |-> d + i]
  BY <1>2, <1>3, <1>5, Zenon
<1> HIDE DEF n
<1> QED BY ONLY <1>6 DEF chunk, x, PlainTaken

(* Where the wire has bytes of the stream. *)
DataAt(w) == {i \in DOMAIN w : w[i].kind = "data"}

LEMMA DataCount ==
    ASSUME NEW iv \in Nat, NEW h \in Nat, NEW d \in Nat, NEW m \in Nat,
           NEW w, WireIs(w, iv, h, d, m)
    PROVE  Cardinality(DataAt(w)) = m
<1>1. w \in Seq(Bytes) /\ Len(w) = h + m /\ DOMAIN w = 1..(h + m)
  <2>1. w \in Seq(Bytes) /\ Len(w) = h + m
    BY Zenon DEF WireIs
  <2> QED BY <2>1
<1>2. \A i \in 1..h : w[i].kind = "iv"
  <2>1. IvByte(iv).kind = "iv"
    BY DEF IvByte
  <2> QED BY <2>1, Zenon DEF WireIs
<1>3. \A i \in 1..m : w[h + i].kind = "data"
  <2>1. \A a, b : DataByte(iv, a, b).kind = "data"
    BY DEF DataByte
  <2> QED BY <2>1, Zenon DEF WireIs
<1>4. DataAt(w) = (h + 1)..(h + m)
  <2>1. \A i \in 1..(h + m) : i \in 1..h \/ (i - h \in 1..m /\ h + (i - h) = i)
    OBVIOUS
  <2>2. \A i \in (h + 1)..(h + m) : i \in 1..(h + m) /\ i \notin 1..h
    OBVIOUS
  <2>3. \A i \in 1..(h + m) : i \in 1..h \/ i \in (h + 1)..(h + m)
    OBVIOUS
  <2>4. \A i \in 1..(h + m) : i \notin 1..h => w[i].kind = "data"
    BY <1>3, <2>1, Zenon
  <2>5. "iv" # "data"
    OBVIOUS
  <2> QED BY <1>1, <1>2, <2>2, <2>3, <2>4, <2>5, Zenon DEF DataAt
<1>5. h + 1 \in Int /\ h + m \in Int
  OBVIOUS
<1> DEFINE a == h + 1
           b == h + m
<1> HIDE DEF a, b
<1>6. Cardinality(a..b) = IF a > b THEN 0 ELSE b - a + 1
  BY <1>5, FS_Interval, Zenon DEF a, b
<1>7. (IF a > b THEN 0 ELSE b - a + 1) = m
  BY DEF a, b
<1> QED BY <1>4, <1>6, <1>7, Zenon DEF a, b

-----------------------------------------------------------------------------
Contexts == [init : BOOLEAN, counter : Nat, iv : Nat]

ConnStates == {"unopened", "open", "refused", "overrun"}

IsConn(s) ==
    /\ DOMAIN s = {"limit", "state", "enc", "dec", "sent", "wire", "got"}
    /\ s.limit \in Nat /\ s.state \in ConnStates
    /\ s.enc \in Contexts /\ s.dec \in Contexts
    /\ s.sent \in Nat /\ s.wire \in Seq(Bytes) /\ s.got \in Seq(Nat)

(* What the receiver has decrypted. *)
GotIs(got, d) == Len(got) = d /\ \A i \in 1..d : got[i] = i

(* What an open connection has sent, has on the wire and has decrypted. *)
OpenInv(s) ==
    /\ GotIs(s.got, s.dec.counter)
    /\ s.dec.init => s.enc.init /\ s.dec.iv = s.enc.iv
    /\ s.enc.init => WireIs(s.wire, s.enc.iv, IF s.dec.init THEN 0 ELSE IvLen,
                            s.dec.counter, s.sent - s.dec.counter)
    /\ ~s.enc.init => s.wire = <<>>

ConnInv(s) ==
    /\ IsConn(s)
    /\ s.enc.counter = s.sent /\ s.dec.counter <= s.sent
    /\ ~s.dec.init => s.dec.counter = 0
    /\ ~s.enc.init => s.sent = 0
    /\ s.state = "unopened" =>
          /\ ~s.enc.init /\ ~s.dec.init /\ s.sent = 0
          /\ s.wire = <<>> /\ s.got = <<>>
    /\ s.state = "open" => OpenInv(s)

LEMMA ConnFacts ==
    ASSUME NEW s, ConnInv(s)
    PROVE  /\ s.sent \in Nat /\ s.dec.counter \in Nat /\ s.enc.counter \in Nat
           /\ s.enc.iv \in Nat /\ s.dec.iv \in Nat
           /\ s.enc.init \in BOOLEAN /\ s.dec.init \in BOOLEAN
           /\ s.sent - s.dec.counter \in Nat
<1>1. /\ s.sent \in Nat /\ s.enc \in Contexts /\ s.dec \in Contexts
      /\ s.dec.counter <= s.sent
  BY Zenon DEF ConnInv, IsConn
<1> QED BY <1>1 DEF Contexts

LEMMA EncryptEffect ==
    ASSUME NEW s, ConnInv(s), NEW len \in Nat
    PROVE  LET u == ss_encrypt(s, len)
               head == IF s.enc.init THEN <<>> ELSE [i \in 1..IvLen |-> IvByte(s.enc.iv)]
               data == [i \in 1..len |-> DataByte(s.enc.iv, s.sent + (i - 1), s.sent + i)]
           IN  /\ DOMAIN u = DOMAIN s /\ u.limit = s.limit /\ u.state = s.state
               /\ u.dec = s.dec /\ u.got = s.got /\ u.sent = s.sent + len
               /\ u.wire = s.wire \o head \o data
               /\ u.enc \in Contexts /\ u.enc.init = TRUE
               /\ u.enc.counter = s.sent + len /\ u.enc.iv = s.enc.iv
<1> DEFINE ctx == IF s.enc.init THEN s.enc ELSE set_iv(s.enc, s.enc.iv)
           hd == IF s.enc.init THEN <<>> ELSE [i \in 1..IvLen |-> IvByte(ctx.iv)]
           da == [i \in 1..len |-> DataByte(ctx.iv, Keystream(ctx, i - 1), s.sent + i)]
           u == ss_encrypt(s, len)
<1>0. /\ s.enc \in Contexts /\ s.sent \in Nat /\ s.enc.counter = s.sent
      /\ ~s.enc.init => s.sent = 0
      /\ DOMAIN s = {"limit", "state", "enc", "dec", "sent", "wire", "got"}
  BY Zenon DEF ConnInv, IsConn
<1>1. /\ ctx \in Contexts /\ ctx.init = TRUE /\ ctx.counter = s.sent
      /\ ctx.iv = s.enc.iv
  BY <1>0 DEF set_iv, Contexts
<1>2. u = [s EXCEPT !.enc = [ctx EXCEPT !.counter = @ + len],
                    !.wire = @ \o hd \o da, !.sent = @ + len]
  BY DEF ss_encrypt
<1> HIDE DEF ctx, u
<1>3. da = [i \in 1..len |-> DataByte(s.enc.iv, s.sent + (i - 1), s.sent + i)]
  <2>1. ASSUME NEW i \in 1..len PROVE Keystream(ctx, i - 1) = s.sent + (i - 1)
    <3>1. i - 1 \in Nat /\ ctx.counter \in Nat
      BY <1>0, <1>1
    <3> QED BY <1>1, <3>1, KeystreamIs, Zenon
  <2> QED BY <1>1, <2>1
<1>4. hd = IF s.enc.init THEN <<>> ELSE [i \in 1..IvLen |-> IvByte(s.enc.iv)]
  BY <1>1
<1> HIDE DEF hd, da
<1>5. /\ DOMAIN u = DOMAIN s /\ u.limit = s.limit /\ u.state = s.state
      /\ u.dec = s.dec /\ u.got = s.got /\ u.sent = s.sent + len
      /\ u.wire = s.wire \o hd \o da
      /\ u.enc = [ctx EXCEPT !.counter = @ + len]
  BY <1>0, <1>2
<1>6. /\ u.enc \in Contexts /\ u.enc.init = TRUE
      /\ u.enc.counter = s.sent + len /\ u.enc.iv = s.enc.iv
  BY <1>0, <1>1, <1>5 DEF Contexts
<1> QED BY <1>3, <1>4, <1>5, <1>6, Zenon DEF u

LEMMA EncryptConn ==
    ASSUME NEW s, ConnInv(s), s.state = "open", NEW len \in Nat
    PROVE  ConnInv(ss_encrypt(s, len)) /\ ss_encrypt(s, len).state = "open"
<1> DEFINE u == ss_encrypt(s, len)
           iv == s.enc.iv
           hd == IF s.enc.init THEN <<>> ELSE [i \in 1..IvLen |-> IvByte(iv)]
           da == [i \in 1..len |-> DataByte(iv, s.sent + (i - 1), s.sent + i)]
           h == IF s.dec.init THEN 0 ELSE IvLen
           d == s.dec.counter
           m == s.sent - d
<1>1. /\ DOMAIN u = DOMAIN s /\ u.limit = s.limit /\ u.state = s.state
      /\ u.dec = s.dec /\ u.got = s.got /\ u.sent = s.sent + len
      /\ u.wire = s.wire \o hd \o da
      /\ u.enc \in Contexts /\ u.enc.init = TRUE
      /\ u.enc.counter = s.sent + len /\ u.enc.iv = s.enc.iv
  BY EncryptEffect, Zenon
<1> HIDE DEF u
<1>2. /\ s.sent \in Nat /\ d \in Nat /\ iv \in Nat /\ m \in Nat /\ h \in Nat
      /\ s.dec.init \in BOOLEAN /\ s.enc.init \in BOOLEAN
  BY ConnFacts, CipherAssumption
<1>3. /\ IsConn(s) /\ OpenInv(s) /\ d <= s.sent /\ (~s.dec.init => d = 0)
      /\ (~s.enc.init => s.sent = 0)
  BY Zenon DEF ConnInv
<1>4. d + m = s.sent /\ m + len = (s.sent + len) - d /\ d <= s.sent + len
      /\ s.sent + len \in Nat
  BY <1>2, <1>3
<1> HIDE DEF iv, h, d, m, hd
<1>5. DataRun(da, iv, d + m, len)
  <2>1. DataRun(da, iv, s.sent, len)
    BY DEF DataRun, iv
  <2> QED BY <1>4, <2>1, Zenon
<1> HIDE DEF da
<1>6. WireIs(u.wire, iv, h, d, m + len)
  <2>1. CASE s.enc.init
    <3>1. WireIs(s.wire, iv, h, d, m)
      BY <1>3, <2>1, Zenon DEF OpenInv, iv, h, d, m
    <3>2. s.wire \o hd = s.wire
      <4>1. s.wire \in Seq(Bytes) /\ hd = <<>>
        BY <1>3, <2>1, Zenon DEF hd, IsConn
      <4> QED BY <4>1
    <3>3. WireIs(s.wire \o da, iv, h, d, m + len)
      BY <1>2, <1>5, <3>1, WireExtend, Zenon
    <3> QED BY <1>1, <3>2, <3>3, Zenon
  <2>2. CASE ~s.enc.init
    <3>1. s.wire = <<>> /\ ~s.dec.init /\ s.sent = 0 /\ d = 0
      BY <1>2, <1>3, <2>2, Zenon DEF OpenInv
    <3>2. h = IvLen /\ m = 0
      BY <3>1 DEF h, m
    <3>3. WireIs(hd, iv, h, d, m)
      BY <1>2, <2>2, <3>1, <3>2, WireFirst, Zenon DEF hd
    <3>4. s.wire \o hd = hd
      <4>1. hd \in Seq(Bytes)
        BY <3>3, Zenon DEF WireIs
      <4> QED BY <3>1, <4>1
    <3>5. WireIs(hd \o da, iv, h, d, m + len)
      BY <1>2, <1>5, <3>3, WireExtend, Zenon
    <3> QED BY <1>1, <3>4, <3>5, Zenon
  <2> QED BY <2>1, <2>2, Zenon
<1>7. IsConn(u)
  <2>1. u.wire \in Seq(Bytes)
    BY <1>6, Zenon DEF WireIs
  <2> QED BY <1>1, <1>3, <1>4, <2>1, Zenon DEF IsConn
<1>8. OpenInv(u)
  <2>1. WireIs(u.wire, u.enc.iv, IF u.dec.init THEN 0 ELSE IvLen, u.dec.counter,
               u.sent - u.dec.counter)
    BY <1>1, <1>4, <1>6, Zenon DEF h, d, iv
  <2> QED BY <1>1, <1>3, <2>1, Zenon DEF OpenInv
<1>9. "open" # "unopened"
  OBVIOUS
<1>10. u.enc.counter = u.sent /\ u.dec.counter <= u.sent /\ (~u.dec.init => u.dec.counter = 0)
  BY <1>1, <1>3, <1>4, Zenon DEF d
<1> QED BY <1>1, <1>7, <1>8, <1>9, <1>10, Zenon DEF ConnInv, u

(* ss_decrypt of a chunk that holds what there is of the IV. *)
LEMMA UpdateConn ==
    ASSUME NEW s, ConnInv(s), s.state = "open", s.enc.init,
           NEW h \in Nat, h = IF s.dec.init THEN 0 ELSE IvLen,
           NEW len \in h..Len(s.wire),
           NEW ctx \in Contexts, ctx.init = TRUE, ctx.iv = s.enc.iv,
           ctx.counter = s.dec.counter
    PROVE  LET u == update(s, ctx, SubSeq(s.wire, 1, len), h)
           IN  ConnInv(u) /\ u.state = "open"
<1> DEFINE u == update(s, ctx, SubSeq(s.wire, 1, len), h)
           iv == s.enc.iv
           d == s.dec.counter
           m == s.sent - d
           n == len - h
           chunk == SubSeq(s.wire, 1, len)
           x == SubSeq(chunk, h + 1, Len(chunk))
<1>1. /\ s.sent \in Nat /\ d \in Nat /\ iv \in Nat /\ m \in Nat
      /\ s.dec.init \in BOOLEAN /\ s.enc.init \in BOOLEAN
  BY ConnFacts, CipherAssumption
<1>2. IsConn(s) /\ OpenInv(s) /\ s.enc.counter = s.sent
  BY Zenon DEF ConnInv
<1>3. WireIs(s.wire, iv, h, d, m)
  BY <1>2, Zenon DEF OpenInv
<1>4. Len(s.wire) = h + m
  BY <1>3, Zenon DEF WireIs
<1> HIDE DEF iv, d, m
<1>5. /\ len \in h..(h + m) /\ n \in Nat /\ n <= m
  BY <1>1, <1>4
<1>6. Len(chunk) = len /\ Len(x) = n /\ Plain(ctx, x) = [i \in 1..n |-> d + i]
  <2>1. ctx.iv = iv /\ ctx.counter = d
    BY Zenon DEF iv, d
  <2>2. PlainTaken(ctx, s.wire, h, d, len)
    BY <1>1, <1>3, <1>5, <2>1, PlainIs, Zenon
  <2> QED BY ONLY <2>2 DEF PlainTaken
<1>7. u = [s EXCEPT !.dec = [ctx EXCEPT !.counter = @ + Len(x)],
                    !.wire = SubSeq(@, Len(chunk) + 1, Len(@)),
                    !.got = @ \o Plain(ctx, x)]
  BY Zenon DEF update
<1> DEFINE w == SubSeq(s.wire, len + 1, Len(s.wire))
           c == [ctx EXCEPT !.counter = @ + n]
           g == s.got \o [i \in 1..n |-> d + i]
<1> HIDE DEF u, x, chunk
<1>8. u = [s EXCEPT !.dec = c, !.wire = w, !.got = g]
  BY <1>6, <1>7
<1>9. WireIs(w, iv, 0, d + n, m - n)
  BY <1>1, <1>3, <1>5, WireCut, Zenon
<1>10. c \in Contexts /\ c.init = TRUE /\ c.iv = iv /\ c.counter = d + n
  <2>1. ctx.counter = d /\ ctx.iv = iv /\ ctx \in Contexts /\ ctx.init = TRUE
    BY Zenon DEF iv, d
  <2> HIDE DEF n
  <2> QED BY <1>1, <1>5, <2>1 DEF Contexts
<1>11. g \in Seq(Nat) /\ GotIs(g, d + n)
  <2>1. s.got \in Seq(Nat) /\ Len(s.got) = d /\ \A i \in 1..d : s.got[i] = i
    BY <1>2, Zenon DEF IsConn, OpenInv, GotIs, d
  <2> DEFINE y == [i \in 1..n |-> d + i]
  <2> HIDE DEF n
  <2>2. y \in Seq(Nat) /\ Len(y) = n
    BY <1>1, <1>5
  <2>3. \A i \in 1..n : y[i] = d + i
    OBVIOUS
  <2> HIDE DEF y
  <2>4. /\ g \in Seq(Nat) /\ Len(g) = d + n
        /\ \A i \in 1..(d + n) : g[i] = IF i <= d THEN s.got[i] ELSE y[i - d]
    <3> DEFINE t == s.got
    <3>1. g = t \o y
      BY DEF y
    <3> HIDE DEF g
    <3>2. t \in Seq(Nat) /\ y \in Seq(Nat) /\ Len(t) = d /\ Len(y) = n
      BY <2>1, <2>2, Zenon
    <3> HIDE DEF t
    <3>3. /\ t \o y \in Seq(Nat) /\ Len(t \o y) = Len(t) + Len(y)
          /\ \A i \in 1..(Len(t) + Len(y)) :
                (t \o y)[i] = IF i <= Len(t) THEN t[i] ELSE y[i - Len(t)]
      BY ONLY <3>2, JoinOfWire, Zenon
    <3>4. /\ g \in Seq(Nat) /\ Len(g) = d + n
          /\ \A i \in 1..(d + n) : g[i] = IF i <= d THEN t[i] ELSE y[i - d]
      BY ONLY <3>1, <3>2, <3>3, Zenon
    <3> QED BY <3>4, Zenon DEF t
  <2> HIDE DEF g
  <2>5. ASSUME NEW i \in 1..(d + n) PROVE g[i] = i
    <3>1. CASE i <= d
      <4>1. i \in 1..d
        BY <1>1, <1>5, <3>1
      <4> QED BY <2>1, <2>4, <3>1, <4>1, Zenon
    <3>2. CASE ~(i <= d)
      <4>1. i - d \in 1..n /\ d + (i - d) = i
        BY <1>1, <1>5, <3>2
      <4> QED BY <2>3, <2>4, <3>2, <4>1, Zenon
    <3> QED BY <3>1, <3>2, Zenon
  <2> QED BY <2>4, <2>5, Zenon DEF GotIs
<1> HIDE DEF w, c, g
<1>12. /\ DOMAIN u = DOMAIN s /\ u.limit = s.limit /\ u.state = s.state
       /\ u.enc = s.enc /\ u.sent = s.sent /\ u.dec = c /\ u.wire = w /\ u.got = g
  <2>1. DOMAIN s = {"limit", "state", "enc", "dec", "sent", "wire", "got"}
    BY <1>2, Zenon DEF IsConn
  <2> QED BY <1>8, <2>1
<1>13. m - n = s.sent - (d + n) /\ d + n <= s.sent /\ d + n \in Nat
  <2> DEFINE t == s.sent
  <2>1. m = t - d /\ t \in Nat /\ d \in Nat /\ n \in Nat /\ n <= m
    BY <1>1, <1>5, Zenon DEF m
  <2> HIDE DEF n, t
  <2>2. m - n = t - (d + n) /\ d + n <= t /\ d + n \in Nat
    BY ONLY <2>1
  <2> QED BY <2>2, Zenon DEF t
<1> HIDE DEF n
<1>14. IsConn(u)
  <2>1. w \in Seq(Bytes)
    BY <1>9, Zenon DEF WireIs
  <2> QED BY <1>2, <1>10, <1>11, <1>12, <2>1, Zenon DEF IsConn
<1>15. OpenInv(u)
  <2>1. WireIs(u.wire, u.enc.iv, IF u.dec.init THEN 0 ELSE IvLen, u.dec.counter,
               u.sent - u.dec.counter)
    <3>1. (IF u.dec.init THEN 0 ELSE IvLen) = 0
      BY <1>10, <1>12, Zenon
    <3> QED BY <1>9, <1>10, <1>12, <1>13, <3>1, Zenon DEF iv
  <2> QED BY <1>10, <1>11, <1>12, <2>1, Zenon DEF OpenInv, iv
<1>16. "open" # "unopened"
  OBVIOUS
<1>17. u.enc.counter = u.sent /\ u.dec.counter <= u.sent
       /\ u.enc.init /\ u.dec.init
  BY <1>2, <1>10, <1>12, <1>13, Zenon
<1>18. ConnInv(u) /\ u.state = "open"
  BY <1>12, <1>14, <1>15, <1>16, <1>17, Zenon DEF ConnInv
<1> QED BY <1>18, Zenon DEF u

-----------------------------------------------------------------------------
IvEntries == [key : Nat, data : {0}, ts : {0}]

Shown == [iv : Nat, ok : BOOLEAN]

(* v was presented again after the i-th time. *)
Again(P, i, v) == \E k \in DOMAIN P : i < k /\ P[k].iv = v

(* What is further back in the cache was presented later. *)
Followed(c, P) ==
    \A p, q \in DOMAIN c : p < q =>
        \A i \in DOMAIN P : P[i].iv = c[p].key => Again(P, i, c[q].key)

(* What the cache no longer knows came before all that it knows. *)
Forgotten(c, P) ==
    \A i \in DOMAIN P :
        \/ P[i].iv \in KeysOf(c)
        \/ Len(c) = CacheSize - 1 /\ \A v \in KeysOf(c) : Again(P, i, v)

(* What the cache knows was accepted once. *)
Accepted(c, P) == \A v \in KeysOf(c) : \E i \in DOMAIN P : P[i].ok /\ P[i].iv = v

Between(P, i, j) == {P[k].iv : k \in (i + 1)..(j - 1)}

WindowOf(P) ==
    \A i, j \in DOMAIN P :
        i < j /\ P[i].iv = P[j].iv /\ P[j].ok
        => Cardinality(Between(P, i, j)) >= CacheSize - 1

CacheInv(c) == c \in Seq(IvEntries) /\ Ordered(c) /\ Len(c) < CacheSize

IvInv(c, P) ==
    /\ CacheInv(c) /\ P \in Seq(Shown)
    /\ Followed(c, P) /\ Forgotten(c, P) /\ Accepted(c, P) /\ WindowOf(P)

(* r is c with k put, or moved, to the end, and perhaps less of the front. *)
Follows(c, r, k) ==
    \A p, q \in DOMAIN r : p < q =>
        /\ r[p].key # k
        /\ \/ r[q].key = k
           \/ \E a, b \in DOMAIN c : a < b /\ c[a].key = r[p].key /\ c[b].key = r[q].key

(* A sequence and one more element. *)
OneMore(P, x, Q) ==
    /\ DOMAIN P = 1..Len(P) /\ Len(P) \in Nat
    /\ DOMAIN Q = 1..(Len(P) + 1) /\ Len(Q) = Len(P) + 1 /\ Q[Len(P) + 1] = x
    /\ \A i \in DOMAIN P : Q[i] = P[i] /\ i \in DOMAIN Q /\ i < Len(P) + 1
    /\ \A i \in DOMAIN Q : i \in DOMAIN P \/ i = Len(P) + 1
    /\ Len(P) + 1 \in DOMAIN Q

LEMMA AppendOne ==
    ASSUME NEW S, NEW P \in Seq(S), NEW x \in S
    PROVE  OneMore(P, x, Append(P, x))
<1> DEFINE Q == Append(P, x)
<1>1. /\ DOMAIN P = 1..Len(P) /\ Len(P) \in Nat
      /\ DOMAIN Q = 1..(Len(P) + 1) /\ Len(Q) = Len(P) + 1 /\ Q[Len(P) + 1] = x
      /\ \A i \in 1..Len(P) : Q[i] = P[i]
  OBVIOUS
<1>2. /\ \A i \in 1..Len(P) : i \in 1..(Len(P) + 1) /\ i < Len(P) + 1
      /\ \A i \in 1..(Len(P) + 1) : i \in 1..Len(P) \/ i = Len(P) + 1
      /\ Len(P) + 1 \in 1..(Len(P) + 1)
  BY <1>1
<1> HIDE DEF Q
<1>3. OneMore(P, x, Q)
  BY <1>1, <1>2, Zenon DEF OneMore
<1> QED BY <1>3, Zenon DEF Q

LEMMA AgainMore ==
    ASSUME NEW P, NEW x, NEW Q, OneMore(P, x, Q)
    PROVE  \A i \in DOMAIN P : Again(Q, i, x.iv) /\ \A v : Again(P, i, v) => Again(Q, i, v)
<1> QED BY Zenon DEF OneMore, Again

LEMMA FollowedMore ==
    ASSUME NEW c, NEW r, NEW P, NEW x, NEW Q, OneMore(P, x, Q),
           Followed(c, P), Follows(c, r, x.iv)
    PROVE  Followed(r, Q)
<1> SUFFICES ASSUME NEW p \in DOMAIN r, NEW q \in DOMAIN r, p < q,
                    NEW i \in DOMAIN Q, Q[i].iv = r[p].key
             PROVE  Again(Q, i, r[q].key)
  BY Zenon DEF Followed
<1>1. /\ r[p].key # x.iv
      /\ \/ r[q].key = x.iv
         \/ \E a, b \in DOMAIN c : a < b /\ c[a].key = r[p].key /\ c[b].key = r[q].key
  BY Zenon DEF Follows
<1>2. i \in DOMAIN P /\ Q[i] = P[i]
  BY <1>1, Zenon DEF OneMore
<1>3. Again(Q, i, x.iv) /\ \A v : Again(P, i, v) => Again(Q, i, v)
  BY <1>2, AgainMore, Zenon
<1>4. CASE r[q].key = x.iv
  BY <1>3, <1>4, Zenon
<1>5. CASE \E a, b \in DOMAIN c : a < b /\ c[a].key = r[p].key /\ c[b].key = r[q].key
  <2>1. Again(P, i, r[q].key)
    BY <1>2, <1>5, Zenon DEF Followed
  <2> QED BY <1>3, <2>1, Zenon
<1> QED BY <1>1, <1>4, <1>5, Zenon

(* Ordered keys are different ones. *)
LEMMA KeyCount ==
    ASSUME NEW E, NEW c \in Seq(E), Ordered(c)
    PROVE  IsFiniteSet(KeysOf(c)) /\ Cardinality(KeysOf(c)) = Len(c)
<1> DEFINE n == Len(c)
           D == 1..n
           f == [i \in D |-> c[i].key]
           K == KeysOf(c)
<1>1. n \in Nat /\ DOMAIN c = D
  OBVIOUS
<1>2. \A i, j \in D : i # j => i < j \/ j < i
  BY <1>1
<1> HIDE DEF n, D
<1>3. K = {c[i].key : i \in D}
  BY <1>1, Zenon DEF KeysOf
<1>4. \A i, j \in D : c[i].key = c[j].key => i = j
  BY <1>1, <1>2, Zenon DEF Ordered
<1> HIDE DEF K
<1>5. f \in Bijection(D, K)
  <2>1. f \in [D -> K]
    BY <1>3
  <2>2. f \in Injection(D, K)
    BY <1>4, <2>1 DEF Injection, IsInjective
  <2>3. f \in Surjection(D, K)
    BY <1>3, <2>1 DEF Surjection
  <2> QED BY <2>2, <2>3, Zenon DEF Bijection
<1> HIDE DEF f
<1>6. ExistsBijection(1..n, K)
  BY <1>5, Zenon DEF ExistsBijection, D
<1>7. Cardinality(K) = n
  BY <1>1, <1>6, FS_CountingElements, Zenon
<1>8. IsFiniteSet(K)
  BY <1>1, <1>6, FS_NatBijection, Zenon
<1> QED BY <1>7, <1>8, Zenon DEF K, n

(* An IV that is accepted is not known, so what the cache knows came since. *)
LEMMA WindowMore ==
    ASSUME NEW c, NEW P, IvInv(c, P), NEW x \in Shown, x.ok => x.iv \notin KeysOf(c),
           NEW Q, OneMore(P, x, Q)
    PROVE  WindowOf(Q)
<1>1. /\ c \in Seq(IvEntries) /\ Ordered(c) /\ Forgotten(c, P) /\ WindowOf(P)
      /\ CacheSize \in Nat
  BY CipherAssumption, Zenon DEF IvInv, CacheInv
<1> DEFINE n == Len(P)
<1>2. /\ n \in Nat /\ DOMAIN P = 1..n /\ DOMAIN Q = 1..(n + 1) /\ Q[n + 1] = x
      /\ \A i \in 1..n : Q[i] = P[i]
  BY Zenon DEF OneMore
<1> HIDE DEF n
<1> SUFFICES ASSUME NEW i \in 1..(n + 1), NEW j \in 1..(n + 1), i < j,
                    Q[i].iv = Q[j].iv, Q[j].ok
             PROVE  Cardinality(Between(Q, i, j)) >= CacheSize - 1
  BY <1>2, Zenon DEF WindowOf
<1>3. i \in 1..n /\ Q[i] = P[i]
  BY <1>2
<1>4. CASE j \in 1..n
  <2>1. \A k \in (i + 1)..(j - 1) : k \in 1..n
    BY <1>2, <1>4
  <2>2. Between(Q, i, j) = Between(P, i, j)
    <3> DEFINE D == (i + 1)..(j - 1)
    <3>1. \A k \in D : Q[k].iv = P[k].iv
      BY <1>2, <2>1, Zenon
    <3> HIDE DEF D
    <3>2. {Q[k].iv : k \in D} = {P[k].iv : k \in D}
      BY <3>1
    <3> QED BY <3>2, Zenon DEF D, Between
  <2>3. P[i].iv = P[j].iv /\ P[j].ok
    BY <1>2, <1>3, <1>4, Zenon
  <2> QED BY <1>1, <1>2, <1>3, <1>4, <2>2, <2>3, Zenon DEF WindowOf
<1>5. CASE j = n + 1
  <2>1. Q[j] = x /\ P[i].iv \notin KeysOf(c)
    BY <1>2, <1>3, <1>5, Zenon
  <2>2. Len(c) = CacheSize - 1 /\ \A v \in KeysOf(c) : Again(P, i, v)
    BY <1>1, <1>2, <1>3, <2>1, Zenon DEF Forgotten
  <2> DEFINE D == (i + 1)..(j - 1)
             B == {Q[k].iv : k \in D}
             K == KeysOf(c)
  <2>3. \A k \in 1..n : i < k => k \in D
    BY <1>2, <1>3, <1>5
  <2>4. IsFiniteSet(D)
    <3>1. i + 1 \in Int /\ j - 1 \in Int
      BY <1>2
    <3> DEFINE a == i + 1
               b == j - 1
    <3> HIDE DEF a, b
    <3>2. IsFiniteSet(a..b)
      BY <3>1, FS_Interval, Zenon DEF a, b
    <3> QED BY <3>2, Zenon DEF a, b
  <2> HIDE DEF D, K
  <2>5. K \subseteq B
    <3>1. ASSUME NEW v \in K PROVE v \in B
      <4>1. PICK k \in 1..n : i < k /\ P[k].iv = v
        BY <1>2, <2>2, Zenon DEF Again, K
      <4>2. k \in D /\ Q[k].iv = v
        BY <1>2, <2>3, <4>1, Zenon
      <4> QED BY <4>2, Zenon
    <3> QED BY <3>1, Zenon
  <2>6. IsFiniteSet(B)
    <3> DEFINE f == [k \in D |-> Q[k].iv]
    <3>1. f \in Surjection(D, B)
      BY DEF Surjection
    <3> HIDE DEF f, B
    <3> QED BY <2>4, <3>1, FS_Surjection, Zenon
  <2>7. Cardinality(K) = Len(c)
    BY <1>1, KeyCount, Zenon DEF K
  <2> HIDE DEF B
  <2>8. Cardinality(K) <= Cardinality(B) /\ Cardinality(B) \in Nat
    BY <2>5, <2>6, FS_Subset, FS_CardinalityType, Zenon
  <2>9. Cardinality(B) >= CacheSize - 1
    BY <1>1, <2>2, <2>7, <2>8
  <2> QED BY <2>9, Zenon DEF B, D, Between
<1>6. j \in 1..n \/ j = n + 1
  BY <1>2
<1> QED BY <1>4, <1>5, <1>6, Zenon

(* The cache holds k last; of the rest nothing, or its first, is gone. *)
Took(c, r, k) ==
    /\ CacheInv(r) /\ Follows(c, r, k) /\ k \in KeysOf(r)
    /\ KeysOf(r) \subseteq KeysOf(c) \cup {k}
    /\ Len(c) <= Len(r)
    /\ \A v \in KeysOf(c) : v \notin KeysOf(r) =>
          /\ Len(r) = CacheSize - 1 /\ v = c[1].key /\ 1 \in DOMAIN c
          /\ \A w \in KeysOf(r) : w = k \/ \E q \in DOMAIN c : 1 < q /\ c[q].key = w

LEMMA TookIv ==
    ASSUME NEW c, NEW P, IvInv(c, P), NEW x \in Shown, NEW r, Took(c, r, x.iv),
           x.ok <=> x.iv \notin KeysOf(c)
    PROVE  IvInv(r, Append(P, x))
<1> DEFINE Q == Append(P, x)
<1>1. /\ CacheInv(c) /\ P \in Seq(Shown) /\ Followed(c, P) /\ Forgotten(c, P)
      /\ Accepted(c, P)
  BY Zenon DEF IvInv
<1>2. OneMore(P, x, Q)
  BY <1>1, AppendOne, Zenon
<1>3. Q \in Seq(Shown)
  BY <1>1
<1> HIDE DEF Q
<1>4. WindowOf(Q)
  BY <1>2, WindowMore, Zenon
<1>5. Followed(r, Q)
  BY <1>1, <1>2, FollowedMore, Zenon DEF Took
<1>6. Accepted(r, Q)
  <2> SUFFICES ASSUME NEW v \in KeysOf(r) PROVE \E i \in DOMAIN Q : Q[i].ok /\ Q[i].iv = v
    BY Zenon DEF Accepted
  <2>1. CASE v \in KeysOf(c)
    BY <1>1, <1>2, <2>1, Zenon DEF Accepted, OneMore
  <2>2. CASE v \notin KeysOf(c)
    <3>1. v = x.iv /\ x.ok
      BY <2>2, Zenon DEF Took
    <3> QED BY <1>2, <3>1, Zenon DEF OneMore
  <2> QED BY <2>1, <2>2, Zenon
<1>7. Forgotten(r, Q)
  <2> SUFFICES ASSUME NEW i \in DOMAIN Q, Q[i].iv \notin KeysOf(r)
               PROVE  Len(r) = CacheSize - 1 /\ \A v \in KeysOf(r) : Again(Q, i, v)
    BY Zenon DEF Forgotten
  <2>1. i \in DOMAIN P /\ Q[i] = P[i] /\ P[i].iv \notin KeysOf(r)
    BY <1>2, Zenon DEF OneMore, Took
  <2>2. Again(Q, i, x.iv) /\ \A v : Again(P, i, v) => Again(Q, i, v)
    BY <1>2, <2>1, AgainMore, Zenon
  <2>3. CASE P[i].iv \in KeysOf(c)
    <3>1. /\ Len(r) = CacheSize - 1 /\ P[i].iv = c[1].key /\ 1 \in DOMAIN c
          /\ \A w \in KeysOf(r) : w = x.iv \/ \E q \in DOMAIN c : 1 < q /\ c[q].key = w
      BY <2>1, <2>3, Zenon DEF Took
    <3>2. \A q \in DOMAIN c : 1 < q => Again(P, i, c[q].key)
      BY <1>1, <2>1, <3>1, Zenon DEF Followed
    <3> QED BY <2>2, <3>1, <3>2, Zenon
  <2>4. CASE P[i].iv \notin KeysOf(c)
    <3>1. Len(c) = CacheSize - 1 /\ \A v \in KeysOf(c) : Again(P, i, v)
      BY <1>1, <2>1, <2>4, Zenon DEF Forgotten
    <3>2. KeysOf(r) \subseteq KeysOf(c) \cup {x.iv}
      BY Zenon DEF Took
    <3>3. Len(r) = CacheSize - 1
      <4>1. Len(r) < CacheSize /\ Len(c) <= Len(r) /\ r \in Seq(IvEntries)
        BY Zenon DEF Took, CacheInv
      <4> QED BY <3>1, <4>1, CipherAssumption
    <3> QED BY <2>2, <3>1, <3>2, <3>3, Zenon
  <2> QED BY <2>3, <2>4, Zenon
<1>8. CacheInv(r)
  BY Zenon DEF Took
<1> QED BY <1>3, <1>4, <1>5, <1>6, <1>7, <1>8, Zenon DEF IvInv, Q

LEMMA CacheFacts ==
    ASSUME NEW c, CacheInv(c)
    PROVE  /\ c \in Seq(IvEntries) /\ Ordered(c) /\ Len(c) \in Nat /\ Len(c) < CacheSize
           /\ DOMAIN c = 1..Len(c) /\ Until(c, 0)
<1>1. c \in Seq(IvEntries) /\ Ordered(c) /\ Len(c) < CacheSize
  BY Zenon DEF CacheInv
<1>2. Len(c) \in Nat /\ DOMAIN c = 1..Len(c) /\ \A i \in 1..Len(c) : c[i] \in IvEntries
  BY <1>1
<1>3. \A e \in IvEntries : e.ts <= 0
  BY DEF IvEntries
<1> QED BY <1>1, <1>2, <1>3, Zenon DEF Until

(* A refused repeat moves its IV to the end. *)
LEMMA HitTook ==
    ASSUME NEW c, CacheInv(c), NEW k, Has(c, k)
    PROVE  Took(c, Refreshed(c, k, 0), k)
<1> DEFINE E == IvEntries
           n == Len(c)
           f == Find(c, k)
           h == [c[f] EXCEPT !.ts = 0]
           T == {i \in DOMAIN c : c[i].key # k}
           w == Without(c, k)
           r == Refreshed(c, k, 0)
<1>1. /\ c \in Seq(E) /\ Ordered(c) /\ n \in Nat /\ n < CacheSize
      /\ DOMAIN c = 1..n /\ Until(c, 0)
  BY CacheFacts
<1>2. f \in 1..n /\ c[f].key = k
  BY <1>1, FindFacts, Zenon
<1>3. h \in E /\ h.key = k /\ h.ts = 0
  <2>1. c[f] \in E
    BY <1>1, <1>2
  <2> HIDE DEF f
  <2> QED BY <1>2, <2>1 DEF IvEntries
<1> HIDE DEF E, f
<1>4. Moved(E, c, h, 0, r)
  <2>1. 0 \in Nat
    OBVIOUS
  <2> QED BY <1>1, <1>3, <2>1, RefreshedFacts, Zenon DEF f
<1>5. /\ r \in Seq(E) /\ Ordered(r) /\ KeysOf(r) = KeysOf(c) /\ Len(r) = n
      /\ r[n] = h
  BY <1>4, Zenon DEF Moved
<1>6. r = Append(w, h)
  BY Zenon DEF Refreshed, f
<1>7. w \in Seq(E) /\ Picks(w, c, T)
  <2>1. T \in SUBSET (1..n)
    BY <1>1, Zenon
  <2> HIDE DEF T
  <2>2. EntriesAt(c, T) \in Seq(E) /\ Picks(EntriesAt(c, T), c, T)
    BY <1>1, <2>1, EntriesAtPicks, Zenon
  <2> QED BY <2>2, Zenon DEF Without, T
<1> HIDE DEF h, w, T, r, n
<1>8. Len(w) = n - 1 /\ \A i \in 1..Len(w) : r[i] = w[i]
  BY <1>3, <1>5, <1>6, <1>7, <1>1
<1>9. /\ \A i \in 1..Len(w) : Nth(T, i) \in T /\ w[i] = c[Nth(T, i)]
      /\ \A i, j \in 1..Len(w) : i < j => Nth(T, i) < Nth(T, j)
      /\ \A i \in T : i \in DOMAIN c
  BY <1>7, Zenon DEF Picks, T
<1>10. DOMAIN r = 1..n
  BY <1>5
<1>11. Follows(c, r, k)
  <2> SUFFICES ASSUME NEW p \in DOMAIN r, NEW q \in DOMAIN r, p < q
               PROVE  /\ r[p].key # k
                      /\ \/ r[q].key = k
                         \/ \E a, b \in DOMAIN c :
                               a < b /\ c[a].key = r[p].key /\ c[b].key = r[q].key
    BY Zenon DEF Follows
  <2>1. p \in 1..n /\ q \in 1..n /\ n \in 1..n /\ p < n /\ p \in 1..Len(w)
        /\ (q = n \/ q \in 1..Len(w))
    BY <1>1, <1>8, <1>10
  <2>2. r[p].key # k
    <3>1. r[p].key # r[n].key
      BY <1>5, <1>10, <2>1, Zenon DEF Ordered
    <3> QED BY <1>3, <1>5, <3>1, Zenon
  <2>3. CASE q = n
    BY <1>3, <1>5, <2>2, <2>3, Zenon
  <2>4. CASE q \in 1..Len(w)
    <3> DEFINE a == Nth(T, p)
               b == Nth(T, q)
    <3>1. /\ a \in DOMAIN c /\ b \in DOMAIN c /\ a < b
          /\ r[p] = c[a] /\ r[q] = c[b]
      BY <1>8, <1>9, <2>1, <2>4, Zenon
    <3> HIDE DEF a, b
    <3> QED BY <2>2, <3>1, Zenon
  <2> QED BY <2>1, <2>3, <2>4, Zenon
<1>12. k \in KeysOf(c)
  BY Zenon DEF Has, KeysOf
<1>13. CacheInv(r) /\ Len(c) <= Len(r)
  <2>1. Len(c) = n /\ n <= n
    BY <1>1 DEF n
  <2> QED BY <1>1, <1>5, <2>1, Zenon DEF CacheInv, E
<1> QED BY <1>5, <1>11, <1>12, <1>13, Zenon DEF Took, r

(* An accepted IV is put at the end; a full cache drops its first. *)
LEMMA MissTook ==
    ASSUME NEW c, CacheInv(c), NEW k \in Nat, ~Has(c, k)
    PROVE  Took(c, cache_insert(c, CacheSize, Entry(k, NoIv, 0)).cache, k)
<1> DEFINE E == IvEntries
           n == Len(c)
           h == Entry(k, NoIv, 0)
           a == Append(c, h)
           r == cache_insert(c, CacheSize, h).cache
<1>1. /\ c \in Seq(E) /\ Ordered(c) /\ n \in Nat /\ n < CacheSize
      /\ DOMAIN c = 1..n /\ Until(c, 0) /\ CacheSize \in Nat /\ CacheSize > 1
  BY CacheFacts, CipherAssumption
<1>2. h \in E /\ h.key = k /\ h.ts = 0 /\ 0 \in Nat
  BY DEF IvEntries, Entry, NoIv
<1>3. k \notin KeysOf(c)
  BY Zenon DEF Has, KeysOf
<1> HIDE DEF E, h
<1>4. Appended(E, c, h, 0, a)
  BY <1>1, <1>2, <1>3, AppendFacts, Zenon
<1>5. /\ a \in Seq(E) /\ Ordered(a) /\ KeysOf(a) = KeysOf(c) \cup {k}
      /\ Len(a) = n + 1 /\ a[n + 1] = h /\ \A i \in 1..n : a[i] = c[i]
  BY <1>2, <1>4, Zenon DEF Appended
<1>6. DOMAIN a = 1..(n + 1)
  BY <1>5
<1>7. r = IF n + 1 >= CacheSize THEN Tail(a) ELSE a
  BY <1>5 DEF cache_insert
<1> HIDE DEF a, r, n
(* In the list with the new entry, order is that of the cache, or k is last. *)
<1>8. Follows(c, a, k)
  <2> SUFFICES ASSUME NEW p \in DOMAIN a, NEW q \in DOMAIN a, p < q
               PROVE  /\ a[p].key # k
                      /\ \/ a[q].key = k
                         \/ \E i, j \in DOMAIN c :
                               i < j /\ c[i].key = a[p].key /\ c[j].key = a[q].key
    BY Zenon DEF Follows
  <2>1. p \in 1..n /\ (q \in 1..n \/ q = n + 1)
    BY <1>1, <1>6
  <2>2. a[p].key # k
    BY <1>1, <1>3, <1>5, <2>1, Zenon DEF KeysOf
  <2>3. q = n + 1 => a[q].key = k
    BY <1>2, <1>5, Zenon
  <2>4. q \in 1..n => c[p].key = a[p].key /\ c[q].key = a[q].key
    BY <1>5, <2>1, Zenon
  <2> QED BY <1>1, <2>1, <2>2, <2>3, <2>4, Zenon
<1>9. CASE ~(n + 1 >= CacheSize)
  <2>1. r = a
    BY <1>7, <1>9, Zenon
  <2>2. Len(a) < CacheSize /\ n <= Len(a)
    BY <1>1, <1>5, <1>9
  <2>3. CacheInv(a)
    BY <1>5, <2>2, Zenon DEF CacheInv, E
  <2> QED BY <1>5, <1>8, <2>1, <2>2, <2>3, Zenon DEF Took, r, h, n
<1>10. CASE n + 1 >= CacheSize
  <2>1. /\ r \in Seq(E) /\ Len(r) = n /\ DOMAIN r = 1..n /\ n = CacheSize - 1
        /\ \A i \in 1..n : r[i] = a[i + 1]
    <3>1. r = Tail(a) /\ a # <<>>
      BY <1>1, <1>5, <1>7, <1>10
    <3> QED BY <1>1, <1>5, <1>10, <3>1
  <2>2. \A i \in 1..n : i + 1 \in 1..(n + 1)
    BY <1>1
  <2>3. \A i, j \in 1..n : i < j => i + 1 < j + 1
    BY <1>1
  <2>4. Ordered(r)
    <3> SUFFICES ASSUME NEW i \in 1..n, NEW j \in 1..n, i < j
                 PROVE  r[i].key # r[j].key /\ r[i].ts <= r[j].ts
      BY <2>1, Zenon DEF Ordered
    <3>1. /\ r[i] = a[i + 1] /\ r[j] = a[j + 1] /\ i + 1 < j + 1
          /\ i + 1 \in DOMAIN a /\ j + 1 \in DOMAIN a
      BY <1>6, <2>1, <2>2, <2>3, Zenon
    <3>2. a[i + 1].key # a[j + 1].key /\ a[i + 1].ts <= a[j + 1].ts
      BY <1>5, <3>1, Zenon DEF Ordered
    <3> QED BY <3>1, <3>2, Zenon
  <2>5. Follows(c, r, k)
    <3> SUFFICES ASSUME NEW p \in DOMAIN r, NEW q \in DOMAIN r, p < q
                 PROVE  /\ r[p].key # k
                        /\ \/ r[q].key = k
                           \/ \E i, j \in DOMAIN c :
                                 i < j /\ c[i].key = r[p].key /\ c[j].key = r[q].key
      BY Zenon DEF Follows
    <3>1. /\ r[p] = a[p + 1] /\ r[q] = a[q + 1] /\ p + 1 < q + 1
          /\ p + 1 \in DOMAIN a /\ q + 1 \in DOMAIN a
      BY <1>6, <2>1, <2>2, <2>3, Zenon
    <3>2. /\ a[p + 1].key # k
          /\ \/ a[q + 1].key = k
             \/ \E i, j \in DOMAIN c :
                   i < j /\ c[i].key = a[p + 1].key /\ c[j].key = a[q + 1].key
      BY <1>8, <3>1, Zenon DEF Follows
    <3> QED BY <3>1, <3>2, Zenon
  <2>6. n \in 1..n /\ 1 \in 1..n /\ 1 \in 1..(n + 1)
    BY <1>1, <2>1
  <2>7. k \in KeysOf(r)
    <3>1. r[n].key = k /\ n \in DOMAIN r
      BY <1>2, <1>5, <2>1, <2>6, Zenon
    <3> QED BY <3>1, Zenon DEF KeysOf
  <2>8. KeysOf(r) \subseteq KeysOf(a)
    BY <1>6, <2>1, <2>2, Zenon DEF KeysOf
  <2>9. \A w \in KeysOf(r) : w = k \/ \E q \in DOMAIN c : 1 < q /\ c[q].key = w
    <3> SUFFICES ASSUME NEW i \in 1..n
                 PROVE  r[i].key = k \/ \E q \in DOMAIN c : 1 < q /\ c[q].key = r[i].key
      BY <2>1, Zenon DEF KeysOf
    <3>1. r[i] = a[i + 1] /\ (i = n \/ (i + 1 \in 1..n /\ 1 < i + 1))
      BY <1>1, <2>1
    <3> QED BY <1>1, <1>2, <1>5, <3>1, Zenon
  <2>10. ASSUME NEW v \in KeysOf(c), v \notin KeysOf(r) PROVE v = c[1].key
    <3>1. PICK i \in 1..n : c[i].key = v
      BY <1>1, Zenon DEF KeysOf
    <3>2. CASE i = 1
      BY <3>1, <3>2, Zenon
    <3>3. CASE i # 1
      <4>1. i - 1 \in 1..n /\ (i - 1) + 1 = i
        BY <1>1, <3>3
      <4>2. r[i - 1] = c[i]
        BY <1>5, <2>1, <4>1, Zenon
      <4> QED BY <2>1, <2>10, <3>1, <4>1, <4>2, Zenon DEF KeysOf
    <3> QED BY <3>2, <3>3, Zenon
  <2>11. CacheInv(r) /\ n <= Len(r)
    <3>1. n <= n
      BY <1>1
    <3> QED BY <1>1, <2>1, <2>4, <3>1, Zenon DEF CacheInv, E
  <2>12. \A v \in KeysOf(c) : v \notin KeysOf(r) =>
           /\ Len(r) = CacheSize - 1 /\ v = c[1].key /\ 1 \in DOMAIN c
           /\ \A w \in KeysOf(r) : w = k \/ \E q \in DOMAIN c : 1 < q /\ c[q].key = w
    BY <1>1, <2>1, <2>6, <2>9, <2>10, Zenon
  <2> QED BY <1>5, <2>5, <2>7, <2>8, <2>11, <2>12, Zenon DEF Took, r, h, n
<1> QED BY <1>9, <1>10, Zenon

-----------------------------------------------------------------------------
CipherInv ==
    /\ method \in {"core", "sodium"}
    /\ \A c \in Conns : ConnInv(conn[c])
    /\ IvInv(iv_cache, presented)
    /\ FreshAccepted

LEMMA CipherStart == CipherInit => CipherInv
<1> SUFFICES ASSUME CipherInit PROVE CipherInv
  OBVIOUS
<1>1. method \in {"core", "sodium"}
  BY CipherAssumption DEF CipherInit
<1>2. PICK l \in Loads : conn = [c \in DOMAIN l |-> Unopened(l[c])]
  BY Zenon DEF CipherInit
<1>3. ASSUME NEW c \in Conns PROVE ConnInv(conn[c]) /\ conn[c].state = "unopened"
  <2>1. conn[c] = Unopened(l[c]) /\ l[c] \in Nat
    BY <1>2, CipherAssumption DEF Conns
  <2> DEFINE n == l[c]
             s == Unopened(n)
  <2> HIDE DEF n
  <2>2. n \in Nat
    BY <2>1 DEF n
  <2>3. /\ DOMAIN s = {"limit", "state", "enc", "dec", "sent", "wire", "got"}
        /\ s.limit = n /\ s.state = "unopened"
        /\ s.enc = [init |-> FALSE, counter |-> 0, iv |-> 0] /\ s.dec = s.enc
        /\ s.sent = 0 /\ s.wire = <<>> /\ s.got = <<>>
    BY DEF Unopened, enc_ctx_new_instance, NoIv
  <2> HIDE DEF s
  <2>4. s.enc \in Contexts /\ s.enc.init = FALSE /\ s.enc.counter = 0
    BY <2>3 DEF Contexts
  <2>5. <<>> \in Seq(Bytes) /\ <<>> \in Seq(Nat) /\ 0 \in Nat /\ 0 <= 0
        /\ "unopened" # "open" /\ "unopened" \in ConnStates
    BY DEF ConnStates
  <2>6. IsConn(s)
    BY <2>2, <2>3, <2>4, <2>5, Zenon DEF IsConn
  <2>7. ConnInv(s)
    BY <2>3, <2>4, <2>5, <2>6, Zenon DEF ConnInv
  <2> QED BY <2>1, <2>3, <2>7, Zenon DEF s, n
<1>4. IvInv(iv_cache, presented)
  <2>1. /\ iv_cache = <<>> /\ presented = <<>>
    BY DEF CipherInit
  <2>2. /\ iv_cache \in Seq(IvEntries) /\ presented \in Seq(Shown)
        /\ DOMAIN iv_cache = {} /\ DOMAIN presented = {} /\ Len(iv_cache) < CacheSize
    BY <2>1, CipherAssumption
  <2> QED BY <2>2, Zenon DEF IvInv, CacheInv, Ordered, Followed, Forgotten, Accepted,
               WindowOf, KeysOf
<1>5. FreshAccepted
  <2>1. "unopened" # "refused"
    OBVIOUS
  <2> QED BY <1>3, <2>1, Zenon DEF FreshAccepted
<1> QED BY <1>1, <1>3, <1>4, <1>5, Zenon DEF CipherInv

(* A step on one connection. *)
LEMMA OneConn ==
    ASSUME CipherInv, NEW c \in Conns, NEW u, conn' = [conn EXCEPT ![c] = u],
           ConnInv(u), method' = method, IvInv(iv_cache, presented)',
           \A i \in DOMAIN presented : i \in DOMAIN presented' /\ presented'[i] = presented[i],
           u.state = "refused" =>
               \E i \in DOMAIN presented' : presented'[i].ok /\ presented'[i].iv = u.dec.iv
    PROVE  CipherInv'
<1>1. /\ DOMAIN conn' = DOMAIN conn /\ conn'[c] = u
      /\ \A d \in DOMAIN conn : d # c => conn'[d] = conn[d]
  BY DEF Conns
<1>2. \A d \in Conns' : ConnInv(conn'[d])
  BY <1>1, Zenon DEF Conns, CipherInv
<1>3. FreshAccepted'
  <2> SUFFICES ASSUME NEW d \in Conns', conn'[d].state = "refused"
               PROVE  \E i \in DOMAIN presented' :
                         presented'[i].ok /\ presented'[i].iv = conn'[d].dec.iv
    BY Zenon DEF FreshAccepted
  <2>1. CASE d = c
    BY <1>1, <2>1, Zenon
  <2>2. CASE d # c
    <3>1. d \in Conns /\ conn'[d] = conn[d]
      BY <1>1, <2>2, Zenon DEF Conns
    <3>2. PICK i \in DOMAIN presented : presented[i].ok /\ presented[i].iv = conn[d].dec.iv
      BY <3>1, Zenon DEF CipherInv, FreshAccepted
    <3> QED BY <3>1, <3>2, Zenon
  <2> QED BY <2>1, <2>2, Zenon
<1>4. method' \in {"core", "sodium"}
  BY Zenon DEF CipherInv
<1> QED BY <1>2, <1>3, <1>4, Zenon DEF CipherInv

LEMMA ConnectStep ==
    ASSUME CipherInv, NEW c \in Conns, NEW iv \in Nat, Connect(c, iv)
    PROVE  CipherInv'
<1> DEFINE s == conn[c]
           u == Opened(s, iv)
<1>1. /\ s.state = "unopened" /\ conn' = [conn EXCEPT ![c] = u]
      /\ method' = method /\ iv_cache' = iv_cache /\ presented' = presented
  BY DEF Connect
<1>2. ConnInv(s) /\ IvInv(iv_cache, presented)
  BY Zenon DEF CipherInv
<1> HIDE DEF s
<1>3. /\ ~s.enc.init /\ ~s.dec.init /\ s.sent = 0 /\ s.wire = <<>> /\ s.got = <<>>
      /\ s.dec.counter = 0 /\ IsConn(s)
  BY <1>1, <1>2, Zenon DEF ConnInv
<1>4. /\ DOMAIN u = DOMAIN s /\ u.limit = s.limit /\ u.state = "open"
      /\ u.enc = [init |-> FALSE, counter |-> 0, iv |-> iv] /\ u.dec = s.dec
      /\ u.sent = s.sent /\ u.wire = s.wire /\ u.got = s.got
  <2>1. DOMAIN s = {"limit", "state", "enc", "dec", "sent", "wire", "got"}
    BY <1>3, Zenon DEF IsConn
  <2> QED BY <2>1 DEF Opened, enc_ctx_new_instance
<1> HIDE DEF u
<1>5. u.enc \in Contexts /\ u.enc.init = FALSE /\ u.enc.counter = 0
  BY <1>4 DEF Contexts
<1>6. /\ 0 <= 0 /\ "open" # "unopened" /\ "open" \in ConnStates /\ "open" # "refused"
      /\ Len(<<>>) = 0 /\ 1..0 = {}
  BY DEF ConnStates
<1>7. IsConn(u)
  BY <1>3, <1>4, <1>5, <1>6, Zenon DEF IsConn
<1>8. OpenInv(u)
  BY <1>3, <1>4, <1>5, <1>6, Zenon DEF OpenInv, GotIs
<1>9. ConnInv(u)
  BY <1>3, <1>4, <1>5, <1>6, <1>7, <1>8, Zenon DEF ConnInv
<1> QED BY <1>1, <1>2, <1>4, <1>6, <1>9, OneConn, Zenon

LEMMA EncryptStep ==
    ASSUME CipherInv, NEW c \in Conns, NEW len \in Nat, Encrypt(c, len)
    PROVE  CipherInv'
<1> DEFINE u == ss_encrypt(conn[c], len)
<1>1. /\ conn[c].state = "open" /\ conn' = [conn EXCEPT ![c] = u]
      /\ method' = method /\ iv_cache' = iv_cache /\ presented' = presented
  BY DEF Encrypt
<1>2. ConnInv(conn[c]) /\ IvInv(iv_cache, presented)
  BY Zenon DEF CipherInv
<1>3. ConnInv(u) /\ u.state = "open"
  BY <1>1, <1>2, EncryptConn, Zenon
<1> HIDE DEF u
<1>4. "open" # "refused"
  OBVIOUS
<1> QED BY <1>1, <1>2, <1>3, <1>4, OneConn, Zenon

(* A connection that ss_decrypt gives up. *)
GivenUp(s, u) ==
    /\ u.state \in {"refused", "overrun"}
    /\ u.dec \in Contexts /\ u.dec.counter = 0 /\ s.dec.counter = 0
    /\ DOMAIN u = DOMAIN s /\ u.limit = s.limit /\ u.enc = s.enc /\ u.sent = s.sent
    /\ u.wire = s.wire /\ u.got = s.got

LEMMA ClosedConn ==
    ASSUME NEW s, ConnInv(s), NEW u, GivenUp(s, u)
    PROVE  ConnInv(u)
<1>0. /\ u.state \in {"refused", "overrun"}
      /\ u.dec \in Contexts /\ u.dec.counter = 0 /\ s.dec.counter = 0
      /\ DOMAIN u = DOMAIN s /\ u.limit = s.limit /\ u.enc = s.enc /\ u.sent = s.sent
      /\ u.wire = s.wire /\ u.got = s.got
  BY Zenon DEF GivenUp
<1>1. IsConn(s) /\ 0 <= s.sent /\ s.enc.counter = s.sent /\ (~s.enc.init => s.sent = 0)
  BY <1>0, Zenon DEF ConnInv
<1>2. u.state \in ConnStates /\ u.state # "open" /\ u.state # "unopened"
  BY <1>0 DEF ConnStates
<1>3. IsConn(u)
  BY <1>0, <1>1, <1>2, Zenon DEF IsConn
<1> QED BY <1>0, <1>1, <1>2, <1>3, Zenon DEF ConnInv

LEMMA DecryptStep ==
    ASSUME CipherInv, NEW c \in Conns, NEW len \in Nat, Decrypt(c, len)
    PROVE  CipherInv'
<1> DEFINE s == conn[c]
           chunk == SubSeq(s.wire, 1, len)
           iv == chunk[1].iv
           ctx == set_iv(s.dec, iv)
           C == iv_cache
           P == presented
<1>1. /\ s.state = "open" /\ len \in 1..Len(s.wire) /\ method' = method
      /\ IF s.dec.init THEN decrypt_next(c, chunk) ELSE decrypt_first(c, chunk)
  BY Zenon DEF Decrypt
<1>2. ConnInv(s) /\ IvInv(C, P)
  BY Zenon DEF CipherInv
<1>3. OpenInv(s) /\ IsConn(s) /\ (~s.dec.init => s.dec.counter = 0)
  BY <1>1, <1>2, Zenon DEF ConnInv
<1>4. /\ s.enc.iv \in Nat /\ s.dec.counter \in Nat /\ s.enc.init \in BOOLEAN
      /\ s.dec.init \in BOOLEAN /\ s.sent - s.dec.counter \in Nat
  BY <1>2, ConnFacts
<1>5. s.wire \in Seq(Bytes) /\ s.dec \in Contexts
      /\ DOMAIN s = {"limit", "state", "enc", "dec", "sent", "wire", "got"}
  BY <1>3, Zenon DEF IsConn
<1>6. s.enc.init
  <2>1. s.wire # <<>>
    BY <1>1, <1>5
  <2> QED BY <1>3, <1>4, <2>1, Zenon DEF OpenInv
<1>7. Len(chunk) = len /\ chunk[1] = s.wire[1]
  BY <1>1, <1>5
<1>8. IvLen \in Nat /\ IvLen > 0 /\ 0 \in Nat
  BY CipherAssumption
<1>9. "open" # "refused" /\ "overrun" # "refused"
  OBVIOUS
<1>10. CASE s.dec.init
  <2> DEFINE u == update(s, s.dec, chunk, 0)
  <2>1. conn' = [conn EXCEPT ![c] = u] /\ iv_cache' = C /\ presented' = P
    BY <1>1, <1>10 DEF decrypt_next
  <2>2. s.dec.iv = s.enc.iv /\ s.dec.init = TRUE
    BY <1>3, <1>4, <1>10, Zenon DEF OpenInv
  <2>3. len \in 0..Len(s.wire) /\ 0 = IF s.dec.init THEN 0 ELSE IvLen
    BY <1>1, <1>10
  <2> HIDE DEF s
  <2>4. ConnInv(u) /\ u.state = "open"
    BY <1>1, <1>2, <1>5, <1>6, <1>8, <2>2, <2>3, UpdateConn, Zenon
  <2> HIDE DEF u
  <2> QED BY <1>1, <1>2, <1>9, <2>1, <2>4, OneConn, Zenon
<1>11. CASE ~s.dec.init
  <2>1. iv = s.enc.iv
    <3>1. WireIs(s.wire, s.enc.iv, IvLen, s.dec.counter, s.sent - s.dec.counter)
      BY <1>3, <1>6, <1>11, Zenon DEF OpenInv
    <3>2. s.wire[1] = IvByte(s.enc.iv)
      <4>1. 1 \in 1..IvLen
        BY <1>8
      <4> QED BY <3>1, <4>1, Zenon DEF WireIs
    <3>3. IvByte(s.enc.iv).iv = s.enc.iv
      BY DEF IvByte
    <3> QED BY <1>7, <3>2, <3>3, Zenon
  <2>2. s.dec.counter = 0 /\ iv \in Nat
    BY <1>3, <1>4, <1>11, <2>1, Zenon
  <2>3. ctx \in Contexts /\ ctx.init = TRUE /\ ctx.iv = iv /\ ctx.counter = 0
    BY <2>2, Zenon DEF set_iv, Contexts
  <2>4. decrypt_first(c, chunk)
    BY <1>1, <1>11, Zenon
  <2> HIDE DEF iv
  <2>5. ~(Len(chunk) < IvLen) => Len(chunk) >= IvLen
    BY <1>1, <1>5, <1>7, <1>8
  <2>6. CASE Len(chunk) < IvLen
    <3> DEFINE u == [s EXCEPT !.state = "overrun"]
    <3>1. conn' = [conn EXCEPT ![c] = u] /\ iv_cache' = C /\ presented' = P
      BY <1>7, <1>8, <2>4, <2>6 DEF decrypt_first
    <3> HIDE DEF s
    <3>2. /\ DOMAIN u = DOMAIN s /\ u.limit = s.limit /\ u.state = "overrun"
          /\ u.enc = s.enc /\ u.dec = s.dec /\ u.sent = s.sent /\ u.wire = s.wire
          /\ u.got = s.got
      BY <1>5
    <3> HIDE DEF u
    <3>3. ConnInv(u)
      <4>1. u.state \in {"refused", "overrun"}
        BY <3>2
      <4>2. GivenUp(s, u)
        BY <1>5, <2>2, <3>2, <4>1, Zenon DEF GivenUp
      <4> QED BY <1>2, <4>2, ClosedConn, Zenon
    <3> QED BY <1>1, <1>2, <1>9, <3>1, <3>2, <3>3, OneConn, Zenon
  <2>7. CASE ~(Len(chunk) < IvLen) /\ Has(C, iv)
    <3> DEFINE u == [s EXCEPT !.state = "refused", !.dec = ctx]
               x == [iv |-> iv, ok |-> FALSE]
               r == Refreshed(C, iv, 0)
    <3>1. /\ conn' = [conn EXCEPT ![c] = u] /\ iv_cache' = r
          /\ presented' = Append(P, x)
      BY <2>4, <2>5, <2>7, Zenon DEF decrypt_first, cache_key_exist, iv
    <3> HIDE DEF s, ctx
    <3>2. /\ DOMAIN u = DOMAIN s /\ u.limit = s.limit /\ u.state = "refused"
          /\ u.enc = s.enc /\ u.dec = ctx /\ u.sent = s.sent /\ u.wire = s.wire
          /\ u.got = s.got
      BY <1>5
    <3> HIDE DEF u
    <3>3. ConnInv(u)
      <4>1. u.state \in {"refused", "overrun"}
        BY <3>2
      <4>2. GivenUp(s, u)
        BY <2>2, <2>3, <3>2, <4>1, Zenon DEF GivenUp
      <4> QED BY <1>2, <4>2, ClosedConn, Zenon
    <3>4. x \in Shown /\ x.iv = iv /\ x.ok = FALSE
      BY <2>2 DEF Shown
    <3> HIDE DEF x, r
    <3>5. iv \in KeysOf(C)
      BY <2>7, Zenon DEF Has, KeysOf
    <3>6. IvInv(r, Append(P, x))
      <4>1. CacheInv(C)
        BY <1>2, Zenon DEF IvInv
      <4>2. Took(C, r, x.iv)
        BY <2>7, <3>4, <4>1, HitTook, Zenon DEF r
      <4> QED BY <1>2, <3>4, <3>5, <4>2, TookIv, Zenon
    <3>7. OneMore(P, x, presented')
      <4>1. P \in Seq(Shown)
        BY <1>2, Zenon DEF IvInv
      <4> QED BY <3>1, <3>4, <4>1, AppendOne, Zenon
    <3>8. \A i \in DOMAIN P : i \in DOMAIN presented' /\ presented'[i] = P[i]
      BY <3>7, Zenon DEF OneMore
    <3>9. \E i \in DOMAIN presented' : presented'[i].ok /\ presented'[i].iv = u.dec.iv
      <4>1. PICK i \in DOMAIN P : P[i].ok /\ P[i].iv = iv
        BY <1>2, <3>5, Zenon DEF IvInv, Accepted
      <4> QED BY <2>3, <3>2, <3>8, <4>1, Zenon
    <3>10. IvInv(iv_cache, presented)'
      BY <3>1, <3>6, Zenon
    <3> QED BY <1>1, <3>1, <3>3, <3>8, <3>9, <3>10, OneConn, Zenon
  <2>8. CASE ~(Len(chunk) < IvLen) /\ ~Has(C, iv)
    <3> DEFINE u == update(s, ctx, chunk, IvLen)
               x == [iv |-> iv, ok |-> TRUE]
               r == cache_insert(C, CacheSize, Entry(iv, NoIv, 0)).cache
    <3>1. /\ conn' = [conn EXCEPT ![c] = u] /\ iv_cache' = r
          /\ presented' = Append(P, x)
      BY <2>4, <2>8, Zenon DEF decrypt_first, iv
    <3>2. len \in IvLen..Len(s.wire) /\ IvLen = IF s.dec.init THEN 0 ELSE IvLen
      BY <1>1, <1>7, <1>8, <1>11, <2>8
    <3> HIDE DEF s, ctx
    <3>3. ConnInv(u) /\ u.state = "open"
      <4>1. ctx.iv = s.enc.iv /\ ctx.counter = s.dec.counter
        BY <2>1, <2>2, <2>3, Zenon
      <4> QED BY <1>1, <1>2, <1>6, <1>8, <2>3, <3>2, <4>1, UpdateConn, Zenon
    <3> HIDE DEF u
    <3>4. x \in Shown /\ x.iv = iv /\ x.ok = TRUE
      BY <2>2 DEF Shown
    <3> HIDE DEF x, r
    <3>5. iv \notin KeysOf(C)
      BY <2>8, Zenon DEF Has, KeysOf
    <3>6. IvInv(r, Append(P, x))
      <4>1. CacheInv(C)
        BY <1>2, Zenon DEF IvInv
      <4>2. Took(C, r, x.iv)
        BY <2>2, <2>8, <3>4, <4>1, MissTook, Zenon DEF r
      <4> QED BY <1>2, <3>4, <3>5, <4>2, TookIv, Zenon
    <3>7. OneMore(P, x, presented')
      <4>1. P \in Seq(Shown)
        BY <1>2, Zenon DEF IvInv
      <4> QED BY <3>1, <3>4, <4>1, AppendOne, Zenon
    <3>8. \A i \in DOMAIN P : i \in DOMAIN presented' /\ presented'[i] = P[i]
      BY <3>7, Zenon DEF OneMore
    <3>9. IvInv(iv_cache, presented)'
      BY <3>1, <3>6, Zenon
    <3> QED BY <1>1, <1>9, <3>1, <3>3, <3>8, <3>9, OneConn, Zenon
  <2> QED BY <2>6, <2>7, <2>8, Zenon
<1> QED BY <1>10, <1>11, Zenon

LEMMA CipherStep == CipherInv /\ [CipherNext]_cipherVars => CipherInv'
<1> SUFFICES ASSUME CipherInv, [CipherNext]_cipherVars PROVE CipherInv'
  OBVIOUS
<1>1. \A iv \in 1..MaxIvs : iv \in Nat
  OBVIOUS
<1>2. \A len \in 0..MaxChunk : len \in Nat
  OBVIOUS
<1>3. \A len \in 1..(MaxChunk + IvLen) : len \in Nat
  OBVIOUS
<1>4. CASE UNCHANGED cipherVars
  <2>1. conn' = conn /\ method' = method /\ iv_cache' = iv_cache /\ presented' = presented
    BY <1>4 DEF cipherVars
  <2> QED BY <2>1, Zenon DEF CipherInv, Conns, FreshAccepted
<1>5. ASSUME NEW c \in Conns, NEW iv \in 1..MaxIvs, Connect(c, iv) PROVE CipherInv'
  BY <1>1, <1>5, ConnectStep, Zenon
<1>6. ASSUME NEW c \in Conns, NEW len \in 0..MaxChunk, Encrypt(c, len) PROVE CipherInv'
  BY <1>2, <1>6, EncryptStep, Zenon
<1>7. ASSUME NEW c \in Conns, NEW len \in 1..(MaxChunk + IvLen), Decrypt(c, len)
      PROVE  CipherInv'
  BY <1>3, <1>7, DecryptStep, Zenon
<1> QED BY <1>4, <1>5, <1>6, <1>7, Zenon DEF CipherNext, Quiet

LEMMA CipherInvImplies == CipherInv => PlainIntact /\ IvsRight
<1> SUFFICES ASSUME CipherInv PROVE PlainIntact /\ IvsRight
  OBVIOUS
<1>1. CountersAgree
  <2>1. ASSUME NEW c \in Conns
        PROVE  /\ conn[c].state \in ConnStates /\ conn[c].enc.counter = conn[c].sent
               /\ conn[c].dec.counter <= conn[c].enc.counter
    <3>1. ConnInv(conn[c])
      BY Zenon DEF CipherInv
    <3> QED BY <3>1, Zenon DEF ConnInv, IsConn
  <2> QED BY <2>1, Zenon DEF CountersAgree, CipherInv, ConnStates
<1>2. ASSUME NEW c \in Conns, conn[c].state = "open"
      PROVE  LET s == conn[c]
                 onWire == {i \in DOMAIN s.wire : s.wire[i].kind = "data"}
             IN  /\ s.got = [i \in 1..Len(s.got) |-> i]
                 /\ Len(s.got) + Cardinality(onWire) = s.sent
  <2> DEFINE s == conn[c]
             onWire == {i \in DOMAIN s.wire : s.wire[i].kind = "data"}
             d == s.dec.counter
             m == s.sent - d
  <2>1. ConnInv(s)
    BY Zenon DEF CipherInv
  <2>2. OpenInv(s) /\ IsConn(s)
    BY <1>2, <2>1, Zenon DEF ConnInv
  <2>3. /\ s.sent \in Nat /\ d \in Nat /\ s.enc.iv \in Nat /\ s.dec.iv \in Nat
        /\ s.enc.init \in BOOLEAN /\ s.dec.init \in BOOLEAN /\ m \in Nat
    BY <2>1, ConnFacts
  <2> HIDE DEF s
  <2>4. s.got \in Seq(Nat) /\ Len(s.got) = d /\ \A i \in 1..d : s.got[i] = i
    BY <2>2, Zenon DEF IsConn, OpenInv, GotIs
  <2>5. s.got = [i \in 1..Len(s.got) |-> i]
    <3> DEFINE g == s.got
               n == d
    <3> HIDE DEF g, n
    <3>1. g \in Seq(Nat) /\ Len(g) = n /\ \A i \in 1..n : g[i] = i
      BY <2>4, Zenon DEF g, n
    <3>2. g = [i \in 1..Len(g) |-> i]
      BY ONLY <3>1
    <3> QED BY <3>2, Zenon DEF g
  <2>6. Cardinality(onWire) = m
    <3>1. CASE s.enc.init
      <4> DEFINE h == IF s.dec.init THEN 0 ELSE IvLen
      <4>1. WireIs(s.wire, s.enc.iv, h, d, m)
        BY <2>2, <3>1, Zenon DEF OpenInv
      <4>2. h \in Nat
        BY CipherAssumption
      <4> DEFINE w == s.wire
                 v == s.enc.iv
      <4> HIDE DEF h, d, m, w, v
      <4>3. v \in Nat /\ d \in Nat /\ m \in Nat /\ WireIs(w, v, h, d, m)
        BY <2>3, <4>1, Zenon DEF w, v
      <4>4. Cardinality(DataAt(w)) = m
        BY <4>2, <4>3, DataCount, Zenon
      <4> QED BY <4>4, Zenon DEF w, DataAt
    <3>2. CASE ~s.enc.init
      <4>1. s.wire = <<>> /\ s.sent = 0 /\ d <= s.sent
        BY <2>1, <2>2, <3>2, Zenon DEF OpenInv, ConnInv, s
      <4>2. onWire = {} /\ m = 0
        BY <2>3, <4>1
      <4> QED BY <4>2, FS_EmptySet, Zenon
    <3> QED BY <3>1, <3>2, Zenon
  <2> HIDE DEF onWire
  <2>7. Len(s.got) + Cardinality(onWire) = s.sent
    BY <2>3, <2>4, <2>6
  <2> QED BY <2>5, <2>7, Zenon DEF s, onWire
<1>3. PlainIntact
  BY <1>1, <1>2, Zenon DEF PlainIntact
<1>4. IvWindow
  <2>1. WindowOf(presented)
    BY Zenon DEF CipherInv, IvInv
  <2> QED BY <2>1, Zenon DEF WindowOf, Between, IvWindow
<1> QED BY <1>3, <1>4, Zenon DEF IvsRight, CipherInv

(* encrypt.c: however the stream is cut into ss_encrypt calls and the wire *)
(* into ss_decrypt calls, the receiver has decrypted a prefix of it and    *)
(* lacks exactly what is on the wire, for every size of the IV, of the     *)
(* block the sodium methods count in, and of the chunks.                   *)
THEOREM PlainAlwaysIntact == CipherSpec => []PlainIntact
<1>1. CipherInv => PlainIntact
  BY CipherInvImplies
<1> QED BY <1>1, CipherStart, CipherStep, PTL DEF CipherSpec

(* encrypt.c: for every size of the cache, an IV is accepted again only    *)
(* after CacheSize - 1 other ones were presented, and a fresh IV is never  *)
(* refused.                                                                *)
THEOREM IvsAlwaysRight == CipherSpec => []IvsRight
<1>1. CipherInv => IvsRight
  BY CipherInvImplies
<1> QED BY <1>1, CipherStart, CipherStep, PTL DEF CipherSpec
=============================================================================
