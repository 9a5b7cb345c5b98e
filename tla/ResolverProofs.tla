--------------------------- MODULE ResolverProofs ---------------------------
(***************************************************************************)
(* The resolver of libudns, for any number of queries, servers, tries and  *)
(* suffixes.  UdnsInv says of every query what its search has asked for so *)
(* far, of the list that it holds the active queries sorted by deadline,   *)
(* and of the timer, inside the two loops as well, how it stands to        *)
(* dnsc_utmexp.                                                            *)
(***************************************************************************)
EXTENDS Udns, TLAPS, WellFoundedInduction

(* Facts about sequences. *)
LEMMA ElementOfQueue ==
    ASSUME NEW S, NEW s \in Seq(S), NEW n \in 1..Len(s)
    PROVE  s[n] \in S
  OBVIOUS

LEMMA JoinOfQueue ==
    ASSUME NEW S, NEW s \in Seq(S), NEW t \in Seq(S)
    PROVE  /\ s \o t \in Seq(S) /\ Len(s \o t) = Len(s) + Len(t)
           /\ \A i \in 1..(Len(s) + Len(t)) :
                 (s \o t)[i] = IF i <= Len(s) THEN s[i] ELSE t[i - Len(s)]
  OBVIOUS

LEMMA PartOfQueue ==
    ASSUME NEW S, NEW s \in Seq(S), NEW m \in 1..(Len(s) + 1), NEW n \in (m - 1)..Len(s)
    PROVE  /\ SubSeq(s, m, n) \in Seq(S)
           /\ Len(SubSeq(s, m, n)) = IF m <= n THEN (n - m) + 1 ELSE 0
           /\ \A i \in 1..((n - m) + 1) : SubSeq(s, m, n)[i] = s[(m + i) - 1]
  OBVIOUS

LEMMA EmptyOfQueue ==
    ASSUME NEW S
    PROVE  <<>> \in Seq(S) /\ \A s \in Seq(S) : s = <<>> <=> Len(s) = 0
  OBVIOUS


IsQuerySlot(r) ==
    /\ DOMAIN r = {"st", "status", "ended", "id", "dn", "try", "servi", "servwait",
                   "servskip", "servnEDNS0", "deadline", "nxtsrch", "asis", "nodata",
                   "denied"}
    /\ r.st \in {"new", "active", "done", "cancelled"}
    /\ r.deadline \in Int /\ r.deadline >= Submitted

EndedOk(r) ==
    /\ r.ended = (IF r.st = "done" THEN 1 ELSE 0)
    /\ r.status = "NXDOMAIN" => r.denied = Fitting \cup {0} \/ r.denied = {0}
    /\ r.st # "done" => r.status = "none"

(* The names denied or being asked for: all suffixes before the next, and  *)
(* the name as it is once that was tried; or only the name as it is.       *)
Searched(r) ==
    \/ r.nodata
    \/ /\ r.denied \cup {r.dn} =
             {j \in Fitting : j < r.nxtsrch} \cup (IF r.asis THEN {0} ELSE {})
       /\ r.nxtsrch = NSrch + 2 => r.asis
    \/ r.denied \cup {r.dn} = {0} /\ r.nxtsrch = NSrch + 1 /\ r.asis

Searching(r) ==
    /\ r.try \in 0..(NTries - 1) /\ r.asis \in BOOLEAN /\ r.nodata \in BOOLEAN
    /\ r.nxtsrch \in 1..(NSrch + 2) /\ Searched(r)

Active(r) == IsQuerySlot(r) /\ EndedOk(r) /\ r.st = "active" /\ Searching(r)

SlotOk(r) == IsQuerySlot(r) /\ EndedOk(r) /\ (r.st = "active" => Searching(r))

InOrder(list, qs) ==
    \A i, j \in 1..Len(list) :
        i < j => list[i] # list[j] /\ qs[list[i]].deadline <= qs[list[j]].deadline

Holds(list, q) == \E i \in 1..Len(list) : list[i] = q

Queue(list, qs) ==
    /\ list \in Seq(Queries) /\ InOrder(list, qs)
    /\ \A q \in Queries : qs[q].st = "active" <=> Holds(list, q)

Slots(qs) == DOMAIN qs = Queries /\ \A q \in Queries : SlotOk(qs[q])

(* dnsc_utmexp and the timer, wherever the resolver is. *)
AlarmSet(utm, timer, loop) ==
    /\ utm \in Int /\ utm >= NoTimer /\ timer \in Int
    /\ utm = NoTimer => timer = Off
    /\ utm > 0 => timer = utm
    /\ loop # "timeouts" /\ utm <= 0 /\ utm # NoTimer => timer = 0

(* Between the events it is due no later than the first query. *)
AlarmDue(utm, list, qs) ==
    IF list = <<>> THEN utm = NoTimer
    ELSE utm # NoTimer /\ (utm <= 0 \/ utm <= qs[list[1]].deadline)

UdnsInv ==
    /\ Slots(dnQ) /\ Queue(dnList, dnQ) /\ AlarmSet(dnUtmexp, dnTimer, dnLoop)
    /\ dnLoop = "idle" => AlarmDue(dnUtmexp, dnList, dnQ)

-----------------------------------------------------------------------------
(* The least of a set of numbers, and the greatest of a bounded one. *)

LEMMA LeastIs ==
    ASSUME NEW S, S \subseteq Nat, S # {}
    PROVE  Least(S) \in S /\ \A j \in S : Least(S) <= j
<1>1. \E i \in S : \A j \in S : ~(<<j, i>> \in OpToRel(<, Nat))
  BY NatLessThanWellFounded, WFMin, Zenon
<1>2. PICK i \in S : \A j \in S : ~(<<j, i>> \in OpToRel(<, Nat))
  BY <1>1, Zenon
<1>3. \A j \in S : ~(j < i)
  <2> TAKE j \in S
  <2>1. j \in Nat /\ i \in Nat
    BY Zenon
  <2> QED
    BY <1>2, <2>1, Zenon DEF OpToRel
<1>4. \A j \in S : i <= j
  BY <1>3
<1> QED
  BY <1>4, Zenon DEF Least

LEMMA GreatestIs ==
    ASSUME NEW n \in Nat, NEW S, S \subseteq 1..n, S # {}
    PROVE  Greatest(S) \in S /\ \A j \in S : j <= Greatest(S)
<1> DEFINE T == {n - i : i \in S}
<1>1. T \subseteq Nat /\ T # {}
  <2>1. ASSUME NEW i \in S PROVE n - i \in Nat
    <3>1. i \in 1..n
      BY Zenon
    <3> QED
      BY <3>1
  <2> QED
    BY <2>1, Zenon
<1>2. Least(T) \in T /\ \A j \in T : Least(T) <= j
  <2> HIDE DEF T
  <2> QED
    BY <1>1, LeastIs, Zenon
<1>3. PICK k \in S : Least(T) = n - k
  BY <1>2, Zenon
<1>4. \A j \in S : j <= k
  <2> TAKE j \in S
  <2>1. n - j \in T
    BY Zenon
  <2>2. n - k <= n - j
    BY <1>2, <1>3, <2>1, Zenon
  <2>3. j \in Int /\ k \in Int
    OBVIOUS
  <2> QED
    BY <2>2, <2>3
<1> QED
  BY <1>4, Zenon DEF Greatest

-----------------------------------------------------------------------------
(* qlist_remove and the insertion of dns_send_this, element by element. *)

Once(list) == \A i, j \in 1..Len(list) : i < j => list[i] # list[j]

LEMMA SubIs ==
    ASSUME NEW list \in Seq(Queries), NEW m \in 1..(Len(list) + 1),
           NEW n \in 0..Len(list), m <= n + 1
    PROVE  LET b == SubSeq(list, m, n)
           IN  /\ b \in Seq(Queries) /\ Len(b) = n - m + 1
               /\ \A i \in 1..(n - m + 1) : b[i] = list[m + i - 1]
<1>1. \A i \in m..n : list[i] \in Queries
  BY ElementOfQueue
<1> QED
  BY <1>1, PartOfQueue

LEMMA UnlinkedIs ==
    ASSUME NEW list \in Seq(Queries), NEW p \in 1..Len(list), Once(list)
    PROVE  LET u == Unlinked(list, list[p])
           IN  /\ u \in Seq(Queries) /\ Len(u) = Len(list) - 1
               /\ \A i \in 1..(Len(list) - 1) :
                    u[i] = IF i < p THEN list[i] ELSE list[i + 1]
<1>1. \A i \in DOMAIN list : list[i] = list[p] => i = p
  BY DEF Once
<1>2. (CHOOSE i \in DOMAIN list : list[i] = list[p]) = p
  BY <1>1
<1>3. Unlinked(list, list[p]) = SubSeq(list, 1, p - 1) \o SubSeq(list, p + 1, Len(list))
  BY <1>2, Zenon DEF Unlinked
<1> DEFINE a == SubSeq(list, 1, p - 1)
           b == SubSeq(list, p + 1, Len(list))
<1>4. Len(list) \in Nat /\ p \in Nat /\ p <= Len(list) /\ p >= 1
  OBVIOUS
<1>5. a \in Seq(Queries) /\ Len(a) = p - 1 /\ \A i \in 1..(p - 1) : a[i] = list[i]
  <2>1. p - 1 \in 0..Len(list) /\ 1 \in 1..(Len(list) + 1) /\ 1 <= p - 1 + 1
    BY <1>4
  <2>2. a \in Seq(Queries) /\ Len(a) = p - 1 - 1 + 1 /\ \A i \in 1..(p - 1 - 1 + 1) : a[i] = list[1 + i - 1]
    BY <2>1, SubIs, Zenon
  <2> HIDE DEF a
  <2> QED
    BY <2>2, <1>4
<1>6. b \in Seq(Queries) /\ Len(b) = Len(list) - p /\ \A i \in 1..(Len(list) - p) : b[i] = list[p + i]
  <2>1. Len(list) \in 0..Len(list) /\ p + 1 \in 1..(Len(list) + 1) /\ p + 1 <= Len(list) + 1
    BY <1>4
  <2>2. b \in Seq(Queries) /\ Len(b) = Len(list) - (p + 1) + 1 /\ \A i \in 1..(Len(list) - (p + 1) + 1) : b[i] = list[p + 1 + i - 1]
    BY <2>1, SubIs, Zenon
  <2> HIDE DEF b
  <2> QED
    BY <2>2, <1>4
<1>7. /\ a \o b \in Seq(Queries) /\ Len(a \o b) = Len(a) + Len(b)
      /\ \A i \in 1..(Len(a) + Len(b)) : (a \o b)[i] = IF i <= Len(a) THEN a[i] ELSE b[i - Len(a)]
  <2> HIDE DEF a, b
  <2> QED
    BY <1>5, <1>6, JoinOfQueue, Zenon
<1>8. Unlinked(list, list[p]) = a \o b
  BY <1>3, Zenon
<1> HIDE DEF a, b
<1>9. ASSUME NEW i \in 1..(Len(list) - 1)
      PROVE  (a \o b)[i] = IF i < p THEN list[i] ELSE list[i + 1]
  <2>1. i \in Nat /\ i >= 1 /\ i \in 1..(Len(a) + Len(b))
    BY <1>4, <1>5, <1>6, <1>9
  <2>2. CASE i < p
    <3>1. i <= Len(a) /\ i \in 1..(p - 1)
      BY <1>4, <1>5, <2>1, <2>2
    <3> QED
      BY <2>1, <2>2, <3>1, <1>5, <1>7, Zenon
  <2>3. CASE ~(i < p)
    <3>1. ~(i <= Len(a)) /\ i - Len(a) \in 1..(Len(list) - p) /\ p + (i - Len(a)) = i + 1
      BY <1>4, <1>5, <2>1, <2>3
    <3>2. (a \o b)[i] = b[i - Len(a)]
      BY <2>1, <3>1, <1>7, Zenon
    <3>3. b[i - Len(a)] = list[p + (i - Len(a))]
      BY <3>1, <1>6, Zenon
    <3> QED
      BY <2>3, <3>1, <3>2, <3>3, Zenon
  <2> QED
    BY <2>2, <2>3, Zenon
<1>10. Len(a \o b) = Len(list) - 1
  BY <1>4, <1>5, <1>6, <1>7
<1> QED
  BY <1>7, <1>8, <1>9, <1>10, Zenon

(* Where a query with this deadline goes: behind the ones due no later. *)
Slot(list, d, k) ==
    /\ k \in 0..Len(list)
    /\ \A i \in 1..k : dnQ[list[i]].deadline <= d
    /\ \A i \in (k + 1)..Len(list) : dnQ[list[i]].deadline > d

Placed(ins, list, q, d, k) ==
    /\ ins \in Seq(Queries) /\ Len(ins) = Len(list) + 1 /\ Slot(list, d, k)
    /\ \A i \in 1..(Len(list) + 1) :
         ins[i] = IF i <= k THEN list[i] ELSE IF i = k + 1 THEN q ELSE list[i - 1]

LEMMA InsertIs ==
    ASSUME NEW list \in Seq(Queries), NEW q \in Queries, NEW d \in Int,
           \A x \in Queries : dnQ[x].deadline \in Int, InOrder(list, dnQ)
    PROVE  \E k \in 0..Len(list) : Placed(Insert(list, q, d), list, q, d, k)
<1> DEFINE after == {i \in DOMAIN list : dnQ[list[i]].deadline <= d}
           k == IF after = {} THEN 0 ELSE Greatest(after)
<1>1. k \in 0..Len(list) /\ \A i \in after : i <= k
  <2>1. CASE after = {}
    BY <2>1
  <2>2. CASE after # {}
    <3>1. after \subseteq 1..Len(list) /\ Len(list) \in Nat
      OBVIOUS
    <3>2. Greatest(after) \in after /\ \A j \in after : j <= Greatest(after)
      <4> HIDE DEF after
      <4> QED
        BY <2>2, <3>1, GreatestIs, Zenon
    <3> QED
      BY <2>2, <3>1, <3>2
  <2> QED
    BY <2>1, <2>2, Zenon
<1>2. after # {} => k \in after
  <2> SUFFICES ASSUME after # {} PROVE k \in after
    BY Zenon
  <2>1. after \subseteq 1..Len(list) /\ Len(list) \in Nat
    OBVIOUS
  <2> HIDE DEF after
  <2> QED
    BY <2>1, GreatestIs, Zenon
<1>3. Slot(list, d, k)
  <2>1. ASSUME NEW i \in 1..k PROVE dnQ[list[i]].deadline <= d
    <3>1. k > 0 /\ after # {}
      BY <1>1, <2>1, SMTT(30)
    <3>2. k \in DOMAIN list /\ dnQ[list[k]].deadline <= d
      BY <3>1, <1>2, Zenon
    <3>3. i = k \/ (i < k /\ i \in 1..Len(list) /\ k \in 1..Len(list))
      BY <2>1, <1>1, <3>1, SMTT(30)
    <3>4. i = k \/ dnQ[list[i]].deadline <= dnQ[list[k]].deadline
      <4> HIDE DEF k
      <4> QED
        BY <3>3, Zenon DEF InOrder
    <3>5. list[i] \in Queries /\ list[k] \in Queries
      BY <3>2, <3>3, ElementOfQueue
    <3> HIDE DEF k, after
    <3> QED
      BY <3>2, <3>4, <3>5
  <2>2. ASSUME NEW i \in (k + 1)..Len(list) PROVE dnQ[list[i]].deadline > d
    <3>1. i \in 1..Len(list) /\ ~(i <= k)
      <4> HIDE DEF k
      <4> QED
        BY <1>1, <2>2
    <3>2. i \in DOMAIN list /\ i \notin after
      BY <3>1, <1>1
    <3>3. ~(dnQ[list[i]].deadline <= d)
      BY <3>2, Zenon
    <3>4. dnQ[list[i]].deadline \in Int
      BY <3>1, ElementOfQueue, Zenon
    <3> QED
      BY <3>3, <3>4
  <2> HIDE DEF k, after
  <2> QED
    BY <1>1, <2>1, <2>2, Zenon DEF Slot
<1>4. Insert(list, q, d) = SubSeq(list, 1, k) \o <<q>> \o SubSeq(list, k + 1, Len(list))
  BY Zenon DEF Insert
<1> HIDE DEF k, after
<1>5. /\ Insert(list, q, d) \in Seq(Queries) /\ Len(Insert(list, q, d)) = Len(list) + 1
      /\ \A i \in 1..(Len(list) + 1) :
           Insert(list, q, d)[i] = IF i <= k THEN list[i]
                                   ELSE IF i = k + 1 THEN q ELSE list[i - 1]
  <2> DEFINE a == SubSeq(list, 1, k)
             b == SubSeq(list, k + 1, Len(list))
  <2>1. Len(list) \in Nat /\ k \in Nat /\ k <= Len(list)
    BY <1>1
  <2>2. a \in Seq(Queries) /\ Len(a) = k /\ \A i \in 1..k : a[i] = list[i]
    <3>1. k \in 0..Len(list) /\ 1 \in 1..(Len(list) + 1) /\ 1 <= k + 1
      BY <2>1
    <3>2. a \in Seq(Queries) /\ Len(a) = k - 1 + 1 /\ \A i \in 1..(k - 1 + 1) : a[i] = list[1 + i - 1]
      BY <3>1, SubIs, Zenon
    <3> HIDE DEF a
    <3> QED
      BY <3>2, <2>1
  <2>3. b \in Seq(Queries) /\ Len(b) = Len(list) - k /\ \A i \in 1..(Len(list) - k) : b[i] = list[k + i]
    <3>1. Len(list) \in 0..Len(list) /\ k + 1 \in 1..(Len(list) + 1) /\ k + 1 <= Len(list) + 1
      BY <2>1
    <3>2. b \in Seq(Queries) /\ Len(b) = Len(list) - (k + 1) + 1 /\ \A i \in 1..(Len(list) - (k + 1) + 1) : b[i] = list[k + 1 + i - 1]
      BY <3>1, SubIs, Zenon
    <3> HIDE DEF b
    <3> QED
      BY <3>2, <2>1
  <2>4. <<q>> \in Seq(Queries) /\ Len(<<q>>) = 1 /\ <<q>>[1] = q
    OBVIOUS
  <2> DEFINE c == a \o <<q>>
  <2>5. /\ c \in Seq(Queries) /\ Len(c) = k + 1
        /\ \A i \in 1..(k + 1) : c[i] = IF i <= k THEN list[i] ELSE q
    <3>1. /\ c \in Seq(Queries) /\ Len(c) = Len(a) + Len(<<q>>)
          /\ \A i \in 1..(Len(a) + Len(<<q>>)) : c[i] = IF i <= Len(a) THEN a[i] ELSE <<q>>[i - Len(a)]
      <4> HIDE DEF a
      <4> QED
        BY <2>2, <2>4, JoinOfQueue
    <3>2. \A i \in 1..(k + 1) : i <= k \/ i - k = 1
      BY <2>1
    <3> HIDE DEF c, a
    <3> QED
      BY <3>1, <3>2, <2>1, <2>2, <2>4
  <2>6. /\ c \o b \in Seq(Queries) /\ Len(c \o b) = Len(c) + Len(b)
        /\ \A i \in 1..(Len(c) + Len(b)) : (c \o b)[i] = IF i <= Len(c) THEN c[i] ELSE b[i - Len(c)]
    <3> HIDE DEF b, c
    <3> QED
      BY <2>3, <2>5, JoinOfQueue, Zenon
  <2>7. Insert(list, q, d) = c \o b
    BY <1>4, Zenon
  <2> HIDE DEF a, b, c
  <2>8. ASSUME NEW i \in 1..(Len(list) + 1)
        PROVE  (c \o b)[i] = IF i <= k THEN list[i] ELSE IF i = k + 1 THEN q ELSE list[i - 1]
    <3>1. i \in Nat /\ i >= 1 /\ i \in 1..(Len(c) + Len(b))
      BY <2>1, <2>3, <2>5, <2>8
    <3>2. CASE i <= k + 1
      <4>1. i <= Len(c) /\ i \in 1..(k + 1) /\ (~(i <= k) => i = k + 1)
        BY <2>1, <2>5, <3>1, <3>2
      <4> QED
        BY <3>1, <4>1, <2>5, <2>6, Zenon
    <3>3. CASE ~(i <= k + 1)
      <4>1. /\ ~(i <= Len(c)) /\ i - Len(c) \in 1..(Len(list) - k)
            /\ k + (i - Len(c)) = i - 1 /\ ~(i <= k) /\ i # k + 1
        BY <2>1, <2>5, <3>1, <3>3
      <4>2. (c \o b)[i] = b[i - Len(c)]
        BY <3>1, <4>1, <2>6, Zenon
      <4>3. b[i - Len(c)] = list[k + (i - Len(c))]
        BY <4>1, <2>3, Zenon
      <4> QED
        BY <4>1, <4>2, <4>3, Zenon
    <3> QED
      BY <3>2, <3>3, Zenon
  <2>9. Len(c \o b) = Len(list) + 1
    BY <2>1, <2>3, <2>5, <2>6
  <2> QED
    BY <2>6, <2>7, <2>8, <2>9, Zenon
<1> QED
  BY <1>1, <1>3, <1>5, Zenon DEF Placed

-----------------------------------------------------------------------------
(* The list stays the sorted list of the active queries. *)

Dated(qs) == \A x \in Queries : qs[x].deadline \in Int

Elsewhere(qs, new, q) == \A x \in Queries : x # q => new[x] = qs[x]

LEMMA Removed ==
    ASSUME NEW list, NEW qs, Queue(list, qs), NEW q \in Queries, qs[q].st = "active"
    PROVE  LET u == Unlinked(list, q)
           IN  /\ u \in Seq(Queries) /\ InOrder(u, qs) /\ ~Holds(u, q)
               /\ \A x \in Queries : x # q => (Holds(u, x) <=> Holds(list, x))
<1> DEFINE u == Unlinked(list, q)
           n == Len(list)
<1>1. list \in Seq(Queries) /\ InOrder(list, qs) /\ Holds(list, q)
  BY Zenon DEF Queue
<1>2. PICK p \in 1..n : list[p] = q
  BY <1>1, Zenon DEF Holds
<1>3. Once(list)
  BY <1>1, Zenon DEF Once, InOrder
<1>4. /\ u \in Seq(Queries) /\ Len(u) = n - 1
      /\ \A i \in 1..(n - 1) : u[i] = IF i < p THEN list[i] ELSE list[i + 1]
  BY <1>1, <1>2, <1>3, UnlinkedIs, Zenon
<1>5. n \in Nat /\ p \in Nat /\ 1 <= p /\ p <= n
  BY <1>1, <1>2
<1> DEFINE At(i) == IF i < p THEN i ELSE i + 1
<1>6. \A i \in 1..(n - 1) : At(i) \in 1..n /\ At(i) # p
  BY <1>5
<1>7. \A i \in 1..(n - 1) : u[i] = list[At(i)]
  BY <1>4, Zenon
<1>8. \A i, j \in 1..(n - 1) : i < j => At(i) < At(j)
  BY <1>5
<1>9. \A m \in 1..n : m # p => \E i \in 1..(n - 1) : At(i) = m
  <2> TAKE m \in 1..n
  <2> HAVE m # p
  <2>1. CASE m < p
    <3>1. m \in 1..(n - 1) /\ At(m) = m
      BY <1>5, <2>1
    <3> QED
      BY <3>1, Zenon
  <2>2. CASE m > p
    <3>1. m - 1 \in 1..(n - 1) /\ At(m - 1) = m
      BY <1>5, <2>2
    <3> QED
      BY <3>1, Zenon
  <2> QED
    BY <2>1, <2>2, <1>5
<1>10. \A m \in 1..n : m # p => list[m] # q
  <2> TAKE m \in 1..n
  <2>1. m < p \/ p < m \/ m = p
    BY <1>5
  <2> QED
    BY <2>1, <1>2, <1>3, Zenon DEF Once
<1> HIDE DEF u, n, At
<1>11. InOrder(u, qs)
  <2> SUFFICES ASSUME NEW i \in 1..(n - 1), NEW j \in 1..(n - 1), i < j
               PROVE  u[i] # u[j] /\ qs[u[i]].deadline <= qs[u[j]].deadline
    BY <1>4, Zenon DEF InOrder
  <2>1. At(i) \in 1..n /\ At(j) \in 1..n /\ At(i) < At(j)
    BY <1>6, <1>8, Zenon
  <2>2. u[i] = list[At(i)] /\ u[j] = list[At(j)]
    BY <1>7, Zenon
  <2>3. list[At(i)] # list[At(j)] /\ qs[list[At(i)]].deadline <= qs[list[At(j)]].deadline
    BY <1>1, <2>1, Zenon DEF InOrder, n
  <2> QED
    BY <2>2, <2>3, Zenon
<1>12. ~Holds(u, q)
  BY <1>4, <1>6, <1>7, <1>10, Zenon DEF Holds
<1>13. ASSUME NEW x \in Queries, x # q PROVE Holds(u, x) <=> Holds(list, x)
  <2>1. Holds(u, x) => Holds(list, x)
    BY <1>4, <1>6, <1>7, Zenon DEF Holds, n
  <2>2. Holds(list, x) => Holds(u, x)
    <3> SUFFICES ASSUME NEW m \in 1..n, list[m] = x PROVE Holds(u, x)
      BY Zenon DEF Holds, n
    <3>1. PICK i \in 1..(n - 1) : At(i) = m
      BY <1>2, <1>9, <1>13, Zenon
    <3> QED
      BY <3>1, <1>4, <1>7, Zenon DEF Holds
  <2> QED
    BY <2>1, <2>2, Zenon
<1> QED
  BY <1>4, <1>11, <1>12, <1>13, Zenon DEF u

LEMMA Inserted ==
    ASSUME NEW u \in Seq(Queries), NEW q \in Queries, NEW d \in Int, NEW new,
           Dated(dnQ), InOrder(u, dnQ), ~Holds(u, q),
           Elsewhere(dnQ, new, q), new[q].deadline = d
    PROVE  LET ins == Insert(u, q, d)
           IN  /\ ins \in Seq(Queries) /\ InOrder(ins, new) /\ Holds(ins, q)
               /\ \A x \in Queries : x # q => (Holds(ins, x) <=> Holds(u, x))
<1> DEFINE ins == Insert(u, q, d)
           n == Len(u)
<1>0. PICK k \in 0..n : Placed(ins, u, q, d, k)
  <2>1. \A x \in Queries : dnQ[x].deadline \in Int
    BY Zenon DEF Dated
  <2> QED
    BY <2>1, InsertIs, Zenon
<1>1. /\ ins \in Seq(Queries) /\ Len(ins) = n + 1 /\ Slot(u, d, k)
      /\ \A i \in 1..(n + 1) : ins[i] = IF i <= k THEN u[i]
                                        ELSE IF i = k + 1 THEN q ELSE u[i - 1]
  BY <1>0, Zenon DEF Placed
<1>2. n \in Nat /\ k \in Nat /\ k <= n
  BY <1>1
<1>3. /\ \A i \in 1..k : dnQ[u[i]].deadline <= d
      /\ \A i \in (k + 1)..n : dnQ[u[i]].deadline > d
  BY <1>1, Zenon DEF Slot
<1>4. \A i \in 1..n : u[i] \in Queries /\ u[i] # q /\ new[u[i]] = dnQ[u[i]]
  <2> TAKE i \in 1..n
  <2>1. u[i] \in Queries
    BY ElementOfQueue, Zenon
  <2>2. u[i] # q
    BY Zenon DEF Holds
  <2> QED
    BY <2>1, <2>2, Zenon DEF Elsewhere
<1>5. \A i \in 1..n : dnQ[u[i]].deadline \in Int
  BY <1>4, Zenon DEF Dated
<1> HIDE DEF ins
<1>6. /\ \A i \in 1..k : i \in 1..(n + 1) /\ i \in 1..n /\ ins[i] = u[i]
      /\ k + 1 \in 1..(n + 1) /\ ins[k + 1] = q
      /\ \A i \in (k + 2)..(n + 1) : i - 1 \in (k + 1)..n /\ i - 1 \in 1..n /\ ins[i] = u[i - 1]
  <2>1. \A i \in 1..k : i \in 1..(n + 1) /\ i \in 1..n /\ i <= k
    BY <1>2
  <2>2. k + 1 \in 1..(n + 1) /\ ~(k + 1 <= k)
    BY <1>2
  <2>3. \A i \in (k + 2)..(n + 1) :
          i \in 1..(n + 1) /\ i - 1 \in (k + 1)..n /\ i - 1 \in 1..n /\ ~(i <= k) /\ i # k + 1
    BY <1>2
  <2> QED
    BY <1>1, <2>1, <2>2, <2>3, Zenon
<1>7. \A i \in 1..(n + 1) : i \in 1..k \/ i = k + 1 \/ i \in (k + 2)..(n + 1)
  BY <1>2
<1>8. ASSUME NEW i \in 1..(n + 1), NEW j \in 1..(n + 1), i < j
      PROVE  ins[i] # ins[j] /\ new[ins[i]].deadline <= new[ins[j]].deadline
  <2>1. CASE i \in 1..k /\ j \in 1..k
    <3>1. i \in 1..n /\ j \in 1..n /\ ins[i] = u[i] /\ ins[j] = u[j]
      BY <1>6, <2>1, Zenon
    <3>2. u[i] # u[j] /\ dnQ[u[i]].deadline <= dnQ[u[j]].deadline
      BY <1>8, <3>1, Zenon DEF InOrder
    <3> QED
      BY <1>4, <3>1, <3>2, Zenon
  <2>2. CASE i \in 1..k /\ j = k + 1
    BY <1>3, <1>4, <1>6, <2>2, Zenon
  <2>3. CASE i \in 1..k /\ j \in (k + 2)..(n + 1)
    <3>1. i < j - 1 /\ i \in 1..n /\ j - 1 \in 1..n
      BY <1>2, <2>3
    <3>2. ins[i] = u[i] /\ ins[j] = u[j - 1]
      BY <1>6, <2>3, Zenon
    <3>3. u[i] # u[j - 1] /\ dnQ[u[i]].deadline <= dnQ[u[j - 1]].deadline
      BY <3>1, Zenon DEF InOrder
    <3> QED
      BY <1>4, <3>1, <3>2, <3>3, Zenon
  <2>4. CASE i = k + 1 /\ j \in (k + 2)..(n + 1)
    <3>1. j - 1 \in (k + 1)..n /\ j - 1 \in 1..n /\ ins[j] = u[j - 1] /\ ins[i] = q
      BY <1>6, <2>4, Zenon
    <3>2. dnQ[u[j - 1]].deadline > d /\ dnQ[u[j - 1]].deadline \in Int
      BY <1>3, <1>5, <3>1, Zenon
    <3>3. d <= dnQ[u[j - 1]].deadline
      BY <3>2, SMTT(30)
    <3> QED
      BY <1>4, <3>1, <3>3, Zenon
  <2>5. CASE i \in (k + 2)..(n + 1) /\ j \in (k + 2)..(n + 1)
    <3>1. i - 1 < j - 1
      BY <1>8
    <3>2. /\ ins[i] = u[i - 1] /\ ins[j] = u[j - 1]
          /\ i - 1 \in 1..n /\ j - 1 \in 1..n
      BY <1>6, <2>5, Zenon
    <3>3. u[i - 1] # u[j - 1] /\ dnQ[u[i - 1]].deadline <= dnQ[u[j - 1]].deadline
      BY <3>1, <3>2, Zenon DEF InOrder
    <3> QED
      BY <1>4, <3>2, <3>3, Zenon
  <2>6. \/ i \in 1..k /\ j \in 1..k
        \/ i \in 1..k /\ j = k + 1
        \/ i \in 1..k /\ j \in (k + 2)..(n + 1)
        \/ i = k + 1 /\ j \in (k + 2)..(n + 1)
        \/ i \in (k + 2)..(n + 1) /\ j \in (k + 2)..(n + 1)
    <3>1. n + 1 \in Nat /\ i \in 1..(n + 1) /\ j \in 1..(n + 1) /\ i < j
      BY <1>2, <1>8
    <3>2. ~(i = k + 1 /\ j \in 1..k) /\ ~(i = k + 1 /\ j = k + 1)
      BY <1>2, <3>1
    <3>3. ~(i \in (k + 2)..(n + 1) /\ (j \in 1..k \/ j = k + 1))
      <4>1. i \in (k + 2)..(n + 1) => i >= k + 2
        BY <1>2, <3>1
      <4>2. j \in 1..k \/ j = k + 1 => j <= k + 1
        BY <1>2, <3>1
      <4>3. ~(i >= k + 2 /\ j <= k + 1)
        BY <1>2, <3>1
      <4> QED
        BY <4>1, <4>2, <4>3, Zenon
    <3> QED
      BY <1>7, <3>2, <3>3, Zenon
  <2> QED
    BY <2>1, <2>2, <2>3, <2>4, <2>5, <2>6, Zenon
<1>9. InOrder(ins, new)
  BY <1>1, <1>8, Zenon DEF InOrder
<1>10. Holds(ins, q)
  BY <1>1, <1>6, Zenon DEF Holds
<1>11. ASSUME NEW x \in Queries, x # q PROVE Holds(ins, x) <=> Holds(u, x)
  <2>1. Holds(ins, x) => Holds(u, x)
    BY <1>1, <1>6, <1>7, <1>11, Zenon DEF Holds
  <2>2. Holds(u, x) => Holds(ins, x)
    <3> SUFFICES ASSUME NEW m \in 1..n, u[m] = x PROVE Holds(ins, x)
      BY Zenon DEF Holds
    <3>1. CASE m <= k
      <4>1. m \in 1..k
        BY <1>2, <3>1
      <4> QED
        BY <4>1, <1>1, <1>6, Zenon DEF Holds
    <3>2. CASE ~(m <= k)
      <4>1. m + 1 \in (k + 2)..(n + 1) /\ m + 1 - 1 = m /\ m + 1 \in 1..(n + 1)
        BY <1>2, <3>2
      <4>2. PICK i \in (k + 2)..(n + 1) : i - 1 = m /\ i \in 1..(n + 1)
        BY <4>1, SMT
      <4>3. ins[i] = u[i - 1]
        BY <1>6, Zenon
      <4>4. u[i - 1] = x
        BY <4>2, Zenon
      <4>5. i \in 1..Len(ins)
        BY <4>2, <1>1, Zenon
      <4> QED
        BY <4>3, <4>4, <4>5, Zenon DEF Holds
    <3> QED
      BY <3>1, <3>2, Zenon
  <2> QED
    BY <2>1, <2>2, Zenon
<1> QED
  BY <1>1, <1>9, <1>10, <1>11, Zenon DEF ins

(* dns_end_query and dns_cancel *)
LEMMA QueueUnlink ==
    ASSUME NEW list, NEW qs, NEW new, Queue(list, qs), NEW q \in Queries,
           qs[q].st = "active", Elsewhere(qs, new, q), new[q].st # "active"
    PROVE  Queue(Unlinked(list, q), new)
<1> DEFINE u == Unlinked(list, q)
<1>1. /\ u \in Seq(Queries) /\ InOrder(u, qs) /\ ~Holds(u, q)
      /\ \A x \in Queries : x # q => (Holds(u, x) <=> Holds(list, x))
  BY Removed, Zenon
<1> HIDE DEF u
<1>2. \A i \in 1..Len(u) : new[u[i]] = qs[u[i]]
  <2> TAKE i \in 1..Len(u)
  <2>1. u[i] \in Queries
    BY <1>1, ElementOfQueue, Zenon
  <2>2. u[i] # q
    BY <1>1, Zenon DEF Holds
  <2> QED
    BY <2>1, <2>2, Zenon DEF Elsewhere
<1>3. InOrder(u, new)
  BY <1>1, <1>2, Zenon DEF InOrder
<1>4. \A x \in Queries : new[x].st = "active" <=> Holds(u, x)
  <2> TAKE x \in Queries
  <2>1. CASE x = q
    BY <1>1, <2>1, Zenon
  <2>2. CASE x # q
    <3>1. new[x] = qs[x]
      BY <2>2, Zenon DEF Elsewhere
    <3>2. qs[x].st = "active" <=> Holds(list, x)
      BY Zenon DEF Queue
    <3> QED
      BY <1>1, <2>2, <3>1, <3>2, Zenon
  <2> QED
    BY <2>1, <2>2, Zenon
<1> QED
  BY <1>1, <1>3, <1>4, Zenon DEF Queue, u

(* dns_send_this *)
LEMMA QueueMove ==
    ASSUME NEW list, NEW new, NEW q \in Queries, NEW d \in Int, Queue(list, dnQ),
           Dated(dnQ), dnQ[q].st = "active", Elsewhere(dnQ, new, q),
           new[q].st = "active", new[q].deadline = d
    PROVE  Queue(Insert(Unlinked(list, q), q, d), new)
<1> DEFINE u == Unlinked(list, q)
           ins == Insert(u, q, d)
<1>1. /\ u \in Seq(Queries) /\ InOrder(u, dnQ) /\ ~Holds(u, q)
      /\ \A x \in Queries : x # q => (Holds(u, x) <=> Holds(list, x))
  BY Removed, Zenon
<1> HIDE DEF u
<1>2. /\ ins \in Seq(Queries) /\ InOrder(ins, new) /\ Holds(ins, q)
      /\ \A x \in Queries : x # q => (Holds(ins, x) <=> Holds(u, x))
  BY <1>1, Inserted, Zenon
<1> HIDE DEF ins
<1>3. \A x \in Queries : new[x].st = "active" <=> Holds(ins, x)
  <2> TAKE x \in Queries
  <2>1. CASE x = q
    BY <1>2, <2>1, Zenon
  <2>2. CASE x # q
    <3>1. new[x] = dnQ[x]
      BY <2>2, Zenon DEF Elsewhere
    <3>2. dnQ[x].st = "active" <=> Holds(list, x)
      BY Zenon DEF Queue
    <3> QED
      BY <1>1, <1>2, <2>2, <3>1, <3>2, Zenon
  <2> QED
    BY <2>1, <2>2, Zenon
<1> QED
  BY <1>2, <1>3, Zenon DEF Queue, ins, u

(* qlist_first, in dns_submit_dn *)
LEMMA QueueAdd ==
    ASSUME NEW list, NEW qs, NEW new, Queue(list, qs), NEW q \in Queries,
           qs[q].st # "active", Elsewhere(qs, new, q), new[q].st = "active",
           \A x \in Queries : new[q].deadline <= new[x].deadline
    PROVE  Queue(<<q>> \o list, new) /\ <<q>> \o list # <<>> /\ (<<q>> \o list)[1] = q
<1> DEFINE l == <<q>> \o list
           n == Len(list)
<1>1. list \in Seq(Queries) /\ InOrder(list, qs) /\ ~Holds(list, q)
  BY Zenon DEF Queue
<1>2. /\ l \in Seq(Queries) /\ Len(l) = n + 1 /\ l[1] = q
      /\ \A i \in 2..(n + 1) : l[i] = list[i - 1]
  <2>1. <<q>> \in Seq(Queries) /\ Len(<<q>>) = 1 /\ <<q>>[1] = q
    OBVIOUS
  <2>2. /\ l \in Seq(Queries) /\ Len(l) = Len(<<q>>) + n
        /\ \A i \in 1..(Len(<<q>>) + n) : l[i] = IF i <= Len(<<q>>) THEN <<q>>[i] ELSE list[i - Len(<<q>>)]
    BY <1>1, <2>1, JoinOfQueue
  <2> HIDE DEF l
  <2> QED
    BY <1>1, <2>1, <2>2
<1> HIDE DEF l
<1>3. n \in Nat
  BY <1>1
<1>4. \A i \in 1..n : list[i] \in Queries /\ list[i] # q /\ new[list[i]] = qs[list[i]]
  <2> TAKE i \in 1..n
  <2>1. list[i] \in Queries
    BY <1>1, ElementOfQueue, Zenon
  <2>2. list[i] # q
    BY <1>1, Zenon DEF Holds
  <2> QED
    BY <2>1, <2>2, Zenon DEF Elsewhere
<1>5. ASSUME NEW i \in 1..(n + 1), NEW j \in 1..(n + 1), i < j
      PROVE  l[i] # l[j] /\ new[l[i]].deadline <= new[l[j]].deadline
  <2>1. j \in 2..(n + 1) /\ j - 1 \in 1..n
    BY <1>3, <1>5
  <2>2. l[j] = list[j - 1] /\ list[j - 1] \in Queries /\ list[j - 1] # q
    BY <1>2, <1>4, <2>1, Zenon
  <2>3. CASE i = 1
    BY <1>2, <2>2, <2>3, Zenon
  <2>4. CASE i # 1
    <3>1. i \in 2..(n + 1) /\ i - 1 \in 1..n /\ i - 1 < j - 1
      BY <1>3, <1>5, <2>4
    <3>2. l[i] = list[i - 1]
      BY <1>2, <3>1, Zenon
    <3>3. list[i - 1] # list[j - 1] /\ qs[list[i - 1]].deadline <= qs[list[j - 1]].deadline
      BY <1>1, <2>1, <3>1, Zenon DEF InOrder
    <3>4. new[list[i - 1]] = qs[list[i - 1]] /\ new[list[j - 1]] = qs[list[j - 1]]
      BY <1>4, <2>1, <3>1, Zenon
    <3> QED
      BY <2>2, <3>2, <3>3, <3>4, Zenon
  <2> QED
    BY <2>3, <2>4, Zenon
<1>6. InOrder(l, new)
  BY <1>2, <1>5, Zenon DEF InOrder
<1>7. Holds(l, q)
  <2>1. 1 \in 1..(n + 1)
    BY <1>3
  <2> QED
    BY <1>2, <2>1, Zenon DEF Holds
<1>8. ASSUME NEW x \in Queries, x # q PROVE Holds(l, x) <=> Holds(list, x)
  <2>1. ASSUME NEW i \in 1..(n + 1), l[i] = x PROVE Holds(list, x)
    <3>1. i # 1
      BY <1>2, <1>8, <2>1, Zenon
    <3>2. i \in 2..(n + 1) /\ i - 1 \in 1..n
      BY <1>3, <2>1, <3>1
    <3>3. list[i - 1] = x
      BY <1>2, <2>1, <3>2, Zenon
    <3> QED
      BY <3>2, <3>3, Zenon DEF Holds
  <2>2. ASSUME NEW m \in 1..n, list[m] = x PROVE Holds(l, x)
    <3>1. PICK i \in 2..(n + 1) : i - 1 = m /\ i \in 1..(n + 1)
      <4>1. m + 1 \in 2..(n + 1) /\ m + 1 - 1 = m /\ m + 1 \in 1..(n + 1)
        BY <1>3, <2>2
      <4> QED
        BY <4>1, SMT
    <3>2. l[i] = list[i - 1]
      BY <1>2, Zenon
    <3>3. list[i - 1] = x
      BY <2>2, <3>1, Zenon
    <3>4. i \in 1..Len(l)
      BY <1>2, <3>1, Zenon
    <3> QED
      BY <3>2, <3>3, <3>4, Zenon DEF Holds
  <2> QED
    BY <1>2, <2>1, <2>2, Zenon DEF Holds
<1>9. \A x \in Queries : new[x].st = "active" <=> Holds(l, x)
  <2> TAKE x \in Queries
  <2>1. CASE x = q
    BY <1>7, <2>1, Zenon
  <2>2. CASE x # q
    <3>1. new[x] = qs[x]
      BY <2>2, Zenon DEF Elsewhere
    <3>2. qs[x].st = "active" <=> Holds(list, x)
      BY Zenon DEF Queue
    <3> QED
      BY <1>8, <2>2, <3>1, <3>2, Zenon
  <2> QED
    BY <2>1, <2>2, Zenon
<1>10. l # <<>>
  BY <1>2, <1>3, EmptyOfQueue
<1> QED
  BY <1>2, <1>6, <1>9, <1>10, Zenon DEF Queue, l

(* A change of the queries that leaves them where they are. *)
LEMMA QueueSame ==
    ASSUME NEW list, NEW qs, NEW new, Queue(list, qs),
           \A x \in Queries : new[x].st = qs[x].st,
           \A x, y \in Queries : qs[x].deadline <= qs[y].deadline
                                   => new[x].deadline <= new[y].deadline
    PROVE  Queue(list, new)
<1>1. list \in Seq(Queries) /\ InOrder(list, qs)
  BY Zenon DEF Queue
<1>2. \A i \in 1..Len(list) : list[i] \in Queries
  BY <1>1, ElementOfQueue, Zenon
<1>3. InOrder(list, new)
  BY <1>1, <1>2, Zenon DEF InOrder
<1> QED
  BY <1>1, <1>3, Zenon DEF Queue

(* dns_close *)
LEMMA QueueEmpty ==
    ASSUME NEW new, \A x \in Queries : new[x].st # "active"
    PROVE  Queue(<<>>, new)
<1>1. <<>> \in Seq(Queries) /\ Len(<<>>) = 0
  BY EmptyOfQueue, Zenon
<1>2. \A i \in 1..Len(<<>>) : FALSE
  BY <1>1
<1> QED
  BY <1>1, <1>2, Zenon DEF Queue, InOrder, Holds

-----------------------------------------------------------------------------
(* dns_request_utm leaves the timer as dnsc_utmexp says, due in time. *)

LEMMA RequestUtm ==
    ASSUME NEW qs, NEW list, NEW now \in BOOLEAN, NEW loop,
           AlarmSet(dnUtmexp, dnTimer, loop), dns_request_utm(qs, list, now),
           list # <<>> => qs[list[1]].deadline \in Int
    PROVE  AlarmSet(dnUtmexp', dnTimer', loop) /\ AlarmDue(dnUtmexp', list, qs)
<1> DEFINE left == qs[list[1]].deadline
           deadline == IF list = <<>> THEN NoTimer
                       ELSE IF ~now \/ left <= 0 THEN Asap ELSE left
<1>1. /\ deadline \in Int
      /\ deadline = NoTimer \/ deadline = Asap \/ (deadline = left /\ left > 0 /\ list # <<>>)
  BY DEF NoTimer, Asap
<1>2. AlarmDue(deadline, list, qs)
  BY DEF AlarmDue, NoTimer, Asap
<1>3. /\ IF dnUtmexp = deadline THEN UNCHANGED <<dnUtmexp, dnTimer>>
         ELSE /\ dnUtmexp' = deadline
              /\ dnTimer' = LET t == CASE deadline = NoTimer -> -1
                                        [] deadline = Asap -> 0
                                        [] OTHER -> left
                            IN  IF t >= 0 THEN t ELSE Off
  BY Zenon DEF dns_request_utm, _dns_request_utm, dns_timer_setup_cb
<1> HIDE DEF deadline, left
<1>4. dnUtmexp' = deadline
  BY <1>3, Zenon
<1>5. AlarmSet(dnUtmexp', dnTimer', loop)
  <2>1. CASE dnUtmexp = deadline
    <3>1. dnUtmexp' = dnUtmexp /\ dnTimer' = dnTimer
      BY <1>3, <2>1, Zenon
    <3> QED
      BY <3>1, Zenon
  <2>2. CASE dnUtmexp # deadline
    <3>1. dnTimer' = LET t == CASE deadline = NoTimer -> -1
                                [] deadline = Asap -> 0
                                [] OTHER -> left
                     IN  IF t >= 0 THEN t ELSE Off
      BY <1>3, <2>2, Zenon
    <3>2. CASE deadline = NoTimer
      BY <1>1, <1>4, <3>1, <3>2 DEF AlarmSet, NoTimer, Asap, Off
    <3>3. CASE deadline = Asap
      BY <1>1, <1>4, <3>1, <3>3 DEF AlarmSet, NoTimer, Asap, Off
    <3>4. CASE deadline = left /\ left > 0
      BY <1>1, <1>4, <3>1, <3>4, SMTT(30) DEF AlarmSet, NoTimer, Asap, Off
    <3> QED
      BY <1>1, <3>2, <3>3, <3>4, Zenon
  <2> QED
    BY <2>1, <2>2, Zenon
<1> QED
  BY <1>2, <1>4, <1>5, Zenon

(* At the end of dns_timeouts no query is due any more, and the timer, which *)
(* has expired, was started again unless the list is empty.                  *)
LEMMA TimeoutsEnd ==
    ASSUME NEW qs, NEW list,
           AlarmSet(dnUtmexp, dnTimer, "timeouts"), dns_request_utm(qs, list, TRUE),
           list # <<>> => qs[list[1]].deadline \in Int /\ qs[list[1]].deadline > 0
    PROVE  AlarmSet(dnUtmexp', dnTimer', "idle") /\ AlarmDue(dnUtmexp', list, qs)
<1>1. list # <<>> => qs[list[1]].deadline \in Int
  BY Zenon
<1>2. AlarmSet(dnUtmexp', dnTimer', "timeouts") /\ AlarmDue(dnUtmexp', list, qs)
  BY <1>1, RequestUtm, Zenon
<1>3. dnUtmexp' = IF list = <<>> THEN NoTimer
                  ELSE IF ~TRUE \/ qs[list[1]].deadline <= 0 THEN Asap ELSE qs[list[1]].deadline
  BY Zenon DEF dns_request_utm, _dns_request_utm
<1>4. dnUtmexp' = NoTimer \/ dnUtmexp' > 0
  <2>1. CASE list = <<>>
    BY <1>3, <2>1, Zenon
  <2>2. CASE list # <<>>
    BY <1>3, <2>2
  <2> QED
    BY <2>1, <2>2, Zenon
<1> QED
  BY <1>2, <1>4 DEF AlarmSet, NoTimer

-----------------------------------------------------------------------------
(* One query. *)

(* f differs from r in the servers and the identifier only. *)
Alike(r, f) ==
    /\ DOMAIN f = DOMAIN r /\ f.st = r.st /\ f.status = r.status /\ f.ended = r.ended
    /\ f.dn = r.dn /\ f.try = r.try /\ f.deadline = r.deadline
    /\ f.nxtsrch = r.nxtsrch /\ f.asis = r.asis /\ f.nodata = r.nodata
    /\ f.denied = r.denied

LEMMA AlikeActive ==
    ASSUME NEW r, NEW f, Active(r), Alike(r, f)
    PROVE  Active(f)
<1>1. IsQuerySlot(f)
  BY Zenon DEF Active, Alike, IsQuerySlot
<1>2. EndedOk(f) /\ f.st = "active"
  BY Zenon DEF Active, Alike, EndedOk
<1>3. Searched(f)
  BY Zenon DEF Active, Searching, Alike, Searched
<1> QED
  BY <1>1, <1>2, <1>3, Zenon DEF Active, Searching, Alike

LEMMA ServerFieldsAlike ==
    ASSUME NEW r, NEW x, Active(r)
    PROVE  /\ Alike(r, [r EXCEPT !.servi = x]) /\ Alike(r, [r EXCEPT !.servwait = x])
           /\ Alike(r, [r EXCEPT !.servskip = x]) /\ Alike(r, [r EXCEPT !.servnEDNS0 = x])
<1>1. Alike(r, [r EXCEPT !.servi = x])
  BY Zenon DEF Alike, Active, IsQuerySlot
<1>2. Alike(r, [r EXCEPT !.servwait = x])
  BY Zenon DEF Alike, Active, IsQuerySlot
<1>3. Alike(r, [r EXCEPT !.servskip = x])
  BY Zenon DEF Alike, Active, IsQuerySlot
<1>4. Alike(r, [r EXCEPT !.servnEDNS0 = x])
  BY Zenon DEF Alike, Active, IsQuerySlot
<1> QED
  BY <1>1, <1>2, <1>3, <1>4, Zenon

LEMMA FindServ ==
    ASSUME NEW r, Active(r)
    PROVE  Active(dns_find_serv(r))
<1> DEFINE i == Least({i \in r.servi..NServ : i \notin r.servskip})
<1>1. dns_find_serv(r) = [r EXCEPT !.servi = i]
  BY Zenon DEF dns_find_serv
<1> HIDE DEF i
<1>2. Alike(r, [r EXCEPT !.servi = i])
  BY ServerFieldsAlike, Zenon
<1> QED
  BY <1>1, <1>2, AlikeActive, Zenon

LEMMA ActiveFacts ==
    ASSUME NEW r, Active(r)
    PROVE  /\ r.ended = 0 /\ r.status = "none" /\ r.st = "active"
           /\ r.try \in 0..(NTries - 1) /\ r.deadline \in Int
BY Zenon DEF Active, EndedOk, Searching, IsQuerySlot

(* With another deadline, or in the next round. *)
LEMMA OtherDeadline ==
    ASSUME NEW r, Active(r), NEW d \in Int, d >= Submitted
    PROVE  /\ Active([r EXCEPT !.deadline = d]) /\ [r EXCEPT !.deadline = d].deadline = d
           /\ [r EXCEPT !.deadline = d].st = "active"
<1> DEFINE f == [r EXCEPT !.deadline = d]
<1>1. /\ DOMAIN f = DOMAIN r /\ f.st = r.st /\ f.status = r.status /\ f.ended = r.ended
      /\ f.dn = r.dn /\ f.try = r.try /\ f.deadline = d
      /\ f.nxtsrch = r.nxtsrch /\ f.asis = r.asis /\ f.nodata = r.nodata
      /\ f.denied = r.denied
  BY Zenon DEF Active, IsQuerySlot
<1> HIDE DEF f
<1>2. IsQuerySlot(f)
  BY <1>1, Zenon DEF Active, IsQuerySlot
<1>3. EndedOk(f) /\ f.st = "active"
  BY <1>1, Zenon DEF Active, EndedOk
<1>4. Searched(f)
  BY <1>1, Zenon DEF Active, Searching, Searched
<1>5. Searching(f)
  BY <1>1, <1>4, Zenon DEF Active, Searching
<1> QED
  BY <1>1, <1>2, <1>3, <1>5, Zenon DEF Active, f

LEMMA NextRound ==
    ASSUME NEW r, Active(r)
    PROVE  LET f == [r EXCEPT !.servi = 0, !.try = @ + 1]
           IN  /\ f.ended = 0
               /\ f.try \in Int /\ (f.try < NTries => Active(f))
<1> DEFINE f == [r EXCEPT !.servi = 0, !.try = @ + 1]
<1>1. /\ DOMAIN f = DOMAIN r /\ f.st = r.st /\ f.status = r.status /\ f.ended = r.ended
      /\ f.dn = r.dn /\ f.try = r.try + 1 /\ f.deadline = r.deadline
      /\ f.nxtsrch = r.nxtsrch /\ f.asis = r.asis /\ f.nodata = r.nodata
      /\ f.denied = r.denied
  BY Zenon DEF Active, IsQuerySlot
<1> HIDE DEF f
<1>2. IsQuerySlot(f)
  BY <1>1, Zenon DEF Active, IsQuerySlot
<1>3. EndedOk(f) /\ f.st = "active"
  BY <1>1, Zenon DEF Active, EndedOk
<1>4. Searched(f)
  BY <1>1, Zenon DEF Active, Searching, Searched
<1>5. f.try \in Int /\ (f.try < NTries => f.try \in 0..(NTries - 1))
  <2>1. r.try \in 0..(NTries - 1) /\ NTries \in Nat
    BY ActiveFacts, UdnsAssumption, Zenon
  <2> QED
    BY <1>1, <2>1
<1>6. f.try < NTries => Active(f)
  BY <1>1, <1>2, <1>3, <1>4, <1>5, Zenon DEF Active, Searching
<1>7. f.ended = 0
  BY <1>1, ActiveFacts, Zenon
<1> QED
  BY <1>5, <1>6, <1>7, Zenon DEF f

-----------------------------------------------------------------------------
(* The search through the suffixes. *)

(* What has been asked for when the next name is chosen. *)
Asked(r) == {j \in Fitting : j < r.nxtsrch} \cup (IF r.asis THEN {0} ELSE {})

LEMMA NextName ==
    ASSUME NEW r, r.nxtsrch \in 1..(NSrch + 2), NextNames(r) # {}
    PROVE  LET i == Least(NextNames(r))
           IN  /\ i \in r.nxtsrch..(NSrch + 1) /\ i \in 1..(NSrch + 1)
               /\ i = NSrch + 1 => ~r.asis
               /\ i # NSrch + 1 => i \in Fitting
               /\ \A j \in Fitting : j < i <=> j < r.nxtsrch
<1> DEFINE N == NextNames(r)
           i == Least(N)
<1>1. NSrch \in Nat /\ Fitting \subseteq 1..NSrch
  BY UdnsAssumption, Zenon
<1>2. N = {j \in r.nxtsrch..(NSrch + 1) : IF j = NSrch + 1 THEN ~r.asis ELSE j \in Fitting}
  BY Zenon DEF NextNames
<1>3. N \subseteq Nat
  BY <1>1, <1>2
<1>4. i \in N /\ \A j \in N : i <= j
  <2>1. N # {}
    BY Zenon
  <2> HIDE DEF N
  <2> QED
    BY <1>3, <2>1, LeastIs, Zenon
<1>5. /\ i \in r.nxtsrch..(NSrch + 1) /\ (i = NSrch + 1 => ~r.asis)
      /\ (i # NSrch + 1 => i \in Fitting)
  <2> HIDE DEF i, N
  <2> QED
    BY <1>2, <1>4, Zenon
<1> HIDE DEF i
<1>6. i \in 1..(NSrch + 1)
  BY <1>1, <1>5
<1>7. ASSUME NEW j \in Fitting PROVE j < i <=> j < r.nxtsrch
  <2>1. j \in 1..NSrch
    BY <1>1, Zenon
  <2>2. CASE j < r.nxtsrch
    BY <1>1, <1>5, <2>1, <2>2, SMTT(30)
  <2>3. CASE ~(j < r.nxtsrch)
    <3>1. j \in r.nxtsrch..(NSrch + 1) /\ j # NSrch + 1
      BY <1>1, <2>1, <2>3
    <3>2. j \in N
      <4> HIDE DEF N
      <4> QED
        BY <1>2, <3>1, Zenon
    <3>3. i <= j
      <4> HIDE DEF N
      <4> QED
        BY <1>4, <3>2, Zenon
    <3> QED
      BY <1>1, <1>6, <2>1, <2>3, <3>3, SMTT(30)
  <2> QED
    BY <2>2, <2>3, Zenon
<1> QED
  BY <1>5, <1>6, <1>7, Zenon DEF i

(* dns_next_srch, in a query all of whose names so far were denied, or that *)
(* will not report NXDOMAIN any more.                                       *)
LEMMA NextSearch ==
    ASSUME NEW r, NEW id, IsQuerySlot(r), EndedOk(r), r.st = "active",
           r.asis \in BOOLEAN, r.nodata \in BOOLEAN, r.nxtsrch \in 1..(NSrch + 2),
           NextNames(r) # {}, r.nodata \/ r.denied = Asked(r)
    PROVE  Active(dns_next_srch(r, id)) /\ dns_next_srch(r, id).deadline = r.deadline
<1> DEFINE i == Least(NextNames(r))
           f == dns_next_srch(r, id)
           last == i = NSrch + 1
<1>1. /\ i \in r.nxtsrch..(NSrch + 1) /\ i \in 1..(NSrch + 1)
      /\ i = NSrch + 1 => ~r.asis
      /\ i # NSrch + 1 => i \in Fitting
      /\ \A j \in Fitting : j < i <=> j < r.nxtsrch
  BY NextName, Zenon
<1>2. f = dns_newid([r EXCEPT !.nxtsrch = i + 1, !.asis = @ \/ i = NSrch + 1,
                              !.dn = IF i = NSrch + 1 THEN 0 ELSE i], id)
  BY Zenon DEF dns_next_srch
<1> HIDE DEF i
<1>3. /\ DOMAIN f = DOMAIN r /\ f.st = r.st /\ f.status = r.status /\ f.ended = r.ended
      /\ f.try = 0 /\ f.deadline = r.deadline /\ f.nodata = r.nodata
      /\ f.denied = r.denied /\ f.nxtsrch = i + 1
      /\ f.dn = IF last THEN 0 ELSE i
  <2> HIDE DEF f
  <2> QED
    BY <1>2, Zenon DEF dns_newid, IsQuerySlot
<1>4. f.asis = (r.asis \/ last)
  <2> HIDE DEF f
  <2> QED
    BY <1>2, Zenon DEF dns_newid, IsQuerySlot
<1> HIDE DEF f, last
<1>5. NSrch \in Nat /\ Fitting \subseteq 1..NSrch /\ NTries \in Nat \ {0}
  BY UdnsAssumption, Zenon
<1>6. IsQuerySlot(f)
  BY <1>3, Zenon DEF IsQuerySlot
<1>7. EndedOk(f)
  BY <1>3, Zenon DEF EndedOk
<1>8. f.nxtsrch \in 1..(NSrch + 2) /\ f.try \in 0..(NTries - 1) /\ f.asis \in BOOLEAN
  BY <1>1, <1>3, <1>4, <1>5, SMTT(30)
<1>9. f.nxtsrch = NSrch + 2 => f.asis
  <2>1. f.nxtsrch = NSrch + 2 => i = NSrch + 1
    BY <1>1, <1>3, <1>5
  <2> QED
    BY <2>1, <1>4, Zenon DEF last
<1>10. Searched(f)
  <2>1. CASE r.nodata
    BY <1>3, <2>1, Zenon DEF Searched
  <2>2. CASE ~r.nodata
    <3>1. f.denied \cup {f.dn} =
            {j \in Fitting : j < f.nxtsrch} \cup (IF f.asis THEN {0} ELSE {})
      <4>1. f.denied = {j \in Fitting : j < i} \cup (IF r.asis THEN {0} ELSE {})
        <5>1. {j \in Fitting : j < i} = {j \in Fitting : j < r.nxtsrch}
          BY <1>1, Zenon
        <5> QED
          BY <2>2, <1>3, <5>1, Zenon DEF Asked
      <4>2. CASE last
        <5>1. \A j \in Fitting : j < i /\ j < i + 1
          BY <1>5, <4>2 DEF last
        <5>2. f.dn = 0 /\ f.asis
          BY <1>3, <1>4, <4>2, Zenon
        <5>3. {j \in Fitting : j < f.nxtsrch} = {j \in Fitting : j < i}
          BY <1>3, <5>1, Zenon
        <5> QED
          BY <4>1, <5>2, <5>3, Zenon
      <4>3. CASE ~last
        <5>1. f.dn = i /\ (f.asis <=> r.asis) /\ i \in Fitting
          BY <1>1, <1>3, <1>4, <4>3, Zenon DEF last
        <5>2. {j \in Fitting : j < f.nxtsrch} = {j \in Fitting : j < i} \cup {i}
          <6>1. \A j \in Fitting : j < i + 1 <=> j < i \/ j = i
            BY <1>1, <1>5
          <6> QED
            BY <1>3, <5>1, <6>1, Zenon
        <5> QED
          BY <4>1, <5>1, <5>2, Zenon
      <4> QED
        BY <4>2, <4>3, Zenon
    <3> QED
      BY <1>9, <3>1, Zenon DEF Searched
  <2> QED
    BY <2>1, <2>2, Zenon
<1> QED
  BY <1>3, <1>6, <1>7, <1>8, <1>10, Zenon DEF Active, Searching, f

(* No more names, and none of those had data: all were denied. *)
LEMMA AllDenied ==
    ASSUME NEW r, Active(r), NextNames(r) = {}, ~r.nodata
    PROVE  r.denied \cup {r.dn} = Fitting \cup {0} \/ r.denied \cup {r.dn} = {0}
<1>1. NSrch \in Nat /\ Fitting \subseteq 1..NSrch
  BY UdnsAssumption, Zenon
<1>2. r.nxtsrch \in 1..(NSrch + 2) /\ r.asis \in BOOLEAN /\ Searched(r)
  BY Zenon DEF Active, Searching
<1>3. \A j \in r.nxtsrch..(NSrch + 1) : ~(IF j = NSrch + 1 THEN ~r.asis ELSE j \in Fitting)
  BY Zenon DEF NextNames
<1>4. r.nxtsrch <= NSrch + 1 => r.asis
  <2> SUFFICES ASSUME r.nxtsrch <= NSrch + 1 PROVE r.asis
    BY Zenon
  <2>1. NSrch + 1 \in r.nxtsrch..(NSrch + 1)
    BY <1>1, <1>2
  <2> QED
    BY <1>3, <2>1, Zenon
<1>5. \A j \in Fitting : j < r.nxtsrch
  <2> SUFFICES ASSUME NEW j \in Fitting, ~(j < r.nxtsrch) PROVE FALSE
    BY Zenon
  <2>1. j \in r.nxtsrch..(NSrch + 1) /\ j # NSrch + 1
    BY <1>1, <1>2
  <2> QED
    BY <1>3, <2>1, Zenon
<1>6. CASE r.denied \cup {r.dn} = {0}
  BY <1>6, Zenon
<1>7. CASE /\ r.denied \cup {r.dn} =
                {j \in Fitting : j < r.nxtsrch} \cup (IF r.asis THEN {0} ELSE {})
           /\ r.nxtsrch = NSrch + 2 => r.asis
  <2>1. r.nxtsrch <= NSrch + 1 \/ r.nxtsrch = NSrch + 2
    BY <1>1, <1>2
  <2>2. r.asis
    BY <1>4, <1>7, <2>1, Zenon
  <2>3. {j \in Fitting : j < r.nxtsrch} = Fitting
    BY <1>5, Zenon
  <2> QED
    BY <1>7, <2>2, <2>3, Zenon
<1> QED
  BY <1>2, <1>6, <1>7, Zenon DEF Searched

(* The first name of a search. *)
LEMMA FirstNames ==
    ASSUME NEW r, r.nxtsrch = 1, r.asis = FALSE, r.denied = {}
    PROVE  NextNames(r) # {} /\ r.denied = Asked(r)
<1>1. NSrch \in Nat /\ Fitting \subseteq 1..NSrch
  BY UdnsAssumption, Zenon
<1>2. NSrch + 1 \in NextNames(r)
  BY <1>1 DEF NextNames
<1>3. \A j \in Fitting : ~(j < 1)
  <2> TAKE j \in Fitting
  <2>1. j \in 1..NSrch
    BY <1>1, Zenon
  <2> QED BY <1>1, <2>1
<1>4. Asked(r) = {}
  BY <1>3, Zenon DEF Asked
<1> QED
  BY <1>2, <1>4, Zenon

-----------------------------------------------------------------------------
(* Ending, sending and answering a query. *)

Kept(qs, list) == Slots(qs) /\ Queue(list, qs)

LEMMA SlotUpdate ==
    ASSUME NEW qs, NEW q \in Queries, NEW r, Slots(qs), SlotOk(r)
    PROVE  LET new == [qs EXCEPT ![q] = r]
           IN  Slots(new) /\ Elsewhere(qs, new, q) /\ new[q] = r
<1> DEFINE new == [qs EXCEPT ![q] = r]
<1>1. DOMAIN qs = Queries /\ \A x \in Queries : SlotOk(qs[x])
  BY Zenon DEF Slots
<1>2. DOMAIN new = Queries /\ new[q] = r /\ \A x \in Queries : x # q => new[x] = qs[x]
  BY <1>1, Zenon
<1> HIDE DEF new
<1>3. \A x \in Queries : SlotOk(new[x])
  BY <1>1, <1>2, Zenon
<1> QED
  BY <1>2, <1>3, Zenon DEF Slots, Elsewhere, new

LEMMA SlotFacts ==
    ASSUME NEW qs, Slots(qs)
    PROVE  /\ Dated(qs) /\ \A x \in Queries : qs[x].deadline >= Submitted
           /\ \A x \in Queries : qs[x].st = "active" => Active(qs[x])
BY Zenon DEF Slots, SlotOk, IsQuerySlot, Dated, Active

(* The head of the list, and any element. *)
LEMMA ListedActive ==
    ASSUME Kept(dnQ, dnList), NEW i \in DOMAIN dnList
    PROVE  /\ dnList[i] \in Queries /\ dnQ[dnList[i]].st = "active"
           /\ Active(dnQ[dnList[i]]) /\ dnQ[dnList[i]].deadline \in Int
<1>1. dnList \in Seq(Queries) /\ \A q \in Queries : dnQ[q].st = "active" <=> Holds(dnList, q)
  BY Zenon DEF Kept, Queue
<1>2. i \in 1..Len(dnList)
  BY <1>1
<1>3. dnList[i] \in Queries
  BY <1>1, <1>2, ElementOfQueue, Zenon
<1>4. Holds(dnList, dnList[i])
  BY <1>2, Zenon DEF Holds
<1>5. dnQ[dnList[i]].st = "active"
  BY <1>1, <1>3, <1>4, Zenon
<1>6. Active(dnQ[dnList[i]])
  BY <1>3, <1>5, SlotFacts, Zenon DEF Kept
<1> QED
  BY <1>3, <1>5, <1>6, ActiveFacts, Zenon

LEMMA FirstListed ==
    ASSUME Kept(dnQ, dnList), dnList # <<>>
    PROVE  1 \in DOMAIN dnList
<1>1. dnList \in Seq(Queries)
  BY Zenon DEF Kept, Queue
<1> QED
  BY <1>1

(* What dns_end_query reports. *)
Report(r, status) ==
    r.ended = 0 /\ (status = "NXDOMAIN" => r.denied = Fitting \cup {0} \/ r.denied = {0})

FreedAs(f, r, st, status) ==
    /\ DOMAIN f = DOMAIN NewQuery /\ f.st = st /\ f.status = status
    /\ f.ended = (IF st = "done" THEN 1 ELSE 0) /\ f.deadline = Submitted
    /\ f.denied = r.denied /\ st \in {"done", "cancelled"}
    /\ st = "cancelled" => status = "none"

LEMMA FreedOk ==
    ASSUME NEW r, NEW st, NEW status, NEW f, FreedAs(f, r, st, status), Report(r, status)
    PROVE  SlotOk(f) /\ f.st = st /\ f.st # "active"
<1>1. /\ DOMAIN f = DOMAIN NewQuery /\ f.st = st /\ f.status = status
      /\ f.ended = (IF st = "done" THEN 1 ELSE 0) /\ f.deadline = Submitted
      /\ f.denied = r.denied /\ st \in {"done", "cancelled"}
      /\ st = "cancelled" => status = "none"
  BY Zenon DEF FreedAs
<1>2. IsQuerySlot(f)
  <2>1. DOMAIN f = {"st", "status", "ended", "id", "dn", "try", "servi", "servwait",
                    "servskip", "servnEDNS0", "deadline", "nxtsrch", "asis", "nodata",
                    "denied"}
    BY <1>1, Zenon DEF NewQuery
  <2>2. f.deadline \in Int /\ f.deadline >= Submitted
    BY <1>1 DEF Submitted
  <2>3. f.st \in {"new", "active", "done", "cancelled"}
    BY <1>1, Zenon
  <2> QED
    BY <2>1, <2>2, <2>3, Zenon DEF IsQuerySlot
<1>3. EndedOk(f)
  <2>1. f.ended = (IF f.st = "done" THEN 1 ELSE 0)
    BY <1>1, Zenon
  <2>2. f.status = "NXDOMAIN" => f.denied = Fitting \cup {0} \/ f.denied = {0}
    BY <1>1, Zenon DEF Report
  <2>3. f.st # "done" => f.status = "none"
    BY <1>1, Zenon
  <2> QED
    BY <2>1, <2>2, <2>3, Zenon DEF EndedOk
<1> QED
  BY <1>1, <1>2, <1>3, Zenon DEF SlotOk

LEMMA EndQuery ==
    ASSUME NEW q \in Queries, NEW r, NEW status, Kept(dnQ, dnList), dnQ[q].st = "active",
           Report(r, status), dns_end_query(q, r, status)
    PROVE  Kept(dnQ', dnList')
<1> DEFINE f == [Freed(r, "done") EXCEPT !.status = status, !.ended = @ + 1]
<1>1. dnQ' = [dnQ EXCEPT ![q] = f] /\ dnList' = Unlinked(dnList, q)
  BY Zenon DEF dns_end_query
<1>2. /\ DOMAIN f = DOMAIN NewQuery /\ f.st = "done" /\ f.status = status
      /\ f.ended = 1 /\ f.deadline = Submitted /\ f.denied = r.denied
  BY DEF Freed, NewQuery, Report
<1> HIDE DEF f
<1>3. SlotOk(f) /\ f.st # "active"
  <2>1. FreedAs(f, r, "done", status)
    BY <1>2, Zenon DEF FreedAs
  <2> QED
    BY <2>1, FreedOk, Zenon
<1>4. Slots(dnQ') /\ Elsewhere(dnQ, dnQ', q) /\ dnQ'[q].st # "active"
  <2>1. Slots(dnQ)
    BY Zenon DEF Kept
  <2> QED
    BY <1>1, <1>3, <2>1, SlotUpdate, Zenon
<1>5. Queue(dnList', dnQ')
  <2>1. Queue(dnList, dnQ)
    BY Zenon DEF Kept
  <2> QED
    BY <1>1, <1>4, <2>1, QueueUnlink, Zenon
<1> QED
  BY <1>4, <1>5, Zenon DEF Kept

LEMMA SendThis ==
    ASSUME NEW q \in Queries, NEW r, NEW s, Kept(dnQ, dnList), dnQ[q].st = "active",
           Active(r), dns_send_this(q, r, s)
    PROVE  Kept(dnQ', dnList')
<1> DEFINE w == [r EXCEPT !.servwait = @ \cup {s}]
           f == dns_find_serv(w)
           deadline == IF f.servi < NServ THEN 1 ELSE BaseTimeout * 2 ^ r.try
<1>1. \/ dns_end_query(q, r, "TEMPFAIL")
      \/ /\ dnQ' = [dnQ EXCEPT ![q] = [f EXCEPT !.deadline = deadline]]
         /\ dnList' = Insert(Unlinked(dnList, q), q, deadline)
  BY Zenon DEF dns_send_this
<1>2. CASE dns_end_query(q, r, "TEMPFAIL")
  <2>1. Report(r, "TEMPFAIL")
    BY ActiveFacts, Zenon DEF Report
  <2> QED
    BY <1>2, <2>1, EndQuery, Zenon
<1>3. CASE /\ dnQ' = [dnQ EXCEPT ![q] = [f EXCEPT !.deadline = deadline]]
           /\ dnList' = Insert(Unlinked(dnList, q), q, deadline)
  <2>1. Active(w)
    <3> DEFINE x == r.servwait \cup {s}
    <3>1. w = [r EXCEPT !.servwait = x]
      BY Zenon
    <3> HIDE DEF w, x
    <3>2. Alike(r, [r EXCEPT !.servwait = x])
      BY ServerFieldsAlike, Zenon
    <3> QED
      BY <3>1, <3>2, AlikeActive, Zenon
  <2> HIDE DEF w
  <2>2. Active(f)
    BY <2>1, FindServ, Zenon
  <2> HIDE DEF f
  <2>3. deadline \in Int /\ deadline >= Submitted
    <3>1. r.try \in 0..(NTries - 1)
      BY ActiveFacts, Zenon
    <3>2. BaseTimeout * 2 ^ r.try \in Nat
      BY <3>1, UdnsAssumption, Zenon
    <3> DEFINE b == BaseTimeout * 2 ^ r.try
    <3> HIDE DEF b
    <3>3. b \in Nat
      BY <3>2, Zenon DEF b
    <3>4. deadline = 1 \/ deadline = b
      BY Zenon DEF b
    <3> HIDE DEF deadline
    <3> QED
      BY <3>3, <3>4 DEF Submitted
  <2> HIDE DEF deadline
  <2> DEFINE g == [f EXCEPT !.deadline = deadline]
  <2>4. Active(g) /\ g.deadline = deadline /\ g.st = "active"
    BY <2>2, <2>3, OtherDeadline, Zenon
  <2>5. dnQ' = [dnQ EXCEPT ![q] = g] /\ dnList' = Insert(Unlinked(dnList, q), q, deadline)
    BY <1>3, Zenon
  <2> HIDE DEF g
  <2>6. SlotOk(g)
    BY <2>4, Zenon DEF Active, SlotOk
  <2>7. Slots(dnQ) /\ Queue(dnList, dnQ) /\ Dated(dnQ)
    BY SlotFacts, Zenon DEF Kept
  <2>8. Slots(dnQ') /\ Elsewhere(dnQ, dnQ', q) /\ dnQ'[q] = g
    BY <2>5, <2>6, <2>7, SlotUpdate, Zenon
  <2>9. dnQ'[q].st = "active" /\ dnQ'[q].deadline = deadline
    BY <2>4, <2>8, Zenon
  <2>10. Queue(dnList', dnQ')
    BY <2>3, <2>5, <2>7, <2>8, <2>9, QueueMove, Zenon
  <2> QED
    BY <2>8, <2>10, Zenon DEF Kept
<1> QED
  BY <1>1, <1>2, <1>3, Zenon

LEMMA Send ==
    ASSUME NEW q \in Queries, NEW r, Kept(dnQ, dnList), dnQ[q].st = "active",
           Active(r), dns_send(q, r)
    PROVE  Kept(dnQ', dnList')
<1> DEFINE f == dns_find_serv(r)
           h == [f EXCEPT !.servi = 0, !.try = @ + 1]
           g == dns_find_serv(h)
           On(x) == dns_send_this(q, [x EXCEPT !.servi = @ + 1], x.servi)
<1>1. IF f.servi < NServ THEN On(f)
      ELSE IF g.try >= NTries \/ g.servi >= NServ
      THEN dns_end_query(q, g, "TEMPFAIL")
      ELSE On(g)
  BY Zenon DEF dns_send
<1>2. ASSUME NEW x, Active(x), On(x) PROVE Kept(dnQ', dnList')
  <2> DEFINE i == x.servi + 1
             y == [x EXCEPT !.servi = i]
  <2>1. y = [x EXCEPT !.servi = @ + 1]
    BY Zenon
  <2>2. dns_send_this(q, y, x.servi)
    BY <1>2, <2>1, Zenon
  <2> HIDE DEF i
  <2>3. Alike(x, y)
    BY <1>2, ServerFieldsAlike, Zenon
  <2> HIDE DEF y
  <2>4. Active(y)
    BY <1>2, <2>3, AlikeActive, Zenon
  <2> QED
    BY <2>2, <2>4, SendThis, Zenon
<1>3. Active(f)
  BY FindServ, Zenon
<1> HIDE DEF f
<1>4. h.ended = 0 /\ h.try \in Int /\ (h.try < NTries => Active(h)) /\ h.denied = f.denied
  <2>1. h.denied = f.denied
    BY <1>3, Zenon DEF Active, IsQuerySlot
  <2> QED
    BY <1>3, <2>1, NextRound, Zenon
<1>5. g.ended = h.ended /\ g.try = h.try
  <2>1. DOMAIN h = DOMAIN f
    BY Zenon
  <2>2. DOMAIN h = {"st", "status", "ended", "id", "dn", "try", "servi", "servwait",
                    "servskip", "servnEDNS0", "deadline", "nxtsrch", "asis", "nodata",
                    "denied"}
    BY <1>3, <2>1, Zenon DEF Active, IsQuerySlot
  <2> HIDE DEF h
  <2> QED
    BY <2>2, Zenon DEF dns_find_serv
<1> HIDE DEF h
<1>6. h.try < NTries => Active(g)
  BY <1>4, FindServ, Zenon
<1> HIDE DEF g
<1>7. CASE f.servi < NServ
  <2>1. On(f)
    BY <1>1, <1>7, Zenon
  <2> QED
    BY <1>2, <1>3, <2>1, Zenon
<1>8. CASE ~(f.servi < NServ) /\ (g.try >= NTries \/ g.servi >= NServ)
  <2>1. dns_end_query(q, g, "TEMPFAIL")
    BY <1>1, <1>8, Zenon
  <2>2. Report(g, "TEMPFAIL")
    <3>1. g.ended = 0
      BY <1>4, <1>5, Zenon
    <3> QED
      BY <3>1, Zenon DEF Report
  <2> QED
    BY <2>1, <2>2, EndQuery, Zenon
<1>9. CASE ~(f.servi < NServ) /\ ~(g.try >= NTries \/ g.servi >= NServ)
  <2>1. On(g)
    BY <1>1, <1>9, Zenon
  <2>2. ~(g.try >= NTries)
    BY <1>9, Zenon
  <2>3. h.try < NTries
    <3>1. NTries \in Int /\ h.try \in Int
      BY <1>4, UdnsAssumption
    <3> QED
      BY <1>5, <2>2, <3>1
  <2>4. Active(g)
    BY <1>6, <2>3, Zenon
  <2> QED
    BY <1>2, <2>1, <2>4, Zenon
<1> QED
  BY <1>7, <1>8, <1>9, Zenon

LEMMA UnexpectedKeeps ==
    ASSUME NEW q \in Queries, NEW r, NEW s, Kept(dnQ, dnList), dnQ[q].st = "active",
           Active(r), r.deadline = dnQ[q].deadline, Unexpected(q, r, s)
    PROVE  Kept(dnQ', dnList')
<1> DEFINE x == r.servskip \cup {s}
           u == [r EXCEPT !.servskip = x]
<1>1. u = [r EXCEPT !.servskip = @ \cup {s}]
  BY Zenon
<1>2. \/ dns_send(q, u)
      \/ dnQ' = [dnQ EXCEPT ![q] = u] /\ dnList' = dnList
  BY <1>1, Zenon DEF Unexpected
<1> HIDE DEF x
<1>3. Alike(r, u)
  BY ServerFieldsAlike, Zenon
<1> HIDE DEF u
<1>4. Active(u) /\ u.st = "active" /\ u.deadline = dnQ[q].deadline
  BY <1>3, AlikeActive, Zenon DEF Alike, Active
<1>5. CASE dns_send(q, u)
  BY <1>4, <1>5, Send, Zenon
<1>6. CASE dnQ' = [dnQ EXCEPT ![q] = u] /\ dnList' = dnList
  <2>1. Slots(dnQ) /\ Queue(dnList, dnQ) /\ SlotOk(u)
    BY <1>4, Zenon DEF Kept, Active, SlotOk
  <2>2. Slots(dnQ') /\ Elsewhere(dnQ, dnQ', q) /\ dnQ'[q] = u
    BY <1>6, <2>1, SlotUpdate, Zenon
  <2>3. \A y \in Queries : dnQ'[y].st = dnQ[y].st /\ dnQ'[y].deadline = dnQ[y].deadline
    BY <1>4, <2>2, Zenon DEF Elsewhere
  <2>4. Queue(dnList, dnQ')
    <3>1. \A y \in Queries : dnQ'[y].st = dnQ[y].st
      BY <2>3, Zenon
    <3>2. \A y, z \in Queries : dnQ[y].deadline <= dnQ[z].deadline
                                  => dnQ'[y].deadline <= dnQ'[z].deadline
      BY <2>3, Zenon
    <3> QED
      BY <2>1, <3>1, <3>2, QueueSame, Zenon
  <2> QED
    BY <1>6, <2>2, <2>4, Zenon DEF Kept
<1> QED
  BY <1>2, <1>5, <1>6, Zenon

(* The name that was asked for is denied. *)
LEMMA Denied ==
    ASSUME NEW r, Active(r)
    PROVE  LET d == [r EXCEPT !.denied = @ \cup {r.dn}]
           IN  /\ IsQuerySlot(d) /\ EndedOk(d) /\ d.st = "active" /\ d.asis = r.asis
               /\ d.nodata = r.nodata /\ d.nxtsrch = r.nxtsrch
               /\ NextNames(d) = NextNames(r) /\ d.denied = r.denied \cup {r.dn}
               /\ d.ended = 0
<1> DEFINE d == [r EXCEPT !.denied = @ \cup {r.dn}]
<1>1. /\ DOMAIN d = DOMAIN r /\ d.st = r.st /\ d.status = r.status /\ d.ended = r.ended
      /\ d.dn = r.dn /\ d.try = r.try /\ d.deadline = r.deadline
      /\ d.nxtsrch = r.nxtsrch /\ d.asis = r.asis /\ d.nodata = r.nodata
      /\ d.denied = r.denied \cup {r.dn}
  BY Zenon DEF Active, IsQuerySlot
<1> HIDE DEF d
<1>2. IsQuerySlot(d)
  BY <1>1, Zenon DEF Active, IsQuerySlot
<1>3. d.ended = 0 /\ d.status = "none" /\ d.st = "active"
  BY <1>1, ActiveFacts, Zenon
<1>4. EndedOk(d)
  BY <1>3, Zenon DEF EndedOk
<1>5. NextNames(d) = NextNames(r)
  BY <1>1, Zenon DEF NextNames
<1> QED
  BY <1>1, <1>2, <1>3, <1>4, <1>5, Zenon DEF d

(* Another name of the search has data. *)
LEMMA MarkedNodata ==
    ASSUME NEW r, NEW id, Active(r), NextNames(r) # {}
    PROVE  Active([dns_next_srch(r, id) EXCEPT !.nodata = TRUE])
<1> DEFINE m == [r EXCEPT !.nodata = TRUE]
           f == [dns_next_srch(r, id) EXCEPT !.nodata = TRUE]
           h == dns_next_srch(m, id)
           i == Least(NextNames(r))
<1>1. /\ DOMAIN m = DOMAIN r /\ m.st = r.st /\ m.status = r.status /\ m.ended = r.ended
      /\ m.dn = r.dn /\ m.deadline = r.deadline /\ m.nxtsrch = r.nxtsrch
      /\ m.asis = r.asis /\ m.nodata = TRUE /\ m.denied = r.denied
  BY Zenon DEF Active, IsQuerySlot
<1>2. NextNames(m) = NextNames(r)
  BY <1>1, Zenon DEF NextNames
<1>3. Active(h)
  <2> HIDE DEF m
  <2>1. IsQuerySlot(m)
    BY <1>1, Zenon DEF Active, IsQuerySlot
  <2>2. EndedOk(m) /\ m.st = "active"
    BY <1>1, Zenon DEF Active, EndedOk
  <2>3. m.asis \in BOOLEAN /\ m.nodata \in BOOLEAN /\ m.nxtsrch \in 1..(NSrch + 2)
    BY <1>1, Zenon DEF Active, Searching
  <2>4. m.nodata \/ m.denied = Asked(m)
    BY <1>1, Zenon
  <2> QED
    BY <1>2, <2>1, <2>2, <2>3, <2>4, NextSearch, Zenon
<1>4. h = dns_newid([m EXCEPT !.nxtsrch = i + 1, !.asis = @ \/ i = NSrch + 1,
                              !.dn = IF i = NSrch + 1 THEN 0 ELSE i], id)
  <2> HIDE DEF m, i
  <2>1. i = Least(NextNames(m))
    BY <1>2, Zenon DEF i
  <2> QED
    BY <2>1, Zenon DEF dns_next_srch
<1>5. f = [dns_newid([r EXCEPT !.nxtsrch = i + 1, !.asis = @ \/ i = NSrch + 1,
                              !.dn = IF i = NSrch + 1 THEN 0 ELSE i], id) EXCEPT !.nodata = TRUE]
  BY Zenon DEF dns_next_srch
<1> HIDE DEF h, f, i
<1>6. Alike(h, f)
  BY <1>4, <1>5, ZenonT(30) DEF Alike, dns_newid, Active, IsQuerySlot
<1> QED
  BY <1>3, <1>6, AlikeActive, Zenon DEF f

LEMMA ReplyKeeps ==
    ASSUME NEW q \in Queries, NEW s, NEW id, Kept(dnQ, dnList), dnQ[q].st = "active",
           NEW rcode \in {"data", "nodata", "nxdomain", "formerr", "servfail"},
           Reply(q, s, rcode, id)
    PROVE  Kept(dnQ', dnList')
<1> DEFINE w == dnQ[q].servwait \ {s}
           r == [dnQ[q] EXCEPT !.servwait = w]
           more == NextNames(r) # {}
           d == [r EXCEPT !.denied = @ \cup {r.dn}]
           e == [r EXCEPT !.servnEDNS0 = @ \cup {s}]
<1>1. r = [dnQ[q] EXCEPT !.servwait = @ \ {s}]
  BY Zenon
<1>2. /\ rcode = "data" => dns_end_query(q, r, "OK")
      /\ rcode = "nodata" =>
           IF more THEN dns_send(q, [dns_next_srch(r, id) EXCEPT !.nodata = TRUE])
           ELSE dns_end_query(q, r, "NODATA")
      /\ rcode = "nxdomain" =>
           IF more THEN dns_send(q, dns_next_srch(d, id))
           ELSE dns_end_query(q, d, IF r.nodata THEN "NODATA" ELSE "NXDOMAIN")
      /\ rcode = "formerr" => dns_send_this(q, e, s) \/ Unexpected(q, r, s)
      /\ rcode = "servfail" => Unexpected(q, r, s)
  <2> HIDE DEF r
  <2>1. rcode = "data" => dns_end_query(q, r, "OK")
    BY <1>1, Zenon DEF Reply
  <2>2. rcode = "nodata" =>
           IF more THEN dns_send(q, [dns_next_srch(r, id) EXCEPT !.nodata = TRUE])
           ELSE dns_end_query(q, r, "NODATA")
    BY <1>1, Zenon DEF Reply
  <2>3. rcode = "nxdomain" =>
           IF more THEN dns_send(q, dns_next_srch(d, id))
           ELSE dns_end_query(q, d, IF r.nodata THEN "NODATA" ELSE "NXDOMAIN")
    BY <1>1, Zenon DEF Reply
  <2>4. rcode = "formerr" => dns_send_this(q, e, s) \/ Unexpected(q, r, s)
    BY <1>1, Zenon DEF Reply
  <2>5. rcode = "servfail" => Unexpected(q, r, s)
    BY <1>1, Zenon DEF Reply
  <2> QED
    BY <2>1, <2>2, <2>3, <2>4, <2>5, Zenon
<1>3. Active(dnQ[q])
  BY SlotFacts, Zenon DEF Kept
<1> HIDE DEF w
<1>4. Alike(dnQ[q], r)
  BY <1>3, ServerFieldsAlike, Zenon
<1> HIDE DEF r
<1>5. Active(r) /\ r.deadline = dnQ[q].deadline /\ r.ended = 0
  BY <1>3, <1>4, AlikeActive, ActiveFacts, Zenon DEF Alike
<1>6. CASE rcode = "data"
  <2>1. Report(r, "OK")
    BY <1>5, Zenon DEF Report
  <2> QED
    BY <1>2, <1>6, <2>1, EndQuery, Zenon
<1>7. CASE rcode = "nodata"
  <2>1. CASE more
    <3>1. Active([dns_next_srch(r, id) EXCEPT !.nodata = TRUE])
      BY <1>5, <2>1, MarkedNodata, Zenon
    <3>2. dns_send(q, [dns_next_srch(r, id) EXCEPT !.nodata = TRUE])
      BY <1>2, <1>7, <2>1, Zenon
    <3> QED
      BY <3>1, <3>2, Send, Zenon
  <2>2. CASE ~more
    <3>1. Report(r, "NODATA")
      BY <1>5, Zenon DEF Report
    <3>2. dns_end_query(q, r, "NODATA")
      BY <1>2, <1>7, <2>2, Zenon
    <3> QED
      BY <3>1, <3>2, EndQuery, Zenon
  <2> QED
    BY <2>1, <2>2, Zenon
<1>8. CASE rcode = "nxdomain"
  <2>1. /\ IsQuerySlot(d) /\ EndedOk(d) /\ d.st = "active" /\ d.asis = r.asis
        /\ d.nodata = r.nodata /\ d.nxtsrch = r.nxtsrch
        /\ NextNames(d) = NextNames(r) /\ d.denied = r.denied \cup {r.dn}
        /\ d.ended = 0
    BY <1>5, Denied, Zenon
  <2> HIDE DEF d
  <2>2. /\ r.asis \in BOOLEAN /\ r.nodata \in BOOLEAN /\ r.nxtsrch \in 1..(NSrch + 2)
        /\ Searched(r)
    BY <1>5, Zenon DEF Active, Searching
  <2>3. CASE more
    <3>1. d.nodata \/ d.denied = Asked(d)
      <4>1. Asked(d) = {j \in Fitting : j < r.nxtsrch} \cup (IF r.asis THEN {0} ELSE {})
        BY <2>1, Zenon DEF Asked
      <4>2. ~(r.nxtsrch = NSrch + 1 /\ r.asis)
        <5> SUFFICES ASSUME r.nxtsrch = NSrch + 1, r.asis PROVE FALSE
          BY Zenon
        <5>1. NSrch \in Nat
          BY UdnsAssumption, Zenon
        <5>2. PICK i \in NextNames(r) : TRUE
          BY <2>3, Zenon
        <5>3. /\ i \in (NSrch + 1)..(NSrch + 1)
              /\ IF i = NSrch + 1 THEN ~r.asis ELSE i \in Fitting
          BY <5>2, Zenon DEF NextNames
        <5>4. i = NSrch + 1
          BY <5>1, <5>3, SMTT(30)
        <5> QED
          BY <5>3, <5>4, Zenon
      <4> QED
        BY <2>1, <2>2, <4>1, <4>2, Zenon DEF Searched
    <3>2. NextNames(d) # {} /\ d.asis \in BOOLEAN /\ d.nodata \in BOOLEAN
          /\ d.nxtsrch \in 1..(NSrch + 2)
      BY <2>1, <2>2, <2>3, Zenon
    <3>3. Active(dns_next_srch(d, id))
      BY <2>1, <3>1, <3>2, NextSearch, Zenon
    <3>4. dns_send(q, dns_next_srch(d, id))
      BY <1>2, <1>8, <2>3, Zenon
    <3> QED
      BY <3>3, <3>4, Send, Zenon
  <2>4. CASE ~more
    <3> DEFINE status == IF r.nodata THEN "NODATA" ELSE "NXDOMAIN"
    <3>1. dns_end_query(q, d, status)
      BY <1>2, <1>8, <2>4, Zenon
    <3>2. Report(d, status)
      <4>1. CASE r.nodata
        <5>1. status = "NODATA"
          BY <4>1, Zenon
        <5> QED
          BY <2>1, <5>1, Zenon DEF Report
      <4>2. CASE ~r.nodata
        <5>1. \/ r.denied \cup {r.dn} = Fitting \cup {0}
              \/ r.denied \cup {r.dn} = {0}
          BY <1>5, <2>4, <4>2, AllDenied, Zenon
        <5> HIDE DEF status
        <5> QED
          BY <2>1, <5>1, Zenon DEF Report
      <4> QED
        BY <4>1, <4>2, Zenon
    <3> HIDE DEF status
    <3> QED
      BY <3>1, <3>2, EndQuery, Zenon
  <2> QED
    BY <2>3, <2>4, Zenon
<1>9. CASE rcode = "formerr"
  <2>1. CASE dns_send_this(q, e, s)
    <3> DEFINE x == r.servnEDNS0 \cup {s}
    <3>1. e = [r EXCEPT !.servnEDNS0 = x]
      BY Zenon
    <3> HIDE DEF x, e
    <3>2. Alike(r, [r EXCEPT !.servnEDNS0 = x])
      BY <1>5, ServerFieldsAlike, Zenon
    <3>3. Active(e)
      BY <1>5, <3>1, <3>2, AlikeActive, Zenon
    <3> QED
      BY <2>1, <3>3, SendThis, Zenon
  <2>2. CASE Unexpected(q, r, s)
    BY <1>5, <2>2, UnexpectedKeeps, Zenon
  <2> QED
    BY <1>2, <1>9, <2>1, <2>2, Zenon
<1>10. CASE rcode = "servfail"
  BY <1>2, <1>5, <1>10, UnexpectedKeeps, Zenon
<1> QED
  BY <1>6, <1>7, <1>8, <1>9, <1>10, Zenon

-----------------------------------------------------------------------------
(* The steps of the resolver. *)

LEMMA HeadDated ==
    ASSUME NEW qs, NEW list, Kept(qs, list), list # <<>>
    PROVE  list[1] \in Queries /\ qs[list[1]].deadline \in Int
<1>1. list \in Seq(Queries)
  BY Zenon DEF Kept, Queue
<1>2. 1 \in 1..Len(list)
  BY <1>1
<1>3. list[1] \in Queries
  BY <1>1, <1>2, ElementOfQueue, Zenon
<1>4. Dated(qs)
  BY SlotFacts, Zenon DEF Kept
<1> QED
  BY <1>3, <1>4, Zenon DEF Dated

(* A call that ends with dns_request_utm, and one that leaves the timer. *)
LEMMA CallEnds ==
    ASSUME AlarmSet(dnUtmexp, dnTimer, dnLoop), Kept(dnQ', dnList'),
           dns_request_utm(dnQ', dnList', FALSE), UNCHANGED dnLoop
    PROVE  UdnsInv'
<1>1. dnList' # <<>> => dnQ'[dnList'[1]].deadline \in Int
  BY HeadDated, Zenon
<1>2. AlarmSet(dnUtmexp', dnTimer', dnLoop) /\ AlarmDue(dnUtmexp', dnList', dnQ')
  <2>1. FALSE \in BOOLEAN
    BY Zenon
  <2> QED
    BY <1>1, <2>1, RequestUtm, Zenon
<1> QED
  BY <1>2, Zenon DEF UdnsInv, Kept

(* A search begins with its first name. *)
LEMMA SearchFirst ==
    ASSUME NEW id
    PROVE  LET s == dns_next_srch([[NewQuery EXCEPT !.st = "active"] EXCEPT !.nxtsrch = 1], id)
           IN  Active(s) /\ s.deadline = Submitted
<1> DEFINE t == [[NewQuery EXCEPT !.st = "active"] EXCEPT !.nxtsrch = 1]
<1>1. NSrch \in Nat
  BY UdnsAssumption, Zenon
<1>2. /\ DOMAIN t = DOMAIN NewQuery /\ t.st = "active" /\ t.status = "none"
      /\ t.ended = 0 /\ t.deadline = Submitted
      /\ t.nxtsrch = 1 /\ t.asis = FALSE /\ t.nodata = FALSE /\ t.denied = {}
  BY Zenon DEF NewQuery
<1> HIDE DEF t
<1>3. IsQuerySlot(t)
  <2>1. DOMAIN t = {"st", "status", "ended", "id", "dn", "try", "servi", "servwait",
                    "servskip", "servnEDNS0", "deadline", "nxtsrch", "asis", "nodata",
                    "denied"}
    BY <1>2, Zenon DEF NewQuery
  <2>2. t.deadline \in Int /\ t.deadline >= Submitted
    BY <1>2 DEF Submitted
  <2> QED
    BY <1>2, <2>1, <2>2, Zenon DEF IsQuerySlot
<1>4. EndedOk(t)
  BY <1>2, Zenon DEF EndedOk
<1>5. NextNames(t) # {} /\ t.denied = Asked(t)
  BY <1>2, FirstNames, Zenon
<1>6. t.nxtsrch \in 1..(NSrch + 2)
  BY <1>1, <1>2
<1>7. t.asis \in BOOLEAN /\ t.nodata \in BOOLEAN
  BY <1>2, Zenon
<1>8. t.st = "active" /\ (t.nodata \/ t.denied = Asked(t))
  BY <1>2, <1>5, Zenon
<1>9. Active(dns_next_srch(t, id)) /\ dns_next_srch(t, id).deadline = t.deadline
  BY <1>3, <1>4, <1>5, <1>6, <1>7, <1>8, NextSearch, Zenon
<1> QED
  BY <1>2, <1>9, Zenon DEF t

LEMMA FirstQuery ==
    ASSUME NEW id, NEW how \in {"asis", "nosrch", "search"}, NEW r, NEW s,
           r = [NewQuery EXCEPT !.st = "active"],
           s = CASE how = "asis" -> dns_newid([r EXCEPT !.nxtsrch = 1, !.asis = TRUE], id)
                 [] how = "nosrch" ->
                      dns_newid([r EXCEPT !.nxtsrch = NSrch + 1, !.asis = TRUE], id)
                 [] how = "search" -> dns_next_srch([r EXCEPT !.nxtsrch = 1], id)
    PROVE  Active(s) /\ s.deadline = Submitted
<1>1. NSrch \in Nat /\ Fitting \subseteq 1..NSrch /\ NTries \in Nat \ {0}
  BY UdnsAssumption, Zenon
<1>2. ASSUME NEW n \in {1, NSrch + 1}, s = dns_newid([r EXCEPT !.nxtsrch = n, !.asis = TRUE], id)
      PROVE  Active(s) /\ s.deadline = Submitted
  <2>1. /\ DOMAIN s = DOMAIN NewQuery /\ s.st = "active" /\ s.status = "none"
        /\ s.ended = 0 /\ s.dn = 0 /\ s.try = 0 /\ s.deadline = Submitted
        /\ s.nxtsrch = n /\ s.asis = TRUE /\ s.nodata = FALSE /\ s.denied = {}
    BY <1>2, ZenonT(30) DEF dns_newid, NewQuery
  <2>2. IsQuerySlot(s)
    <3>1. DOMAIN s = {"st", "status", "ended", "id", "dn", "try", "servi", "servwait",
                      "servskip", "servnEDNS0", "deadline", "nxtsrch", "asis", "nodata",
                      "denied"}
      BY <2>1 DEF NewQuery
    <3>2. s.deadline \in Int /\ s.deadline >= Submitted
      BY <2>1 DEF Submitted
    <3> QED
      BY <2>1, <3>1, <3>2, Zenon DEF IsQuerySlot
  <2>3. EndedOk(s)
    BY <2>1, Zenon DEF EndedOk
  <2>4. Searched(s)
    <3>1. s.denied \cup {s.dn} = {0}
      BY <2>1, Zenon
    <3>2. CASE n = NSrch + 1
      BY <2>1, <3>1, <3>2, Zenon DEF Searched
    <3>3. CASE n = 1
      <4>1. {j \in Fitting : j < s.nxtsrch} = {}
        BY <1>1, <2>1, <3>3, SMTT(30)
      <4>2. s.asis
        BY <2>1, Zenon
      <4>3. s.denied \cup {s.dn} =
              {j \in Fitting : j < s.nxtsrch} \cup (IF s.asis THEN {0} ELSE {})
        BY <3>1, <4>1, <4>2, Zenon
      <4> QED
        BY <4>2, <4>3, Zenon DEF Searched
    <3> QED
      BY <1>2, <3>2, <3>3, Zenon
  <2>5. s.try \in 0..(NTries - 1) /\ s.nxtsrch \in 1..(NSrch + 2)
    BY <1>1, <1>2, <2>1, SMTT(30)
  <2>6. s.asis \in BOOLEAN /\ s.nodata \in BOOLEAN
    BY <2>1, Zenon
  <2> QED
    BY <2>1, <2>2, <2>3, <2>4, <2>5, <2>6, Zenon DEF Active, Searching
<1>3. CASE how = "asis"
  <2>1. s = dns_newid([r EXCEPT !.nxtsrch = 1, !.asis = TRUE], id)
    BY <1>3, Zenon
  <2>2. 1 \in {1, NSrch + 1}
    BY Zenon
  <2> QED
    BY <1>2, <2>1, <2>2, Zenon
<1>4. CASE how = "nosrch"
  <2>1. s = dns_newid([r EXCEPT !.nxtsrch = NSrch + 1, !.asis = TRUE], id)
    BY <1>4, Zenon
  <2>2. NSrch + 1 \in {1, NSrch + 1}
    BY Zenon
  <2> QED
    BY <1>2, <2>1, <2>2, Zenon
<1>5. CASE how = "search"
  <2>1. s = dns_next_srch([r EXCEPT !.nxtsrch = 1], id)
    BY <1>5, Zenon
  <2>2. [r EXCEPT !.nxtsrch = 1] = [[NewQuery EXCEPT !.st = "active"] EXCEPT !.nxtsrch = 1]
    BY Zenon
  <2> QED
    BY <2>1, <2>2, SearchFirst, Zenon
<1> QED
  BY <1>3, <1>4, <1>5, Zenon

LEMMA SubmitKeeps ==
    ASSUME UdnsInv, NEW q \in Queries, dns_submit_dn(q)
    PROVE  UdnsInv'
<1> DEFINE r == [NewQuery EXCEPT !.st = "active"]
           s(how, id) ==
             CASE how = "asis" -> dns_newid([r EXCEPT !.nxtsrch = 1, !.asis = TRUE], id)
               [] how = "nosrch" ->
                    dns_newid([r EXCEPT !.nxtsrch = NSrch + 1, !.asis = TRUE], id)
               [] how = "search" -> dns_next_srch([r EXCEPT !.nxtsrch = 1], id)
<1>1. PICK id \in Ids, how \in {"asis", "nosrch", "search"} :
        /\ dnQ' = [dnQ EXCEPT ![q] = s(how, id)]
        /\ dnList' = <<q>> \o dnList
        /\ dns_request_utm(dnQ', dnList', FALSE)
  BY Zenon DEF dns_submit_dn
<1>2. dnQ[q].st = "new" /\ dnLoop' = dnLoop
  BY Zenon DEF dns_submit_dn
<1> DEFINE t == s(how, id)
<1>3. Active(t) /\ t.deadline = Submitted
  BY FirstQuery, Zenon
<1>4. dnQ' = [dnQ EXCEPT ![q] = t]
  BY <1>1, Zenon
<1> HIDE DEF t
<1>5. Slots(dnQ) /\ Queue(dnList, dnQ) /\ SlotOk(t)
  BY <1>3, Zenon DEF UdnsInv, Active, SlotOk
<1>6. Slots(dnQ') /\ Elsewhere(dnQ, dnQ', q) /\ dnQ'[q] = t
  BY <1>4, <1>5, SlotUpdate, Zenon
<1>7. dnQ[q].st # "active" /\ dnQ'[q].st = "active"
  BY <1>2, <1>3, <1>6, Zenon DEF Active
<1>8. \A x \in Queries : dnQ'[q].deadline <= dnQ'[x].deadline
  <2> TAKE x \in Queries
  <2>1. dnQ'[x].deadline >= Submitted /\ dnQ'[x].deadline \in Int
    BY <1>6, SlotFacts, Zenon DEF Dated
  <2>2. dnQ'[q].deadline = Submitted
    BY <1>3, <1>6, Zenon
  <2> QED
    BY <2>1, <2>2, Zenon DEF Submitted
<1>9. Queue(<<q>> \o dnList, dnQ')
  BY <1>5, <1>6, <1>7, <1>8, QueueAdd, Zenon
<1>10. Kept(dnQ', dnList')
  BY <1>1, <1>6, <1>9, Zenon DEF Kept
<1> QED
  BY <1>1, <1>2, <1>10, CallEnds, Zenon DEF UdnsInv

(* A query is freed by dns_cancel or by dns_close. *)
LEMMA CancelledOk ==
    ASSUME NEW r, Active(r)
    PROVE  SlotOk(Freed(r, "cancelled")) /\ Freed(r, "cancelled").st # "active"
<1> DEFINE f == Freed(r, "cancelled")
<1>1. /\ DOMAIN f = DOMAIN NewQuery /\ f.st = "cancelled" /\ f.status = "none"
      /\ f.ended = r.ended /\ f.deadline = Submitted /\ f.denied = r.denied
  BY Zenon DEF Freed, NewQuery
<1> HIDE DEF f
<1>2. r.ended = 0
  BY ActiveFacts, Zenon
<1>3. FreedAs(f, r, "cancelled", "none")
  BY <1>1, <1>2, Zenon DEF FreedAs
<1>4. Report(r, "none")
  BY <1>2, Zenon DEF Report
<1> QED
  BY <1>3, <1>4, FreedOk, Zenon DEF f

LEMMA CancelKeeps ==
    ASSUME UdnsInv, NEW q \in Queries, dns_cancel(q)
    PROVE  UdnsInv'
<1> DEFINE f == Freed(dnQ[q], "cancelled")
<1>1. /\ dnQ[q].st = "active" /\ dnQ' = [dnQ EXCEPT ![q] = f]
      /\ dnList' = Unlinked(dnList, q) /\ dns_request_utm(dnQ', dnList', FALSE)
      /\ dnLoop' = dnLoop
  BY Zenon DEF dns_cancel
<1>2. Slots(dnQ) /\ Queue(dnList, dnQ)
  BY Zenon DEF UdnsInv
<1>3. SlotOk(f) /\ f.st # "active"
  BY <1>1, <1>2, SlotFacts, CancelledOk, Zenon
<1> HIDE DEF f
<1>4. Slots(dnQ') /\ Elsewhere(dnQ, dnQ', q) /\ dnQ'[q] = f
  BY <1>1, <1>2, <1>3, SlotUpdate, Zenon
<1>5. dnQ'[q].st # "active"
  BY <1>3, <1>4, Zenon
<1>6. Queue(dnList', dnQ')
  BY <1>1, <1>2, <1>4, <1>5, QueueUnlink, Zenon
<1>7. Kept(dnQ', dnList')
  BY <1>4, <1>6, Zenon DEF Kept
<1> QED
  BY <1>1, <1>7, CallEnds, Zenon DEF UdnsInv

LEMMA OpenKeeps ==
    ASSUME UdnsInv, dns_open
    PROVE  UdnsInv'
<1>1. /\ dns_request_utm(dnQ, dnList, FALSE) /\ dnQ' = dnQ /\ dnList' = dnList
      /\ dnLoop' = dnLoop
  BY Zenon DEF dns_open
<1>2. Kept(dnQ', dnList')
  BY <1>1, Zenon DEF UdnsInv, Kept
<1>3. dns_request_utm(dnQ', dnList', FALSE)
  BY <1>1, Zenon
<1> QED
  BY <1>1, <1>2, <1>3, CallEnds, Zenon DEF UdnsInv

LEMMA CloseKeeps ==
    ASSUME UdnsInv, dns_close
    PROVE  UdnsInv'
<1>1. /\ dnQ' = [q \in Queries |-> IF dnQ[q].st = "active"
                                   THEN Freed(dnQ[q], "cancelled") ELSE dnQ[q]]
      /\ dnList' = <<>> /\ dnUtmexp' = NoTimer /\ dnTimer' = Off
      /\ dnLoop' = dnLoop
  BY Zenon DEF dns_close
<1>2. DOMAIN dnQ' = Queries
  BY <1>1, Zenon
<1>3. ASSUME NEW q \in Queries PROVE SlotOk(dnQ'[q]) /\ dnQ'[q].st # "active"
  <2>1. CASE dnQ[q].st = "active"
    <3>1. dnQ'[q] = Freed(dnQ[q], "cancelled")
      BY <1>1, <2>1, Zenon
    <3>2. Active(dnQ[q])
      BY <2>1, SlotFacts, Zenon DEF UdnsInv
    <3> QED
      BY <3>1, <3>2, CancelledOk, Zenon
  <2>2. CASE dnQ[q].st # "active"
    <3>1. dnQ'[q] = dnQ[q]
      BY <1>1, <2>2, Zenon
    <3> QED
      BY <2>2, <3>1, Zenon DEF UdnsInv, Slots
  <2> QED
    BY <2>1, <2>2, Zenon
<1>4. Slots(dnQ')
  BY <1>2, <1>3, Zenon DEF Slots
<1>5. Queue(dnList', dnQ')
  BY <1>1, <1>3, QueueEmpty, Zenon
<1>6. AlarmSet(dnUtmexp', dnTimer', dnLoop') /\ AlarmDue(dnUtmexp', dnList', dnQ')
  BY <1>1 DEF AlarmSet, AlarmDue, NoTimer, Off
<1> QED
  BY <1>4, <1>5, <1>6, Zenon DEF UdnsInv

LEMMA TimerFires ==
    ASSUME UdnsInv, resolv_timeout_cb
    PROVE  UdnsInv'
<1>1. /\ dnLoop = "idle" /\ dnTimer = 0 /\ dnTimer' = Off /\ dnQ' = dnQ
      /\ dnList' = dnList /\ dnUtmexp' = dnUtmexp
      /\ dnLoop' = IF dnList = <<>> THEN "idle" ELSE "timeouts"
  BY Zenon DEF resolv_timeout_cb
<1>2. AlarmSet(dnUtmexp, dnTimer, dnLoop) /\ AlarmDue(dnUtmexp, dnList, dnQ)
  BY <1>1, Zenon DEF UdnsInv
<1>3. dnUtmexp # NoTimer /\ ~(dnUtmexp > 0) /\ dnUtmexp \in Int /\ dnUtmexp >= NoTimer
  BY <1>1, <1>2 DEF AlarmSet, Off
<1>4. dnList # <<>>
  BY <1>2, <1>3, Zenon DEF AlarmDue
<1>5. dnLoop' = "timeouts"
  BY <1>1, <1>4, Zenon
<1>6. AlarmSet(dnUtmexp', dnTimer', dnLoop')
  BY <1>1, <1>3, <1>5 DEF AlarmSet, Off
<1>7. Slots(dnQ') /\ Queue(dnList', dnQ')
  BY <1>1, Zenon DEF UdnsInv
<1>8. dnLoop' # "idle"
  BY <1>5, Zenon
<1> QED
  BY <1>6, <1>7, <1>8, Zenon DEF UdnsInv

LEMMA TimeoutsKeep ==
    ASSUME UdnsInv, dns_timeouts
    PROVE  UdnsInv'
<1>1. dnLoop = "timeouts" /\ Kept(dnQ, dnList) /\ AlarmSet(dnUtmexp, dnTimer, dnLoop)
  BY Zenon DEF dns_timeouts, UdnsInv, Kept
<1>2. CASE dnList # <<>> /\ dnQ[dnList[1]].deadline <= 0
  <2>1. dns_send(dnList[1], dnQ[dnList[1]]) /\ UNCHANGED <<dnUtmexp, dnTimer, dnLoop>>
    BY <1>2, Zenon DEF dns_timeouts
  <2>2. 1 \in DOMAIN dnList
    BY <1>1, <1>2, FirstListed, Zenon
  <2>3. /\ dnList[1] \in Queries /\ dnQ[dnList[1]].st = "active"
        /\ Active(dnQ[dnList[1]])
    BY <1>1, <2>2, ListedActive, Zenon
  <2>4. Kept(dnQ', dnList')
    BY <1>1, <2>1, <2>3, Send, Zenon
  <2>5. dnLoop # "idle"
    BY <1>1, Zenon
  <2> QED
    BY <1>1, <2>1, <2>4, <2>5, Zenon DEF UdnsInv, Kept
<1>3. CASE ~(dnList # <<>> /\ dnQ[dnList[1]].deadline <= 0)
  <2>1. /\ dns_request_utm(dnQ, dnList, TRUE) /\ dnLoop' = "idle"
        /\ dnQ' = dnQ /\ dnList' = dnList
    BY <1>3, Zenon DEF dns_timeouts
  <2>2. dnList # <<>> => dnQ[dnList[1]].deadline \in Int
    BY <1>1, HeadDated, Zenon
  <2>3. dnList # <<>> => dnQ[dnList[1]].deadline \in Int /\ dnQ[dnList[1]].deadline > 0
    BY <1>3, <2>2
  <2>4. AlarmSet(dnUtmexp', dnTimer', "idle") /\ AlarmDue(dnUtmexp', dnList, dnQ)
    BY <1>1, <2>1, <2>3, TimeoutsEnd, Zenon
  <2> QED
    BY <1>1, <2>1, <2>4, Zenon DEF UdnsInv, Kept
<1> QED
  BY <1>2, <1>3, Zenon

LEMMA IoEventKeeps ==
    ASSUME UdnsInv, dns_ioevent
    PROVE  UdnsInv'
<1>1. dnLoop = "io" /\ Kept(dnQ, dnList) /\ AlarmSet(dnUtmexp, dnTimer, dnLoop)
  BY Zenon DEF dns_ioevent, UdnsInv, Kept
<1>2. CASE /\ dns_request_utm(dnQ, dnList, TRUE)
           /\ dnLoop' = "idle" /\ UNCHANGED <<dnQ, dnList, dnCb>>
  <2>1. dnList # <<>> => dnQ[dnList[1]].deadline \in Int
    BY <1>1, HeadDated, Zenon
  <2>2. TRUE \in BOOLEAN
    BY Zenon
  <2>3. AlarmSet(dnUtmexp', dnTimer', dnLoop) /\ AlarmDue(dnUtmexp', dnList, dnQ)
    BY <1>1, <1>2, <2>1, <2>2, RequestUtm, Zenon
  <2>4. AlarmSet(dnUtmexp', dnTimer', "idle")
    BY <1>1, <2>3, Zenon DEF AlarmSet
  <2> QED
    BY <1>1, <1>2, <2>3, <2>4, Zenon DEF UdnsInv, Kept
<1>3. CASE \E id \in Ids, of \in Queries, dn \in 0..NSrch, s \in Servers,
             rcode \in {"data", "nodata", "nxdomain", "formerr", "servfail"},
             bare \in BOOLEAN, new \in Ids :
            /\ bare => rcode = "formerr"
            /\ Matching(id) # {}
            /\ LET q == dnList[Least(Matching(id))] IN
                /\ bare \/ (of = q /\ dn = dnQ[q].dn)
                /\ s \in dnQ[q].servwait
                /\ Reply(q, s, rcode, new)
            /\ UNCHANGED <<dnUtmexp, dnTimer, dnLoop>>
  <2>1. PICK id \in Ids, s \in Servers,
             rcode \in {"data", "nodata", "nxdomain", "formerr", "servfail"}, new \in Ids :
            /\ Matching(id) # {}
            /\ Reply(dnList[Least(Matching(id))], s, rcode, new)
            /\ UNCHANGED <<dnUtmexp, dnTimer, dnLoop>>
    BY <1>3, Zenon
  <2> DEFINE i == Least(Matching(id))
  <2>2. i \in DOMAIN dnList
    <3>1. dnList \in Seq(Queries)
      BY <1>1, Zenon DEF Kept, Queue
    <3>2. Matching(id) \subseteq DOMAIN dnList
      BY Zenon DEF Matching
    <3>3. DOMAIN dnList \subseteq Nat
      BY <3>1
    <3>4. Matching(id) \subseteq Nat
      BY <3>2, <3>3, Zenon
    <3> QED
      BY <2>1, <3>2, <3>4, LeastIs, Zenon
  <2> HIDE DEF i
  <2>3. dnList[i] \in Queries /\ dnQ[dnList[i]].st = "active"
    BY <1>1, <2>2, ListedActive, Zenon
  <2>4. Kept(dnQ', dnList')
    BY <1>1, <2>1, <2>3, ReplyKeeps, Zenon DEF i
  <2>5. dnLoop # "idle"
    BY <1>1, Zenon
  <2> QED
    BY <1>1, <2>1, <2>4, <2>5, Zenon DEF UdnsInv, Kept
<1> QED
  BY <1>2, <1>3, Zenon DEF dns_ioevent

LEMMA TickKeeps ==
    ASSUME UdnsInv, Tick
    PROVE  UdnsInv'
<1>1. /\ dnLoop = "idle" /\ dnLoop' = dnLoop /\ dnList' = dnList
      /\ dnQ' = [q \in Queries |-> [dnQ[q] EXCEPT !.deadline = Elapsed(@)]]
      /\ dnUtmexp' = Elapsed(dnUtmexp) /\ dnTimer' = Elapsed(dnTimer)
      /\ \E i \in DOMAIN dnList : dnQ[dnList[i]].deadline > 0
  BY Zenon DEF Tick
<1>2. Slots(dnQ) /\ Queue(dnList, dnQ) /\ Dated(dnQ) /\ Kept(dnQ, dnList)
  BY SlotFacts, Zenon DEF UdnsInv, Kept
<1>3. AlarmSet(dnUtmexp, dnTimer, dnLoop) /\ AlarmDue(dnUtmexp, dnList, dnQ)
  BY <1>1, Zenon DEF UdnsInv
<1>4. \A x, y \in Int : x <= y => Elapsed(x) <= Elapsed(y)
  BY DEF Elapsed
<1>5. \A x \in Int : Elapsed(x) \in Int /\ (x >= Submitted => Elapsed(x) >= Submitted)
  BY DEF Elapsed, Submitted
<1>6. ASSUME NEW q \in Queries
      PROVE  /\ SlotOk(dnQ'[q]) /\ dnQ'[q].st = dnQ[q].st
             /\ dnQ'[q].deadline = Elapsed(dnQ[q].deadline)
  <2> DEFINE r == dnQ[q]
             f == [r EXCEPT !.deadline = Elapsed(@)]
  <2>1. dnQ'[q] = f
    BY <1>1, Zenon
  <2>2. SlotOk(r)
    BY <1>2, Zenon DEF Slots
  <2> HIDE DEF r
  <2>3. /\ DOMAIN f = DOMAIN r /\ f.st = r.st /\ f.status = r.status /\ f.ended = r.ended
        /\ f.dn = r.dn /\ f.try = r.try /\ f.deadline = Elapsed(r.deadline)
        /\ f.nxtsrch = r.nxtsrch /\ f.asis = r.asis /\ f.nodata = r.nodata
        /\ f.denied = r.denied
    BY <2>2, Zenon DEF SlotOk, IsQuerySlot
  <2> HIDE DEF f
  <2>4. IsQuerySlot(f)
    BY <1>5, <2>2, <2>3, Zenon DEF SlotOk, IsQuerySlot
  <2>5. EndedOk(f)
    BY <2>2, <2>3, Zenon DEF SlotOk, EndedOk
  <2>6. f.st = "active" => Searching(f)
    BY <2>2, <2>3, Zenon DEF SlotOk, Searching, Searched
  <2>7. SlotOk(f)
    BY <2>4, <2>5, <2>6, Zenon DEF SlotOk
  <2> QED
    BY <2>1, <2>3, <2>7, Zenon DEF r
<1>7. Slots(dnQ')
  <2>1. DOMAIN dnQ' = Queries
    BY <1>1, Zenon
  <2> QED
    BY <1>6, <2>1, Zenon DEF Slots
<1>8. Queue(dnList, dnQ')
  <2>1. \A x \in Queries : dnQ'[x].st = dnQ[x].st
    BY <1>6, Zenon
  <2>2. \A x, y \in Queries : dnQ[x].deadline <= dnQ[y].deadline
                                => dnQ'[x].deadline <= dnQ'[y].deadline
    BY <1>2, <1>4, <1>6, Zenon DEF Dated
  <2> QED
    BY <1>2, <2>1, <2>2, QueueSame, Zenon
<1>9. AlarmSet(dnUtmexp', dnTimer', dnLoop)
  BY <1>1, <1>3 DEF AlarmSet, Elapsed, NoTimer, Off
<1>10. dnList # <<>>
  <2>1. dnList \in Seq(Queries)
    BY <1>2, Zenon DEF Queue
  <2>2. PICK i \in DOMAIN dnList : TRUE
    BY <1>1, Zenon
  <2> QED
    BY <2>1, <2>2
<1>11. dnList[1] \in Queries /\ dnQ[dnList[1]].deadline \in Int
  BY <1>2, <1>10, HeadDated, Zenon
<1>12. AlarmDue(dnUtmexp', dnList, dnQ')
  <2> DEFINE d == dnQ[dnList[1]].deadline
  <2>1. d \in Int /\ dnUtmexp # NoTimer /\ (dnUtmexp <= 0 \/ dnUtmexp <= d)
    BY <1>3, <1>10, <1>11, Zenon DEF AlarmDue
  <2>2. dnQ'[dnList[1]].deadline = Elapsed(d)
    BY <1>6, <1>11, Zenon
  <2> HIDE DEF d
  <2>3. dnUtmexp \in Int
    BY <1>3, Zenon DEF AlarmSet
  <2>4. /\ Elapsed(dnUtmexp) # NoTimer
        /\ Elapsed(dnUtmexp) <= 0 \/ Elapsed(dnUtmexp) <= Elapsed(d)
    BY <2>1, <2>3 DEF Elapsed, NoTimer
  <2> QED
    BY <1>1, <1>10, <2>2, <2>4, Zenon DEF AlarmDue
<1> QED
  BY <1>1, <1>7, <1>8, <1>9, <1>12, Zenon DEF UdnsInv

LEMMA ResolverStarts ==
    ASSUME UdnsInit
    PROVE  UdnsInv
<1>1. /\ dnQ = [q \in Queries |-> NewQuery] /\ dnList = <<>> /\ dnUtmexp = NoTimer
      /\ dnTimer = Off /\ dnLoop = "idle"
  BY Zenon DEF UdnsInit
<1>2. SlotOk(NewQuery) /\ NewQuery.st # "active"
  <2>0. SUFFICES ASSUME NEW r, r = NewQuery  PROVE SlotOk(r) /\ r.st # "active"
    BY Zenon
  <2>1. /\ r.st = "new" /\ r.status = "none" /\ r.ended = 0 /\ r.deadline = Submitted
        /\ DOMAIN r = {"st", "status", "ended", "id", "dn", "try", "servi", "servwait",
                       "servskip", "servnEDNS0", "deadline", "nxtsrch", "asis", "nodata",
                       "denied"}
    BY <2>0, Zenon DEF NewQuery
  <2>2. r.deadline \in Int /\ r.deadline >= Submitted
    BY <2>1 DEF Submitted
  <2>3. "new" # "active" /\ "new" # "done" /\ "none" # "NXDOMAIN"
    BY Zenon
  <2>4. IsQuerySlot(r)
    BY <2>1, <2>2, Zenon DEF IsQuerySlot
  <2>5. EndedOk(r)
    BY <2>1, <2>3, Zenon DEF EndedOk
  <2> QED BY <2>1, <2>3, <2>4, <2>5, Zenon DEF SlotOk
<1>3. DOMAIN dnQ = Queries /\ \A q \in Queries : dnQ[q] = NewQuery
  BY <1>1, Zenon
<1>4. Slots(dnQ) /\ \A q \in Queries : dnQ[q].st # "active"
  BY <1>2, <1>3, Zenon DEF Slots
<1>5. Queue(dnList, dnQ)
  BY <1>1, <1>4, QueueEmpty, Zenon
<1>6. AlarmSet(dnUtmexp, dnTimer, dnLoop) /\ AlarmDue(dnUtmexp, dnList, dnQ)
  BY <1>1 DEF AlarmSet, AlarmDue, NoTimer, Off
<1> QED
  BY <1>4, <1>5, <1>6, Zenon DEF UdnsInv

LEMMA ResolverKeeps ==
    ASSUME UdnsInv, UdnsNext \/ UNCHANGED udnsVars
    PROVE  UdnsInv'
<1>1. CASE \E q \in Queries : dns_submit_dn(q) \/ dns_cancel(q)
  BY <1>1, SubmitKeeps, CancelKeeps, Zenon
<1>2. CASE dns_open
  BY <1>2, OpenKeeps, Zenon
<1>3. CASE dns_close
  BY <1>3, CloseKeeps, Zenon
<1>4. CASE CallbackReturns
  BY <1>4, Zenon DEF CallbackReturns, UdnsInv
<1>5. CASE resolv_timeout_cb
  BY <1>5, TimerFires, Zenon
<1>6. CASE dns_timeouts
  BY <1>6, TimeoutsKeep, Zenon
<1>7. CASE resolv_sock_cb
  <2>1. /\ dnLoop = "idle" /\ dnLoop' = "io" /\ dnQ' = dnQ /\ dnList' = dnList
        /\ dnUtmexp' = dnUtmexp /\ dnTimer' = dnTimer
    BY <1>7, Zenon DEF resolv_sock_cb
  <2>2. AlarmSet(dnUtmexp', dnTimer', dnLoop') /\ dnLoop' # "idle"
    BY <2>1, SMTT(30) DEF UdnsInv, AlarmSet
  <2> QED
    BY <2>1, <2>2, Zenon DEF UdnsInv
<1>8. CASE dns_ioevent
  BY <1>8, IoEventKeeps, Zenon
<1>9. CASE Tick
  BY <1>9, TickKeeps, Zenon
<1>10. CASE UNCHANGED udnsVars
  BY <1>10, Zenon DEF udnsVars, UdnsInv
<1> QED
  BY <1>1, <1>2, <1>3, <1>4, <1>5, <1>6, <1>7, <1>8, <1>9, <1>10, Zenon DEF UdnsNext

(* The inductive invariant says what the run checks. *)
LEMMA ResolverFollows ==
    ASSUME UdnsInv
    PROVE  ResolverTimed /\ EndedRight
<1>1. Slots(dnQ) /\ Queue(dnList, dnQ) /\ Kept(dnQ, dnList)
  BY Zenon DEF UdnsInv, Kept
<1>2. /\ dnList \in Seq(Queries) /\ InOrder(dnList, dnQ)
      /\ \A q \in Queries : dnQ[q].st = "active" <=> Holds(dnList, q)
  BY <1>1, Zenon DEF Queue
<1>3. DOMAIN dnList = 1..Len(dnList)
  BY <1>2
<1>4. \A i, j \in DOMAIN dnList :
        i < j => /\ dnList[i] # dnList[j]
                 /\ dnQ[dnList[i]].deadline <= dnQ[dnList[j]].deadline
  BY <1>2, <1>3, Zenon DEF InOrder
<1>5. {dnList[i] : i \in DOMAIN dnList} = {q \in Queries : dnQ[q].st = "active"}
  <2>1. \A i \in DOMAIN dnList : dnList[i] \in Queries /\ dnQ[dnList[i]].st = "active"
    BY <1>1, ListedActive, Zenon
  <2>2. \A q \in Queries : dnQ[q].st = "active" => \E i \in DOMAIN dnList : dnList[i] = q
    BY <1>2, <1>3, Zenon DEF Holds
  <2> QED
    BY <2>1, <2>2
<1>6. ASSUME dnLoop = "idle"
      PROVE  IF dnList = <<>> THEN dnTimer = Off
             ELSE LET first == dnQ[dnList[1]].deadline IN
                  dnTimer >= 0 /\ dnTimer <= (IF first > 0 THEN first ELSE 0)
  <2>1. AlarmSet(dnUtmexp, dnTimer, "idle") /\ AlarmDue(dnUtmexp, dnList, dnQ)
    BY <1>6, Zenon DEF UdnsInv
  <2>2. CASE dnList = <<>>
    BY <2>1, <2>2, Zenon DEF AlarmSet, AlarmDue
  <2>3. CASE dnList # <<>>
    <3> DEFINE first == dnQ[dnList[1]].deadline
    <3>1. first \in Int
      BY <1>1, <2>3, HeadDated, Zenon
    <3>2. dnUtmexp # NoTimer /\ (dnUtmexp <= 0 \/ dnUtmexp <= first)
      BY <2>1, <2>3, Zenon DEF AlarmDue
    <3> HIDE DEF first
    <3>3. dnTimer >= 0 /\ dnTimer <= (IF first > 0 THEN first ELSE 0)
      BY <2>1, <3>1, <3>2, SMTT(30) DEF AlarmSet
    <3> QED
      BY <2>3, <3>3, Zenon DEF first
  <2> QED
    BY <2>2, <2>3, Zenon
<1>7. ResolverTimed
  BY <1>4, <1>5, <1>6, Zenon DEF ResolverTimed
<1>8. EndedRight
  BY <1>1, Zenon DEF Slots, SlotOk, EndedOk, EndedRight
<1> QED
  BY <1>7, <1>8, Zenon
=============================================================================
