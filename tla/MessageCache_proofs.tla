------------------------ MODULE MessageCache_proofs ------------------------
(***************************************************************************)
(* The message cache implements the cache the eval command relies on, for  *)
(* any keys, objects and policy: every call of Get or Put maps to a Put    *)
(* or to nothing. It takes that a key has at most one entry in the list.   *)
(*                                                                         *)
(* The accounted size is the sum of the sizes held, and the limits hold    *)
(* between two calls. The sums over the list are a recursive function;     *)
(* that it has a value, and what it does when an entry is added, removed   *)
(* or moved, follows from the least place where it would not.              *)
(***************************************************************************)
EXTENDS MessageCache, SequenceTheorems, NaturalLemmas

UniqueKeys(l) == \A i, j \in DOMAIN l : l[i].key = l[j].key => i = j

Entries == lru \in Seq(Entry) /\ UniqueKeys(lru)

(* Lookup by key finds the entry of that key.                              *)
LEMMA PositionIs ==
  ASSUME Entries, NEW i \in DOMAIN lru
  PROVE  lru[i].key \in Cached /\ Position(lru[i].key) = i
BY DEF Entries, UniqueKeys, Cached, Position

Lookups ==
  /\ \A i \in DOMAIN lru : lru[i].key \in Keys /\ found[lru[i].key] = lru[i].obj
  /\ \A k \in Keys : k \notin Cached => found[k] = None

(* found is what a lookup finds.                                           *)
LEMMA FoundIs == Entries => Lookups
<1> SUFFICES ASSUME Entries PROVE Lookups
  OBVIOUS
<1>1. ASSUME NEW i \in DOMAIN lru
      PROVE  lru[i].key \in Keys /\ found[lru[i].key] = lru[i].obj
  <2>1. lru[i] \in Entry
    BY DEF Entries
  <2>2. lru[i].key \in Keys
    BY <2>1 DEF Entry
  <2> QED
    BY <2>2, PositionIs DEF found
<1> QED
  BY <1>1 DEF found, Lookups

(* The same of the next state.                                             *)
LEMMA FoundNext == Entries' => Lookups'
BY FoundIs, PTL

(* What is in a list is an entry.                                          *)
LEMMA EntryIs ==
  ASSUME NEW l \in Seq(Entry), NEW i \in DOMAIN l
  PROVE  l[i] \in Entry /\ l[i].key \in Keys /\ l[i].obj \in Objects
<1>1. l[i] \in Entry
  OBVIOUS
<1> QED
  BY <1>1 DEF Entry

(* What removing an entry leaves.                                          *)
LEMMA LeftIs ==
  ASSUME Entries, NEW q \in DOMAIN lru
  PROVE  LET w == Without(lru[q].key) IN
         /\ w \in Seq(Entry) /\ Len(w) = Len(lru) - 1
         /\ \A i \in 1..Len(lru) - 1 : w[i] = IF i < q THEN lru[i] ELSE lru[i + 1]
<1> DEFINE w == Without(lru[q].key)
           n == Len(lru)
           a == SubSeq(lru, 1, q - 1)
           b == SubSeq(lru, q + 1, n)
<1>1. q \in 1..n /\ n \in Nat /\ lru \in Seq(Entry) /\ DOMAIN lru = 1..n
  BY DEF Entries
<1>2. w = SubSeq(lru, 1, q - 1) \o SubSeq(lru, q + 1, n)
  BY PositionIs DEF Without, RemoveAt
<1>3. /\ a \in Seq(Entry) /\ Len(a) = q - 1
      /\ \A i \in 1..q - 1 : a[i] = lru[i]
  BY <1>1
<1>4. /\ b \in Seq(Entry) /\ Len(b) = n - q
      /\ \A i \in 1..n - q : b[i] = lru[q + i]
  BY <1>1
<1> HIDE DEF a, b, w
<1>5. /\ a \o b \in Seq(Entry)
      /\ Len(a \o b) = Len(a) + Len(b)
      /\ \A i \in 1..Len(a) + Len(b) :
           (a \o b)[i] = IF i <= Len(a) THEN a[i] ELSE b[i - Len(a)]
  BY <1>3, <1>4, ConcatProperties
<1>6. w = a \o b
  BY <1>2 DEF a, b
<1>7. Len(a) + Len(b) = n - 1
  BY <1>1, <1>3, <1>4
<1>8. ASSUME NEW i \in 1..n - 1
      PROVE  w[i] = IF i < q THEN lru[i] ELSE lru[i + 1]
  <2>1. w[i] = IF i <= q - 1 THEN a[i] ELSE b[i - (q - 1)]
    <3>1. w[i] = IF i <= Len(a) THEN a[i] ELSE b[i - Len(a)]
      BY <1>5, <1>6, <1>7
    <3>2. Len(a) = q - 1
      BY <1>3
    <3> QED
      BY ONLY <3>1, <3>2
  <2>2. CASE i < q
    BY <1>1, <1>3, <2>1, <2>2
  <2>3. CASE i >= q
    <3>1. i - (q - 1) \in 1..n - q /\ q + (i - (q - 1)) = i + 1
      BY <1>1, <2>3
    <3> QED
      BY <1>1, <1>4, <2>1, <2>3, <3>1
  <2> QED
    BY <1>1, <2>2, <2>3
<1> QED
  BY <1>5, <1>6, <1>8, <1>7 DEF w

(* Removing the entry of a key leaves the others.                          *)
LEMMA WithoutIs ==
  ASSUME Entries, NEW k
  PROVE  LET w == Without(k) IN
         /\ w \in Seq(Entry) /\ UniqueKeys(w)
         /\ \A i \in DOMAIN w :
              w[i].key # k /\ \E j \in DOMAIN lru : w[i] = lru[j]
         /\ \A j \in DOMAIN lru :
              lru[j].key # k => \E i \in DOMAIN w : w[i] = lru[j]
<1> DEFINE w == Without(k)
           p == Position(k)
           n == Len(lru)
<1>1. CASE k \notin Cached
  BY <1>1 DEF Without, Cached, Entries
<1>2. CASE k \in Cached
  <2>1. PICK q \in DOMAIN lru : lru[q].key = k
    BY <1>2 DEF Cached
  <2>2. p = q
    BY <2>1, PositionIs
  <2>3. q \in 1..n /\ n \in Nat /\ lru \in Seq(Entry) /\ DOMAIN lru = 1..n
    BY DEF Entries
  <2>5. /\ w \in Seq(Entry) /\ Len(w) = n - 1
        /\ \A i \in 1..n - 1 : w[i] = IF i < q THEN lru[i] ELSE lru[i + 1]
    BY <2>1, LeftIs
  <2> HIDE DEF w
  <2>6. DOMAIN w = 1..n - 1
    BY <2>5
  <2>7. \A i \in DOMAIN lru : lru[i].key = k => i = q
    BY <2>1 DEF Entries, UniqueKeys
  <2>8. UniqueKeys(w)
    <3> DEFINE o(i) == IF i < q THEN i ELSE i + 1
    <3>1. \A i \in DOMAIN w : o(i) \in DOMAIN lru /\ w[i] = lru[o(i)]
      BY <2>3, <2>5, <2>6
    <3>2. \A i, j \in DOMAIN w : o(i) = o(j) => i = j
      BY <2>3, <2>6
    <3> HIDE DEF o
    <3> QED
      BY <3>1, <3>2 DEF Entries, UniqueKeys
  <2>9. ASSUME NEW i \in DOMAIN w
        PROVE  w[i].key # k /\ \E j \in DOMAIN lru : w[i] = lru[j]
    BY <2>3, <2>5, <2>6, <2>7
  <2>10. ASSUME NEW j \in DOMAIN lru, lru[j].key # k
         PROVE  \E i \in DOMAIN w : w[i] = lru[j]
    <3>1. CASE j < q
      <4>1. j \in DOMAIN w /\ w[j] = lru[j]
        BY <2>3, <2>5, <2>6, <3>1
      <4> QED
        BY <4>1
    <3>2. CASE j > q
      <4>1. j - 1 \in DOMAIN w /\ w[j - 1] = lru[j]
        BY <2>3, <2>5, <2>6, <3>2
      <4> QED
        BY <4>1
    <3> QED
      BY <2>1, <2>3, <2>10, <3>1, <3>2
  <2> QED
    BY <2>5, <2>8, <2>9, <2>10 DEF w
<1> QED
  BY <1>1, <1>2

(* Evicting from the back comes to an end, in front of the list or before. *)
LEMMA KeptIs ==
  ASSUME NEW l \in Seq(Entry), NEW s
  PROVE  /\ Kept(l, s) \in 0..Len(l)
         /\ \/ Kept(l, s) = 0
            \/ ~ Evict(l[Kept(l, s)], Kept(l, s), SizeOfFirst(l, s)[Kept(l, s)])
<1> DEFINE Stays(n) == n = 0 \/ ~ Evict(l[n], n, SizeOfFirst(l, s)[n])
           T == {d \in Nat : d <= Len(l) /\ Stays(Len(l) - d)}
<1>1. Len(l) \in T
  OBVIOUS
<1>2. PICK d \in T : \A e \in T : ~ (<<e, d>> \in OpToRel(<, Nat))
  BY <1>1, WFMin, NatLessThanWellFounded
<1>3. \A e \in T : ~ (e < d)
  BY <1>2 DEF OpToRel
<1> DEFINE m == Len(l) - d
<1>4. m \in 0..Len(l) /\ Stays(m)
  <2>1. d \in Nat /\ d <= Len(l) /\ Stays(m)
    BY <1>2
  <2> HIDE DEF Stays
  <2> QED
    BY <2>1
<1>5. ASSUME NEW n \in (m + 1)..Len(l) PROVE ~ Stays(n)
  <2>1. Len(l) - n \in Nat /\ Len(l) - n < d
    BY <1>4
  <2>2. Len(l) - n \notin T
    BY <1>3, <2>1
  <2>3. Len(l) - (Len(l) - n) = n
    BY <1>4
  <2> QED
    BY <1>4, <2>1, <2>2, <2>3
<1>6. \E n \in 0..Len(l) :
        /\ n = 0 \/ ~ Evict(l[n], n, SizeOfFirst(l, s)[n])
        /\ \A x \in (n + 1)..Len(l) : Evict(l[x], x, SizeOfFirst(l, s)[x])
  BY <1>4, <1>5
<1> QED
  BY <1>6 DEF Kept

(* Two lists with the same keys and objects are one cache.                 *)
LEMMA FoundStays ==
  ASSUME Entries, Entries',
         \A i \in DOMAIN lru : \E j \in DOMAIN lru' :
           lru'[j].key = lru[i].key /\ lru'[j].obj = lru[i].obj,
         \A j \in DOMAIN lru' : \E i \in DOMAIN lru :
           lru'[j].key = lru[i].key /\ lru'[j].obj = lru[i].obj
  PROVE  found' = found
<1>1. ASSUME NEW k \in Keys PROVE found'[k] = found[k]
  <2>1. CASE k \in Cached
    <3>1. PICK i \in DOMAIN lru : lru[i].key = k
      BY <2>1 DEF Cached
    <3>2. PICK j \in DOMAIN lru' : lru'[j].key = k /\ lru'[j].obj = lru[i].obj
      BY <3>1
    <3> QED
      BY <3>1, <3>2, FoundIs, FoundNext DEF Lookups
  <2>2. CASE k \notin Cached
    <3>1. k \notin Cached'
      BY <2>2 DEF Cached
    <3> QED
      BY <2>2, <3>1, FoundIs, FoundNext DEF Lookups
  <2> QED
    BY <2>1, <2>2
<1> QED
  BY <1>1 DEF found

(* Moving an entry to the front, or a new one in front of the others.      *)
LEMMA InFront ==
  ASSUME Entries, NEW e \in Entry
  PROVE  LET l == <<e>> \o Without(e.key) IN
         /\ l \in Seq(Entry) /\ UniqueKeys(l) /\ Len(l) >= 1 /\ l[1] = e
         /\ \A i \in DOMAIN l : i # 1 =>
              l[i].key # e.key /\ \E j \in DOMAIN lru : l[i] = lru[j]
         /\ \A j \in DOMAIN lru : lru[j].key # e.key =>
              \E i \in DOMAIN l : i # 1 /\ l[i] = lru[j]
<1> DEFINE w == Without(e.key)
           l == <<e>> \o w
<1>1. /\ w \in Seq(Entry) /\ UniqueKeys(w)
      /\ \A i \in DOMAIN w : w[i].key # e.key /\ \E j \in DOMAIN lru : w[i] = lru[j]
      /\ \A j \in DOMAIN lru : lru[j].key # e.key => \E i \in DOMAIN w : w[i] = lru[j]
  BY WithoutIs
<1> HIDE DEF w
<1>2. <<e>> \in Seq(Entry) /\ Len(<<e>>) = 1 /\ <<e>>[1] = e
  OBVIOUS
<1>3. /\ l \in Seq(Entry) /\ Len(l) = Len(w) + 1 /\ l[1] = e
      /\ \A i \in 1..Len(w) + 1 : i # 1 => l[i] = w[i - 1]
  BY <1>1, <1>2, ConcatProperties
<1> HIDE DEF l
<1>4. DOMAIN w = 1..Len(w) /\ DOMAIN l = 1..Len(w) + 1 /\ Len(w) \in Nat
  BY <1>1, <1>3
<1>5. \A i \in DOMAIN l : i # 1 => i - 1 \in DOMAIN w /\ l[i] = w[i - 1]
  BY <1>3, <1>4
<1>6. \A i \in DOMAIN w : i + 1 \in DOMAIN l /\ i + 1 # 1 /\ l[i + 1] = w[i]
  BY <1>3, <1>4
<1>7. UniqueKeys(l)
  <2> SUFFICES ASSUME NEW i \in DOMAIN l, NEW j \in DOMAIN l, l[i].key = l[j].key
               PROVE  i = j
    BY DEF UniqueKeys
  <2>1. CASE i = 1 \/ j = 1
    BY <1>1, <1>3, <1>5, <2>1
  <2>2. CASE i # 1 /\ j # 1
    <3>1. i - 1 = j - 1
      BY <1>1, <1>5, <2>2 DEF UniqueKeys
    <3> QED
      BY <1>4, <3>1
  <2> QED
    BY <2>1, <2>2
<1>8. \A i \in DOMAIN l : i # 1 =>
        l[i].key # e.key /\ \E j \in DOMAIN lru : l[i] = lru[j]
  BY <1>1, <1>5
<1>9. \A j \in DOMAIN lru : lru[j].key # e.key =>
        \E i \in DOMAIN l : i # 1 /\ l[i] = lru[j]
  BY <1>1, <1>6
<1> QED
  BY <1>3, <1>4, <1>7, <1>8, <1>9 DEF l, w

(* Get changes nothing of what is found.                                   *)
LEMMA GetStep ==
  ASSUME Entries, NEW k \in Keys, CacheGet(k)
  PROVE  Entries' /\ found' = found
<1>1. PICK i \in DOMAIN lru : lru[i].key = k
  BY DEF CacheGet, Cached
<1> DEFINE e == lru[i]
<1>2. e \in Entry /\ e.key = k /\ Position(k) = i
  BY <1>1, PositionIs DEF Entries
<1>3. lru' = <<e>> \o Without(e.key)
  BY <1>1, <1>2 DEF CacheGet
<1> HIDE DEF e
<1>4. /\ Entries' /\ 1 \in DOMAIN lru' /\ lru'[1] = e
      /\ \A j \in DOMAIN lru' : j # 1 => \E n \in DOMAIN lru : lru'[j] = lru[n]
      /\ \A j \in DOMAIN lru : lru[j].key # e.key =>
           \E n \in DOMAIN lru' : n # 1 /\ lru'[n] = lru[j]
  <2>1. lru' \in Seq(Entry) /\ UniqueKeys(lru') /\ Len(lru') >= 1 /\ lru'[1] = e
    BY <1>2, <1>3, InFront
  <2>2. Entries' /\ 1 \in DOMAIN lru'
    BY <2>1 DEF Entries, UniqueKeys
  <2>3. /\ \A j \in DOMAIN lru' : j # 1 => \E n \in DOMAIN lru : lru'[j] = lru[n]
        /\ \A j \in DOMAIN lru : lru[j].key # e.key =>
             \E n \in DOMAIN lru' : n # 1 /\ lru'[n] = lru[j]
    <3> DEFINE l == <<e>> \o Without(e.key)
    <3>1. /\ \A j \in DOMAIN l : j # 1 => l[j].key # e.key /\ \E n \in DOMAIN lru : l[j] = lru[n]
          /\ \A j \in DOMAIN lru : lru[j].key # e.key =>
               \E n \in DOMAIN l : n # 1 /\ l[n] = lru[j]
      BY ONLY Entries, <1>2, InFront, Zenon
    <3>2. lru' = l
      BY <1>3
    <3> HIDE DEF l
    <3> QED
      BY <3>1, <3>2
  <2> QED
    BY <2>1, <2>2, <2>3
<1>5. \A j \in DOMAIN lru : lru[j].key = e.key => lru[j] = e
  BY <1>2 DEF Entries, UniqueKeys, e
<1>6. i \in DOMAIN lru /\ e = lru[i]
  BY DEF e
<1>7. \A j \in DOMAIN lru : \E n \in DOMAIN lru' : lru'[n] = lru[j]
  BY <1>4, <1>5
<1>8. \A n \in DOMAIN lru' : \E j \in DOMAIN lru : lru'[n] = lru[j]
  BY <1>4, <1>6
<1> QED
  BY <1>4, <1>7, <1>8, FoundStays

(* Time changes nothing of what is found.                                  *)
LEMMA TickStep ==
  ASSUME Entries, CacheTick
  PROVE  Entries' /\ found' = found
<1>1. DOMAIN lru' = DOMAIN lru
  BY DEF CacheTick
<1>2. ASSUME NEW i \in DOMAIN lru
      PROVE  lru'[i] \in Entry /\ lru'[i].key = lru[i].key /\ lru'[i].obj = lru[i].obj
  <2>1. lru[i] \in Entry
    BY DEF Entries
  <2>2. lru'[i] = [lru[i] EXCEPT !.age = IF @ > MaxAge THEN @ ELSE @ + 1]
    BY DEF CacheTick
  <2> QED
    BY <2>1, <2>2, PolicyAssumption DEF Entry
<1>3. lru' \in Seq(Entry)
  <2>1. lru \in Seq(Entry) /\ DOMAIN lru = 1..Len(lru) /\ Len(lru) \in Nat
    BY DEF Entries
  <2>2. lru' \in [1..Len(lru) -> Entry]
    BY <1>1, <1>2, <2>1 DEF CacheTick
  <2> QED
    BY <2>1, <2>2, IsASeq
<1>4. Entries'
  BY <1>1, <1>2, <1>3 DEF Entries, UniqueKeys
<1> QED
  BY <1>1, <1>2, <1>4, FoundStays

(* Put, with whatever it evicts, is a Put of the abstract cache.           *)
LEMMA PutStep ==
  ASSUME Entries, NEW k \in Keys, NEW o \in Objects, NEW n \in Sizes,
         CachePut(k, o, n)
  PROVE  Entries' /\ ObjectCache!Put(k, o)
<1> DEFINE e == [key |-> k, obj |-> o, size |-> n, age |-> 0]
           l == <<e>> \o Without(k)
           old == IF k \in Cached THEN lru[Position(k)].size ELSE 0
           m == Kept(l, Added(old, n))
<1>1. e \in Entry /\ e.key = k
  BY PolicyAssumption DEF Entry
<1>2. /\ l \in Seq(Entry) /\ UniqueKeys(l) /\ Len(l) >= 1 /\ l[1] = e
      /\ \A i \in DOMAIN l : i # 1 =>
           l[i].key # k /\ \E j \in DOMAIN lru : l[i] = lru[j]
  BY <1>1, InFront
<1>3. lru' = SubSeq(l, 1, m)
  BY DEF CachePut
<1> HIDE DEF l
<1>4. m \in 0..Len(l)
  BY <1>2, KeptIs
<1> HIDE DEF m
<1>5. /\ lru' \in Seq(Entry) /\ DOMAIN lru' = 1..m
      /\ \A i \in 1..m : i \in DOMAIN l /\ lru'[i] = l[i]
  BY <1>2, <1>3, <1>4
<1>6. Entries'
  BY <1>2, <1>5 DEF Entries, UniqueKeys
<1> DEFINE evicted == {x \in Keys : x \notin Cached'}
<1>7. ASSUME NEW x \in Keys
      PROVE  found'[x] = IF x \in evicted THEN None
                         ELSE IF x = k THEN o ELSE found[x]
  <2>1. CASE x \in evicted
    BY <1>6, <2>1, FoundNext DEF Lookups
  <2>2. CASE x \notin evicted
    <3>1. PICK i \in DOMAIN lru' : lru'[i].key = x
      BY <2>2 DEF Cached
    <3>2. found'[x] = l[i].obj /\ l[i].key = x /\ i \in DOMAIN l
      BY <1>5, <1>6, <3>1, FoundNext DEF Lookups
    <3>3. CASE i = 1
      BY <1>2, <2>2, <3>2, <3>3
    <3>4. CASE i # 1
      <4>1. PICK j \in DOMAIN lru : l[i] = lru[j]
        BY <1>2, <3>2, <3>4
      <4> QED
        BY <1>2, <2>2, <3>2, <3>4, <4>1, FoundIs DEF Lookups
    <3> QED
      BY <3>3, <3>4
  <2> QED
    BY <2>1, <2>2
<1>8. found' = [x \in Keys |-> IF x \in evicted THEN None
                               ELSE IF x = k THEN o ELSE found[x]]
  <2>1. found' = [x \in Keys |-> found'[x]]
    BY DEF found
  <2> QED
    BY <1>7, <2>1
<1> QED
  BY <1>6, <1>8 DEF ObjectCache!Put

(* The cache is empty at the start.                                        *)
LEMMA CacheStart == CacheInit => Entries /\ ObjectCache!Init
BY DEF CacheInit, Entries, UniqueKeys, ObjectCache!Init, found, Cached

(* Every step of the cache is one of the abstract cache, or changes        *)
(* nothing of what is found.                                               *)
LEMMA CacheSteps ==
  Entries /\ [CacheNext]_cacheVars => Entries' /\ [ObjectCache!Next]_found
<1> SUFFICES ASSUME Entries, [CacheNext]_cacheVars
             PROVE  Entries' /\ [ObjectCache!Next]_found
  OBVIOUS
<1>1. CASE UNCHANGED cacheVars
  BY <1>1 DEF cacheVars, Entries, found, Cached, Position
<1>2. ASSUME NEW k \in Keys, CacheGet(k)
      PROVE  Entries' /\ found' = found
  BY <1>2, GetStep
<1>3. ASSUME NEW k \in Keys, NEW o \in Objects, NEW n \in Sizes, CachePut(k, o, n)
      PROVE  Entries' /\ ObjectCache!Next
  BY <1>3, PutStep DEF ObjectCache!Next
<1>4. CASE CacheTick
  BY <1>4, TickStep
<1> QED
  BY <1>1, <1>2, <1>3, <1>4 DEF CacheNext

(* A cache with any policy behaves as the abstract cache does: Get finds   *)
(* what was put last or nothing, and only Put changes that.                *)
THEOREM CacheImplemented == CacheSpec => ImplementsObjectCache
BY CacheStart, CacheSteps, PTL DEF CacheSpec, ImplementsObjectCache, ObjectCache!Spec
-----------------------------------------------------------------------------
(* Sizes                                                                   *)

(* Each sum is the one before it and the size of one entry.                *)
LEMMA SumsAre ==
  ASSUME NEW l \in Seq(Entry)
  PROVE  /\ Sums(l) \in [0..Len(l) -> Nat] /\ Sums(l)[0] = 0
         /\ \A i \in 1..Len(l) : /\ l[i].size \in Nat
                                 /\ Sums(l)[i] = Sums(l)[i - 1] + l[i].size
<1> DEFINE N == Len(l)
           Adds(f) == f = [n \in 0..N |-> IF n = 0 THEN 0 ELSE f[n - 1] + l[n].size]
           step == [i \in 1..N |-> [x \in Nat |-> x + l[i].size]]
<1>1. N \in Nat /\ \A i \in 1..N : l[i].size \in Nat
  <2>1. \A e \in Entry : e.size \in Nat
    BY PolicyAssumption DEF Entry
  <2>2. N \in Nat /\ \A i \in 1..N : l[i] \in Entry
    OBVIOUS
  <2> QED
    BY <2>1, <2>2
<1>2. step \in Steps(N, Nat)
  BY <1>1 DEF Steps
<1>3. \A i \in 1..N : \A x \in Nat : step[i][x] = x + l[i].size
  OBVIOUS
<1> HIDE DEF step
<1>4. PICK f \in [0..N -> Nat] : Follows(f, N, 0, step)
  <2>1. N \in Nat /\ 0 \in Nat
    BY <1>1
  <2> QED
    BY <1>2, <2>1, Recursive
<1>5. ASSUME NEW i \in 1..N PROVE f[i] = f[i - 1] + l[i].size
  <2>1. f[i - 1] \in Nat
    <3>1. i - 1 \in 0..N
      BY <1>1
    <3> QED
      BY <1>4, <3>1
  <2> QED
    BY <1>3, <1>4, <2>1 DEF Follows
<1>6. Adds(f)
  <2> DEFINE g == [n \in 0..N |-> IF n = 0 THEN 0 ELSE f[n - 1] + l[n].size]
  <2>1. \A n \in 0..N : g[n] = f[n]
    BY <1>1, <1>4, <1>5 DEF Follows
  <2> QED
    BY <1>4, <2>1
<1>7. Sums(l) = CHOOSE h : Adds(h)
  BY DEF Sums
<1>8. Adds(Sums(l))
  <2> HIDE DEF Adds
  <2> QED
    BY <1>6, <1>7
<1> DEFINE h == Sums(l)
<1>9. /\ DOMAIN h = 0..N /\ h[0] = 0
      /\ \A i \in 1..N : h[i] = h[i - 1] + l[i].size
  BY <1>1, <1>8
<1>10. h = [n \in 0..N |-> h[n]]
  BY <1>8
<1> HIDE DEF h
<1>11. \A i \in 0..N : h[i] \in Nat
  <2> DEFINE T == {i \in 0..N : h[i] \in Nat}
  <2>1. 0 \in T
    BY <1>1, <1>9
  <2>2. ASSUME NEW i \in 1..N, i - 1 \in T PROVE i \in T
    BY <1>1, <1>9, <2>2
  <2>3. \A i \in 0..N : i \in T
    <3> HIDE DEF T
    <3> QED
      BY <1>1, <2>1, <2>2, Everywhere
  <2> QED
    BY <2>3
<1> QED
  BY <1>1, <1>9, <1>10, <1>11 DEF h

(* Whatever adds up like the sums is the sums.                             *)
LEMMA SumsOnly ==
  ASSUME NEW l \in Seq(Entry), NEW f, f[0] = 0,
         \A i \in 1..Len(l) : f[i] = f[i - 1] + l[i].size
  PROVE  \A i \in 0..Len(l) : Sums(l)[i] = f[i]
<1> DEFINE T == {i \in 0..Len(l) : Sums(l)[i] = f[i]}
<1>1. 0 \in T
  BY SumsAre
<1>2. ASSUME NEW i \in 1..Len(l), i - 1 \in T PROVE i \in T
  BY <1>2, SumsAre
<1>3. Len(l) \in Nat
  OBVIOUS
<1>4. \A i \in 0..Len(l) : i \in T
  <2> HIDE DEF T
  <2> QED
    BY <1>1, <1>2, <1>3, Everywhere
<1> QED
  BY <1>4

(* The part of a sum that one entry makes up, and the sum of what stays in *)
(* front.                                                                  *)
LEMMA SumsGrow ==
  ASSUME NEW l \in Seq(Entry), NEW i \in 1..Len(l)
  PROVE  /\ l[i].size + Sums(l)[i - 1] = Sums(l)[i]
         /\ \A j \in i..Len(l) : Sums(l)[i] <= Sums(l)[j]
<1>1. /\ Len(l) \in Nat /\ Sums(l) \in [0..Len(l) -> Nat]
      /\ \A j \in 1..Len(l) : /\ l[j].size \in Nat
                              /\ Sums(l)[j] = Sums(l)[j - 1] + l[j].size
  BY SumsAre
<1>2. \A j \in 0..Len(l) : Sums(l)[j] \in Nat
  BY <1>1
<1> DEFINE T == {j \in 0..Len(l) : j >= i => Sums(l)[i] <= Sums(l)[j]}
<1>3. 0 \in T
  BY <1>1
<1>4. ASSUME NEW j \in 1..Len(l), j - 1 \in T PROVE j \in T
  <2>1. Sums(l)[i] \in Nat /\ Sums(l)[j] \in Nat /\ Sums(l)[j - 1] \in Nat /\ l[j].size \in Nat
    BY <1>1, <1>2
  <2>2. Sums(l)[j] = Sums(l)[j - 1] + l[j].size
    BY <1>1
  <2>3. CASE j = i
    BY <2>1, <2>3
  <2>4. CASE j - 1 >= i
    BY <1>4, <2>1, <2>2, <2>4
  <2>5. CASE j < i
    BY <2>5
  <2> QED
    BY <2>3, <2>4, <2>5
<1>5. \A j \in 0..Len(l) : j \in T
  <2> HIDE DEF T
  <2> QED
    BY <1>1, <1>3, <1>4, Everywhere
<1>6. l[i].size + Sums(l)[i - 1] = Sums(l)[i]
  <2>1. Sums(l)[i - 1] \in Nat /\ l[i].size \in Nat
    BY <1>1, <1>2
  <2> QED
    BY <1>1, <2>1
<1>7. ASSUME NEW j \in i..Len(l) PROVE Sums(l)[i] <= Sums(l)[j]
  <2>1. j \in 0..Len(l) /\ j >= i
    BY <1>1
  <2> QED
    BY <1>5, <2>1
<1> QED
  BY <1>6, <1>7

(* A new first entry adds its size to the total.                           *)
LEMMA SumsInFront ==
  ASSUME NEW e \in Entry, NEW w \in Seq(Entry)
  PROVE  LET l == <<e>> \o w IN Sums(l)[Len(l)] = e.size + Sums(w)[Len(w)]
<1> DEFINE h == <<e>>
           l == h \o w
           f == [n \in 0..Len(w) + 1 |-> IF n = 0 THEN 0 ELSE e.size + Sums(w)[n - 1]]
<1>1. h \in Seq(Entry) /\ Len(h) = 1 /\ h[1] = e /\ Len(w) \in Nat
  OBVIOUS
<1> HIDE DEF h
<1>2. /\ l \in Seq(Entry) /\ Len(l) = Len(w) + 1 /\ l[1] = e
      /\ \A i \in 2..Len(w) + 1 : l[i] = w[i - 1]
  <2>1. /\ l \in Seq(Entry) /\ Len(l) = Len(h) + Len(w)
        /\ \A i \in 1..Len(h) + Len(w) : l[i] = IF i <= Len(h) THEN h[i] ELSE w[i - Len(h)]
    BY <1>1, ConcatProperties
  <2> HIDE DEF l
  <2> QED
    BY <1>1, <2>1
<1> HIDE DEF l
<1>3. /\ Sums(w)[0] = 0 /\ \A i \in 0..Len(w) : Sums(w)[i] \in Nat
      /\ \A i \in 1..Len(w) : Sums(w)[i] = Sums(w)[i - 1] + w[i].size /\ w[i].size \in Nat
  BY SumsAre
<1>4. e.size \in Nat
  BY PolicyAssumption DEF Entry
<1>5. f[0] = 0 /\ \A i \in 1..Len(w) + 1 : f[i] = e.size + Sums(w)[i - 1]
  BY <1>1
<1> HIDE DEF f
<1>6. ASSUME NEW i \in 1..Len(l) PROVE f[i] = f[i - 1] + l[i].size
  <2>1. CASE i = 1
    BY <1>2, <1>3, <1>4, <1>5, <2>1
  <2>2. CASE i # 1
    <3>1. i - 1 \in 1..Len(w) /\ i \in 2..Len(w) + 1 /\ i - 1 \in 1..Len(w) + 1
      BY <1>1, <1>2, <2>2
    <3>2. f[i] = e.size + Sums(w)[i - 1] /\ f[i - 1] = e.size + Sums(w)[(i - 1) - 1]
      BY <1>2, <1>5, <3>1
    <3>3. /\ Sums(w)[i - 1] = Sums(w)[(i - 1) - 1] + w[i - 1].size /\ w[i - 1].size \in Nat
          /\ Sums(w)[(i - 1) - 1] \in Nat
      BY <1>1, <1>3, <3>1
    <3>4. l[i] = w[i - 1]
      BY <1>2, <3>1
    <3> QED
      BY <1>4, <3>2, <3>3, <3>4
  <2> QED
    BY <2>1, <2>2
<1>7. Sums(l)[Len(l)] = f[Len(l)]
  <2>1. \A i \in 0..Len(l) : Sums(l)[i] = f[i]
    BY <1>2, <1>5, <1>6, SumsOnly
  <2> QED
    BY <1>1, <1>2, <2>1
<1>8. Sums(l)[Len(l)] = e.size + Sums(w)[Len(w)]
  BY <1>1, <1>2, <1>5, <1>7
<1> QED
  BY <1>8 DEF l, h

(* Taking an entry out of the list takes its size off the total.           *)
LEMMA SumsWithout ==
  ASSUME Entries, NEW q \in DOMAIN lru
  PROVE  LET w == Without(lru[q].key) IN Sums(w)[Len(w)] = Total - lru[q].size
<1> DEFINE w == Without(lru[q].key)
           N == Len(lru)
           x == lru[q].size
           f == [n \in 0..N - 1 |-> IF n < q THEN Sums(lru)[n] ELSE Sums(lru)[n + 1] - x]
<1>1. lru \in Seq(Entry) /\ N \in Nat /\ q \in 1..N
  BY DEF Entries
<1>2. /\ w \in Seq(Entry) /\ Len(w) = N - 1
      /\ \A i \in 1..N - 1 : w[i] = IF i < q THEN lru[i] ELSE lru[i + 1]
  BY LeftIs
<1>3. /\ Sums(lru)[0] = 0 /\ \A i \in 0..N : Sums(lru)[i] \in Nat
      /\ \A i \in 1..N : Sums(lru)[i] = Sums(lru)[i - 1] + lru[i].size /\ lru[i].size \in Nat
  BY <1>1, SumsAre
<1>4. x \in Nat /\ Sums(lru)[q] = Sums(lru)[q - 1] + x
  BY <1>1, <1>3
<1>5. \A n \in 0..N - 1 : f[n] = IF n < q THEN Sums(lru)[n] ELSE Sums(lru)[n + 1] - x
  OBVIOUS
<1> HIDE DEF w, f, x
<1>6. f[0] = 0
  BY <1>1, <1>3, <1>5
<1>7. ASSUME NEW i \in 1..N - 1 PROVE f[i] = f[i - 1] + w[i].size
  <2>1. CASE i < q
    <3>1. i \in 1..N /\ i \in 0..N - 1 /\ i - 1 \in 0..N - 1 /\ i - 1 < q
      BY <1>1, <2>1
    <3>2. f[i] = Sums(lru)[i] /\ f[i - 1] = Sums(lru)[i - 1]
      BY <1>5, <2>1, <3>1
    <3>3. Sums(lru)[i] = Sums(lru)[i - 1] + lru[i].size
      BY <1>3, <3>1
    <3>4. w[i] = lru[i]
      BY <1>2, <2>1
    <3> QED
      BY <3>2, <3>3, <3>4
  <2>2. CASE i = q
    <3>1. f[i] = Sums(lru)[q + 1] - x /\ f[i - 1] = Sums(lru)[q - 1] /\ w[i] = lru[q + 1]
      BY <1>1, <1>2, <1>5, <2>2
    <3>2. /\ q + 1 \in 1..N /\ (q + 1) - 1 = q
      BY <1>1, <2>2
    <3>3. Sums(lru)[q + 1] = Sums(lru)[q] + lru[q + 1].size /\ lru[q + 1].size \in Nat
      BY <1>3, <3>2
    <3>4. Sums(lru)[q - 1] \in Nat
      BY <1>1, <1>3
    <3> QED
      BY <1>4, <3>1, <3>3, <3>4
  <2>3. CASE i > q
    <3>1. /\ f[i] = Sums(lru)[i + 1] - x /\ f[i - 1] = Sums(lru)[(i - 1) + 1] - x
          /\ w[i] = lru[i + 1]
      BY <1>1, <1>2, <1>5, <2>3
    <3>2. i + 1 \in 1..N /\ (i + 1) - 1 = i /\ (i - 1) + 1 = i
      BY <1>1
    <3>3. /\ Sums(lru)[i + 1] = Sums(lru)[i] + lru[i + 1].size /\ lru[i + 1].size \in Nat
          /\ Sums(lru)[i] \in Nat
      BY <1>1, <1>3, <3>2
    <3> QED
      BY <1>4, <3>1, <3>2, <3>3
  <2> QED
    BY <1>1, <2>1, <2>2, <2>3
<1>8. \A i \in 0..Len(w) : Sums(w)[i] = f[i]
  BY <1>2, <1>6, <1>7, SumsOnly
<1>9. f[N - 1] = Sums(lru)[N] - x
  <2>1. CASE N - 1 < q
    <3>1. q = N /\ f[N - 1] = Sums(lru)[N - 1]
      BY <1>1, <1>5, <2>1
    <3> QED
      BY <1>1, <1>3, <1>4, <3>1
  <2>2. CASE N - 1 >= q
    BY <1>1, <1>5, <2>2
  <2> QED
    BY <1>1, <2>1, <2>2
<1>10. Sums(w)[Len(w)] = Sums(lru)[N] - x
  BY <1>1, <1>2, <1>8, <1>9
<1> QED
  BY <1>10 DEF w, x, Total

(* The sums depend on nothing but the sizes in front.                      *)
LEMMA SumsSame ==
  ASSUME NEW l \in Seq(Entry), NEW r \in Seq(Entry), Len(r) <= Len(l),
         \A i \in 1..Len(r) : r[i].size = l[i].size
  PROVE  \A i \in 0..Len(r) : Sums(r)[i] = Sums(l)[i]
<1>1. Len(l) \in Nat /\ Len(r) \in Nat
  OBVIOUS
<1>2. Sums(l)[0] = 0
  BY SumsAre
<1>3. ASSUME NEW i \in 1..Len(r) PROVE Sums(l)[i] = Sums(l)[i - 1] + r[i].size
  <2>1. i \in 1..Len(l)
    BY <1>1
  <2> QED
    BY <2>1, SumsAre
<1> QED
  BY <1>2, <1>3, SumsOnly

Accounts == 0..Wrap - 1

(* The accounted size stays within its integer.                            *)
LEMMA WrapsAround ==
  /\ \A a, b \in Int : Plus(a, b) \in Accounts /\ Minus(a, b) \in Accounts
  /\ \A x \in Accounts : x % Wrap = x
<1>1. Wrap \in Nat /\ Wrap > 0
  BY PolicyAssumption
<1>2. \A x \in Int : x % Wrap \in 0..Wrap - 1
  BY <1>1
<1>3. \A x \in 0..Wrap - 1 : x % Wrap = x
  BY <1>1
<1> QED
  BY <1>2, <1>3 DEF Plus, Minus, Accounts

(* The last entry's size is taken off first.                               *)
LEMMA SizeOfFirstIs ==
  ASSUME NEW l \in Seq(Entry), NEW s \in Accounts
  PROVE  /\ SizeOfFirst(l, s) \in [0..Len(l) -> Accounts]
         /\ SizeOfFirst(l, s)[Len(l)] = s
         /\ \A n \in 0..Len(l) - 1 :
              SizeOfFirst(l, s)[n] = Removed(SizeOfFirst(l, s)[n + 1], l[n + 1])
<1> DEFINE N == Len(l)
           Takes(f) == f = [n \in 0..N |-> IF n = N THEN s ELSE Removed(f[n + 1], l[n + 1])]
           step == [i \in 1..N |-> [x \in Accounts |-> Removed(x, l[N - i + 1])]]
<1>1. N \in Nat /\ \A i \in 1..N : l[i].size \in Nat
  BY SumsAre
<1>2. \A i \in 1..N : \A x \in Accounts : Removed(x, l[i]) \in Accounts
  <2> SUFFICES ASSUME NEW i \in 1..N, NEW x \in Accounts PROVE Removed(x, l[i]) \in Accounts
    OBVIOUS
  <2>1. x \in Int /\ l[i].size \in Int
    BY <1>1, PolicyAssumption DEF Accounts
  <2> QED
    BY <2>1, WrapsAround DEF Removed
<1>3. step \in Steps(N, Accounts)
  <2>1. \A i \in 1..N : N - i + 1 \in 1..N
    BY <1>1
  <2> QED
    BY <1>2, <2>1 DEF Steps
<1>4. \A i \in 1..N : \A x \in Accounts : step[i][x] = Removed(x, l[N - i + 1])
  OBVIOUS
<1> HIDE DEF step
<1>5. PICK f \in [0..N -> Accounts] : Follows(f, N, s, step)
  BY <1>1, <1>3, Recursive
<1> DEFINE g == [n \in 0..N |-> f[N - n]]
<1>6. Takes(g)
  <2> DEFINE h == [n \in 0..N |-> IF n = N THEN s ELSE Removed(g[n + 1], l[n + 1])]
  <2>1. ASSUME NEW n \in 0..N PROVE h[n] = g[n]
    <3>1. CASE n = N
      BY <1>1, <1>5, <3>1 DEF Follows
    <3>2. CASE n # N
      <4>1. /\ n + 1 \in 0..N /\ N - n \in 1..N /\ N - (n + 1) = (N - n) - 1
            /\ N - (n + 1) \in 0..N /\ N - (N - n) + 1 = n + 1
        BY <1>1, <3>2
      <4>2. f[N - n] = step[N - n][f[(N - n) - 1]]
        BY <1>5, <4>1 DEF Follows
      <4>3. f[(N - n) - 1] \in Accounts
        BY <1>5, <4>1
      <4>4. f[N - n] = Removed(f[N - (n + 1)], l[n + 1])
        BY <1>4, <4>1, <4>2, <4>3
      <4> QED
        BY <3>2, <4>1, <4>4
    <3> QED
      BY <3>1, <3>2
  <2> QED
    BY <2>1
<1>7. SizeOfFirst(l, s) = CHOOSE h : Takes(h)
  BY DEF SizeOfFirst
<1>8. Takes(SizeOfFirst(l, s))
  <2> HIDE DEF Takes, g
  <2> QED
    BY <1>6, <1>7
<1> DEFINE h == SizeOfFirst(l, s)
<1>9. /\ h = [n \in 0..N |-> h[n]] /\ h[N] = s
      /\ \A n \in 0..N - 1 : h[n] = Removed(h[n + 1], l[n + 1])
  BY <1>1, <1>8
<1> HIDE DEF h
<1>10. \A i \in 0..N : h[N - i] \in Accounts
  <2> DEFINE T == {i \in 0..N : h[N - i] \in Accounts}
  <2>1. 0 \in T
    BY <1>1, <1>9
  <2>2. ASSUME NEW i \in 1..N, i - 1 \in T PROVE i \in T
    <3>1. /\ N - i \in 0..N - 1 /\ (N - i) + 1 = N - (i - 1) /\ (N - i) + 1 \in 1..N
      BY <1>1
    <3>2. h[N - i] = Removed(h[N - (i - 1)], l[(N - i) + 1])
      BY <1>9, <3>1
    <3> QED
      BY <1>2, <2>2, <3>1, <3>2
  <2>3. \A i \in 0..N : i \in T
    <3> HIDE DEF T
    <3> QED
      BY <1>1, <2>1, <2>2, Everywhere
  <2> QED
    BY <2>3
<1>11. \A n \in 0..N : h[n] \in Accounts
  <2> SUFFICES ASSUME NEW n \in 0..N PROVE h[n] \in Accounts
    OBVIOUS
  <2>1. N - n \in 0..N /\ N - (N - n) = n
    BY <1>1
  <2> QED
    BY <1>10, <2>1
<1> QED
  BY <1>9, <1>11 DEF h

(* What is accounted for a list that has not wrapped around is, after each *)
(* removal, the sum of what is left.                                       *)
LEMMA AccountedExactly ==
  ASSUME NEW l \in Seq(Entry), Sums(l)[Len(l)] \in Accounts
  PROVE  \A n \in 0..Len(l) : SizeOfFirst(l, Sums(l)[Len(l)])[n] = Sums(l)[n]
<1> DEFINE N == Len(l)
           s == Sums(l)[N]
           h == SizeOfFirst(l, s)
           T == {i \in 0..N : h[N - i] = Sums(l)[N - i]}
<1>1. N \in Nat /\ s \in Accounts
  OBVIOUS
<1>2. h[N] = s /\ \A n \in 0..N - 1 : h[n] = Removed(h[n + 1], l[n + 1])
  BY <1>1, SizeOfFirstIs
<1> HIDE DEF h
<1>3. 0 \in T
  BY <1>1, <1>2
<1>4. ASSUME NEW i \in 1..N, i - 1 \in T PROVE i \in T
  <2> DEFINE n == N - i
  <2>1. n \in 0..N - 1 /\ n + 1 = N - (i - 1) /\ n + 1 \in 1..N /\ (n + 1) - 1 = n
    BY <1>1
  <2>2. h[n] = Minus(Sums(l)[n + 1], l[n + 1].size)
    BY <1>2, <1>4, <2>1 DEF Removed
  <2>3. /\ l[n + 1].size + Sums(l)[n] = Sums(l)[n + 1] /\ Sums(l)[n + 1] <= s
        /\ Sums(l)[n] \in Nat /\ Sums(l)[n + 1] \in Nat /\ l[n + 1].size \in Nat
    <3>1. /\ l[n + 1].size + Sums(l)[(n + 1) - 1] = Sums(l)[n + 1]
          /\ \A j \in (n + 1)..N : Sums(l)[n + 1] <= Sums(l)[j]
      BY <2>1, SumsGrow
    <3>2. N \in (n + 1)..N /\ n \in 0..N /\ n + 1 \in 0..N
      BY <1>1, <2>1
    <3>3. Sums(l) \in [0..N -> Nat] /\ l[n + 1].size \in Nat
      BY <2>1, SumsAre
    <3> QED
      BY <2>1, <3>1, <3>2, <3>3
  <2>4. Sums(l)[n + 1] - l[n + 1].size = Sums(l)[n] /\ Sums(l)[n] \in Accounts
    <3>1. Sums(l)[n + 1] - l[n + 1].size = Sums(l)[n] /\ Sums(l)[n] <= s
      BY <1>1, <2>3 DEF Accounts
    <3>2. s \in 0..Wrap - 1 /\ Wrap \in Nat
      BY <1>1, PolicyAssumption DEF Accounts
    <3> HIDE DEF s
    <3>3. Sums(l)[n] \in 0..Wrap - 1
      BY <2>3, <3>1, <3>2
    <3> QED
      BY <3>1, <3>3 DEF Accounts
  <2>5. h[n] = Sums(l)[n]
    BY <2>2, <2>4, WrapsAround DEF Minus
  <2> QED
    BY <2>5
<1>5. \A i \in 0..N : i \in T
  <2> HIDE DEF T
  <2> QED
    BY <1>1, <1>3, <1>4, Everywhere
<1>6. ASSUME NEW n \in 0..N PROVE h[n] = Sums(l)[n]
  <2>1. N - n \in 0..N /\ N - (N - n) = n
    BY <1>1
  <2>2. N - n \in T
    BY <1>5, <2>1
  <2> QED
    BY <2>1, <2>2
<1> QED
  BY <1>6 DEF h

-----------------------------------------------------------------------------
(* The limits                                                              *)

(* The limit and the size of any text fit in the integer together.         *)
NoWrap == \A n \in Sizes : MaxSize + n < Wrap

CacheInv ==
  /\ Entries /\ size \in Accounts
  /\ MaxCount > 0 => Len(lru) <= MaxCount
  /\ MaxSize > 0 /\ NoWrap => size = Total /\ Total <= MaxSize

(* The total is a number, and no entry is larger than it.                  *)
LEMMA TotalIs ==
  Entries => /\ Total \in Nat
             /\ \A i \in DOMAIN lru : lru[i].size \in Nat /\ lru[i].size <= Total
<1> SUFFICES ASSUME Entries
             PROVE  /\ Total \in Nat
                    /\ \A i \in DOMAIN lru : lru[i].size \in Nat /\ lru[i].size <= Total
  OBVIOUS
<1>1. lru \in Seq(Entry) /\ Len(lru) \in Nat /\ DOMAIN lru = 1..Len(lru)
  BY DEF Entries
<1>2. \A j \in 0..Len(lru) : Sums(lru)[j] \in Nat
  BY <1>1, SumsAre
<1>3. ASSUME NEW i \in 1..Len(lru) PROVE lru[i].size \in Nat /\ lru[i].size <= Total
  <2>1. lru[i].size \in Nat /\ lru[i].size + Sums(lru)[i - 1] = Sums(lru)[i]
    BY <1>1, SumsAre, SumsGrow
  <2>2. Sums(lru)[i] <= Sums(lru)[Len(lru)]
    <3>1. Len(lru) \in i..Len(lru)
      BY <1>1
    <3> QED
      BY <1>1, <3>1, SumsGrow
  <2>3. Sums(lru)[i - 1] \in Nat /\ Sums(lru)[i] \in Nat /\ Sums(lru)[Len(lru)] \in Nat
    BY <1>1, <1>2
  <2> QED
    BY <2>1, <2>2, <2>3 DEF Total
<1> QED
  BY <1>1, <1>2, <1>3 DEF Total

(* The list Put makes, before anything is evicted.                         *)
LEMMA PutAdds ==
  ASSUME CacheInv, NoWrap, MaxSize > 0, NEW k \in Keys, NEW e \in Entry
  PROVE  LET old == IF k \in Cached THEN lru[Position(k)].size ELSE 0
             l   == <<e>> \o Without(k)
         IN Sums(l)[Len(l)] \in Accounts /\ Added(old, e.size) = Sums(l)[Len(l)]
<1> DEFINE old == IF k \in Cached THEN lru[Position(k)].size ELSE 0
           w == Without(k)
           l == <<e>> \o w
<1>1. /\ Total \in Nat /\ size = Total /\ Total <= MaxSize /\ MaxSize \in Nat /\ Wrap \in Nat
      /\ e.size \in Nat /\ MaxSize + e.size < Wrap /\ Entries
  BY TotalIs, PolicyAssumption DEF CacheInv, NoWrap, Entry
<1>2. w \in Seq(Entry)
  BY <1>1, WithoutIs
<1>3. old \in Nat /\ old <= Total /\ Sums(w)[Len(w)] = Total - old
  <2>1. CASE k \in Cached
    <3>1. PICK q \in DOMAIN lru : lru[q].key = k
      BY <2>1 DEF Cached
    <3>2. old = lru[q].size
      BY <1>1, <2>1, <3>1, PositionIs
    <3> HIDE DEF old
    <3>3. old \in Nat /\ old <= Total
      BY <1>1, <3>2, TotalIs
    <3> QED
      BY <1>1, <3>1, <3>2, <3>3, SumsWithout
  <2>2. CASE k \notin Cached
    BY <1>1, <2>2 DEF Without, Total
  <2> QED
    BY <2>1, <2>2
<1> HIDE DEF w, old
<1>4. Sums(l)[Len(l)] = e.size + (Total - old)
  BY <1>2, <1>3, SumsInFront
<1> HIDE DEF l
<1>5. Total - old \in Accounts /\ (Total - old) + e.size \in Accounts
  BY <1>1, <1>3 DEF Accounts
<1>6. Minus(size, old) = Total - old
  BY <1>1, <1>5, WrapsAround DEF Minus
<1>7. Added(old, e.size) = (Total - old) + e.size
  BY <1>5, <1>6, WrapsAround DEF Plus, Added
<1>8. e.size + (Total - old) = (Total - old) + e.size
  BY <1>1, <1>3
<1> QED
  BY <1>4, <1>5, <1>7, <1>8 DEF l, w, old

(* A Put accounts for what it adds, replaces and evicts, and stops when    *)
(* the limits are met.                                                     *)
LEMMA PutLimits ==
  ASSUME CacheInv, NEW k \in Keys, NEW o \in Objects, NEW n \in Sizes,
         CachePut(k, o, n)
  PROVE  CacheInv'
<1> DEFINE e == [key |-> k, obj |-> o, size |-> n, age |-> 0]
           l == <<e>> \o Without(k)
           old == IF k \in Cached THEN lru[Position(k)].size ELSE 0
           s == Added(old, n)
           m == Kept(l, s)
<1>1. e \in Entry /\ e.key = k /\ e.size = n /\ n \in Nat
  BY PolicyAssumption DEF Entry
<1>2. l \in Seq(Entry) /\ Entries
  BY <1>1, InFront DEF CacheInv
<1>3. Entries'
  BY <1>2, PutStep
<1>4. lru' = SubSeq(l, 1, m) /\ size' = SizeOfFirst(l, s)[m]
  BY DEF CachePut
<1>5. s \in Accounts
  <2>1. old \in Int
    BY <1>2, PositionIs, TotalIs DEF Cached
  <2> HIDE DEF old
  <2>2. Minus(size, old) \in Int
    BY <2>1, WrapsAround, PolicyAssumption DEF CacheInv, Accounts
  <2> QED
    BY <1>1, <2>2, WrapsAround DEF Added
<1>6. MaxSize > 0 /\ NoWrap => Sums(l)[Len(l)] \in Accounts /\ s = Sums(l)[Len(l)]
  BY <1>1, PutAdds
<1> HIDE DEF e, old
<1> HIDE DEF l, s
<1>7. /\ m \in 0..Len(l)
      /\ m = 0 \/ ~ Evict(l[m], m, SizeOfFirst(l, s)[m])
  BY <1>2, KeptIs
<1> HIDE DEF m
<1>8. /\ lru' \in Seq(Entry) /\ Len(lru') = m
      /\ \A i \in 1..m : lru'[i] = l[i]
  BY <1>2, <1>4, <1>7
<1>9. size' \in Accounts
  BY <1>2, <1>4, <1>5, <1>7, SizeOfFirstIs
<1>10. MaxCount > 0 => Len(lru') <= MaxCount
  BY <1>7, <1>8, PolicyAssumption DEF Evict
<1>11. ASSUME MaxSize > 0, NoWrap PROVE size' = Total' /\ Total' <= MaxSize
  <2>1. Total' = Sums(l)[m]
    <3>1. \A i \in 0..m : Sums(lru')[i] = Sums(l)[i]
      <4>1. m <= Len(l) /\ \A i \in 1..Len(lru') : lru'[i].size = l[i].size
        BY <1>7, <1>8
      <4> QED
        BY <1>2, <1>8, <4>1, SumsSame
    <3> QED
      BY <1>7, <1>8, <3>1 DEF Total
  <2>2. size' = Sums(l)[m]
    BY <1>2, <1>4, <1>6, <1>7, <1>11, AccountedExactly
  <2>3. Sums(l)[m] \in Nat /\ Sums(l)[0] = 0 /\ MaxSize \in Nat
    BY <1>2, <1>7, SumsAre, PolicyAssumption
  <2>4. m = 0 \/ ~ (size' > MaxSize)
    BY <1>4, <1>7, <1>11 DEF Evict
  <2> QED
    BY <2>1, <2>2, <2>3, <2>4
<1> QED
  BY <1>3, <1>9, <1>10, <1>11 DEF CacheInv

(* A Get reorders the list and changes no sum.                             *)
LEMMA GetLimits ==
  ASSUME CacheInv, NEW k \in Keys, CacheGet(k)
  PROVE  CacheInv'
<1>1. Entries /\ Entries' /\ size' = size
  BY GetStep DEF CacheInv, CacheGet
<1>2. PICK q \in DOMAIN lru : lru[q].key = k
  BY DEF CacheGet, Cached
<1> DEFINE w == Without(k)
           e == lru[q]
<1>3. /\ w \in Seq(Entry) /\ Len(w) = Len(lru) - 1
      /\ Sums(w)[Len(w)] = Total - e.size
  BY <1>1, <1>2, LeftIs, SumsWithout
<1>4. e \in Entry /\ e.size \in Nat /\ Total \in Nat /\ Len(lru) \in Nat
  BY <1>1, TotalIs DEF Entries
<1>5. lru' = <<e>> \o w
  BY <1>1, <1>2, PositionIs DEF CacheGet
<1> HIDE DEF w, e
<1>6. Total' = e.size + (Total - e.size)
  BY <1>3, <1>4, <1>5, SumsInFront DEF Total
<1>7. Len(lru') = Len(lru)
  <2>1. <<e>> \in Seq(Entry) /\ Len(<<e>>) = 1
    BY <1>4
  <2>2. Len(<<e>> \o w) = Len(<<e>>) + Len(w)
    BY <1>3, <2>1, ConcatProperties
  <2> QED
    BY <1>3, <1>4, <1>5, <2>1, <2>2
<1>8. Total' = Total
  BY <1>4, <1>6
<1> QED
  BY <1>1, <1>7, <1>8 DEF CacheInv

(* An entry that grows older keeps its size.                               *)
LEMMA TickLimits ==
  ASSUME CacheInv, CacheTick
  PROVE  CacheInv'
<1>1. Entries /\ Entries' /\ size' = size
  BY TickStep DEF CacheInv, CacheTick
<1>2. /\ DOMAIN lru' = DOMAIN lru
      /\ \A i \in DOMAIN lru : lru'[i].size = lru[i].size
  <2>1. \A i \in DOMAIN lru : lru[i] \in Entry
    BY <1>1 DEF Entries
  <2> QED
    BY <2>1 DEF CacheTick, Entry
<1>3. /\ lru \in Seq(Entry) /\ lru' \in Seq(Entry) /\ Len(lru) \in Nat
      /\ DOMAIN lru = 1..Len(lru) /\ DOMAIN lru' = 1..Len(lru') /\ Len(lru') \in Nat
  BY <1>1 DEF Entries
<1>4. Len(lru') = Len(lru)
  BY <1>2, <1>3
<1>5. Total' = Total
  BY <1>2, <1>3, <1>4, SumsSame DEF Total
<1> QED
  BY <1>1, <1>4, <1>5 DEF CacheInv

(* Every step keeps the accounts and the limits.                           *)
LEMMA CacheInvStep ==
  ASSUME CacheInv, [CacheNext]_cacheVars
  PROVE  CacheInv'
<1>1. CASE UNCHANGED cacheVars
  <2>1. UNCHANGED <<lru, size>>
    BY <1>1 DEF cacheVars
  <2> QED
    BY <2>1 DEF CacheInv, Entries, Total
<1> QED
  BY <1>1, GetLimits, PutLimits, TickLimits DEF CacheNext

(* An empty cache has size 0.                                              *)
LEMMA CacheInvInit == CacheInit => CacheInv
<1> SUFFICES ASSUME CacheInit PROVE CacheInv
  OBVIOUS
<1>1. lru = <<>> /\ size = 0 /\ Entries /\ Len(<<>>) = 0
  BY CacheStart DEF CacheInit
<1>2. Total = 0
  BY <1>1, SumsAre DEF Total, Entries
<1> QED
  BY <1>1, <1>2, PolicyAssumption DEF CacheInv, Accounts

(* Every entry of the list has a key of its own, and the accounted size    *)
(* stays a size, whatever the policy.                                      *)
THEOREM CacheTyped == CacheSpec => []CacheTypeOK
<1>1. CacheInv => CacheTypeOK
  BY DEF CacheInv, CacheTypeOK, Entries, UniqueKeys, Accounts
<1>2. CacheInv /\ [CacheNext]_cacheVars => CacheInv'
  BY CacheInvStep
<1> QED
  BY <1>1, <1>2, CacheInvInit, PTL DEF CacheSpec

(* The accounted size is the sum of the sizes held, whatever is put in,    *)
(* replaced and evicted, if the policy has a limit of size.                *)
THEOREM SizeAccounted ==
  ASSUME NoWrap, MaxSize > 0
  PROVE  CacheSpec => []SizeIsSum
<1>1. CacheInv => SizeIsSum
  BY DEF CacheInv, SizeIsSum
<1>2. CacheInv /\ [CacheNext]_cacheVars => CacheInv'
  BY CacheInvStep
<1> QED
  BY <1>1, <1>2, CacheInvInit, PTL DEF CacheSpec

(* Between two calls the cache holds no more entries, and no more in size, *)
(* than the policy allows.                                                 *)
THEOREM LimitsKept ==
  ASSUME NoWrap
  PROVE  CacheSpec => []LimitsHold
<1>1. CacheInv => LimitsHold
  BY DEF CacheInv, LimitsHold
<1>2. CacheInv /\ [CacheNext]_cacheVars => CacheInv'
  BY CacheInvStep
<1> QED
  BY <1>1, <1>2, CacheInvInit, PTL DEF CacheSpec
=============================================================================
