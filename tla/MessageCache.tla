---------------------------- MODULE MessageCache ----------------------------
(***************************************************************************)
(* The message cache, cmd/reeed/cache/cache.go: an LRU list with a policy  *)
(* that evicts by count, by size and by age.                               *)
(*                                                                         *)
(* The list is the library policy-lru.  Its Add puts the entry in front,   *)
(* reports it to Added, and then, as long as Evict says so of the last     *)
(* entry, removes that one and reports it to Removed.  Its Get moves the   *)
(* entry it finds to the front.  Definitions headed "Slip:" are plausible  *)
(* mistakes in the definition that follows.                                *)
(***************************************************************************)
EXTENDS Integers, SequencesExt

CONSTANTS
  Keys,     (* MD5 sums of message texts                                   *)
  Objects,  (* Message objects                                             *)
  Sizes,    (* sizes of texts                                              *)
  MaxCount, MaxSize, MaxAge, (* the Policy; 0 is no limit                  *)
  Wrap,     (* where the accounted size wraps around, 2^64 in the code     *)
  None

ASSUME PolicyAssumption ==
  /\ Sizes \subseteq Nat
  /\ MaxCount \in Nat /\ MaxSize \in Nat /\ MaxAge \in Nat /\ Wrap \in Nat \ {0}
  /\ None \notin Objects

(* An age beyond the limit makes no further difference.                    *)
Entry == [key : Keys, obj : Objects, size : Sizes, age : 0..MaxAge + 1]

VARIABLES
  lru, (* the entries, the one used last in front                          *)
  size (* policy.size                                                      *)

cacheVars == <<lru, size>>

CacheInit == lru = <<>> /\ size = 0

Plus(a, b)  == (a + b) % Wrap
Minus(a, b) == (a - b) % Wrap

Cached      == {lru[i].key : i \in DOMAIN lru}
Position(k) == CHOOSE i \in DOMAIN lru : lru[i].key = k
Without(k)  == IF k \in Cached THEN RemoveAt(lru, Position(k)) ELSE lru

(* A new entry comes with an old one of size 0.                            *)
Added(old, new) == Plus(Minus(size, old), new)

(* Slip: the list has no handler to report a removal to.                   *)
RemovedUnnoticed(s, e) == s

Removed(s, e) == Minus(s, e.size)

(* Slip: an entry is evicted only if the others are too many without it.   *)
EvictLate(e, n, s) ==
  \/ MaxCount > 0 /\ n - 1 > MaxCount
  \/ MaxSize > 0 /\ s > MaxSize
  \/ MaxAge > 0 /\ e.age > MaxAge

Evict(e, n, s) ==
  \/ MaxCount > 0 /\ n > MaxCount
  \/ MaxSize > 0 /\ s > MaxSize
  \/ MaxAge > 0 /\ e.age > MaxAge

(* What the library leaves of a list whose accounted size is s: the sizes  *)
(* after the last entries are removed, and the longest part that stays.    *)
SizeOfFirst(l, s) ==
  LET left[n \in 0..Len(l)] ==
        IF n = Len(l) THEN s ELSE Removed(left[n + 1], l[n + 1])
  IN left

Kept(l, s) ==
  CHOOSE n \in 0..Len(l) :
    /\ n = 0 \/ ~ Evict(l[n], n, SizeOfFirst(l, s)[n])
    /\ \A m \in (n + 1)..Len(l) : Evict(l[m], m, SizeOfFirst(l, s)[m])

-----------------------------------------------------------------------------
(* Slip: Get trades places with the front entry, and the table that leads  *)
(* from keys to places is not told.                                        *)
CacheGetTrading(k) ==
  /\ k \in Cached
  /\ lru' = [lru EXCEPT ![1].obj = lru[Position(k)].obj,
                        ![Position(k)].obj = lru[1].obj]
  /\ UNCHANGED size

(* Get finds the entry: whatever its age, it comes to the front.           *)
CacheGet(k) ==
  /\ k \in Cached
  /\ lru' = <<lru[Position(k)]>> \o Without(k)
  /\ UNCHANGED size

(* Put adds a young entry, or replaces the one that is there.              *)
CachePut(k, o, n) ==
  LET old == IF k \in Cached THEN lru[Position(k)].size ELSE 0
      l   == <<[key |-> k, obj |-> o, size |-> n, age |-> 0]>> \o Without(k)
      s   == Added(old, n)
  IN /\ lru'  = SubSeq(l, 1, Kept(l, s))
     /\ size' = SizeOfFirst(l, s)[Kept(l, s)]

CacheTick ==
  /\ lru' = [i \in DOMAIN lru |->
               [lru[i] EXCEPT !.age = IF @ > MaxAge THEN @ ELSE @ + 1]]
  /\ UNCHANGED size

CacheNext == \/ \E k \in Keys : CacheGet(k)
             \/ \E k \in Keys, o \in Objects, n \in Sizes : CachePut(k, o, n)
             \/ CacheTick

CacheSpec == CacheInit /\ [][CacheNext]_cacheVars

-----------------------------------------------------------------------------
(* Properties                                                              *)

CacheTypeOK == /\ lru \in Seq(Entry)
               /\ size \in 0..Wrap - 1
               /\ \A i, j \in DOMAIN lru : lru[i].key = lru[j].key => i = j

(* The sizes of the first entries of a list, added up.                     *)
Sums(l) == LET sum[n \in 0..Len(l)] ==
                 IF n = 0 THEN 0 ELSE sum[n - 1] + l[n].size
           IN sum

Total == Sums(lru)[Len(lru)]

(* The accounted size is that of the entries held: it never wraps around,  *)
(* which would evict everything at every Put from then on.                 *)
SizeIsSum == size = Total

(* Between two calls neither limit is exceeded.                            *)
LimitsHold == /\ MaxCount > 0 => Len(lru) <= MaxCount
              /\ MaxSize > 0 => Total <= MaxSize

(* The cache is the one the eval command relies on.                        *)
found == [k \in Keys |-> IF k \in Cached THEN lru[Position(k)].obj ELSE None]

ObjectCache == INSTANCE ObjectCache WITH cache <- found

ImplementsObjectCache == ObjectCache!Spec
=============================================================================
