----------------------------- MODULE ObjectCache -----------------------------
(***************************************************************************)
(* What the eval command relies on of its MessageCache (daemon/message.go):*)
(* Get finds nothing but what was put under the key last, and only Put     *)
(* changes what it finds.  What stays in the cache is not promised.        *)
(***************************************************************************)
CONSTANTS Keys, Objects, None

VARIABLE cache (* key -> the object Get finds, or None                     *)

Init == cache = [k \in Keys |-> None]

Put(k, o) == \E evicted \in SUBSET Keys :
               cache' = [x \in Keys |-> IF x \in evicted THEN None
                                        ELSE IF x = k THEN o ELSE cache[x]]

Next == \E k \in Keys, o \in Objects : Put(k, o)

Spec == Init /\ [][Next]_cache
=============================================================================
