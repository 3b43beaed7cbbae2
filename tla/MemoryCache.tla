----------------------------- MODULE MemoryCache -----------------------------
(***************************************************************************)
(* pkg/cache/memory.go: a map of keys with a time to live, purged by a     *)
(* background loop and by readers that find an entry past its time.  The   *)
(* mutex makes every access a step; Get releases it between the look-up    *)
(* and the removal of what it found expired, so those are two.  Clear and  *)
(* Stop have no caller in the program.                                     *)
(***************************************************************************)
EXTENDS Tables, Naturals

CONSTANT MaxTime    \* bound: how far the clock runs

VARIABLES
    items,  \* key -> entry
    clock   \* the time

cache == <<items, clock>>

ASSUME MemoryCacheAssumption == MaxTime \in Nat

CacheInit == items = Empty /\ clock = 0

Expired(e) == clock >= e.expiresAt

Live(key) == key \in DOMAIN items /\ ~Expired(items[key])

CacheSet(key, value, ttl) ==
    /\ items' = Put(items, key, [value |-> value, expiresAt |-> clock + ttl])
    /\ UNCHANGED clock

(* Delete, and the removal of an expired entry in Get.                     *)
CacheDelete(key) == items' = Drop(items, {key}) /\ UNCHANGED clock

(* Mutant: the loop looks at the wrong side of the comparison.             *)
DeleteExpiredEarly ==
    /\ items # Empty
    /\ items' = Drop(items, {k \in DOMAIN items : ~Expired(items[k])})
    /\ UNCHANGED clock

(* One round of cleanupLoop.                                               *)
DeleteExpired ==
    /\ items # Empty
    /\ items' = Drop(items, {k \in DOMAIN items : Expired(items[k])})
    /\ UNCHANGED clock

TimePasses == clock < MaxTime /\ clock' = clock + 1 /\ UNCHANGED items
=============================================================================
