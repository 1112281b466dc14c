------------------------------ MODULE KeyCache ------------------------------
(***************************************************************************)
(* The LRU cache of delegation.KeyResolverImpl, one per server instance.   *)
(* The cached public key is determined by the key ID, so an entry is its   *)
(* key ID; the map from key IDs to list elements is the list's range.      *)
(***************************************************************************)
EXTENDS Deployment

CONSTANT CacheSize   \* maxKeyCacheSize

ASSUME CacheAssumption == CacheSize \in Nat \ {0}

VARIABLE cache   \* cache[i]: the cached key IDs of instance i, most recent first

CacheTypeOK == cache \in [Instance -> Seq(Key)]

CacheInit == cache = [i \in Instance |-> <<>>]

Cached(i, k) == k \in ToSet(cache[i])

\* The list s without the element the map has for key ID k, if it has one.
Without(s, k) ==
    IF k \in ToSet(s) THEN RemoveAt(s, CHOOSE n \in DOMAIN s : s[n] = k) ELSE s

\* The list s with entry k in front (MoveToFront, or PushFront of a new one).
ToFront(s, k) == <<k>> \o Without(s, k)

\* A lookup that hits moves the entry to the front.
Touch(i, k) ==
    /\ Cached(i, k)
    /\ cache' = [cache EXCEPT ![i] = ToFront(@, k)]

\* Seeded fault: an entry that another miss has inserted meanwhile is not looked for.
InsertBlindly(i, k) ==
    cache' = [cache EXCEPT ![i] =
        IF ~Cached(i, k) /\ Len(@) >= CacheSize THEN <<k>> \o Front(@) ELSE <<k>> \o @]

\* insertLocked: a present entry moves to the front; a new one first evicts
\* the least recently used entry of a full cache.
Insert(i, k) ==
    cache' = [cache EXCEPT ![i] =
        IF ~Cached(i, k) /\ Len(@) >= CacheSize THEN ToFront(Front(@), k)
                                                ELSE ToFront(@, k)]

InvalidateCache(i, k) == cache' = [cache EXCEPT ![i] = Without(@, k)]

ClearCache(i) == cache' = [cache EXCEPT ![i] = <<>>]

-----------------------------------------------------------------------------

\* The list and the map of a cache stay in step and within the limit, although
\* a miss is looked up in the store without the lock: two misses on one key
\* never leave two entries, and no number of misses exceeds the capacity.
CacheWellFormed ==
    \A i \in Instance : Len(cache[i]) <= CacheSize /\ IsInjective(cache[i])
=============================================================================
