----------------------------- MODULE JwksCache ------------------------------
(***************************************************************************)
(* The key sets of OIDC providers (internal/user/oidc.go): fetched over    *)
(* HTTP without a lock, kept for an hour, the oldest one dropped when      *)
(* there are too many. Providers change their keys when they like.         *)
(***************************************************************************)
EXTENDS Integers, SequencesExt

CONSTANTS
    Url,           \* the JWKS URLs of registered providers
    SigningKey,    \* the keys a provider can publish
    Fetcher,       \* the goroutines that verify OIDC tokens
    CacheTTL,      \* jwksCacheTTL
    CacheSize,     \* jwksCacheMaxSize
    FetchTimeout,  \* the timeout of the HTTP client
    MaxClock       \* bound: the last tick of the clock

ASSUME JwksAssumption ==
    /\ CacheTTL \in Nat \ {0} /\ CacheSize \in Nat \ {0}
    /\ FetchTimeout \in Nat /\ MaxClock \in Nat

VARIABLES
    clock,       \* in units in which both durations are whole
    published,   \* the keys each provider publishes now
    keySets,     \* the cache: per URL a key set and when it was stored
    fetching,    \* per goroutine the URL it fetches, since when, and what it has read
    lastSeen     \* history: per provider and key when it was last published, -1 if never

jwksVars == <<clock, published, keySets, fetching, lastSeen>>

Idle      == [url |-> {}, since |-> 0, read |-> {}]
Fetch     == [url : {{u} : u \in Url}, since : 0..clock, read : {{}} \cup {{S} : S \in SUBSET SigningKey}]

JwksTypeOK ==
    /\ clock \in 0..MaxClock
    /\ published \in [Url -> SUBSET SigningKey]
    /\ DOMAIN keySets \subseteq Url /\ Cardinality(DOMAIN keySets) <= CacheSize
    /\ \A u \in DOMAIN keySets : keySets[u] \in [keys : SUBSET SigningKey, at : 0..clock]
    /\ \A f \in Fetcher : fetching[f] = Idle \/ fetching[f] \in Fetch
    /\ lastSeen \in [Url -> [SigningKey -> -1..clock]]

JwksInit ==
    /\ clock = 0
    /\ published = [u \in Url |-> {}]
    /\ keySets = <<>>
    /\ fetching = [f \in Fetcher |-> Idle]
    /\ lastSeen = [u \in Url |-> [k \in SigningKey |-> -1]]

\* Seeded fault: an entry is good for one tick too long.
UsableInclusive(u) == u \in DOMAIN keySets /\ clock - keySets[u].at <= CacheTTL

\* The cached key set is used.
Usable(u) == u \in DOMAIN keySets /\ clock - keySets[u].at < CacheTTL

-----------------------------------------------------------------------------
(* fetchJWKS                                                                 *)

FetchBegin(f, u) ==
    /\ fetching[f] = Idle
    /\ ~Usable(u)
    /\ fetching' = [fetching EXCEPT ![f] = [url |-> {u}, since |-> clock, read |-> {}]]
    /\ UNCHANGED <<clock, published, keySets, lastSeen>>

\* The provider answers with what it publishes.
FetchRead(f, u) ==
    /\ fetching[f].url = {u} /\ fetching[f].read = {}
    /\ fetching' = [fetching EXCEPT ![f].read = {published[u]}]
    /\ UNCHANGED <<clock, published, keySets, lastSeen>>

\* Seeded fault: nothing is dropped.
EvictNone(entries) == {entries}

\* The oldest entry is dropped from a cache that is too large.
EvictOldest(entries) ==
    IF Cardinality(DOMAIN entries) <= CacheSize THEN {entries}
    ELSE {[u \in DOMAIN entries \ {old} |-> entries[u]] :
            old \in {u \in DOMAIN entries : \A v \in DOMAIN entries : entries[u].at <= entries[v].at}}

\* The key set is stored with the time of storing, whatever was stored meanwhile.
FetchStore(f, u) ==
    LET entry == [keys |-> UNION fetching[f].read, at |-> clock] IN
    /\ fetching[f].url = {u} /\ fetching[f].read # {}
    /\ keySets' \in EvictOldest([v \in DOMAIN keySets \cup {u} |-> IF v = u THEN entry ELSE keySets[v]])
    /\ fetching' = [fetching EXCEPT ![f] = Idle]
    /\ UNCHANGED <<clock, published, lastSeen>>

\* No answer, or not a good one: the token is not verified.
FetchFails(f) ==
    /\ fetching[f] # Idle
    /\ fetching' = [fetching EXCEPT ![f] = Idle]
    /\ UNCHANGED <<clock, published, keySets, lastSeen>>

\* The keys with which VerifyOIDCToken verifies the tokens of a provider: those
\* of the cache, or those that the goroutine has read itself.
VerifyingKeys(f, u) ==
    (IF Usable(u) THEN keySets[u].keys ELSE {})
        \cup (IF fetching[f].url = {u} THEN UNION fetching[f].read ELSE {})

-----------------------------------------------------------------------------
(* The world                                                                 *)

Publish(u, keys) ==
    /\ published' = [published EXCEPT ![u] = keys]
    /\ lastSeen' = [lastSeen EXCEPT ![u] = [k \in SigningKey |->
                      IF k \in keys \cup published[u] THEN clock ELSE @[k]]]
    /\ UNCHANGED <<clock, keySets, fetching>>

\* A fetch does not outlive its timeout.
JwksTick ==
    /\ clock < MaxClock
    /\ \A f \in Fetcher : fetching[f] # Idle => clock - fetching[f].since < FetchTimeout
    /\ clock' = clock + 1
    /\ lastSeen' = [u \in Url |-> [k \in SigningKey |->
                      IF k \in published[u] THEN clock + 1 ELSE lastSeen[u][k]]]
    /\ UNCHANGED <<published, keySets, fetching>>

JwksNext ==
    \/ \E f \in Fetcher :
         \/ FetchFails(f)
         \/ \E u \in Url : FetchBegin(f, u) \/ FetchRead(f, u) \/ FetchStore(f, u)
    \/ \E u \in Url, keys \in SUBSET SigningKey : Publish(u, keys)
    \/ JwksTick

JwksSpec == JwksInit /\ [][JwksNext]_jwksVars

-----------------------------------------------------------------------------
(* Properties                                                                *)

\* A key that verifies tokens, from the cache or from a fetch that ends now,
\* was published by the provider at most the lifetime of an entry and the
\* duration of a fetch ago: key sets read before others and stored after them
\* are no older than that.
WithdrawnKeysExpire ==
    \A f \in Fetcher, u \in Url : \A k \in VerifyingKeys(f, u) :
        lastSeen[u][k] > clock - CacheTTL - FetchTimeout
=============================================================================
