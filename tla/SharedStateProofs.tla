-------------------------- MODULE SharedStateProofs --------------------------
(***************************************************************************)
(* What the operations of the agent store and of the key cache keep: the   *)
(* types of the store's tables and the agreement of the records with the   *)
(* secondary key index, for any set of agents and both back ends; and the  *)
(* list of the cache, within its limit and free of duplicates, for every   *)
(* limit and whatever the order in which lookups, insertions and           *)
(* invalidations come.                                                     *)
(***************************************************************************)
EXTENDS AgentStore, KeyCache, FiniteSetTheorems, SequenceTheorems, TLAPS

-----------------------------------------------------------------------------
(* The agent store                                                           *)

\* A key pair is generated for one agent: the record of an agent only ever
\* carries keys of its own.
HasOwnKey(rec) == rec.key[1] = rec.id

\* The inductive form of the store's invariant.
StoreInv ==
    /\ StoreTypeOK
    /\ IsFiniteSet(Registered)
    /\ \A a \in Registered : HasOwnKey(agents[a])
    /\ KeyIndexIsInverse

LEMMA StoreInitInv == StoreInit => StoreInv
<1> SUFFICES ASSUME StoreInit PROVE StoreInv
  OBVIOUS
<1>1. Registered = {} /\ DOMAIN keyIndex = {}
  BY DEF StoreInit, Registered
<1> QED
  BY <1>1, FS_EmptySet DEF StoreInv, StoreTypeOK, Registered, KeyIndexIsInverse

LEMMA RestartStoreInv ==
    ASSUME StoreInv, RestartStore
    PROVE  StoreInv' /\ (UNCHANGED store \/ Registered' = {})
<1>1. CASE Postgres
  BY <1>1 DEF RestartStore, StoreInv, StoreTypeOK, KeyIndexIsInverse, Registered, store
<1>2. CASE ~Postgres
  <2>1. Registered' = {} /\ agents' = [a \in {} |-> None]
        /\ DOMAIN keyIndex' = {} /\ keyIndex' = [k \in {} |-> None]
    BY <1>2 DEF RestartStore, Registered
  <2> QED
    BY <2>1, FS_EmptySet DEF StoreInv, StoreTypeOK, Registered, KeyIndexIsInverse
<1> QED
  BY <1>1, <1>2

LEMMA CreateAgentInv ==
    ASSUME StoreInv, NEW rec \in AgentRecord, HasOwnKey(rec), CreateAgent(rec)
    PROVE  StoreInv' /\ Registered' = Registered \cup {rec.id}
<1> USE DEF Registered
<1>1. /\ rec.id \in Agent /\ rec.key \in Key
      /\ rec.id \notin Registered
      /\ DOMAIN agents' = DOMAIN agents \cup {rec.id}
      /\ \A a \in DOMAIN agents' : agents'[a] = IF a = rec.id THEN rec ELSE agents[a]
      /\ agents' = [a \in DOMAIN agents' |-> IF a = rec.id THEN rec ELSE agents[a]]
  BY DEF CreateAgent, Put, AgentRecord
<1>2. IsFiniteSet(DOMAIN agents')
  BY <1>1, FS_AddElement DEF StoreInv
<1>3. \A a \in DOMAIN agents' : agents'[a] \in AgentRecord /\ agents'[a].id = a /\ HasOwnKey(agents'[a])
  BY <1>1 DEF StoreInv, StoreTypeOK
<1>4. CASE Postgres
  <2>1. keyIndex' = keyIndex
    BY <1>4 DEF CreateAgent
  <2> QED
    BY <1>1, <1>2, <1>3, <1>4, <2>1 DEF StoreInv, StoreTypeOK, KeyIndexIsInverse
<1>5. CASE ~Postgres
  <2>1. /\ DOMAIN keyIndex' = DOMAIN keyIndex \cup {rec.key}
        /\ \A k \in DOMAIN keyIndex' : keyIndex'[k] = IF k = rec.key THEN rec.id ELSE keyIndex[k]
        /\ keyIndex' = [k \in DOMAIN keyIndex' |-> IF k = rec.key THEN rec.id ELSE keyIndex[k]]
    BY <1>5 DEF CreateAgent, Put
  <2>2. DOMAIN keyIndex' \subseteq Key /\ keyIndex' \in [DOMAIN keyIndex' -> Agent]
    BY <1>1, <2>1 DEF StoreInv, StoreTypeOK
  <2>3. \A a \in DOMAIN agents : agents[a].key # rec.key
    BY <1>1 DEF StoreInv, StoreTypeOK, HasOwnKey
  <2>4. KeyIndexIsInverse'
    BY <1>1, <1>5, <2>1, <2>3 DEF StoreInv, KeyIndexIsInverse
  <2> QED
    BY <1>1, <1>2, <1>3, <2>2, <2>4 DEF StoreInv, StoreTypeOK
<1> QED
  BY <1>1, <1>4, <1>5

\* The write of a whole record, however stale the read it was based on, keeps
\* the index in step as long as the key in the record is the agent's own.
LEMMA UpdateAgentInv ==
    ASSUME StoreInv, NEW rec \in AgentRecord, HasOwnKey(rec), UpdateAgent(rec)
    PROVE  StoreInv' /\ Registered' = Registered
<1> USE DEF Registered
<1> DEFINE old == agents[rec.id].key
<1>1. /\ rec.id \in Agent /\ rec.key \in Key
      /\ rec.id \in Registered
      /\ DOMAIN agents' = DOMAIN agents
      /\ \A a \in DOMAIN agents : agents'[a] = IF a = rec.id THEN rec ELSE agents[a]
      /\ agents' = [a \in DOMAIN agents |-> IF a = rec.id THEN rec ELSE agents[a]]
  BY DEF UpdateAgent, AgentRecord, StoreInv, StoreTypeOK
<1>2. \A a \in DOMAIN agents' : agents'[a] \in AgentRecord /\ agents'[a].id = a /\ HasOwnKey(agents'[a])
  BY <1>1 DEF StoreInv, StoreTypeOK
<1>3. CASE Postgres
  <2>1. keyIndex' = keyIndex
    BY <1>3 DEF UpdateAgent
  <2> QED
    BY <1>1, <1>2, <1>3, <2>1 DEF StoreInv, StoreTypeOK, KeyIndexIsInverse
<1>4. CASE ~Postgres /\ old = rec.key
  <2>1. keyIndex' = keyIndex
    BY <1>4 DEF UpdateAgent
  <2>2. KeyIndexIsInverse'
    BY <1>1, <1>4, <2>1 DEF StoreInv, KeyIndexIsInverse
  <2> QED
    BY <1>1, <1>2, <2>1, <2>2 DEF StoreInv, StoreTypeOK
<1>5. CASE ~Postgres /\ old # rec.key
  <2>1. /\ DOMAIN keyIndex' = (DOMAIN keyIndex \ {old}) \cup {rec.key}
        /\ \A k \in DOMAIN keyIndex' : keyIndex'[k] = IF k = rec.key THEN rec.id ELSE keyIndex[k]
        /\ keyIndex' = [k \in DOMAIN keyIndex' |-> IF k = rec.key THEN rec.id ELSE keyIndex[k]]
    BY <1>5 DEF UpdateAgent, Put, Drop
  <2>2. DOMAIN keyIndex' \subseteq Key /\ keyIndex' \in [DOMAIN keyIndex' -> Agent]
    BY <1>1, <2>1 DEF StoreInv, StoreTypeOK
  <2>3. \A a \in DOMAIN agents \ {rec.id} : agents[a].key # rec.key /\ agents[a].key # old
    BY <1>1 DEF StoreInv, StoreTypeOK, HasOwnKey
  <2>4. KeyIndexIsInverse'
    BY <1>1, <1>5, <2>1, <2>3 DEF StoreInv, KeyIndexIsInverse
  <2> QED
    BY <1>1, <1>2, <2>2, <2>4 DEF StoreInv, StoreTypeOK
<1> QED
  BY <1>1, <1>3, <1>4, <1>5

\* What GetChildAgents answers: records of registered agents, children of a.
LEMMA ChildListsAreRecords ==
    ASSUME StoreInv, NEW a, NEW s \in ChildLists(a)
    PROVE  /\ s \in Seq(AgentRecord)
           /\ \A n \in DOMAIN s : /\ s[n].id \in Registered
                                  /\ s[n] = agents[s[n].id]
                                  /\ s[n].parent = a
<1> USE DEF Registered
<1>1. PICK S \in SUBSET Children(a) :
        \E t \in SetToSeqs(S) : s = [n \in DOMAIN t |-> agents[t[n]]]
  BY DEF ChildLists
<1>2. IsFiniteSet(S)
  <2>1. Children(a) \subseteq DOMAIN agents
    BY DEF Children
  <2> QED
    BY <1>1, <2>1, FS_Subset DEF StoreInv
<1>3. Cardinality(S) \in Nat
  BY <1>2, FS_CardinalityType
<1> PICK t \in SetToSeqs(S) : s = [n \in DOMAIN t |-> agents[t[n]]]
  BY <1>1
<1>4. t \in [1..Cardinality(S) -> S]
  BY DEF SetToSeqs
<1>5. \A n \in 1..Cardinality(S) : t[n] \in DOMAIN agents /\ agents[t[n]].parent = a
  BY <1>1, <1>4 DEF Children
<1>6. \A n \in 1..Cardinality(S) : agents[t[n]] \in AgentRecord /\ agents[t[n]].id = t[n]
  BY <1>5 DEF StoreInv, StoreTypeOK
<1>7. s = [n \in 1..Cardinality(S) |-> agents[t[n]]]
  BY <1>4
<1>8. s \in Seq(AgentRecord)
  BY <1>3, <1>6, <1>7, SeqDef
<1> QED
  BY <1>5, <1>6, <1>7, <1>8

-----------------------------------------------------------------------------
(* The key cache                                                             *)

\* Taking an entry out leaves the other entries, each once.
LEMMA WithoutProperties ==
    ASSUME NEW S, NEW s \in Seq(S), NEW k
    PROVE  /\ Without(s, k) \in Seq(S)
           /\ Len(Without(s, k)) <= Len(s)
           /\ k \in ToSet(s) => Len(Without(s, k)) = Len(s) - 1
           /\ ToSet(Without(s, k)) \subseteq ToSet(s)
           /\ IsInjective(s) => /\ IsInjective(Without(s, k))
                                /\ k \notin ToSet(Without(s, k))
<1>1. CASE k \notin ToSet(s)
  BY <1>1 DEF Without
<1>2. CASE k \in ToSet(s)
  <2> DEFINE n == CHOOSE m \in DOMAIN s : s[m] = k
             lo == SubSeq(s, 1, n - 1)
             hi == SubSeq(s, n + 1, Len(s))
  <2>1. n \in 1..Len(s) /\ s[n] = k
    BY <1>2 DEF ToSet
  <2>2. Without(s, k) = lo \o hi
    BY <1>2 DEF Without, RemoveAt
  <2> HIDE DEF n
  <2>3. /\ lo \in Seq(S) /\ Len(lo) = n - 1
        /\ \A m \in 1..(n - 1) : lo[m] = s[m]
    <3>1. \A m \in 1..(n - 1) : s[m] \in S
      BY <2>1
    <3> QED
      BY <2>1, <3>1, SubSeqProperties
  <2>4. /\ hi \in Seq(S) /\ Len(hi) = Len(s) - n
        /\ \A m \in 1..(Len(s) - n) : hi[m] = s[m + n]
    <3>1. \A m \in (n + 1)..Len(s) : s[m] \in S
      BY <2>1
    <3>2. /\ hi \in Seq(S)
          /\ Len(hi) = IF n + 1 <= Len(s) THEN Len(s) - (n + 1) + 1 ELSE 0
          /\ \A m \in 1..(Len(s) - (n + 1) + 1) : hi[m] = s[n + 1 + m - 1]
      BY <2>1, <3>1, SubSeqProperties
    <3> QED
      BY <2>1, <3>2
  <2> HIDE DEF lo, hi
  <2> DEFINE t == lo \o hi
  <2> HIDE DEF t
  <2>5. /\ t \in Seq(S) /\ Len(t) = Len(s) - 1
        /\ \A m \in 1..(Len(s) - 1) : t[m] = IF m < n THEN s[m] ELSE s[m + 1]
    <3>1. /\ t \in Seq(S) /\ Len(t) = Len(lo) + Len(hi)
          /\ \A m \in 1..(Len(lo) + Len(hi)) :
               t[m] = IF m <= Len(lo) THEN lo[m] ELSE hi[m - Len(lo)]
      BY <2>3, <2>4, ConcatProperties DEF t
    <3>2. Len(lo) + Len(hi) = Len(s) - 1
      BY <2>1, <2>3, <2>4
    <3>3. ASSUME NEW m \in 1..(Len(s) - 1)
          PROVE  t[m] = IF m < n THEN s[m] ELSE s[m + 1]
      <4>1. CASE m < n
        BY <2>1, <2>3, <3>1, <3>2, <4>1
      <4>2. CASE m >= n
        <5>1. t[m] = hi[m - (n - 1)] /\ m - (n - 1) \in 1..(Len(s) - n)
          BY <2>1, <2>3, <3>1, <3>2, <4>2
        <5> QED
          BY <2>1, <2>4, <4>2, <5>1
      <4> QED
        BY <2>1, <4>1, <4>2
    <3> QED
      BY <3>1, <3>2, <3>3
  <2>6. ASSUME IsInjective(s)
        PROVE  IsInjective(t) /\ k \notin ToSet(t)
    <3> DEFINE at(m) == IF m < n THEN m ELSE m + 1
    <3>1. \A m \in 1..(Len(s) - 1) : at(m) \in 1..Len(s) \ {n} /\ t[m] = s[at(m)]
      BY <2>1, <2>5
    <3>2. \A m, l \in 1..(Len(s) - 1) : at(m) = at(l) => m = l
      BY <2>1
    <3> HIDE DEF at
    <3>3. \A m, l \in 1..Len(s) : s[m] = s[l] => m = l
      BY <2>6 DEF IsInjective
    <3>4. DOMAIN t = 1..(Len(s) - 1)
      BY <2>5
    <3>5. IsInjective(t)
      BY <3>1, <3>2, <3>3, <3>4 DEF IsInjective
    <3>6. \A m \in 1..(Len(s) - 1) : t[m] # k
      BY <2>1, <3>1, <3>3
    <3> QED
      BY <3>4, <3>5, <3>6 DEF ToSet
  <2>7. ToSet(t) \subseteq ToSet(s)
    <3>1. \A m \in 1..(Len(s) - 1) : \E l \in 1..Len(s) : t[m] = s[l]
      BY <2>1, <2>5
    <3> QED
      BY <2>5, <3>1 DEF ToSet
  <2> QED
    BY <1>2, <2>2, <2>5, <2>6, <2>7 DEF t
<1> QED
  BY <1>1, <1>2

\* Moving or pushing an entry to the front adds one element at most, and only
\* if the entry was not there.
LEMMA ToFrontProperties ==
    ASSUME NEW S, NEW s \in Seq(S), NEW k \in S
    PROVE  /\ ToFront(s, k) \in Seq(S)
           /\ Len(ToFront(s, k)) <= Len(s) + 1
           /\ k \in ToSet(s) => Len(ToFront(s, k)) = Len(s)
           /\ ToSet(ToFront(s, k)) \subseteq ToSet(s) \cup {k}
           /\ IsInjective(s) => IsInjective(ToFront(s, k))
<1> DEFINE w == Without(s, k)
<1>1. /\ w \in Seq(S) /\ Len(w) <= Len(s)
      /\ k \in ToSet(s) => Len(w) = Len(s) - 1
      /\ ToSet(w) \subseteq ToSet(s)
      /\ IsInjective(s) => IsInjective(w) /\ k \notin ToSet(w)
  BY WithoutProperties
<1> HIDE DEF w
<1>2. <<k>> \in Seq(S) /\ Len(<<k>>) = 1 /\ <<k>>[1] = k
  OBVIOUS
<1>3. /\ <<k>> \o w \in Seq(S) /\ Len(<<k>> \o w) = Len(w) + 1
      /\ \A m \in 1..(Len(w) + 1) : (<<k>> \o w)[m] = IF m = 1 THEN k ELSE w[m - 1]
  BY <1>1, <1>2, ConcatProperties
<1>4. IsInjective(s) => IsInjective(<<k>> \o w)
  BY <1>1, <1>3 DEF IsInjective, ToSet
<1>5. ToSet(<<k>> \o w) \subseteq ToSet(s) \cup {k}
  <2> DEFINE u == <<k>> \o w
  <2> HIDE DEF u
  <2>1. DOMAIN u = 1..(Len(w) + 1) /\ \A m \in 1..(Len(w) + 1) : u[m] = IF m = 1 THEN k ELSE w[m - 1]
    BY <1>1, <1>3 DEF u
  <2>2. \A m \in 2..(Len(w) + 1) : m - 1 \in DOMAIN w
    BY <1>1
  <2>3. \A m \in DOMAIN u : u[m] \in ToSet(w) \cup {k}
    BY <1>1, <2>1, <2>2 DEF ToSet
  <2>4. ToSet(u) \subseteq ToSet(w) \cup {k}
    BY <2>3 DEF ToSet
  <2> QED
    BY <1>1, <2>4 DEF u
<1> QED
  BY <1>1, <1>3, <1>4, <1>5 DEF ToFront, w

-----------------------------------------------------------------------------
(* The operations                                                            *)

\* The list that insertLocked leaves for a list s within the limit.
LEMMA InsertedProperties ==
    ASSUME NEW s \in Seq(Key), NEW k \in Key, Len(s) <= CacheSize, IsInjective(s),
           NEW t, t = IF k \notin ToSet(s) /\ Len(s) >= CacheSize
                      THEN ToFront(Front(s), k) ELSE ToFront(s, k)
    PROVE  t \in Seq(Key) /\ Len(t) <= CacheSize /\ IsInjective(t) /\ ToSet(t) \subseteq ToSet(s) \cup {k}
<1> USE CacheAssumption
<1>1. CASE k \notin ToSet(s) /\ Len(s) >= CacheSize
  <2> DEFINE f == Front(s)
  <2>1. f \in Seq(Key) /\ Len(f) = Len(s) - 1 /\ \A m \in 1..(Len(s) - 1) : f[m] = s[m]
    <3>1. \A m \in 1..(Len(s) - 1) : s[m] \in Key
      OBVIOUS
    <3> DEFINE l == Len(s) - 1
    <3>2. l \in Nat
      BY <1>1
    <3> HIDE DEF l
    <3>3. \A m \in 1..l : s[m] \in Key
      BY <3>1 DEF l
    <3>4. /\ SubSeq(s, 1, l) \in Seq(Key)
          /\ Len(SubSeq(s, 1, l)) = IF 1 <= l THEN l - 1 + 1 ELSE 0
          /\ \A m \in 1..(l - 1 + 1) : SubSeq(s, 1, l)[m] = s[1 + m - 1]
      BY <3>2, <3>3, SubSeqProperties
    <3>5. Len(SubSeq(s, 1, l)) = l /\ \A m \in 1..l : SubSeq(s, 1, l)[m] = s[m]
      BY <3>2, <3>4
    <3> QED
      BY <3>4, <3>5 DEF Front, l
  <2> HIDE DEF f
  <2>2. IsInjective(f)
    BY <2>1 DEF IsInjective
  <2>3. /\ ToFront(f, k) \in Seq(Key) /\ Len(ToFront(f, k)) <= Len(f) + 1
        /\ ToSet(ToFront(f, k)) \subseteq ToSet(f) \cup {k}
        /\ IsInjective(ToFront(f, k))
    BY <2>1, <2>2, ToFrontProperties
  <2>4. ToSet(f) \subseteq ToSet(s)
    BY <2>1 DEF ToSet
  <2> QED
    BY <1>1, <2>1, <2>3, <2>4 DEF f
<1>2. CASE ~(k \notin ToSet(s) /\ Len(s) >= CacheSize)
  <2>1. /\ ToFront(s, k) \in Seq(Key) /\ Len(ToFront(s, k)) <= Len(s) + 1
        /\ k \in ToSet(s) => Len(ToFront(s, k)) = Len(s)
        /\ ToSet(ToFront(s, k)) \subseteq ToSet(s) \cup {k}
        /\ IsInjective(ToFront(s, k))
    BY ToFrontProperties
  <2> QED
    BY <1>2, <2>1
<1> QED
  BY <1>1, <1>2

\* Whatever operation an instance performs on its cache, the cache stays within
\* its limit and holds each key ID once (insertLocked, ResolveKey and
\* InvalidateCache of delegation/verifier.go; a restart empties it).
THEOREM CacheOperationsKeepWellFormed ==
    ASSUME CacheTypeOK, CacheWellFormed, NEW i \in Instance, NEW k,
           \/ k \in Key /\ (Touch(i, k) \/ Insert(i, k))
           \/ InvalidateCache(i, k)
           \/ ClearCache(i)
    PROVE  CacheTypeOK' /\ CacheWellFormed'
<1>1. cache[i] \in Seq(Key) /\ Len(cache[i]) <= CacheSize /\ IsInjective(cache[i])
  BY DEF CacheTypeOK, CacheWellFormed
<1> DEFINE Good(t) == t \in Seq(Key) /\ Len(t) <= CacheSize /\ IsInjective(t)
<1>2. \E t : Good(t) /\ cache' = [cache EXCEPT ![i] = t]
  <2>1. CASE k \in Key /\ Touch(i, k)
    <3>1. k \in ToSet(cache[i]) /\ cache' = [cache EXCEPT ![i] = ToFront(cache[i], k)]
      BY <2>1 DEF Touch, Cached
    <3>2. Good(ToFront(cache[i], k))
      BY <1>1, <2>1, <3>1, ToFrontProperties
    <3> QED
      BY <3>1, <3>2
  <2>2. CASE k \in Key /\ Insert(i, k)
    <3> DEFINE t == IF k \notin ToSet(cache[i]) /\ Len(cache[i]) >= CacheSize
                    THEN ToFront(Front(cache[i]), k) ELSE ToFront(cache[i], k)
    <3>1. cache' = [cache EXCEPT ![i] = t]
      BY <2>2 DEF Insert, Cached
    <3>2. Good(t)
      BY <1>1, <2>2, InsertedProperties
    <3> QED
      BY <3>1, <3>2
  <2>3. CASE InvalidateCache(i, k)
    <3>1. cache' = [cache EXCEPT ![i] = Without(cache[i], k)]
      BY <2>3 DEF InvalidateCache
    <3>2. /\ Without(cache[i], k) \in Seq(Key) /\ Len(Without(cache[i], k)) <= Len(cache[i])
          /\ IsInjective(Without(cache[i], k))
      BY <1>1, WithoutProperties
    <3>3. Good(Without(cache[i], k))
      BY <1>1, <3>2, CacheAssumption
    <3> QED
      BY <3>1, <3>3
  <2>4. CASE ClearCache(i)
    <3>1. Good(<<>>)
      BY CacheAssumption DEF IsInjective
    <3> QED
      BY <2>4, <3>1 DEF ClearCache
  <2> QED
    BY <2>1, <2>2, <2>3, <2>4
<1>3. PICK t : Good(t) /\ cache' = [cache EXCEPT ![i] = t]
  BY <1>2
<1> QED
  BY <1>3 DEF CacheTypeOK, CacheWellFormed

\* A lookup that hits brings no key ID into a cache, and an insertion only its own.
LEMMA CacheGains ==
    ASSUME CacheTypeOK, CacheWellFormed, NEW i \in Instance, NEW k \in Key, Touch(i, k) \/ Insert(i, k),
           NEW j \in Instance, NEW l, Cached(j, l)'
    PROVE  Cached(j, l) \/ l = k
<1>1. cache[i] \in Seq(Key) /\ Len(cache[i]) <= CacheSize /\ IsInjective(cache[i])
  BY DEF CacheTypeOK, CacheWellFormed
<1>2. \E t : ToSet(t) \subseteq ToSet(cache[i]) \cup {k} /\ cache' = [cache EXCEPT ![i] = t]
  <2>1. CASE Touch(i, k)
    <3>1. ToSet(ToFront(cache[i], k)) \subseteq ToSet(cache[i]) \cup {k}
      BY <1>1, ToFrontProperties
    <3> QED
      BY <2>1, <3>1 DEF Touch
  <2>2. CASE Insert(i, k)
    <3> DEFINE t == IF k \notin ToSet(cache[i]) /\ Len(cache[i]) >= CacheSize
                    THEN ToFront(Front(cache[i]), k) ELSE ToFront(cache[i], k)
    <3>1. cache' = [cache EXCEPT ![i] = t]
      BY <2>2 DEF Insert, Cached
    <3>2. ToSet(t) \subseteq ToSet(cache[i]) \cup {k}
      BY <1>1, InsertedProperties
    <3> QED
      BY <3>1, <3>2
  <2> QED
    BY <2>1, <2>2
<1> QED
  BY <1>2 DEF Cached, CacheTypeOK

\* An invalidation and a restart bring no key ID in, and the key ID invalidated is
\* gone from the cache.
LEMMA CacheLoses ==
    ASSUME CacheTypeOK, CacheWellFormed, NEW i \in Instance, NEW k, InvalidateCache(i, k) \/ ClearCache(i)
    PROVE  /\ \A j \in Instance, l \in Key : Cached(j, l)' => Cached(j, l)
           /\ ~Cached(i, k)'
<1>1. cache[i] \in Seq(Key) /\ IsInjective(cache[i])
  BY DEF CacheTypeOK, CacheWellFormed
<1>2. \E t : /\ ToSet(t) \subseteq ToSet(cache[i]) /\ k \notin ToSet(t)
             /\ cache' = [cache EXCEPT ![i] = t]
  <2>1. CASE InvalidateCache(i, k)
    <3>1. ToSet(Without(cache[i], k)) \subseteq ToSet(cache[i]) /\ k \notin ToSet(Without(cache[i], k))
      BY <1>1, WithoutProperties
    <3> QED
      BY <2>1, <3>1 DEF InvalidateCache
  <2>2. CASE ClearCache(i)
    <3>1. ToSet(<<>>) = {}
      BY DEF ToSet
    <3> QED
      BY <2>2, <3>1 DEF ClearCache
  <2> QED
    BY <2>1, <2>2
<1> QED
  BY <1>2 DEF Cached, CacheTypeOK
=============================================================================
