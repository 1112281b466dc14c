------------------------ MODULE RevocationRegistry ------------------------
(***************************************************************************)
(* revocation.Registry: the revoked agents and tokens, which is what token *)
(* verification consults.  With Redis configured, one shared Redis is the  *)
(* authoritative source and each server instance also keeps a map in       *)
(* memory, written after Redis; without it the map is all there is.        *)
(***************************************************************************)
EXTENDS Deployment

VARIABLES
    redis,    \* the names with a revocation key in Redis
    memory    \* memory[i]: the names in the map of instance i

registry == <<redis, memory>>

\* What can be revoked; the two kinds have key prefixes of their own.
Name == Agent \cup TokenId

RegistryTypeOK ==
    /\ redis \subseteq Name
    /\ memory \in [Instance -> SUBSET Name]

RegistryInit ==
    /\ redis = {}
    /\ memory = [i \in Instance |-> {}]

\* redis.Set(revocation:agent:<a>) or redis.Set(revocation:token:<a>)
SetRedis(a) ==
    /\ redis' = redis \cup {a}
    /\ UNCHANGED memory

\* r.agentRevocations[a] = entry or r.tokenRevocations[a] = entry, under the lock of instance i
Remember(i, a) ==
    /\ memory' = [memory EXCEPT ![i] = @ \cup {a}]
    /\ UNCHANGED redis

\* A restart of instance i loses its map and nothing else.
ForgetMemory(i) ==
    /\ memory' = [memory EXCEPT ![i] = {}]
    /\ UNCHANGED redis

\* What instance i answers: Redis is authoritative when configured.
IsRevoked(i, a) == IF RedisEnabled THEN a \in redis ELSE a \in memory[i]

-----------------------------------------------------------------------------

\* No instance remembers a revocation that Redis has not: the order of the two
\* writes (registry.go, "write to Redis FIRST") prevents a split brain in which
\* one instance lists an agent as revoked that every other one accepts.
MemoryTrailsRedis == RedisEnabled => \A i \in Instance : memory[i] \subseteq redis
=============================================================================
