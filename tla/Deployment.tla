----------------------------- MODULE Deployment -----------------------------
(***************************************************************************)
(* How an Agentity deployment is put together (cmd/agentity/main.go): the  *)
(* server instances, the store and the revocation registry they share, and *)
(* the names that occur in them.                                           *)
(***************************************************************************)
EXTENDS Integers, SequencesExt

CONSTANTS
    Agent,         \* the agent IDs (fresh UUIDs) that registration can hand out
    TokenId,       \* the token IDs (fresh UUIDs) that issuance can hand out
    None,          \* "no agent", "no key": the empty string of the source
    Instance,      \* the server instances
    Postgres,      \* store.type: TRUE for postgres, FALSE for memory
    RedisEnabled   \* redis.enabled

\* A key pair is freshly generated and its ID is a hash of the public key, so
\* it is named by the agent it was generated for and a serial number.
Key == Agent \X Nat

\* The in-memory store and the in-memory registry live in one process: they
\* serve a single instance ("dev / single-instance" in registry.go).
ASSUME DeploymentAssumption ==
    /\ None \notin Agent \cup Key
    /\ Agent \cap TokenId = {}
    /\ Instance # {}
    /\ Postgres \in BOOLEAN
    /\ RedisEnabled \in BOOLEAN
    /\ (Postgres /\ RedisEnabled) \/ \A i, j \in Instance : i = j
=============================================================================
