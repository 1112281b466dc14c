----------------------------- MODULE AgentStore -----------------------------
(***************************************************************************)
(* identity.Store: the records of the registered agents.  Two back ends    *)
(* implement the same interface: a map guarded by a mutex with a secondary *)
(* index from key IDs to agents (internal/store/memory.go), and a Postgres *)
(* table (internal/store/postgres.go).  Every operation of either one is a *)
(* single critical section or a single SQL statement, hence one atomic     *)
(* step; what is not atomic is a sequence of two of them.                  *)
(***************************************************************************)
EXTENDS Deployment

CONSTANT ChildLimit   \* Postgres only: the row limit of GetChildAgents

ASSUME StoreAssumption == ChildLimit \in Nat \ {0}

VARIABLES
    agents,     \* the registered agents: agent ID -> record
    keyIndex    \* memory only: key ID -> the agent whose current key it is

store == <<agents, keyIndex>>

Status == {"active", "suspended", "revoked"}

AgentRecord ==
    [id : Agent, parent : Agent \cup {None}, key : Key, status : Status, created : Nat]

StoreTypeOK ==
    /\ DOMAIN agents \subseteq Agent
    /\ agents \in [DOMAIN agents -> AgentRecord]
    /\ \A a \in DOMAIN agents : agents[a].id = a
    /\ DOMAIN keyIndex \subseteq Key
    /\ keyIndex \in [DOMAIN keyIndex -> Agent]

StoreInit ==
    /\ agents = [a \in {} |-> None]
    /\ keyIndex = [k \in {} |-> None]

Registered == DOMAIN agents

Put(f, k, v) == [x \in DOMAIN f \cup {k} |-> IF x = k THEN v ELSE f[x]]
Drop(f, k)   == [x \in DOMAIN f \ {k} |-> f[x]]

CreateAgent(rec) ==
    /\ rec.id \notin Registered
    /\ agents' = Put(agents, rec.id, rec)
    /\ keyIndex' = IF Postgres THEN keyIndex ELSE Put(keyIndex, rec.key, rec.id)

\* Seeded fault: the index entry of a replaced key stays.
UpdateAgentKeepsOldKey(rec) ==
    /\ rec.id \in Registered
    /\ agents' = [agents EXCEPT ![rec.id] = rec]
    /\ keyIndex' = IF Postgres THEN keyIndex ELSE Put(keyIndex, rec.key, rec.id)

\* The whole record is overwritten, whatever the caller based it on.
UpdateAgent(rec) ==
    /\ rec.id \in Registered
    /\ agents' = [agents EXCEPT ![rec.id] = rec]
    /\ keyIndex' =
         IF Postgres \/ agents[rec.id].key = rec.key
         THEN keyIndex
         ELSE Put(Drop(keyIndex, agents[rec.id].key), rec.key, rec.id)

\* A restart of the process: the in-memory store starts empty, Postgres keeps
\* its tables.
RestartStore ==
    IF Postgres THEN UNCHANGED store
                ELSE /\ agents' = [a \in {} |-> None]
                     /\ keyIndex' = [k \in {} |-> None]

\* The agents GetAgentByKeyID can answer for key ID k: at most one.
KeyOwners(k) ==
    IF Postgres THEN {a \in Registered : agents[a].key = k}
                ELSE {keyIndex[x] : x \in DOMAIN keyIndex \cap {k}}

Children(a) == {c \in Registered : agents[c].parent = a}

\* The lists GetChildAgents can answer.  The map is ranged over in any order;
\* the SQL query answers the newest ChildLimit children, newest first.
ChildLists(a) ==
    LET newer(c) == {d \in Children(a) : agents[d].created > agents[c].created}
        listed   == {c \in Children(a) : Postgres => Cardinality(newer(c)) < ChildLimit}
        ordered(s) == \A m, n \in DOMAIN s : m < n => agents[s[m]].created > agents[s[n]].created
    IN  {[n \in DOMAIN s |-> agents[s[n]]] : s \in {t \in SetToSeqs(listed) : Postgres => ordered(t)}}

\* The tree of agent a: the least set that contains a and the children of its
\* members.
Subtree(a) ==
    {d \in Registered :
        \A S \in SUBSET Registered :
            /\ a \in S
            /\ \A x \in Registered : agents[x].parent \in S => x \in S
            => d \in S}

-----------------------------------------------------------------------------

\* The secondary index and the records agree: an index entry for exactly the
\* current key of every registered agent.  It is what makes the in-memory
\* GetAgentByKeyID answer as the SQL query over the key_id column does, and it
\* has to survive whole-record writes based on stale reads.
KeyIndexIsInverse ==
    Postgres \/ /\ \A a \in Registered :
                     agents[a].key \in DOMAIN keyIndex /\ keyIndex[agents[a].key] = a
                /\ \A k \in DOMAIN keyIndex :
                     keyIndex[k] \in Registered /\ agents[keyIndex[k]].key = k
=============================================================================
