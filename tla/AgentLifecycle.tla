--------------------------- MODULE AgentLifecycle ---------------------------
(***************************************************************************)
(* Registration, suspension, key rotation and revocation of agents: the    *)
(* handlers of internal/api/handlers_identity.go over identity.Service,    *)
(* the agent store, the revocation registry and the key cache.             *)
(*                                                                         *)
(* A process is a goroutine serving one request at a time on one instance. *)
(* No lock spans a request: a step ends at every call to the store, to     *)
(* Redis or to a mutex-protected map, and other requests run in between.   *)
(***************************************************************************)
EXTENDS AgentStore, RevocationRegistry, KeyCache

CONSTANTS
    Proc,             \* the request-serving goroutines
    Host,             \* Host[p]: the instance p runs on
    Requests,         \* the kinds of request the clients of a run send
    MaxRevokeDepth,   \* maxRevokeDepth of identity.Service
    Failures,         \* the kinds of failure that occur in a run
    MaxKeys,          \* bound: key pairs generated per agent
    MaxFaults         \* bound: failed calls and crashes in a behaviour

ASSUME LifecycleAssumption ==
    /\ Host \in [Proc -> Instance]
    /\ MaxRevokeDepth \in Nat \ {0}
    /\ MaxKeys \in Nat \ {0}
    /\ MaxFaults \in Nat

VARIABLES
    call,       \* call[p]: the request p is serving and its local variables
    faults,     \* how many calls have failed so far
    keysMade,   \* keysMade[a]: how many key pairs were generated for agent a
    targets,    \* history: the agents some request asked to revoke
    acked       \* history: the agents a revocation answered 200 is about

vars == <<agents, keyIndex, redis, memory, cache, call, faults, keysMade, targets, acked>>
history == <<targets, acked>>

\* Where a request stands: the call it makes next.
PC == {"idle", "suspend", "rotateRead", "rotateWrite", "invalidate", "list", "revokeRead",
       "revokeWrite", "children", "childWrite", "redis", "remember"}

\* An element of the queue of a breadth-first traversal.
Item == [id : Agent, depth : Nat]

Call ==
    [pc : PC,
     arg : Agent \cup {None},          \* the agent the request names
     cascade : BOOLEAN,
     ids : Seq(Agent),                 \* toRevoke, what is left of it
     queue : Seq(Item),
     writes : Seq(AgentRecord),        \* records read, changed and not yet written
     oldKey : Key \cup {None},         \* the key ID the handler read
     replaced : Key \cup {None},       \* history: the key ID the service replaces
     known : SUBSET Agent]             \* history: what a 200 answer is about

Idle == [pc |-> "idle", arg |-> None, cascade |-> FALSE, ids |-> <<>>, queue |-> <<>>,
         writes |-> <<>>, oldKey |-> None, replaced |-> None, known |-> {}]

TypeOK ==
    /\ StoreTypeOK
    /\ RegistryTypeOK
    /\ CacheTypeOK
    /\ call \in [Proc -> Call]
    /\ faults \in Nat
    /\ keysMade \in [Agent -> Nat]
    /\ targets \subseteq Agent
    /\ acked \subseteq Agent

Init ==
    /\ StoreInit
    /\ RegistryInit
    /\ CacheInit
    /\ call = [p \in Proc |-> Idle]
    /\ faults = 0
    /\ keysMade = [a \in Agent |-> 0]
    /\ targets = {}
    /\ acked = {}

At(p, pc)  == call[p].pc = pc
Go(p, c)   == call' = [call EXCEPT ![p] = c]
Respond(p) == Go(p, Idle)

\* The request p starts to serve: its kind, and the agent it names.
Accept(p, kind, a) ==
    /\ At(p, "idle")
    /\ kind \in Requests
    /\ a \in Registered

-----------------------------------------------------------------------------
(* POST /agents: one CreateAgent.  The ID is a new UUID, never that of an    *)
(* agent a restart has lost; the parent is an agent the client knows of, and *)
(* nothing else about it is checked.                                         *)

RegisterAgent(a, parent) ==
    /\ "register" \in Requests
    /\ keysMade[a] = 0
    /\ parent \in Registered \cup {None}
    /\ CreateAgent([id |-> a, parent |-> parent, key |-> <<a, 0>>, status |-> "active",
                    created |-> Cardinality(Registered)])
    /\ keysMade' = [keysMade EXCEPT ![a] = 1]
    /\ UNCHANGED <<registry, cache, call, faults, history>>

(* POST /agents/{id}/suspend: GetAgent, then UpdateAgent.                    *)

SuspendRead(p, a) ==
    /\ Accept(p, "suspend", a)
    /\ agents[a].status # "revoked"
    /\ Go(p, [Idle EXCEPT !.pc = "suspend", !.arg = a,
                          !.writes = <<[agents[a] EXCEPT !.status = "suspended"]>>])
    /\ UNCHANGED <<store, registry, cache, faults, keysMade, history>>

SuspendWrite(p) ==
    /\ At(p, "suspend")
    /\ UpdateAgent(Head(call[p].writes))
    /\ Respond(p)
    /\ UNCHANGED <<registry, cache, faults, keysMade, history>>

(* POST /agents/{id}/rotate-key: the handler reads the old key ID, the       *)
(* service reads the agent again and writes it back, then the handler        *)
(* removes the old key ID from the cache of its own instance.                *)

RotateBegin(p, a) ==
    /\ Accept(p, "rotate", a)
    /\ Go(p, [Idle EXCEPT !.pc = "rotateRead", !.arg = a, !.oldKey = agents[a].key])
    /\ UNCHANGED <<store, registry, cache, faults, keysMade, history>>

RotateRead(p) ==
    LET a == call[p].arg IN
    /\ At(p, "rotateRead")
    /\ agents[a].status = "active"
    /\ keysMade[a] < MaxKeys
    /\ keysMade' = [keysMade EXCEPT ![a] = @ + 1]
    /\ Go(p, [call[p] EXCEPT !.pc = "rotateWrite", !.replaced = agents[a].key,
                             !.writes = <<[agents[a] EXCEPT !.key = <<a, keysMade[a]>>]>>])
    /\ UNCHANGED <<store, registry, cache, faults, history>>

\* Also taken where the bound on keys stops a rotation.
RotateRefused(p) ==
    LET a == call[p].arg IN
    /\ At(p, "rotateRead")
    /\ agents[a].status # "active" \/ keysMade[a] >= MaxKeys
    /\ Respond(p)
    /\ UNCHANGED <<store, registry, cache, faults, keysMade, history>>

RotateWrite(p) ==
    /\ At(p, "rotateWrite")
    /\ UpdateAgent(Head(call[p].writes))
    /\ Go(p, [call[p] EXCEPT !.pc = "invalidate", !.writes = <<>>])
    /\ UNCHANGED <<registry, cache, faults, keysMade, history>>

\* Seeded fault: the handler removes the new key ID instead of the old one.
RotateInvalidateNewKey(p) ==
    /\ At(p, "invalidate")
    /\ InvalidateCache(Host[p], agents[call[p].arg].key)
    /\ Respond(p)
    /\ UNCHANGED <<store, registry, faults, keysMade, history>>

RotateInvalidate(p) ==
    /\ At(p, "invalidate")
    /\ InvalidateCache(Host[p], call[p].oldKey)
    /\ Respond(p)
    /\ UNCHANGED <<store, registry, faults, keysMade, history>>

-----------------------------------------------------------------------------
(* POST /agents/{id}/revoke.  With cascade the handler first lists the       *)
(* descendants; the service then writes the agent and, breadth first, its    *)
(* descendants; last, the listed IDs go into the registry one by one.        *)

RevokeBegin(p, a, cascade) ==
    /\ Accept(p, "revoke", a)
    /\ Go(p, [Idle EXCEPT !.pc = IF cascade THEN "list" ELSE "revokeRead",
                          !.arg = a, !.cascade = cascade, !.ids = <<a>>,
                          !.queue = IF cascade THEN <<[id |-> a, depth |-> 0]>> ELSE <<>>,
                          !.known = {a} \cup IF cascade THEN Subtree(a) ELSE {}])
    /\ targets' = targets \cup {a}
    /\ UNCHANGED <<store, registry, cache, faults, keysMade, acked>>

\* Seeded faults: the children of a child are not queued; the head of a queue
\* stays in it; the IDs just found go before the ones above them.
ItemsNone(s, d)       == <<>>
DequeueNothing(q)     == q
CollectInFront(ids, s) == [n \in DOMAIN s |-> s[n].id] \o ids

Items(s, d)     == [n \in DOMAIN s |-> [id |-> s[n].id, depth |-> d]]
Dequeue(q)      == Tail(q)
Collect(ids, s) == ids \o [n \in DOMAIN s |-> s[n].id]

\* One iteration of ListDescendants, which knows no depth limit.
ListStep(p) ==
    LET cur == Head(call[p].queue) IN
    /\ At(p, "list")
    /\ \E s \in ChildLists(cur.id) :
         LET rest == Dequeue(call[p].queue) \o Items(s, cur.depth + 1) IN
         Go(p, [call[p] EXCEPT !.ids = Collect(@, s), !.queue = rest,
                               !.pc = IF rest = <<>> THEN "revokeRead" ELSE "list"])
    /\ UNCHANGED <<store, registry, cache, faults, keysMade, history>>

\* Seeded fault: a status the rest of the code does not know.
RevokedUnknownStatus(rec) == [rec EXCEPT !.status = "deleted"]

Revoked(rec) == [rec EXCEPT !.status = "revoked"]

RevokeRead(p) ==
    /\ At(p, "revokeRead")
    /\ Go(p, [call[p] EXCEPT !.pc = "revokeWrite", !.writes = <<Revoked(agents[call[p].arg])>>])
    /\ UNCHANGED <<store, registry, cache, faults, keysMade, history>>

\* The first call that writes an ID to the registry.
Publish == IF RedisEnabled THEN "redis" ELSE "remember"

RevokeWrite(p) ==
    LET c == call[p] IN
    /\ At(p, "revokeWrite")
    /\ UpdateAgent(Head(c.writes))
    /\ Go(p, [c EXCEPT !.pc = IF c.cascade THEN "children" ELSE Publish,
                       !.writes = <<>>,
                       !.queue = IF c.cascade THEN <<[id |-> c.arg, depth |-> 0]>> ELSE <<>>])
    /\ UNCHANGED <<registry, cache, faults, keysMade, history>>

\* Seeded fault: the queue is dropped.
AdvanceDropsQueue(c) == [c EXCEPT !.pc = IF c.writes # <<>> THEN "childWrite" ELSE Publish]

\* revokeChildren: write the children in hand, then list those of the next
\* agent in the queue, then return to the handler.
Advance(c) ==
    [c EXCEPT !.pc = IF c.writes # <<>> THEN "childWrite"
                     ELSE IF c.queue # <<>> THEN "children" ELSE Publish]

TooDeep(p) == At(p, "children") /\ Head(call[p].queue).depth >= MaxRevokeDepth

\* Seeded fault: nothing is written until the whole tree is read, then the
\* deepest agents first.
ReadChildrenDeepestFirst(p) ==
    LET cur == Head(call[p].queue) IN
    /\ At(p, "children")
    /\ ~TooDeep(p)
    /\ \E s \in ChildLists(cur.id) :
         LET rest == Dequeue(call[p].queue) \o Items(s, cur.depth + 1)
             c == [call[p] EXCEPT !.queue = rest, !.writes = [n \in DOMAIN s |-> Revoked(s[n])] \o @]
         IN  Go(p, IF rest = <<>> THEN Advance(c) ELSE c)
    /\ UNCHANGED <<store, registry, cache, faults, keysMade, history>>

ReadChildren(p) ==
    LET cur == Head(call[p].queue) IN
    /\ At(p, "children")
    /\ ~TooDeep(p)
    /\ \E s \in ChildLists(cur.id) :
         Go(p, Advance([call[p] EXCEPT !.queue = Dequeue(@) \o Items(s, cur.depth + 1),
                                       !.writes = [n \in DOMAIN s |-> Revoked(s[n])]]))
    /\ UNCHANGED <<store, registry, cache, faults, keysMade, history>>

RefuseDepth(p) ==
    /\ TooDeep(p)
    /\ Respond(p)
    /\ UNCHANGED <<store, registry, cache, faults, keysMade, history>>

WriteChild(p) ==
    /\ At(p, "childWrite")
    /\ UpdateAgent(Head(call[p].writes))
    /\ Go(p, Advance([call[p] EXCEPT !.writes = Tail(@)]))
    /\ UNCHANGED <<registry, cache, faults, keysMade, history>>

WriteRedis(p) ==
    /\ At(p, "redis")
    /\ SetRedis(Head(call[p].ids))
    /\ Go(p, [call[p] EXCEPT !.pc = "remember"])
    /\ UNCHANGED <<store, cache, faults, keysMade, history>>

WriteMemory(p) ==
    LET rest == Tail(call[p].ids) IN
    /\ At(p, "remember")
    /\ Remember(Host[p], Head(call[p].ids))
    /\ IF rest = <<>> THEN /\ Respond(p)
                           /\ acked' = acked \cup call[p].known
                      ELSE /\ Go(p, [call[p] EXCEPT !.pc = Publish, !.ids = rest])
                           /\ UNCHANGED acked
    /\ UNCHANGED <<store, cache, faults, keysMade, targets>>

-----------------------------------------------------------------------------
(* Failures.  A Postgres statement can time out, before or after its commit; *)
(* a Redis command can fail, or the client can go away and cancel it.  The   *)
(* handler answers with an error and leaves what was done in place, except   *)
(* that an error while listing the descendants is dropped.                   *)

Fault(kind) ==
    /\ kind \in Failures
    /\ faults < MaxFaults
    /\ faults' = faults + 1

ListFails(p) ==
    /\ Postgres
    /\ At(p, "list")
    /\ Fault("list")
    /\ Go(p, [call[p] EXCEPT !.pc = "revokeRead", !.ids = <<call[p].arg>>, !.queue = <<>>])
    /\ UNCHANGED <<store, registry, cache, keysMade, history>>

ReadFails(p) ==
    /\ Postgres
    /\ call[p].pc \in {"rotateRead", "revokeRead", "children"} /\ ~TooDeep(p)
    /\ Fault("read")
    /\ Respond(p)
    /\ UNCHANGED <<store, registry, cache, keysMade, history>>

\* Seeded fault: a failed write is skipped and the cascade goes on.
WriteFailsIgnored(p) ==
    /\ Postgres
    /\ call[p].pc \in {"suspend", "rotateWrite", "revokeWrite", "childWrite"}
    /\ Fault("write")
    /\ IF At(p, "revokeWrite") /\ call[p].cascade
       THEN Go(p, [call[p] EXCEPT !.pc = "children", !.writes = <<>>,
                                  !.queue = <<[id |-> call[p].arg, depth |-> 0]>>])
       ELSE Respond(p)
    /\ UNCHANGED <<store, registry, cache, keysMade, history>>

WriteFails(p) ==
    /\ Postgres
    /\ call[p].pc \in {"suspend", "rotateWrite", "revokeWrite", "childWrite"}
    /\ Fault("write")
    /\ UpdateAgent(Head(call[p].writes)) \/ UNCHANGED store
    /\ Respond(p)
    /\ UNCHANGED <<registry, cache, keysMade, history>>

\* Seeded faults: a failed SET falls back to the memory of the instance; the
\* loop over the IDs goes on with the next one.
RedisFailsToMemory(p) ==
    /\ At(p, "redis")
    /\ Fault("redis")
    /\ Go(p, [call[p] EXCEPT !.pc = "remember"])
    /\ UNCHANGED <<store, registry, cache, keysMade, history>>

RedisFailsNextId(p) ==
    /\ At(p, "redis")
    /\ Fault("redis")
    /\ Len(call[p].ids) > 1
    /\ Go(p, [call[p] EXCEPT !.ids = Tail(@)])
    /\ UNCHANGED <<store, registry, cache, keysMade, history>>

RedisFails(p) ==
    /\ At(p, "redis")
    /\ Fault("redis")
    /\ SetRedis(Head(call[p].ids)) \/ UNCHANGED registry
    /\ Respond(p)
    /\ UNCHANGED <<store, cache, keysMade, history>>

\* An instance crashes and restarts: its requests are gone without an answer,
\* its map and its cache are empty, and so is an in-memory store; Postgres and
\* Redis keep what they have.
Crash(i) ==
    /\ Fault("crash")
    /\ call' = [p \in Proc |-> IF Host[p] = i THEN Idle ELSE call[p]]
    /\ ForgetMemory(i)
    /\ ClearCache(i)
    /\ RestartStore
    /\ UNCHANGED <<keysMade, history>>

-----------------------------------------------------------------------------

Start(p) ==
    \E a \in Agent :
        \/ SuspendRead(p, a)
        \/ RotateBegin(p, a)
        \/ \E cascade \in BOOLEAN : RevokeBegin(p, a, cascade)

Continue(p) ==
    \/ SuspendWrite(p)
    \/ RotateRead(p) \/ RotateRefused(p) \/ RotateWrite(p) \/ RotateInvalidate(p)
    \/ ListStep(p) \/ RevokeRead(p) \/ RevokeWrite(p)
    \/ ReadChildren(p) \/ RefuseDepth(p) \/ WriteChild(p)
    \/ WriteRedis(p) \/ WriteMemory(p)

Fail(p) == ListFails(p) \/ ReadFails(p) \/ WriteFails(p) \/ RedisFails(p)

Next ==
    \/ \E a \in Agent, parent \in Agent \cup {None} : RegisterAgent(a, parent)
    \/ \E p \in Proc : Start(p) \/ Continue(p) \/ Fail(p)
    \/ \E i \in Instance : Crash(i)

Spec == Init /\ [][Next]_vars

\* A goroutine that serves a request keeps running, and every call it makes
\* returns: store calls carry a 5 s timeout, Redis calls the client's.
FairSpec == Spec /\ \A p \in Proc : WF_vars(Continue(p))

-----------------------------------------------------------------------------
(* Properties                                                                *)

\* The revocations every instance acts on: with Redis they are in Redis, without
\* it in the map of the only instance.
InForce == {a \in Agent : \A i \in Instance : IsRevoked(i, a)}

\* A revocation that answered 200 is in force for the agent and, with cascade,
\* for every agent that was below it when the request began (RevokeAgent of
\* handlers_identity.go), whatever registrations, rotations, suspensions, other
\* revocations and failed Redis writes ran in between.
AckedIsInForce == acked \subseteq InForce

\* A 200 answer to a cascade also means every such agent is revoked in the store
\* (RevokeAgent of identity/service.go, "all child agents are also revoked").
\* It is a claim about requests that revoke and register only: the other
\* requests write whole records back from stale reads.
AckedIsRevokedInStore == \A a \in acked \cap Registered : agents[a].status = "revoked"

\* The registry is filled from the top of the tree: an agent that no request
\* named is never in force before its parent, so that a cascade that fails half
\* way (a 500 from the loop over toRevoke) leaves no agent without a token that
\* still has one delegating to it.
RegistryTopDown ==
    \A a \in (InForce \cap Registered) \ targets : agents[a].parent \in InForce

\* The store is written from the top of the tree as well (revokeChildren).
StoreTopDown ==
    \A a \in Registered \ targets :
        agents[a].status = "revoked" =>
            /\ agents[a].parent # None
            /\ agents[agents[a].parent].status = "revoked"

\* The lifecycle as Revocation sees it: who is registered under whom, what the
\* requests under way are about, and which revocations every instance acts on.
Promise == INSTANCE Revocation WITH
    parent   <- [a \in Registered |-> agents[a].parent],
    open     <- [p \in Proc |-> call[p].known],
    asked    <- targets,
    inForce  <- InForce,
    promised <- acked

\* Whatever the handlers do to the store, Redis, the maps and the cache, in
\* however many steps, is a behaviour of what RevokeAgent promises: requests end
\* with 200 only when all they are about is in force, the registry grows one
\* agent at a time from the top of the tree, and nothing is ever taken back.
KeepsPromise == Promise!ServiceSpec

\* Every request is answered: the traversals of ListDescendants and
\* revokeChildren end although agents are registered below them meanwhile.
EveryCallAnswered == \A p \in Proc : call[p].pc # "idle" ~> call[p].pc = "idle"

-----------------------------------------------------------------------------
(* What the repository says and the code does not do                         *)

\* "Write every revoked agent ID to the revocation registry" (RevokeAgent of
\* handlers_identity.go): with no request under way, an agent the store has as
\* revoked is one that token verification rejects.
StoreRevokedIsInForce ==
    (\A p \in Proc : At(p, "idle")) =>
        \A a \in Registered : agents[a].status = "revoked" => a \in InForce

\* "cannot suspend a revoked agent" (SuspendAgent of identity/service.go): once
\* revoked, an agent stays revoked in the store.
RevokedIsFinal ==
    [][\A a \in Registered \cap Registered' :
          agents[a].status = "revoked" => agents'[a].status = "revoked"]_vars
=============================================================================
