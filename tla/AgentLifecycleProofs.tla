------------------------ MODULE AgentLifecycleProofs ------------------------
(***************************************************************************)
(* Theorems about AgentLifecycle, for every set of agents, processes and   *)
(* instances, either store, with or without Redis, and every failure.      *)
(***************************************************************************)
EXTENDS AgentLifecycle, SharedStateProofs

\* What a request under way relies on, R being the registered agents and D the
\* names in Redis: the loops of the handlers never read past the end of what
\* they go through, the records in hand are of registered agents and carry keys
\* of their own, and a map is written for a name that Redis has.
CallOK(c, R, D) ==
    /\ c.pc # "idle" => c.arg \in R
    /\ \A n \in DOMAIN c.writes : c.writes[n].id \in R /\ HasOwnKey(c.writes[n])
    /\ c.pc \in {"suspend", "rotateWrite", "revokeWrite", "childWrite"} => c.writes # <<>>
    /\ c.pc \in {"list", "children"} => c.queue # <<>>
    /\ c.pc \in {"list", "revokeRead", "revokeWrite", "children", "childWrite", "redis", "remember"}
         => c.ids # <<>>
    /\ c.pc = "remember" /\ RedisEnabled => c.ids[1] \in D

CallsOK == call \in [Proc -> Call] /\ \A p \in Proc : CallOK(call[p], Registered, redis)

RegistryInv == RegistryTypeOK /\ MemoryTrailsRedis

CacheInv == CacheTypeOK /\ CacheWellFormed

CountsOK ==
    /\ faults \in Nat
    /\ keysMade \in [Agent -> Nat]
    /\ targets \subseteq Agent
    /\ acked \subseteq Agent

\* The inductive invariant.
Inv == StoreInv /\ RegistryInv /\ CacheInv /\ CallsOK /\ CountsOK

-----------------------------------------------------------------------------
(* Lemmas                                                                    *)

LEMMA IdleIsCall == Idle \in Call /\ \A R, D : CallOK(Idle, R, D)
<1>1. /\ <<>> \in Seq(Agent) /\ <<>> \in Seq(Item) /\ <<>> \in Seq(AgentRecord)
      /\ DOMAIN <<>> = {}
  OBVIOUS
<1> QED
  BY <1>1 DEF Idle, Call, PC, CallOK

\* A step of one process keeps what the other requests rely on, as agents are
\* never unregistered and names never taken out of Redis.
LEMMA GoKeepsCalls ==
    ASSUME CallsOK, NEW p \in Proc, NEW c \in Call, Go(p, c),
           Registered \subseteq Registered', redis \subseteq redis',
           CallOK(c, Registered', redis')
    PROVE  CallsOK'
<1>1. call' \in [Proc -> Call]
  BY DEF CallsOK, Go
<1>2. ASSUME NEW q \in Proc
      PROVE  CallOK(call'[q], Registered', redis')
  <2>1. CASE q = p
    BY <2>1 DEF CallsOK, Go
  <2>2. CASE q # p
    <3>1. call'[q] = call[q] /\ CallOK(call[q], Registered, redis)
      BY <2>2 DEF CallsOK, Go
    <3> QED
      BY <3>1 DEF CallOK
  <2> QED
    BY <2>1, <2>2
<1> QED
  BY <1>1, <1>2 DEF CallsOK

LEMMA RespondKeepsCalls ==
    ASSUME CallsOK, NEW p \in Proc, Respond(p),
           Registered \subseteq Registered', redis \subseteq redis'
    PROVE  CallsOK'
BY IdleIsCall, GoKeepsCalls DEF Respond

LEMMA UnchangedKeepsCalls ==
    ASSUME CallsOK, UNCHANGED call, Registered \subseteq Registered', redis \subseteq redis'
    PROVE  CallsOK'
BY DEF CallsOK, CallOK

LEMMA StoreUnchanged ==
    ASSUME StoreInv, UNCHANGED store
    PROVE  StoreInv' /\ Registered' = Registered
BY DEF StoreInv, StoreTypeOK, KeyIndexIsInverse, Registered, store

LEMMA RegistryUnchanged ==
    ASSUME RegistryInv, UNCHANGED registry
    PROVE  RegistryInv' /\ redis' = redis
BY DEF RegistryInv, RegistryTypeOK, MemoryTrailsRedis, registry

LEMMA CacheUnchanged ==
    ASSUME CacheInv, UNCHANGED cache
    PROVE  CacheInv'
BY DEF CacheInv, CacheTypeOK, CacheWellFormed

\* The record a process writes next.
LEMMA NextWrite ==
    ASSUME CallsOK, NEW p \in Proc,
           call[p].pc \in {"suspend", "rotateWrite", "revokeWrite", "childWrite"}
    PROVE  /\ Head(call[p].writes) \in AgentRecord
           /\ HasOwnKey(Head(call[p].writes))
BY DEF CallsOK, CallOK, Call

LEMMA AdvanceIsOK ==
    ASSUME NEW c \in Call, NEW R, NEW D, c.arg \in R, c.ids # <<>>,
           \A n \in DOMAIN c.writes : c.writes[n].id \in R /\ HasOwnKey(c.writes[n]),
           Publish = "remember" => ~RedisEnabled
    PROVE  Advance(c) \in Call /\ CallOK(Advance(c), R, D)
BY DEF Advance, CallOK, Call, PC, Publish

-----------------------------------------------------------------------------

LEMMA InitInv == Init => Inv
<1> SUFFICES ASSUME Init PROVE Inv
  OBVIOUS
<1>1. StoreInv
  BY StoreInitInv DEF Init
<1>2. RegistryInv
  BY DEF Init, RegistryInit, RegistryInv, RegistryTypeOK, MemoryTrailsRedis
<1>3. CacheInv
  <2>1. <<>> \in Seq(Key) /\ Len(<<>>) <= CacheSize /\ IsInjective(<<>>)
    BY CacheAssumption DEF IsInjective
  <2> QED
    BY <2>1 DEF Init, CacheInit, CacheInv, CacheTypeOK, CacheWellFormed
<1>4. CallsOK
  BY IdleIsCall DEF Init, CallsOK
<1>5. CountsOK
  BY DEF Init, CountsOK
<1> QED
  BY <1>1, <1>2, <1>3, <1>4, <1>5 DEF Inv

-----------------------------------------------------------------------------
(* The steps of the requests                                                 *)

LEMMA RegisterAgentInv ==
    ASSUME Inv, NEW a \in Agent, NEW parent \in Agent \cup {None}, RegisterAgent(a, parent)
    PROVE  Inv'
<1> DEFINE rec == [id |-> a, parent |-> parent, key |-> <<a, 0>>, status |-> "active",
                   created |-> Cardinality(Registered)]
<1>1. rec \in AgentRecord /\ HasOwnKey(rec)
  <2>1. Cardinality(Registered) \in Nat
    BY FS_CardinalityType DEF Inv, StoreInv
  <2> QED
    BY <2>1 DEF AgentRecord, Key, Status, HasOwnKey
<1>2. StoreInv' /\ Registered' = Registered \cup {a}
  <2>1. CreateAgent(rec)
    BY DEF RegisterAgent
  <2> HIDE DEF rec
  <2>2. StoreInv' /\ Registered' = Registered \cup {rec.id}
    BY <1>1, <2>1, CreateAgentInv DEF Inv
  <2> QED
    BY <2>2 DEF rec
<1>3. RegistryInv' /\ redis' = redis
  BY RegistryUnchanged DEF Inv, RegisterAgent
<1>4. CacheInv'
  BY CacheUnchanged DEF Inv, RegisterAgent
<1>5. CallsOK'
  BY <1>2, <1>3, UnchangedKeepsCalls DEF Inv, RegisterAgent
<1>6. CountsOK'
  BY DEF Inv, CountsOK, RegisterAgent, history
<1> QED
  BY <1>2, <1>3, <1>4, <1>5, <1>6 DEF Inv

LEMMA SuspendInv ==
    ASSUME Inv, NEW p \in Proc, NEW a, SuspendRead(p, a) \/ SuspendWrite(p)
    PROVE  Inv'
<1>1. RegistryInv' /\ redis' = redis
  BY RegistryUnchanged DEF Inv, SuspendRead, SuspendWrite
<1>2. CacheInv'
  BY CacheUnchanged DEF Inv, SuspendRead, SuspendWrite
<1>3. CountsOK'
  BY DEF Inv, CountsOK, SuspendRead, SuspendWrite, history
<1>4. CASE SuspendRead(p, a)
  <2> DEFINE rec == [agents[a] EXCEPT !.status = "suspended"]
             c == [Idle EXCEPT !.pc = "suspend", !.arg = a, !.writes = <<rec>>]
  <2>1. a \in Registered /\ a \in Agent /\ Go(p, c)
    BY <1>4 DEF SuspendRead, Accept, Registered, Inv, StoreInv, StoreTypeOK
  <2>2. StoreInv' /\ Registered' = Registered
    BY <1>4, StoreUnchanged DEF Inv, SuspendRead
  <2>3. rec \in AgentRecord /\ rec.id = a /\ HasOwnKey(rec)
    BY <2>1 DEF Inv, StoreInv, StoreTypeOK, Registered, AgentRecord, Status, HasOwnKey
  <2> HIDE DEF rec
  <2>4. c \in Call
    <3>1. <<rec>> \in Seq(AgentRecord)
      BY <2>3
    <3> HIDE DEF rec
    <3> QED
      BY <2>1, <3>1, IdleIsCall DEF Call, PC
  <2>5. CallOK(c, Registered', redis')
    BY <2>1, <2>2, <2>3 DEF CallOK, Idle
  <2> HIDE DEF c
  <2>6. CallsOK'
    BY <1>1, <2>1, <2>2, <2>4, <2>5, GoKeepsCalls DEF Inv
  <2> QED
    BY <1>1, <1>2, <1>3, <2>2, <2>6 DEF Inv
<1>5. CASE SuspendWrite(p)
  <2>1. StoreInv' /\ Registered' = Registered
    BY <1>5, NextWrite, UpdateAgentInv DEF Inv, SuspendWrite, At
  <2>2. CallsOK'
    BY <1>1, <1>5, <2>1, RespondKeepsCalls DEF Inv, SuspendWrite
  <2> QED
    BY <1>1, <1>2, <1>3, <2>1, <2>2 DEF Inv
<1> QED
  BY <1>4, <1>5

LEMMA RotateReadsInv ==
    ASSUME Inv, NEW p \in Proc, NEW a,
           RotateBegin(p, a) \/ RotateRead(p) \/ RotateRefused(p)
    PROVE  Inv'
<1>1. RegistryInv' /\ redis' = redis
  BY RegistryUnchanged DEF Inv, RotateBegin, RotateRead, RotateRefused
<1>2. CacheInv'
  BY CacheUnchanged DEF Inv, RotateBegin, RotateRead, RotateRefused
<1>3. StoreInv' /\ Registered' = Registered
  BY StoreUnchanged DEF Inv, RotateBegin, RotateRead, RotateRefused
<1>4. CASE RotateBegin(p, a)
  <2> DEFINE c == [Idle EXCEPT !.pc = "rotateRead", !.arg = a, !.oldKey = agents[a].key]
  <2>1. a \in Registered /\ a \in Agent /\ Go(p, c)
    BY <1>4 DEF RotateBegin, Accept, Registered, Inv, StoreInv, StoreTypeOK
  <2>2. agents[a].key \in Key
    BY <2>1 DEF Inv, StoreInv, StoreTypeOK, Registered, AgentRecord
  <2>3. c \in Call
    BY <2>1, <2>2, IdleIsCall DEF Call, PC, Idle
  <2>4. CallOK(c, Registered', redis')
    BY <1>3, <2>1 DEF CallOK, Idle
  <2> HIDE DEF c
  <2>5. CallsOK'
    BY <1>1, <1>3, <2>1, <2>3, <2>4, GoKeepsCalls DEF Inv
  <2>6. CountsOK'
    BY <1>4 DEF Inv, CountsOK, RotateBegin, history
  <2> QED
    BY <1>1, <1>2, <1>3, <2>5, <2>6 DEF Inv
<1>5. CASE RotateRead(p)
  <2> DEFINE b == call[p].arg
             rec == [agents[b] EXCEPT !.key = <<b, keysMade[b]>>]
             c == [call[p] EXCEPT !.pc = "rotateWrite", !.replaced = agents[b].key,
                                  !.writes = <<rec>>]
  <2>1. /\ call[p] \in Call /\ CallOK(call[p], Registered, redis)
        /\ call[p].pc = "rotateRead" /\ Go(p, c)
    BY <1>5 DEF Inv, CallsOK, RotateRead, At
  <2>2. b \in Registered
    BY <2>1 DEF CallOK
  <2>3. b \in Agent /\ agents[b] \in AgentRecord /\ agents[b].id = b /\ keysMade[b] \in Nat
    BY <2>2 DEF Inv, StoreInv, StoreTypeOK, Registered, CountsOK
  <2>4. rec \in AgentRecord /\ rec.id = b /\ HasOwnKey(rec)
    BY <2>3 DEF AgentRecord, Key, HasOwnKey
  <2>5. agents[b].key \in Key
    BY <2>3 DEF AgentRecord
  <2>6. keysMade' \in [Agent -> Nat]
    BY <1>5, <2>3 DEF RotateRead, Inv, CountsOK
  <2> HIDE DEF rec, b
  <2>7. c \in Call
    <3>1. <<rec>> \in Seq(AgentRecord)
      BY <2>4
    <3> QED
      BY <2>1, <2>5, <3>1 DEF Call, PC
  <2>8. CallOK(c, Registered', redis')
    BY <1>1, <1>3, <2>1, <2>2, <2>4 DEF CallOK, Call
  <2> HIDE DEF c
  <2>9. CallsOK'
    BY <1>1, <1>3, <2>1, <2>7, <2>8, GoKeepsCalls DEF Inv
  <2>10. CountsOK'
    BY <1>5, <2>6 DEF Inv, CountsOK, RotateRead, history
  <2> QED
    BY <1>1, <1>2, <1>3, <2>9, <2>10 DEF Inv
<1>6. CASE RotateRefused(p)
  <2>1. CallsOK'
    BY <1>1, <1>3, <1>6, RespondKeepsCalls DEF Inv, RotateRefused
  <2>2. CountsOK'
    BY <1>6 DEF Inv, CountsOK, RotateRefused, history
  <2> QED
    BY <1>1, <1>2, <1>3, <2>1, <2>2 DEF Inv
<1> QED
  BY <1>4, <1>5, <1>6

LEMMA RotateWritesInv ==
    ASSUME Inv, NEW p \in Proc, RotateWrite(p) \/ RotateInvalidate(p)
    PROVE  Inv'
<1>1. call[p] \in Call /\ CallOK(call[p], Registered, redis)
  BY DEF Inv, CallsOK
<1>2. RegistryInv' /\ redis' = redis
  BY RegistryUnchanged DEF Inv, RotateWrite, RotateInvalidate
<1>3. CountsOK'
  BY DEF Inv, CountsOK, RotateWrite, RotateInvalidate, history
<1>4. CASE RotateWrite(p)
  <2> DEFINE c == [call[p] EXCEPT !.pc = "invalidate", !.writes = <<>>]
  <2>1. StoreInv' /\ Registered' = Registered
    BY <1>4, NextWrite, UpdateAgentInv DEF Inv, RotateWrite, At
  <2>2. CacheInv'
    BY <1>4, CacheUnchanged DEF Inv, RotateWrite
  <2>3. Go(p, c) /\ call[p].pc = "rotateWrite"
    BY <1>4 DEF RotateWrite, At
  <2>4. c \in Call
    <3>1. <<>> \in Seq(AgentRecord)
      OBVIOUS
    <3> QED
      BY <1>1, <3>1 DEF Call, PC
  <2>5. CallOK(c, Registered', redis')
    BY <1>1, <1>2, <2>1, <2>3 DEF CallOK, Call
  <2> HIDE DEF c
  <2>6. CallsOK'
    BY <1>2, <2>1, <2>3, <2>4, <2>5, GoKeepsCalls DEF Inv
  <2> QED
    BY <1>2, <1>3, <2>1, <2>2, <2>6 DEF Inv
<1>5. CASE RotateInvalidate(p)
  <2>1. StoreInv' /\ Registered' = Registered
    BY <1>5, StoreUnchanged DEF Inv, RotateInvalidate
  <2>2. CacheInv'
    BY <1>5, LifecycleAssumption, CacheOperationsKeepWellFormed DEF Inv, CacheInv, RotateInvalidate
  <2>3. CallsOK'
    BY <1>2, <1>5, <2>1, RespondKeepsCalls DEF Inv, RotateInvalidate
  <2> QED
    BY <1>2, <1>3, <2>1, <2>2, <2>3 DEF Inv
<1> QED
  BY <1>4, <1>5

LEMMA RevokeBeginInv ==
    ASSUME Inv, NEW p \in Proc, NEW a \in Agent, NEW cascade \in BOOLEAN,
           RevokeBegin(p, a, cascade)
    PROVE  Inv'
<1> DEFINE queue == IF cascade THEN <<[id |-> a, depth |-> 0]>> ELSE <<>>
           known == {a} \cup IF cascade THEN Subtree(a) ELSE {}
           c == [Idle EXCEPT !.pc = IF cascade THEN "list" ELSE "revokeRead",
                             !.arg = a, !.cascade = cascade, !.ids = <<a>>,
                             !.queue = queue, !.known = known]
<1>1. StoreInv' /\ Registered' = Registered
  BY StoreUnchanged DEF Inv, RevokeBegin
<1>2. RegistryInv' /\ redis' = redis
  BY RegistryUnchanged DEF Inv, RevokeBegin
<1>3. CacheInv'
  BY CacheUnchanged DEF Inv, RevokeBegin
<1>4. CountsOK'
  BY DEF Inv, CountsOK, RevokeBegin
<1>5. a \in Registered /\ Go(p, c)
  BY DEF RevokeBegin, Accept
<1>6. queue \in Seq(Item) /\ (cascade => queue # <<>>)
  <2>1. [id |-> a, depth |-> 0] \in Item
    BY DEF Item
  <2>2. <<>> \in Seq(Item)
    OBVIOUS
  <2> QED
    BY <2>1, <2>2
<1>7. known \in SUBSET Agent
  BY DEF Subtree, Inv, StoreInv, StoreTypeOK, Registered
<1>8. <<a>> \in Seq(Agent) /\ <<a>> # <<>>
  OBVIOUS
<1> HIDE DEF queue, known
<1>9. c \in Call
  BY <1>6, <1>7, <1>8, IdleIsCall DEF Call, PC
<1>10. CallOK(c, Registered', redis')
  BY <1>1, <1>5, <1>6, <1>8 DEF CallOK, Idle
<1> HIDE DEF c
<1>11. CallsOK'
  BY <1>1, <1>2, <1>5, <1>9, <1>10, GoKeepsCalls DEF Inv
<1> QED
  BY <1>1, <1>2, <1>3, <1>4, <1>11 DEF Inv

\* What a traversal queues and collects for a list of children.
LEMMA ItemsAreOK ==
    ASSUME StoreInv, NEW a, NEW s \in ChildLists(a), NEW d \in Nat
    PROVE  /\ Items(s, d) \in Seq(Item)
           /\ [n \in DOMAIN s |-> s[n].id] \in Seq(Agent)
<1>1. s \in Seq(AgentRecord)
  BY ChildListsAreRecords
<1>2. Len(s) \in Nat /\ DOMAIN s = 1..Len(s)
  BY <1>1
<1>3. \A n \in 1..Len(s) : s[n].id \in Agent /\ [id |-> s[n].id, depth |-> d] \in Item
  <2>1. \A n \in 1..Len(s) : s[n] \in AgentRecord
    BY <1>1
  <2> QED
    BY <2>1 DEF AgentRecord, Item
<1>4. [n \in 1..Len(s) |-> s[n].id] \in Seq(Agent)
  <2>1. [n \in 1..Len(s) |-> s[n].id] \in [1..Len(s) -> Agent]
    BY <1>3
  <2> QED
    BY <1>2, <2>1, SeqDef
<1>5. [n \in 1..Len(s) |-> [id |-> s[n].id, depth |-> d]] \in Seq(Item)
  <2>1. [n \in 1..Len(s) |-> [id |-> s[n].id, depth |-> d]] \in [1..Len(s) -> Item]
    BY <1>3
  <2> QED
    BY <1>2, <2>1, SeqDef
<1> QED
  BY <1>2, <1>4, <1>5 DEF Items

LEMMA ListStepInv ==
    ASSUME Inv, NEW p \in Proc, ListStep(p)
    PROVE  Inv'
<1>1. StoreInv' /\ Registered' = Registered
  BY StoreUnchanged DEF Inv, ListStep
<1>2. RegistryInv' /\ redis' = redis
  BY RegistryUnchanged DEF Inv, ListStep
<1>3. CacheInv'
  BY CacheUnchanged DEF Inv, ListStep
<1>4. CountsOK'
  BY DEF Inv, CountsOK, ListStep, history
<1>5. call[p] \in Call /\ CallOK(call[p], Registered, redis) /\ call[p].pc = "list"
  BY DEF Inv, CallsOK, ListStep, At
<1> DEFINE cur == Head(call[p].queue)
<1>6. PICK s \in ChildLists(cur.id) :
        LET rest == Dequeue(call[p].queue) \o Items(s, cur.depth + 1) IN
        Go(p, [call[p] EXCEPT !.ids = Collect(@, s), !.queue = rest,
                              !.pc = IF rest = <<>> THEN "revokeRead" ELSE "list"])
  BY DEF ListStep
<1> DEFINE rest == Dequeue(call[p].queue) \o Items(s, cur.depth + 1)
           ids == Collect(call[p].ids, s)
           c == [call[p] EXCEPT !.ids = ids, !.queue = rest,
                                !.pc = IF rest = <<>> THEN "revokeRead" ELSE "list"]
<1>7. cur \in Item /\ Tail(call[p].queue) \in Seq(Item)
  BY <1>5 DEF CallOK, Call
<1>8. cur.depth + 1 \in Nat
  BY <1>7 DEF Item
<1>9. /\ Items(s, cur.depth + 1) \in Seq(Item)
      /\ [n \in DOMAIN s |-> s[n].id] \in Seq(Agent)
  BY <1>8, ItemsAreOK DEF Inv
<1>10. rest \in Seq(Item)
  BY <1>7, <1>9 DEF Dequeue
<1>11. ids \in Seq(Agent) /\ ids # <<>>
  BY <1>5, <1>9 DEF CallOK, Call, Collect
<1> HIDE DEF rest, ids
<1>12. c \in Call
  BY <1>5, <1>10, <1>11 DEF Call, PC
<1>13. CallOK(c, Registered', redis')
  BY <1>1, <1>2, <1>5, <1>11 DEF CallOK, Call
<1>14. Go(p, c)
  BY <1>6 DEF rest, ids
<1> HIDE DEF c
<1>15. CallsOK'
  BY <1>1, <1>2, <1>12, <1>13, <1>14, GoKeepsCalls DEF Inv
<1> QED
  BY <1>1, <1>2, <1>3, <1>4, <1>15 DEF Inv

LEMMA RevokeReadInv ==
    ASSUME Inv, NEW p \in Proc, RevokeRead(p)
    PROVE  Inv'
<1> DEFINE a == call[p].arg
           rec == Revoked(agents[a])
           c == [call[p] EXCEPT !.pc = "revokeWrite", !.writes = <<rec>>]
<1>1. StoreInv' /\ Registered' = Registered
  BY StoreUnchanged DEF Inv, RevokeRead
<1>2. RegistryInv' /\ redis' = redis
  BY RegistryUnchanged DEF Inv, RevokeRead
<1>3. CacheInv'
  BY CacheUnchanged DEF Inv, RevokeRead
<1>4. CountsOK'
  BY DEF Inv, CountsOK, RevokeRead, history
<1>5. /\ call[p] \in Call /\ CallOK(call[p], Registered, redis)
      /\ call[p].pc = "revokeRead" /\ Go(p, c)
  BY DEF Inv, CallsOK, RevokeRead, At
<1>6. a \in Registered
  BY <1>5 DEF CallOK
<1>7. rec \in AgentRecord /\ rec.id = a /\ HasOwnKey(rec)
  BY <1>6 DEF Inv, StoreInv, StoreTypeOK, Registered, Revoked, AgentRecord, Status, HasOwnKey
<1> HIDE DEF rec, a
<1>8. c \in Call
  <2>1. <<rec>> \in Seq(AgentRecord)
    BY <1>7
  <2> QED
    BY <1>5, <2>1 DEF Call, PC
<1>9. CallOK(c, Registered', redis')
  BY <1>1, <1>2, <1>5, <1>6, <1>7 DEF CallOK, Call
<1> HIDE DEF c
<1>10. CallsOK'
  BY <1>1, <1>2, <1>5, <1>8, <1>9, GoKeepsCalls DEF Inv
<1> QED
  BY <1>1, <1>2, <1>3, <1>4, <1>10 DEF Inv

LEMMA RevokeWriteInv ==
    ASSUME Inv, NEW p \in Proc, RevokeWrite(p)
    PROVE  Inv'
<1> DEFINE queue == IF call[p].cascade THEN <<[id |-> call[p].arg, depth |-> 0]>> ELSE <<>>
           c == [call[p] EXCEPT !.pc = IF call[p].cascade THEN "children" ELSE Publish,
                                !.writes = <<>>, !.queue = queue]
<1>1. StoreInv' /\ Registered' = Registered
  BY NextWrite, UpdateAgentInv DEF Inv, RevokeWrite, At
<1>2. RegistryInv' /\ redis' = redis
  BY RegistryUnchanged DEF Inv, RevokeWrite
<1>3. CacheInv'
  BY CacheUnchanged DEF Inv, RevokeWrite
<1>4. CountsOK'
  BY DEF Inv, CountsOK, RevokeWrite, history
<1>5. /\ call[p] \in Call /\ CallOK(call[p], Registered, redis)
      /\ call[p].pc = "revokeWrite" /\ Go(p, c)
  BY DEF Inv, CallsOK, RevokeWrite, At
<1>6. call[p].arg \in Registered /\ call[p].arg \in Agent
  BY <1>5 DEF CallOK, Inv, StoreInv, StoreTypeOK, Registered
<1>7. queue \in Seq(Item) /\ (call[p].cascade => queue # <<>>)
  <2>1. [id |-> call[p].arg, depth |-> 0] \in Item
    BY <1>6 DEF Item
  <2>2. <<>> \in Seq(Item)
    OBVIOUS
  <2> QED
    BY <2>1, <2>2
<1> HIDE DEF queue
<1>8. c \in Call
  <2>1. <<>> \in Seq(AgentRecord)
    OBVIOUS
  <2> QED
    BY <1>5, <1>7, <2>1 DEF Call, PC, Publish
<1>9. CallOK(c, Registered', redis')
  BY <1>1, <1>2, <1>5, <1>6, <1>7 DEF CallOK, Call, Publish
<1> HIDE DEF c
<1>10. CallsOK'
  BY <1>1, <1>2, <1>5, <1>8, <1>9, GoKeepsCalls DEF Inv
<1> QED
  BY <1>1, <1>2, <1>3, <1>4, <1>10 DEF Inv

LEMMA ReadChildrenInv ==
    ASSUME Inv, NEW p \in Proc, ReadChildren(p)
    PROVE  Inv'
<1>1. StoreInv' /\ Registered' = Registered
  BY StoreUnchanged DEF Inv, ReadChildren
<1>2. RegistryInv' /\ redis' = redis
  BY RegistryUnchanged DEF Inv, ReadChildren
<1>3. CacheInv'
  BY CacheUnchanged DEF Inv, ReadChildren
<1>4. CountsOK'
  BY DEF Inv, CountsOK, ReadChildren, history
<1>5. call[p] \in Call /\ CallOK(call[p], Registered, redis) /\ call[p].pc = "children"
  BY DEF Inv, CallsOK, ReadChildren, At
<1> DEFINE cur == Head(call[p].queue)
<1>6. PICK s \in ChildLists(cur.id) :
        Go(p, Advance([call[p] EXCEPT !.queue = Dequeue(@) \o Items(s, cur.depth + 1),
                                      !.writes = [n \in DOMAIN s |-> Revoked(s[n])]]))
  BY DEF ReadChildren
<1> DEFINE queue == Dequeue(call[p].queue) \o Items(s, cur.depth + 1)
           writes == [n \in DOMAIN s |-> Revoked(s[n])]
           c == [call[p] EXCEPT !.queue = queue, !.writes = writes]
<1>7. cur \in Item /\ Tail(call[p].queue) \in Seq(Item)
  BY <1>5 DEF CallOK, Call
<1>8. cur.depth + 1 \in Nat
  BY <1>7 DEF Item
<1>9. queue \in Seq(Item)
  <2>1. Items(s, cur.depth + 1) \in Seq(Item)
    BY <1>8, ItemsAreOK DEF Inv
  <2> QED
    BY <1>7, <2>1 DEF Dequeue
<1>10. s \in Seq(AgentRecord) /\ \A n \in DOMAIN s : s[n].id \in Registered /\ s[n] = agents[s[n].id]
  BY ChildListsAreRecords DEF Inv
<1>11. \A n \in DOMAIN s : /\ Revoked(s[n]) \in AgentRecord
                          /\ Revoked(s[n]).id \in Registered
                          /\ HasOwnKey(Revoked(s[n]))
  <2> SUFFICES ASSUME NEW n \in DOMAIN s
               PROVE  /\ Revoked(s[n]) \in AgentRecord
                      /\ Revoked(s[n]).id \in Registered
                      /\ HasOwnKey(Revoked(s[n]))
    OBVIOUS
  <2>1. s[n] \in AgentRecord /\ s[n].id \in Registered
    BY <1>10
  <2>2. HasOwnKey(s[n])
    BY <1>10 DEF Inv, StoreInv
  <2> QED
    BY <2>1, <2>2 DEF Revoked, AgentRecord, Status, HasOwnKey
<1>12. writes \in Seq(AgentRecord)
  <2>1. Len(s) \in Nat /\ DOMAIN s = 1..Len(s)
    BY <1>10
  <2>2. writes \in [1..Len(s) -> AgentRecord]
    BY <1>11, <2>1
  <2> QED
    BY <2>1, <2>2, SeqDef
<1>13. \A n \in DOMAIN writes : writes[n].id \in Registered /\ HasOwnKey(writes[n])
  BY <1>11
<1> HIDE DEF queue, writes
<1>14. c \in Call
  BY <1>5, <1>9, <1>12 DEF Call
<1>15. Advance(c) \in Call /\ CallOK(Advance(c), Registered, redis)
  <2>1. c.arg \in Registered /\ c.ids # <<>> /\ c.writes = writes
    BY <1>5 DEF CallOK, Call
  <2>2. Publish = "remember" => ~RedisEnabled
    BY DEF Publish
  <2> HIDE DEF c
  <2> QED
    BY <1>13, <1>14, <2>1, <2>2, AdvanceIsOK
<1>16. Go(p, Advance(c))
  BY <1>6 DEF queue, writes
<1> HIDE DEF c
<1>17. CallsOK'
  BY <1>1, <1>2, <1>15, <1>16, GoKeepsCalls DEF Inv
<1> QED
  BY <1>1, <1>2, <1>3, <1>4, <1>17 DEF Inv

LEMMA RefuseDepthInv ==
    ASSUME Inv, NEW p \in Proc, RefuseDepth(p)
    PROVE  Inv'
<1>1. StoreInv' /\ Registered' = Registered
  BY StoreUnchanged DEF Inv, RefuseDepth
<1>2. RegistryInv' /\ redis' = redis
  BY RegistryUnchanged DEF Inv, RefuseDepth
<1>3. CacheInv'
  BY CacheUnchanged DEF Inv, RefuseDepth
<1>4. CountsOK'
  BY DEF Inv, CountsOK, RefuseDepth, history
<1>5. CallsOK'
  BY <1>1, <1>2, RespondKeepsCalls DEF Inv, RefuseDepth
<1> QED
  BY <1>1, <1>2, <1>3, <1>4, <1>5 DEF Inv

LEMMA WriteChildInv ==
    ASSUME Inv, NEW p \in Proc, WriteChild(p)
    PROVE  Inv'
<1> DEFINE c == [call[p] EXCEPT !.writes = Tail(call[p].writes)]
<1>1. StoreInv' /\ Registered' = Registered
  BY NextWrite, UpdateAgentInv DEF Inv, WriteChild, At
<1>2. RegistryInv' /\ redis' = redis
  BY RegistryUnchanged DEF Inv, WriteChild
<1>3. CacheInv'
  BY CacheUnchanged DEF Inv, WriteChild
<1>4. CountsOK'
  BY DEF Inv, CountsOK, WriteChild, history
<1>5. /\ call[p] \in Call /\ CallOK(call[p], Registered, redis)
      /\ call[p].pc = "childWrite" /\ Go(p, Advance(c))
  BY DEF Inv, CallsOK, WriteChild, At
<1>6. /\ Tail(call[p].writes) \in Seq(AgentRecord)
      /\ \A n \in DOMAIN Tail(call[p].writes) :
           /\ Tail(call[p].writes)[n].id \in Registered
           /\ HasOwnKey(Tail(call[p].writes)[n])
  <2>1. call[p].writes \in Seq(AgentRecord) /\ call[p].writes # <<>>
    BY <1>5 DEF CallOK, Call
  <2>2. \A n \in 1..Len(call[p].writes) :
          call[p].writes[n].id \in Registered /\ HasOwnKey(call[p].writes[n])
    BY <1>5, <2>1 DEF CallOK
  <2> QED
    BY <2>1, <2>2
<1>7. c \in Call
  BY <1>5, <1>6 DEF Call
<1>8. Advance(c) \in Call /\ CallOK(Advance(c), Registered, redis)
  <2>1. c.arg \in Registered /\ c.ids # <<>> /\ c.writes = Tail(call[p].writes)
    BY <1>5 DEF CallOK, Call
  <2>2. Publish = "remember" => ~RedisEnabled
    BY DEF Publish
  <2> HIDE DEF c
  <2> QED
    BY <1>6, <1>7, <2>1, <2>2, AdvanceIsOK
<1> HIDE DEF c
<1>9. CallsOK'
  BY <1>1, <1>2, <1>5, <1>8, GoKeepsCalls DEF Inv
<1> QED
  BY <1>1, <1>2, <1>3, <1>4, <1>9 DEF Inv

LEMMA WriteRedisInv ==
    ASSUME Inv, NEW p \in Proc, WriteRedis(p)
    PROVE  Inv'
<1> DEFINE a == Head(call[p].ids)
           c == [call[p] EXCEPT !.pc = "remember"]
<1>1. StoreInv' /\ Registered' = Registered
  BY StoreUnchanged DEF Inv, WriteRedis
<1>2. CacheInv'
  BY CacheUnchanged DEF Inv, WriteRedis
<1>3. CountsOK'
  BY DEF Inv, CountsOK, WriteRedis, history
<1>4. /\ call[p] \in Call /\ CallOK(call[p], Registered, redis)
      /\ call[p].pc = "redis" /\ Go(p, c)
  BY DEF Inv, CallsOK, WriteRedis, At
<1>5. call[p].ids \in Seq(Agent) /\ call[p].ids # <<>>
  BY <1>4 DEF CallOK, Call
<1>6. a \in Agent /\ a = call[p].ids[1]
  BY <1>5
<1>7. redis' = redis \cup {a} /\ memory' = memory
  BY DEF WriteRedis, SetRedis
<1> HIDE DEF a
<1>8. RegistryInv'
  BY <1>6, <1>7 DEF Inv, RegistryInv, RegistryTypeOK, MemoryTrailsRedis, Name
<1>9. c \in Call
  BY <1>4 DEF Call, PC
<1>10. CallOK(c, Registered', redis')
  BY <1>1, <1>4, <1>6, <1>7 DEF CallOK, Call
<1> HIDE DEF c
<1>11. CallsOK'
  BY <1>1, <1>4, <1>7, <1>9, <1>10, GoKeepsCalls DEF Inv
<1> QED
  BY <1>1, <1>2, <1>3, <1>8, <1>11 DEF Inv

LEMMA WriteMemoryInv ==
    ASSUME Inv, NEW p \in Proc, WriteMemory(p)
    PROVE  Inv'
<1> DEFINE a == Head(call[p].ids)
           rest == Tail(call[p].ids)
           c == [call[p] EXCEPT !.pc = Publish, !.ids = rest]
<1>1. StoreInv' /\ Registered' = Registered
  BY StoreUnchanged DEF Inv, WriteMemory
<1>2. CacheInv'
  BY CacheUnchanged DEF Inv, WriteMemory
<1>3. call[p] \in Call /\ CallOK(call[p], Registered, redis) /\ call[p].pc = "remember"
  BY DEF Inv, CallsOK, WriteMemory, At
<1>4. CountsOK'
  <2>1. acked' \in {acked, acked \cup call[p].known}
    BY DEF WriteMemory
  <2>2. call[p].known \subseteq Agent
    BY <1>3 DEF Call
  <2> QED
    BY <2>1, <2>2 DEF Inv, CountsOK, WriteMemory
<1>5. /\ call[p].ids \in Seq(Agent) /\ call[p].ids # <<>>
      /\ RedisEnabled => call[p].ids[1] \in redis
  BY <1>3 DEF CallOK, Call
<1>6. a \in Agent /\ a = call[p].ids[1] /\ rest \in Seq(Agent)
  BY <1>5
<1>7. memory' = [memory EXCEPT ![Host[p]] = @ \cup {a}] /\ redis' = redis
  BY DEF WriteMemory, Remember
<1> HIDE DEF a, rest
<1>8. RegistryInv'
  BY <1>5, <1>6, <1>7, LifecycleAssumption
     DEF Inv, RegistryInv, RegistryTypeOK, MemoryTrailsRedis, Name
<1>9. CASE rest = <<>>
  <2>1. CallsOK'
    BY <1>1, <1>7, <1>9, RespondKeepsCalls DEF Inv, WriteMemory, rest
  <2> QED
    BY <1>1, <1>2, <1>4, <1>8, <2>1 DEF Inv
<1>10. CASE rest # <<>>
  <2>1. Go(p, c)
    BY <1>10 DEF WriteMemory, rest
  <2>2. c \in Call
    BY <1>3, <1>6 DEF Call, PC, Publish
  <2>3. CallOK(c, Registered', redis')
    BY <1>1, <1>3, <1>7, <1>10 DEF CallOK, Call, Publish
  <2> HIDE DEF c
  <2>4. CallsOK'
    BY <1>1, <1>7, <2>1, <2>2, <2>3, GoKeepsCalls DEF Inv
  <2> QED
    BY <1>1, <1>2, <1>4, <1>8, <2>4 DEF Inv
<1> QED
  BY <1>9, <1>10

-----------------------------------------------------------------------------
(* Failures                                                                  *)

LEMMA ListFailsInv ==
    ASSUME Inv, NEW p \in Proc, ListFails(p)
    PROVE  Inv'
<1> DEFINE c == [call[p] EXCEPT !.pc = "revokeRead", !.ids = <<call[p].arg>>, !.queue = <<>>]
<1>1. StoreInv' /\ Registered' = Registered
  BY StoreUnchanged DEF Inv, ListFails
<1>2. RegistryInv' /\ redis' = redis
  BY RegistryUnchanged DEF Inv, ListFails
<1>3. CacheInv'
  BY CacheUnchanged DEF Inv, ListFails
<1>4. CountsOK'
  BY DEF Inv, CountsOK, ListFails, Fault, history
<1>5. /\ call[p] \in Call /\ CallOK(call[p], Registered, redis)
      /\ call[p].pc = "list" /\ Go(p, c)
  BY DEF Inv, CallsOK, ListFails, At
<1>6. call[p].arg \in Registered /\ call[p].arg \in Agent
  BY <1>5 DEF CallOK, Inv, StoreInv, StoreTypeOK, Registered
<1>7. <<call[p].arg>> \in Seq(Agent) /\ <<call[p].arg>> # <<>> /\ <<>> \in Seq(Item)
  BY <1>6
<1>8. c \in Call
  BY <1>5, <1>7 DEF Call, PC
<1>9. CallOK(c, Registered', redis')
  BY <1>1, <1>2, <1>5, <1>6, <1>7 DEF CallOK, Call
<1> HIDE DEF c
<1>10. CallsOK'
  BY <1>1, <1>2, <1>5, <1>8, <1>9, GoKeepsCalls DEF Inv
<1> QED
  BY <1>1, <1>2, <1>3, <1>4, <1>10 DEF Inv

\* A request that a failed call ends; the write it was about may be in place.
LEMMA FailedCallInv ==
    ASSUME Inv, NEW p \in Proc, ReadFails(p) \/ WriteFails(p) \/ RedisFails(p)
    PROVE  Inv'
<1>1. CacheInv' /\ CountsOK'
  <2>1. CacheInv'
    BY CacheUnchanged DEF Inv, ReadFails, WriteFails, RedisFails
  <2> QED
    BY <2>1 DEF Inv, CountsOK, ReadFails, WriteFails, RedisFails, Fault, history
<1>2. StoreInv' /\ Registered' = Registered
  <2>1. CASE UNCHANGED store
    BY <2>1, StoreUnchanged DEF Inv
  <2>2. CASE WriteFails(p) /\ UpdateAgent(Head(call[p].writes))
    BY <2>2, NextWrite, UpdateAgentInv DEF Inv, WriteFails
  <2> QED
    BY <2>1, <2>2 DEF ReadFails, WriteFails, RedisFails
<1>3. RegistryInv' /\ redis \subseteq redis'
  <2>1. CASE UNCHANGED registry
    BY <2>1, RegistryUnchanged DEF Inv
  <2>2. CASE RedisFails(p) /\ SetRedis(Head(call[p].ids))
    <3>1. Head(call[p].ids) \in Agent
      <4>1. call[p] \in Call /\ CallOK(call[p], Registered, redis) /\ call[p].pc = "redis"
        BY <2>2 DEF Inv, CallsOK, RedisFails, At
      <4>2. call[p].ids \in Seq(Agent) /\ call[p].ids # <<>>
        BY <4>1 DEF CallOK, Call
      <4> QED
        BY <4>2
    <3> QED
      BY <2>2, <3>1 DEF Inv, RegistryInv, RegistryTypeOK, MemoryTrailsRedis, Name, SetRedis
  <2> QED
    BY <2>1, <2>2 DEF ReadFails, WriteFails, RedisFails
<1>4. CallsOK'
  BY <1>2, <1>3, RespondKeepsCalls DEF Inv, ReadFails, WriteFails, RedisFails
<1> QED
  BY <1>1, <1>2, <1>3, <1>4 DEF Inv

\* A restart that loses the agents ends every request: only a deployment of one
\* instance keeps them in memory.
LEMMA CrashCases ==
    ASSUME Inv, NEW i \in Instance, Crash(i)
    PROVE  \/ UNCHANGED store
           \/ /\ Registered' = {}
              /\ call' = [p \in Proc |-> Idle]
<1>1. CASE Postgres
  BY <1>1 DEF Crash, RestartStore
<1>2. CASE ~Postgres
  <2>1. Registered' = {}
    BY <1>2 DEF Crash, RestartStore, Registered
  <2>2. \A p \in Proc : Host[p] = i
    BY <1>2, DeploymentAssumption, LifecycleAssumption
  <2> QED
    BY <2>1, <2>2 DEF Crash
<1> QED
  BY <1>1, <1>2

LEMMA CrashInv ==
    ASSUME Inv, NEW i \in Instance, Crash(i)
    PROVE  Inv'
<1>1. StoreInv'
  BY RestartStoreInv DEF Inv, Crash
<1>2. RegistryInv' /\ redis' = redis
  BY DEF Inv, Crash, ForgetMemory, RegistryInv, RegistryTypeOK, MemoryTrailsRedis
<1>3. CacheInv'
  BY CacheOperationsKeepWellFormed DEF Inv, CacheInv, Crash
<1>4. CountsOK'
  BY DEF Inv, CountsOK, Crash, Fault, history
<1>5. CallsOK'
  <2>1. CASE UNCHANGED store
    BY <2>1, <1>2, IdleIsCall DEF Inv, CallsOK, Crash, store, Registered
  <2>2. CASE call' = [p \in Proc |-> Idle]
    BY <2>2, IdleIsCall DEF CallsOK
  <2> QED
    BY <2>1, <2>2, CrashCases
<1> QED
  BY <1>1, <1>2, <1>3, <1>4, <1>5 DEF Inv

-----------------------------------------------------------------------------
(* Theorems                                                                  *)

LEMMA NextInv == Inv /\ [Next]_vars => Inv'
<1> SUFFICES ASSUME Inv, [Next]_vars PROVE Inv'
  OBVIOUS
<1>1. ASSUME NEW p \in Proc, Start(p) \/ Continue(p) \/ Fail(p)
      PROVE  Inv'
  <2>1. CASE Start(p)
    BY <2>1, SuspendInv, RotateReadsInv, RevokeBeginInv DEF Start
  <2>2. CASE Continue(p)
    BY <2>2, SuspendInv, RotateReadsInv, RotateWritesInv, ListStepInv, RevokeReadInv,
       RevokeWriteInv, ReadChildrenInv, RefuseDepthInv, WriteChildInv, WriteRedisInv,
       WriteMemoryInv DEF Continue
  <2>3. CASE Fail(p)
    BY <2>3, ListFailsInv, FailedCallInv DEF Fail
  <2> QED
    BY <1>1, <2>1, <2>2, <2>3
<1>2. CASE UNCHANGED vars
  <2>1. StoreInv' /\ Registered' = Registered /\ RegistryInv' /\ redis' = redis /\ CacheInv'
    BY <1>2, StoreUnchanged, RegistryUnchanged, CacheUnchanged DEF Inv, vars, store, registry
  <2>2. CallsOK'
    BY <1>2, <2>1, UnchangedKeepsCalls DEF Inv, vars
  <2> QED
    BY <1>2, <2>1, <2>2 DEF Inv, CountsOK, vars
<1> QED
  BY <1>1, <1>2, RegisterAgentInv, CrashInv DEF Next

\* Inv is an invariant: it holds at first and every step keeps it.
THEOREM SpecInv == Spec => []Inv
<1>1. Init => Inv
  BY InitInv
<1>2. Inv /\ [Next]_vars => Inv'
  BY NextInv
<1> QED
  BY <1>1, <1>2, PTL DEF Spec

\* Type correctness: the loops of the handlers never take the head of an empty
\* queue or list, and no record is written for an agent that is not registered.
THEOREM TypeCorrectness == Spec => []TypeOK
<1>1. Inv => TypeOK
  BY DEF Inv, StoreInv, RegistryInv, CacheInv, CallsOK, CountsOK, TypeOK
<1> QED
  BY <1>1, SpecInv, PTL

\* The key index of the in-memory store answers what a scan of the records would
\* (UpdateAgent of store/memory.go), for any number of concurrent rotations,
\* suspensions and revocations that overwrite each other's records.
THEOREM KeyIndexCorrectness == Spec => []KeyIndexIsInverse
<1>1. Inv => KeyIndexIsInverse
  BY DEF Inv, StoreInv
<1> QED
  BY <1>1, SpecInv, PTL

\* Redis is written first (RevokeAgent of revocation/registry.go): no instance
\* ever remembers a revocation that Redis has not, whichever commands fail and
\* whichever instances restart.
THEOREM MemoryNeverAhead == Spec => []MemoryTrailsRedis
<1>1. Inv => MemoryTrailsRedis
  BY DEF Inv, RegistryInv
<1> QED
  BY <1>1, SpecInv, PTL
=============================================================================
