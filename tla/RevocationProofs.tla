-------------------------- MODULE RevocationProofs --------------------------
(***************************************************************************)
(* An answered revocation is in force: the theorem behind the cascade, for *)
(* trees of any size that grow during the revocation and any number of     *)
(* concurrent requests, failed calls and restarts.                         *)
(*                                                                         *)
(* It has two hypotheses for the ways in which the code can miss a         *)
(* descendant: no listing of the descendants fails (RevokeAgent drops that *)
(* error) and no agent has more children than the Postgres store lists. A  *)
(* third one is about restarts: without Redis the registry is a map in the *)
(* memory of the process, and a restart forgets every revocation.          *)
(***************************************************************************)
EXTENDS AgentLifecycleProofs

ListsAreComplete == ~Postgres \/ (IsFiniteSet(Agent) /\ Cardinality(Agent) <= ChildLimit)

\* The revocations are in Redis, or no instance restarts.
RegistrySurvives == RedisEnabled \/ "crash" \notin Failures

\* The three hypotheses at once.
Complete == "list" \notin Failures /\ ListsAreComplete /\ RegistrySurvives

\* The requests that revoke, from the listing to the last registry write.
Revoking == {"list", "revokeRead", "revokeWrite", "children", "childWrite", "redis", "remember"}

\* Every agent of the set K can be reached from a within K, A being the records:
\* a set that has a and, of the members of K, the children of what it has, has
\* all of K.
ReachedFrom(a, K, A) ==
    \A S \in SUBSET Agent :
        a \in S /\ (\A x \in K : A[x].parent \in S => x \in S) => K \subseteq S

\* ListDescendants under way: what is below a listed agent is listed, unless the
\* agent is still in the queue.
Listed(c, A) ==
    /\ c.arg \in ToSet(c.ids)
    /\ \A x \in c.known :
         A[x].parent \in ToSet(c.ids) =>
             x \in ToSet(c.ids) \/ \E n \in DOMAIN c.queue : c.queue[n].id = A[x].parent

\* What a request owes under these hypotheses, F being the agents whose
\* revocation is in force: once the listing is done, an agent the answer is about
\* is in force or in the list.
Owes(c, A, F) ==
    Complete /\ c.pc \in Revoking =>
        /\ c.known \subseteq DOMAIN A
        /\ ReachedFrom(c.arg, c.known, A)
        /\ IF c.pc = "list" THEN Listed(c, A) ELSE c.known \subseteq ToSet(c.ids) \cup F

\* No request ever moves an agent in the tree: stale records have its parent.
KeepsParents(c, A) == \A n \in DOMAIN c.writes : c.writes[n].parent = A[c.writes[n].id].parent

RevocationInv ==
    /\ Inv
    /\ \A p \in Proc : Owes(call[p], agents, InForce) /\ KeepsParents(call[p], agents)
    /\ Complete => acked \subseteq InForce

-----------------------------------------------------------------------------
(* Lemmas                                                                    *)

\* GetChildAgents answers all the children.
LEMMA ChildListsAreComplete ==
    ASSUME StoreInv, ListsAreComplete, NEW a, NEW s \in ChildLists(a), NEW x \in Children(a)
    PROVE  \E n \in DOMAIN s : s[n].id = x
<1> DEFINE newer(c) == {d \in Children(a) : agents[d].created > agents[c].created}
           listed == {c \in Children(a) : Postgres => Cardinality(newer(c)) < ChildLimit}
<1>1. Children(a) \subseteq Registered /\ Registered \subseteq Agent /\ IsFiniteSet(Registered)
  BY DEF Children, StoreInv, StoreTypeOK, Registered
<1>2. x \in listed
  <2> SUFFICES ASSUME Postgres PROVE Cardinality(newer(x)) < ChildLimit
    OBVIOUS
  <2>1. IsFiniteSet(Agent) /\ Cardinality(Agent) <= ChildLimit
    BY DEF ListsAreComplete
  <2>2. x \in Agent /\ IsFiniteSet(Agent \ {x}) /\ Cardinality(Agent \ {x}) = Cardinality(Agent) - 1
    BY <1>1, <2>1, FS_RemoveElement
  <2>3. newer(x) \subseteq Agent \ {x}
    <3>1. agents[x].created \in Nat
      BY <1>1 DEF StoreInv, StoreTypeOK, Registered, AgentRecord
    <3> QED
      BY <1>1, <3>1
  <2> HIDE DEF newer
  <2>4. Cardinality(newer(x)) <= Cardinality(Agent \ {x}) /\ IsFiniteSet(newer(x))
    BY <2>2, <2>3, FS_Subset
  <2>5. Cardinality(newer(x)) \in Nat /\ Cardinality(Agent) \in Nat
    BY <2>1, <2>4, FS_CardinalityType
  <2> QED
    BY <2>1, <2>2, <2>4, <2>5, StoreAssumption
<1>3. PICK t \in SetToSeqs(listed) : s = [n \in DOMAIN t |-> agents[t[n]]]
  BY DEF ChildLists
<1>4. listed \subseteq Registered /\ IsFiniteSet(listed)
  BY <1>1, FS_Subset
<1> HIDE DEF listed, newer
<1>5. /\ t \in [1..Cardinality(listed) -> listed]
      /\ \A m, n \in 1..Cardinality(listed) : m # n => t[m] # t[n]
  BY <1>3 DEF SetToSeqs
<1>6. t \in Surjection(1..Cardinality(listed), listed)
  <2>1. t \in Injection(1..Cardinality(listed), listed)
    BY <1>5 DEF Injection, IsInjective
  <2>2. Cardinality(1..Cardinality(listed)) = Cardinality(listed)
    <3>1. Cardinality(listed) \in Nat
      BY <1>4, FS_CardinalityType
    <3> QED
      BY <3>1, FS_Interval
  <2> QED
    BY <1>4, <2>1, <2>2, FS_Injection
<1>7. PICK n \in 1..Cardinality(listed) : t[n] = x
  BY <1>2, <1>6 DEF Surjection
<1>8. agents[x].id = x
  BY <1>1 DEF StoreInv, StoreTypeOK, Registered
<1> QED
  BY <1>3, <1>5, <1>7, <1>8

\* A step that no agent moves in the tree by.
SameParents ==
    /\ Registered \subseteq Registered'
    /\ \A x \in Registered : agents'[x].parent = agents[x].parent

LEMMA UnchangedSameParents == UNCHANGED store => SameParents
BY DEF SameParents, Registered, store

LEMMA UpdateSameParents ==
    ASSUME NEW rec, UpdateAgent(rec), rec.parent = agents[rec.id].parent
    PROVE  SameParents
<1>1. Registered' = Registered
  BY DEF UpdateAgent, Registered
<1>2. \A x \in Registered : agents'[x] = IF x = rec.id THEN rec ELSE agents[x]
  BY DEF UpdateAgent, Registered
<1> QED
  BY <1>1, <1>2 DEF SameParents

\* Revocations stay in force: a map only loses names where Redis has them.
LEMMA InForceGrows ==
    ASSUME redis \subseteq redis', RedisEnabled \/ \A i \in Instance : memory[i] \subseteq memory'[i]
    PROVE  InForce \subseteq InForce'
BY DEF InForce, IsRevoked

LEMMA OwesLater ==
    ASSUME NEW c, Owes(c, agents, InForce), SameParents, InForce \subseteq InForce'
    PROVE  Owes(c, agents', InForce')
<1> SUFFICES ASSUME Complete, c.pc \in Revoking
             PROVE  /\ c.known \subseteq DOMAIN agents'
                    /\ ReachedFrom(c.arg, c.known, agents')
                    /\ IF c.pc = "list" THEN Listed(c, agents')
                                        ELSE c.known \subseteq ToSet(c.ids) \cup InForce'
  BY DEF Owes
<1>1. c.known \subseteq DOMAIN agents /\ c.known \subseteq DOMAIN agents'
  BY DEF Owes, SameParents, Registered
<1>2. \A x \in c.known : agents'[x].parent = agents[x].parent
  BY <1>1 DEF SameParents, Registered
<1>3. ReachedFrom(c.arg, c.known, agents')
  BY <1>2 DEF Owes, ReachedFrom
<1>4. CASE c.pc = "list"
  BY <1>1, <1>2, <1>3, <1>4 DEF Owes, Listed
<1>5. CASE c.pc # "list"
  BY <1>1, <1>3, <1>5 DEF Owes
<1> QED
  BY <1>4, <1>5

LEMMA KeepsParentsLater ==
    ASSUME NEW c, NEW D, CallOK(c, Registered, D), KeepsParents(c, agents), SameParents
    PROVE  KeepsParents(c, agents')
<1>1. \A n \in DOMAIN c.writes : c.writes[n].id \in Registered
  BY DEF CallOK
<1> QED
  BY <1>1 DEF KeepsParents, SameParents

\* A step of process p, which has request c to serve after it.
LEMMA GoKeepsRevocationInv ==
    ASSUME RevocationInv, Inv', NEW p \in Proc, NEW c, Go(p, c),
           SameParents, InForce \subseteq InForce', Complete => acked' \subseteq acked \cup InForce',
           Owes(c, agents', InForce'), KeepsParents(c, agents')
    PROVE  RevocationInv'
<1>1. ASSUME NEW q \in Proc
      PROVE  Owes(call'[q], agents', InForce') /\ KeepsParents(call'[q], agents')
  <2>1. call' = [call EXCEPT ![p] = c] /\ DOMAIN call = Proc
    BY DEF Go, RevocationInv, Inv, CallsOK
  <2>2. CASE q = p
    BY <2>1, <2>2
  <2>3. CASE q # p
    <3>1. call'[q] = call[q] /\ CallOK(call[q], Registered, redis)
      BY <2>1, <2>3 DEF RevocationInv, Inv, CallsOK
    <3>2. Owes(call[q], agents, InForce) /\ KeepsParents(call[q], agents)
      BY DEF RevocationInv
    <3> QED
      BY <3>1, <3>2, OwesLater, KeepsParentsLater
  <2> QED
    BY <2>2, <2>3
<1> QED
  BY <1>1 DEF RevocationInv

LEMMA IdleOwesNothing ==
    ASSUME NEW A, NEW F
    PROVE  Owes(Idle, A, F) /\ KeepsParents(Idle, A)
BY DEF Owes, KeepsParents, Idle, Revoking

LEMMA RespondKeepsRevocationInv ==
    ASSUME RevocationInv, Inv', NEW p \in Proc, Respond(p),
           SameParents, InForce \subseteq InForce', acked' = acked
    PROVE  RevocationInv'
BY GoKeepsRevocationInv, IdleOwesNothing DEF Respond

\* A step of a revocation after its listing.
LEMMA RevokingKeepsRevocationInv ==
    ASSUME RevocationInv, Inv', NEW p \in Proc, NEW c, Go(p, c),
           SameParents, InForce \subseteq InForce', acked' = acked,
           call[p].pc \in Revoking \ {"list"}, c.pc \in Revoking \ {"list"},
           c.arg = call[p].arg, c.known = call[p].known, c.ids = call[p].ids,
           KeepsParents(c, agents')
    PROVE  RevocationInv'
<1>1. Owes(call[p], agents, InForce)
  BY DEF RevocationInv
<1>2. Owes(c, agents, InForce)
  BY <1>1 DEF Owes
<1> QED
  BY <1>2, OwesLater, GoKeepsRevocationInv

\* The record a process writes next is about an agent that stays in its place.
LEMMA NextWriteSameParents ==
    ASSUME RevocationInv, NEW p \in Proc, UpdateAgent(Head(call[p].writes)),
           call[p].pc \in {"suspend", "rotateWrite", "revokeWrite", "childWrite"}
    PROVE  SameParents
<1>1. call[p].writes \in Seq(AgentRecord) /\ call[p].writes # <<>>
  BY DEF RevocationInv, Inv, CallsOK, CallOK, Call
<1>2. KeepsParents(call[p], agents)
  BY DEF RevocationInv
<1>3. 1 \in DOMAIN call[p].writes /\ Head(call[p].writes) = call[p].writes[1]
  BY <1>1
<1>4. Head(call[p].writes).parent = agents[Head(call[p].writes).id].parent
  BY <1>2, <1>3 DEF KeepsParents
<1> QED
  BY <1>4, UpdateSameParents

-----------------------------------------------------------------------------
(* The steps                                                                 *)

LEMMA RegisterKeeps ==
    ASSUME RevocationInv, Inv', NEW a \in Agent, NEW parent \in Agent \cup {None},
           RegisterAgent(a, parent)
    PROVE  RevocationInv'
<1> DEFINE rec == [id |-> a, parent |-> parent, key |-> <<a, 0>>, status |-> "active",
                   created |-> Cardinality(Registered)]
<1>1. SameParents
  <2>1. /\ rec.id \notin Registered
        /\ agents' = Put(agents, rec.id, rec)
    BY DEF RegisterAgent, CreateAgent
  <2> HIDE DEF rec
  <2>2. /\ Registered' = Registered \cup {rec.id}
        /\ \A x \in Registered : agents'[x] = agents[x]
    BY <2>1 DEF Put, Registered
  <2> QED
    BY <2>2 DEF SameParents
<1>2. call' = call /\ acked' = acked /\ redis' = redis /\ memory' = memory
  BY DEF RegisterAgent, history, registry
<1>3. InForce \subseteq InForce'
  BY <1>2, InForceGrows
<1>4. ASSUME NEW q \in Proc
      PROVE  Owes(call'[q], agents', InForce') /\ KeepsParents(call'[q], agents')
  <2>1. CallOK(call[q], Registered, redis) /\ Owes(call[q], agents, InForce)
        /\ KeepsParents(call[q], agents)
    BY DEF RevocationInv, Inv, CallsOK
  <2> QED
    BY <1>1, <1>2, <1>3, <2>1, OwesLater, KeepsParentsLater
<1> QED
  BY <1>2, <1>3, <1>4 DEF RevocationInv

LEMMA SuspendKeeps ==
    ASSUME RevocationInv, Inv', NEW p \in Proc, NEW a, SuspendRead(p, a) \/ SuspendWrite(p)
    PROVE  RevocationInv'
<1>1. acked' = acked /\ InForce \subseteq InForce'
  BY InForceGrows DEF SuspendRead, SuspendWrite, history, registry
<1>2. CASE SuspendRead(p, a)
  <2> DEFINE rec == [agents[a] EXCEPT !.status = "suspended"]
             c == [Idle EXCEPT !.pc = "suspend", !.arg = a, !.writes = <<rec>>]
  <2>1. a \in Registered /\ Go(p, c)
    BY <1>2 DEF SuspendRead, Accept
  <2>2. agents' = agents /\ SameParents
    BY <1>2, UnchangedSameParents DEF SuspendRead, store
  <2>3. rec.id = a /\ rec.parent = agents[a].parent
    BY <2>1 DEF RevocationInv, Inv, StoreInv, StoreTypeOK, Registered, AgentRecord
  <2> HIDE DEF rec
  <2>4. Owes(c, agents', InForce')
    BY DEF Owes, Revoking, Idle
  <2>5. KeepsParents(c, agents')
    BY <2>2, <2>3 DEF KeepsParents, Idle
  <2> HIDE DEF c
  <2> QED
    BY <1>1, <2>1, <2>2, <2>4, <2>5, GoKeepsRevocationInv
<1>3. CASE SuspendWrite(p)
  BY <1>1, <1>3, NextWriteSameParents, RespondKeepsRevocationInv DEF SuspendWrite, At
<1> QED
  BY <1>2, <1>3

LEMMA RotateKeeps ==
    ASSUME RevocationInv, Inv', NEW p \in Proc, NEW a,
           \/ RotateBegin(p, a) \/ RotateRead(p) \/ RotateRefused(p)
           \/ RotateWrite(p) \/ RotateInvalidate(p)
    PROVE  RevocationInv'
<1>1. acked' = acked /\ InForce \subseteq InForce'
  BY InForceGrows DEF RotateBegin, RotateRead, RotateRefused, RotateWrite, RotateInvalidate,
                      history, registry
<1>2. call[p] \in Call /\ CallOK(call[p], Registered, redis)
  BY DEF RevocationInv, Inv, CallsOK
<1>3. CASE RotateBegin(p, a)
  <2> DEFINE c == [Idle EXCEPT !.pc = "rotateRead", !.arg = a, !.oldKey = agents[a].key]
  <2>1. Go(p, c) /\ SameParents
    BY <1>3, UnchangedSameParents DEF RotateBegin
  <2>2. Owes(c, agents', InForce') /\ KeepsParents(c, agents')
    BY DEF Owes, KeepsParents, Revoking, Idle
  <2> HIDE DEF c
  <2> QED
    BY <1>1, <2>1, <2>2, GoKeepsRevocationInv
<1>4. CASE RotateRead(p)
  <2> DEFINE b == call[p].arg
             rec == [agents[b] EXCEPT !.key = <<b, keysMade[b]>>]
             c == [call[p] EXCEPT !.pc = "rotateWrite", !.replaced = agents[b].key,
                                  !.writes = <<rec>>]
  <2>1. call[p].pc = "rotateRead" /\ Go(p, c) /\ SameParents /\ agents' = agents
    BY <1>4, UnchangedSameParents DEF RotateRead, At, store
  <2>2. rec.id = b /\ rec.parent = agents[b].parent
    BY <1>2, <2>1 DEF CallOK, RevocationInv, Inv, StoreInv, StoreTypeOK, Registered, AgentRecord
  <2> HIDE DEF rec, b
  <2>3. c.pc = "rotateWrite" /\ c.writes = <<rec>>
    BY <1>2 DEF Call
  <2> HIDE DEF c
  <2>4. Owes(c, agents', InForce')
    BY <2>3 DEF Owes, Revoking
  <2>5. KeepsParents(c, agents')
    BY <2>1, <2>2, <2>3 DEF KeepsParents
  <2> QED
    BY <1>1, <2>1, <2>4, <2>5, GoKeepsRevocationInv
<1>5. CASE RotateRefused(p)
  BY <1>1, <1>5, UnchangedSameParents, RespondKeepsRevocationInv DEF RotateRefused
<1>6. CASE RotateWrite(p)
  <2> DEFINE c == [call[p] EXCEPT !.pc = "invalidate", !.writes = <<>>]
  <2>1. Go(p, c) /\ SameParents
    BY <1>6, NextWriteSameParents DEF RotateWrite, At
  <2>2. c.pc = "invalidate" /\ c.writes = <<>>
    BY <1>2 DEF Call
  <2> HIDE DEF c
  <2>3. Owes(c, agents', InForce') /\ KeepsParents(c, agents')
    BY <2>2 DEF Owes, KeepsParents, Revoking
  <2> QED
    BY <1>1, <2>1, <2>3, GoKeepsRevocationInv
<1>7. CASE RotateInvalidate(p)
  BY <1>1, <1>7, UnchangedSameParents, RespondKeepsRevocationInv DEF RotateInvalidate
<1> QED
  BY <1>3, <1>4, <1>5, <1>6, <1>7

\* The tree of an agent is reached from it.
LEMMA SubtreeIsReached ==
    ASSUME StoreInv, NEW a \in Registered
    PROVE  /\ Subtree(a) \subseteq Registered
           /\ a \in Subtree(a)
           /\ ReachedFrom(a, Subtree(a), agents)
<1>1. Subtree(a) \subseteq Registered /\ a \in Subtree(a) /\ Registered \subseteq Agent
  BY DEF Subtree, StoreInv, StoreTypeOK, Registered
<1>2. ASSUME NEW x \in Registered, agents[x].parent \in Subtree(a)
      PROVE  x \in Subtree(a)
  <2> SUFFICES ASSUME NEW S \in SUBSET Registered, a \in S,
                      \A y \in Registered : agents[y].parent \in S => y \in S
               PROVE  x \in S
    BY DEF Subtree
  <2>1. agents[x].parent \in S
    BY <1>2 DEF Subtree
  <2> QED
    BY <2>1
<1>3. ASSUME NEW S \in SUBSET Agent, a \in S,
             \A x \in Subtree(a) : agents[x].parent \in S => x \in S,
             NEW d \in Subtree(a)
      PROVE  d \in S
  <2> DEFINE T == S \cap Subtree(a)
  <2>1. T \in SUBSET Registered /\ a \in T
    BY <1>1, <1>3
  <2>2. \A x \in Registered : agents[x].parent \in T => x \in T
    BY <1>2, <1>3
  <2> HIDE DEF T
  <2>3. d \in T
    BY <1>3, <2>1, <2>2 DEF Subtree
  <2> QED
    BY <2>3 DEF T
<1> QED
  BY <1>1, <1>3 DEF ReachedFrom

LEMMA RevokeBeginKeeps ==
    ASSUME RevocationInv, Inv', NEW p \in Proc, NEW a \in Agent, NEW cascade \in BOOLEAN,
           RevokeBegin(p, a, cascade)
    PROVE  RevocationInv'
<1> DEFINE queue == IF cascade THEN <<[id |-> a, depth |-> 0]>> ELSE <<>>
           known == {a} \cup IF cascade THEN Subtree(a) ELSE {}
           c == [Idle EXCEPT !.pc = IF cascade THEN "list" ELSE "revokeRead",
                             !.arg = a, !.cascade = cascade, !.ids = <<a>>,
                             !.queue = queue, !.known = known]
<1>1. /\ a \in Registered /\ Go(p, c) /\ SameParents /\ agents' = agents
      /\ acked' = acked /\ InForce \subseteq InForce'
  BY UnchangedSameParents, InForceGrows DEF RevokeBegin, Accept, store, registry
<1>2. known \subseteq Registered /\ ReachedFrom(a, known, agents)
  <2>1. CASE cascade
    <3>1. known = Subtree(a)
      BY <1>1, <2>1, SubtreeIsReached DEF RevocationInv, Inv
    <3> QED
      BY <1>1, <3>1, SubtreeIsReached DEF RevocationInv, Inv
  <2>2. CASE ~cascade
    BY <1>1, <2>2 DEF ReachedFrom
  <2> QED
    BY <2>1, <2>2
<1>3. c.pc = "list" => Listed(c, agents)
  <2> SUFFICES ASSUME cascade PROVE Listed(c, agents)
    BY DEF Idle
  <2>1. c.arg = a /\ c.ids = <<a>> /\ c.queue = <<[id |-> a, depth |-> 0]>>
    BY DEF Idle
  <2> HIDE DEF c
  <2>2. ToSet(c.ids) = {a}
    BY <2>1 DEF ToSet
  <2>3. 1 \in DOMAIN c.queue /\ c.queue[1].id = a
    BY <2>1
  <2> QED
    BY <2>1, <2>2, <2>3 DEF Listed
<1>4. c.pc # "list" => c.known \subseteq ToSet(c.ids)
  BY DEF Idle, ToSet
<1> HIDE DEF known, queue
<1>5. c.arg = a /\ c.known = known /\ c.writes = <<>>
  BY DEF Idle
<1> HIDE DEF c
<1>6. Owes(c, agents', InForce') /\ KeepsParents(c, agents')
  BY <1>1, <1>2, <1>3, <1>4, <1>5 DEF Owes, KeepsParents, Registered
<1> QED
  BY <1>1, <1>6, GoKeepsRevocationInv

LEMMA ToSetOfConcat ==
    ASSUME NEW S, NEW s \in Seq(S), NEW t \in Seq(S)
    PROVE  ToSet(s \o t) = ToSet(s) \cup ToSet(t)
<1>1. \A x \in ToSet(t) : x \in ToSet(s \o t)
  <2> SUFFICES ASSUME NEW n \in DOMAIN t PROVE t[n] \in ToSet(s \o t)
    BY DEF ToSet
  <2>1. Len(s) + n \in DOMAIN (s \o t) /\ (s \o t)[Len(s) + n] = t[n]
    OBVIOUS
  <2> QED
    BY <2>1 DEF ToSet
<1>2. \A x \in ToSet(s) : x \in ToSet(s \o t)
  <2> SUFFICES ASSUME NEW n \in DOMAIN s PROVE s[n] \in ToSet(s \o t)
    BY DEF ToSet
  <2>1. n \in DOMAIN (s \o t) /\ (s \o t)[n] = s[n]
    OBVIOUS
  <2> QED
    BY <2>1 DEF ToSet
<1>3. ASSUME NEW n \in DOMAIN (s \o t)
      PROVE  (s \o t)[n] \in ToSet(s) \cup ToSet(t)
  <2>1. CASE n <= Len(s)
    BY <2>1 DEF ToSet
  <2>2. CASE n > Len(s)
    <3>1. n - Len(s) \in DOMAIN t /\ (s \o t)[n] = t[n - Len(s)]
      BY <2>2
    <3> QED
      BY <3>1 DEF ToSet
  <2> QED
    BY <2>1, <2>2
<1> QED
  BY <1>1, <1>2, <1>3 DEF ToSet

LEMMA ListStepKeeps ==
    ASSUME RevocationInv, Inv', NEW p \in Proc, ListStep(p)
    PROVE  RevocationInv'
<1> DEFINE old == call[p]
           cur == Head(old.queue)
<1>1. PICK s \in ChildLists(cur.id) :
        LET rest == Dequeue(old.queue) \o Items(s, cur.depth + 1) IN
        Go(p, [old EXCEPT !.ids = Collect(@, s), !.queue = rest,
                          !.pc = IF rest = <<>> THEN "revokeRead" ELSE "list"])
  BY DEF ListStep
<1> DEFINE items == Items(s, cur.depth + 1)
           found == [n \in DOMAIN s |-> s[n].id]
           rest == Tail(old.queue) \o items
           ids == old.ids \o found
           c == [old EXCEPT !.ids = ids, !.queue = rest,
                            !.pc = IF rest = <<>> THEN "revokeRead" ELSE "list"]
<1>2. Go(p, c)
  BY <1>1 DEF Dequeue, Collect
<1>3. /\ SameParents /\ agents' = agents /\ acked' = acked /\ InForce \subseteq InForce'
  BY UnchangedSameParents, InForceGrows DEF ListStep, store, registry, history
<1>4. /\ old \in Call /\ old.pc = "list" /\ old.queue # <<>>
      /\ old.ids \in Seq(Agent) /\ old.queue \in Seq(Item)
      /\ Owes(old, agents, InForce) /\ KeepsParents(old, agents)
  BY DEF ListStep, At, RevocationInv, Inv, CallsOK, CallOK, Call
<1>5. Complete => /\ old.known \subseteq Registered
                  /\ ReachedFrom(old.arg, old.known, agents)
                  /\ Listed(old, agents)
  BY <1>4 DEF Owes, Revoking, Registered
<1>6. cur \in Item /\ cur.depth + 1 \in Nat
  <2>1. cur \in Item
    BY <1>4
  <2> QED
    BY <2>1 DEF Item
<1>7. items \in Seq(Item) /\ found \in Seq(Agent) /\ s \in Seq(AgentRecord)
  BY <1>6, ItemsAreOK, ChildListsAreRecords DEF RevocationInv, Inv
<1>8. DOMAIN items = DOMAIN s /\ \A n \in DOMAIN s : items[n].id = s[n].id
  BY DEF Items
<1>9. ASSUME Complete
      PROVE  \A x \in Registered : agents[x].parent = cur.id => \E n \in DOMAIN s : s[n].id = x
  <2>1. \A x \in Children(cur.id) : \E n \in DOMAIN s : s[n].id = x
    BY <1>9, ChildListsAreComplete DEF RevocationInv, Inv, Complete
  <2> QED
    BY <2>1 DEF Children
<1> HIDE DEF items
<1>10. /\ ids \in Seq(Agent) /\ ToSet(ids) = ToSet(old.ids) \cup ToSet(found)
       /\ ToSet(found) = {s[n].id : n \in DOMAIN s}
  <2>1. ids \in Seq(Agent)
    BY <1>4, <1>7
  <2>2. ToSet(found) = {s[n].id : n \in DOMAIN s}
    BY <1>7 DEF ToSet
  <2> HIDE DEF found
  <2>3. ToSet(ids) = ToSet(old.ids) \cup ToSet(found)
    BY <1>4, <1>7, ToSetOfConcat
  <2> QED
    BY <2>1, <2>2, <2>3
<1>11. ASSUME NEW n \in DOMAIN old.queue
       PROVE  old.queue[n].id = cur.id \/ \E m \in DOMAIN rest : rest[m].id = old.queue[n].id
  <2>1. CASE n = 1
    BY <1>4, <2>1
  <2>2. CASE n # 1
    <3>1. n - 1 \in 1..Len(Tail(old.queue)) /\ Tail(old.queue)[n - 1] = old.queue[n]
      BY <1>4, <2>2
    <3>2. Tail(old.queue) \in Seq(Item)
      BY <1>4
    <3>3. n - 1 \in DOMAIN rest /\ rest[n - 1] = old.queue[n]
      BY <1>7, <3>1, <3>2
    <3> QED
      BY <3>3
  <2> QED
    BY <2>1, <2>2
<1>12. ASSUME NEW n \in DOMAIN s
       PROVE  \E m \in DOMAIN rest : rest[m].id = s[n].id
  <2>1. Tail(old.queue) \in Seq(Item)
    BY <1>4
  <2>2. n \in 1..Len(items) /\ items[n].id = s[n].id
    BY <1>7, <1>8
  <2> DEFINE left == Tail(old.queue)
             m == Len(left) + n
  <2>3. m \in DOMAIN rest /\ rest[m] = items[n]
    <3> HIDE DEF left
    <3>1. left \in Seq(Item)
      BY <2>1 DEF left
    <3>2. m \in DOMAIN (left \o items) /\ (left \o items)[m] = items[n]
      BY <1>7, <2>2, <3>1
    <3> QED
      BY <3>2 DEF left
  <2> QED
    BY <2>2, <2>3
<1>13. ASSUME Complete
       PROVE  \A x \in old.known :
                agents[x].parent \in ToSet(ids) =>
                    x \in ToSet(ids) \/ \E n \in DOMAIN rest : rest[n].id = agents[x].parent
  <2> SUFFICES ASSUME NEW x \in old.known, agents[x].parent \in ToSet(ids), x \notin ToSet(ids)
               PROVE  \E n \in DOMAIN rest : rest[n].id = agents[x].parent
    OBVIOUS
  <2>1. CASE agents[x].parent \in ToSet(old.ids)
    <3>1. PICK n \in DOMAIN old.queue : old.queue[n].id = agents[x].parent
      BY <1>5, <1>10, <1>13, <2>1 DEF Listed
    <3>2. agents[x].parent # cur.id
      BY <1>5, <1>9, <1>10, <1>13
    <3> QED
      BY <1>11, <3>1, <3>2
  <2>2. CASE agents[x].parent \notin ToSet(old.ids)
    BY <1>10, <1>12, <2>2
  <2> QED
    BY <2>1, <2>2
<1>14. (Complete => old.arg \in ToSet(ids)) /\ ToSet(ids) \in SUBSET Agent
  <2>1. Complete => old.arg \in ToSet(ids)
    BY <1>5, <1>10 DEF Listed
  <2> HIDE DEF ids
  <2>2. ToSet(ids) \in SUBSET Agent
    BY <1>10 DEF ToSet
  <2> QED
    BY <2>1, <2>2
<1> HIDE DEF ids, rest
<1>15. /\ c.ids = ids /\ c.queue = rest /\ c.arg = old.arg /\ c.known = old.known
       /\ c.writes = old.writes
       /\ c.pc = IF rest = <<>> THEN "revokeRead" ELSE "list"
  BY <1>4 DEF Call
<1> HIDE DEF c
<1>16. Owes(c, agents, InForce)
  <2> SUFFICES ASSUME Complete PROVE Owes(c, agents, InForce)
    BY DEF Owes
  <2>1. CASE rest = <<>>
    <3>1. \A x \in old.known : agents[x].parent \in ToSet(ids) => x \in ToSet(ids)
      BY <1>13, <2>1
    <3>2. old.known \subseteq ToSet(ids)
      BY <1>5, <1>14, <3>1 DEF ReachedFrom
    <3> QED
      BY <1>5, <1>15, <2>1, <3>2 DEF Owes, Registered
  <2>2. CASE rest # <<>>
    <3>1. Listed(c, agents)
      BY <1>13, <1>14, <1>15 DEF Listed
    <3> QED
      BY <1>5, <1>15, <2>2, <3>1 DEF Owes, Registered
  <2> QED
    BY <2>1, <2>2
<1>17. KeepsParents(c, agents)
  BY <1>4, <1>15 DEF KeepsParents
<1> QED
  BY <1>2, <1>3, <1>16, <1>17, OwesLater, GoKeepsRevocationInv

\* The walk of the service over the store, which changes neither the list of IDs
\* nor what the answer is about.
LEMMA RevokeReadKeeps ==
    ASSUME RevocationInv, Inv', NEW p \in Proc, RevokeRead(p)
    PROVE  RevocationInv'
<1> DEFINE old == call[p]
           rec == Revoked(agents[old.arg])
           c == [old EXCEPT !.pc = "revokeWrite", !.writes = <<rec>>]
<1>1. /\ Go(p, c) /\ old.pc = "revokeRead" /\ SameParents /\ agents' = agents
      /\ acked' = acked /\ InForce \subseteq InForce'
  BY UnchangedSameParents, InForceGrows DEF RevokeRead, At, store, registry, history
<1>2. old \in Call /\ CallOK(old, Registered, redis)
  BY DEF RevocationInv, Inv, CallsOK
<1>3. rec.id = old.arg /\ rec.parent = agents[old.arg].parent
  BY <1>1, <1>2 DEF CallOK, RevocationInv, Inv, StoreInv, StoreTypeOK, Registered, AgentRecord, Revoked
<1> HIDE DEF rec
<1>4. /\ c.pc = "revokeWrite" /\ c.writes = <<rec>>
      /\ c.arg = old.arg /\ c.known = old.known /\ c.ids = old.ids
  BY <1>2 DEF Call
<1> HIDE DEF c
<1>5. KeepsParents(c, agents')
  BY <1>1, <1>3, <1>4 DEF KeepsParents
<1>6. old.pc \in Revoking \ {"list"} /\ c.pc \in Revoking \ {"list"}
  BY <1>1, <1>4 DEF Revoking
<1> HIDE DEF old
<1> QED
  BY <1>1, <1>4, <1>5, <1>6, RevokingKeepsRevocationInv DEF old

LEMMA RevokeWriteKeeps ==
    ASSUME RevocationInv, Inv', NEW p \in Proc, RevokeWrite(p)
    PROVE  RevocationInv'
<1> DEFINE old == call[p]
           c == [old EXCEPT !.pc = IF old.cascade THEN "children" ELSE Publish,
                            !.writes = <<>>,
                            !.queue = IF old.cascade THEN <<[id |-> old.arg, depth |-> 0]>> ELSE <<>>]
<1>1. /\ Go(p, c) /\ old.pc = "revokeWrite" /\ SameParents
      /\ acked' = acked /\ InForce \subseteq InForce'
  BY NextWriteSameParents, InForceGrows DEF RevokeWrite, At, registry, history
<1>2. old \in Call
  BY DEF RevocationInv, Inv, CallsOK
<1>3. /\ c.pc \in {"children", Publish} /\ c.writes = <<>>
      /\ c.arg = old.arg /\ c.known = old.known /\ c.ids = old.ids
  BY <1>2 DEF Call
<1> HIDE DEF c
<1>4. KeepsParents(c, agents')
  BY <1>3 DEF KeepsParents
<1>5. old.pc \in Revoking \ {"list"} /\ c.pc \in Revoking \ {"list"}
  BY <1>1, <1>3 DEF Revoking, Publish
<1> QED
  BY <1>1, <1>3, <1>4, <1>5, RevokingKeepsRevocationInv

LEMMA AdvanceKeepsFields ==
    ASSUME NEW c \in Call
    PROVE  /\ Advance(c).pc \in Revoking \ {"list"} /\ Advance(c).writes = c.writes
           /\ Advance(c).arg = c.arg /\ Advance(c).known = c.known /\ Advance(c).ids = c.ids
BY DEF Advance, Call, Revoking, Publish

LEMMA ReadChildrenKeeps ==
    ASSUME RevocationInv, Inv', NEW p \in Proc, ReadChildren(p)
    PROVE  RevocationInv'
<1> DEFINE old == call[p]
           cur == Head(old.queue)
<1>1. PICK s \in ChildLists(cur.id) :
        Go(p, Advance([old EXCEPT !.queue = Dequeue(@) \o Items(s, cur.depth + 1),
                                  !.writes = [n \in DOMAIN s |-> Revoked(s[n])]]))
  BY DEF ReadChildren
<1> DEFINE queue == Tail(old.queue) \o Items(s, cur.depth + 1)
           writes == [n \in DOMAIN s |-> Revoked(s[n])]
           b == [old EXCEPT !.queue = queue, !.writes = writes]
<1>2. Go(p, Advance(b))
  BY <1>1 DEF Dequeue
<1>3. /\ old.pc = "children" /\ SameParents /\ agents' = agents
      /\ acked' = acked /\ InForce \subseteq InForce'
  BY UnchangedSameParents, InForceGrows DEF ReadChildren, At, store, registry, history
<1>4. old \in Call /\ old.queue \in Seq(Item) /\ old.queue # <<>>
  BY <1>3 DEF RevocationInv, Inv, CallsOK, CallOK, Call
<1>5. cur \in Item /\ Tail(old.queue) \in Seq(Item)
  BY <1>4
<1>6. cur.depth + 1 \in Nat
  BY <1>5 DEF Item
<1>7. queue \in Seq(Item)
  <2>1. Items(s, cur.depth + 1) \in Seq(Item)
    BY <1>6, ItemsAreOK DEF RevocationInv, Inv
  <2> HIDE DEF cur
  <2> QED
    BY <1>5, <2>1
<1>8. /\ s \in Seq(AgentRecord)
      /\ \A n \in DOMAIN s : s[n].id \in Registered /\ s[n] = agents[s[n].id]
  BY ChildListsAreRecords DEF RevocationInv, Inv
<1>9. \A n \in DOMAIN s : /\ Revoked(s[n]) \in AgentRecord
                          /\ Revoked(s[n]).id = s[n].id
                          /\ Revoked(s[n]).parent = agents[s[n].id].parent
  <2> TAKE n \in DOMAIN s
  <2>1. s[n] \in AgentRecord
    BY <1>8
  <2> QED
    BY <1>8, <2>1 DEF Revoked, AgentRecord, Status
<1>10. writes \in Seq(AgentRecord)
  <2>1. DOMAIN s = 1..Len(s) /\ Len(s) \in Nat
    BY <1>8
  <2>2. writes \in [1..Len(s) -> AgentRecord]
    BY <1>9, <2>1
  <2> QED
    BY <2>1, <2>2, SeqDef
<1>11. DOMAIN writes = DOMAIN s
  OBVIOUS
<1>12. \A n \in DOMAIN writes : writes[n].parent = agents[writes[n].id].parent
  BY <1>9
<1> HIDE DEF queue, writes
<1>13. b \in Call /\ b.writes = writes /\ b.arg = old.arg /\ b.known = old.known /\ b.ids = old.ids
  BY <1>4, <1>7, <1>10 DEF Call
<1> HIDE DEF b
<1> DEFINE c == Advance(b)
<1>14. /\ c.pc \in Revoking \ {"list"} /\ c.writes = writes
       /\ c.arg = old.arg /\ c.known = old.known /\ c.ids = old.ids
  BY <1>13, AdvanceKeepsFields
<1>15. old.pc \in Revoking \ {"list"}
  BY <1>3 DEF Revoking
<1> HIDE DEF c
<1>16. KeepsParents(c, agents')
  BY <1>3, <1>12, <1>14 DEF KeepsParents
<1>17. Go(p, c)
  BY <1>2 DEF c
<1> QED
  BY <1>3, <1>14, <1>15, <1>16, <1>17, RevokingKeepsRevocationInv

LEMMA WriteChildKeeps ==
    ASSUME RevocationInv, Inv', NEW p \in Proc, WriteChild(p)
    PROVE  RevocationInv'
<1> DEFINE old == call[p]
           b == [old EXCEPT !.writes = Tail(old.writes)]
           c == Advance(b)
<1>1. /\ Go(p, c) /\ old.pc = "childWrite" /\ SameParents
      /\ acked' = acked /\ InForce \subseteq InForce'
  BY NextWriteSameParents, InForceGrows DEF WriteChild, At, registry, history
<1>2. /\ old \in Call /\ CallOK(old, Registered, redis)
      /\ old.writes \in Seq(AgentRecord) /\ old.writes # <<>>
  BY <1>1 DEF RevocationInv, Inv, CallsOK, CallOK, Call
<1>3. Tail(old.writes) \in Seq(AgentRecord)
  BY <1>2
<1>4. /\ b \in Call /\ b.writes = Tail(old.writes)
      /\ b.arg = old.arg /\ b.known = old.known /\ b.ids = old.ids
  BY <1>2, <1>3 DEF Call
<1> HIDE DEF b
<1>5. /\ c.pc \in Revoking \ {"list"} /\ c.writes = Tail(old.writes)
      /\ c.arg = old.arg /\ c.known = old.known /\ c.ids = old.ids
  BY <1>4, AdvanceKeepsFields
<1> HIDE DEF c
<1>6. KeepsParents(old, agents')
  BY <1>1, <1>2, KeepsParentsLater DEF RevocationInv
<1>7. KeepsParents(c, agents')
  <2> SUFFICES ASSUME NEW n \in DOMAIN Tail(old.writes)
               PROVE  LET rec == Tail(old.writes)[n] IN rec.parent = agents'[rec.id].parent
    BY <1>5 DEF KeepsParents
  <2>1. n + 1 \in DOMAIN old.writes /\ Tail(old.writes)[n] = old.writes[n + 1]
    BY <1>2
  <2> QED
    BY <1>6, <2>1 DEF KeepsParents
<1>8. old.pc \in Revoking \ {"list"}
  BY <1>1 DEF Revoking
<1> QED
  BY <1>1, <1>5, <1>7, <1>8, RevokingKeepsRevocationInv

LEMMA WriteRedisKeeps ==
    ASSUME RevocationInv, Inv', NEW p \in Proc, WriteRedis(p)
    PROVE  RevocationInv'
<1> DEFINE old == call[p]
           c == [old EXCEPT !.pc = "remember"]
<1>1. Go(p, c) /\ old.pc = "redis" /\ SameParents /\ acked' = acked /\ agents' = agents
  BY UnchangedSameParents DEF WriteRedis, At, store, history
<1>2. InForce \subseteq InForce'
  <2>1. redis \subseteq redis' /\ memory' = memory
    BY DEF WriteRedis, SetRedis
  <2> QED
    BY <2>1, InForceGrows
<1>3. old \in Call /\ KeepsParents(old, agents)
  BY DEF RevocationInv, Inv, CallsOK
<1>4. /\ c.pc = "remember" /\ c.writes = old.writes
      /\ c.arg = old.arg /\ c.known = old.known /\ c.ids = old.ids
  BY <1>3 DEF Call
<1> HIDE DEF c
<1>5. KeepsParents(c, agents')
  BY <1>1, <1>3, <1>4 DEF KeepsParents
<1>6. old.pc \in Revoking \ {"list"} /\ c.pc \in Revoking \ {"list"}
  BY <1>1, <1>4 DEF Revoking
<1> QED
  BY <1>1, <1>2, <1>4, <1>5, <1>6, RevokingKeepsRevocationInv

LEMMA WriteMemoryKeeps ==
    ASSUME RevocationInv, Inv', NEW p \in Proc, WriteMemory(p)
    PROVE  RevocationInv'
<1> DEFINE old == call[p]
           a == Head(old.ids)
           rest == Tail(old.ids)
           c == [old EXCEPT !.pc = Publish, !.ids = rest]
<1>1. old.pc = "remember" /\ SameParents /\ agents' = agents
  BY UnchangedSameParents DEF WriteMemory, At, store
<1>2. /\ old \in Call /\ old.ids \in Seq(Agent) /\ old.ids # <<>>
      /\ RedisEnabled => old.ids[1] \in redis
      /\ Owes(old, agents, InForce) /\ KeepsParents(old, agents)
  BY <1>1 DEF RevocationInv, Inv, CallsOK, CallOK, Call
<1>3. a \in Agent /\ a = old.ids[1] /\ rest \in Seq(Agent)
  BY <1>2
<1>4. ToSet(old.ids) \subseteq {a} \cup ToSet(rest)
  <2> SUFFICES ASSUME NEW n \in DOMAIN old.ids, n # 1 PROVE old.ids[n] \in ToSet(rest)
    BY <1>3 DEF ToSet
  <2>1. n - 1 \in DOMAIN rest /\ rest[n - 1] = old.ids[n]
    BY <1>2
  <2> QED
    BY <2>1 DEF ToSet
<1>5. redis' = redis /\ memory' = [memory EXCEPT ![Host[p]] = @ \cup {a}]
  BY DEF WriteMemory, Remember
<1>6. memory \in [Instance -> SUBSET Name] /\ Host[p] \in Instance
  BY LifecycleAssumption DEF RevocationInv, Inv, RegistryInv, RegistryTypeOK
<1>7. WriteMemory(p) => IF rest = <<>> THEN Respond(p) /\ acked' = acked \cup old.known
                                       ELSE Go(p, c) /\ acked' = acked
  BY DEF WriteMemory
<1> HIDE DEF a, rest
<1>8. InForce \subseteq InForce'
  BY <1>5, <1>6, InForceGrows
<1>9. a \in InForce'
  <2>1. CASE RedisEnabled
    BY <1>2, <1>3, <1>5, <2>1 DEF InForce, IsRevoked
  <2>2. CASE ~RedisEnabled
    BY <1>3, <1>5, <1>6, <2>2, DeploymentAssumption DEF InForce, IsRevoked
  <2> QED
    BY <2>1, <2>2
<1>10. Complete => /\ old.known \subseteq Registered
                   /\ ReachedFrom(old.arg, old.known, agents)
                   /\ old.known \subseteq ToSet(rest) \cup InForce'
  BY <1>1, <1>2, <1>4, <1>8, <1>9 DEF Owes, Revoking, Registered
<1>11. CASE rest = <<>>
  <2>1. Complete => old.known \subseteq InForce'
    BY <1>10, <1>11 DEF ToSet
  <2>2. Respond(p) /\ acked' = acked \cup old.known
    BY <1>7, <1>11
  <2> QED
    BY <1>1, <1>8, <2>1, <2>2, IdleOwesNothing, GoKeepsRevocationInv DEF Respond
<1>12. CASE rest # <<>>
  <2>1. Go(p, c) /\ acked' = acked
    BY <1>7, <1>12
  <2>2. /\ c.pc = Publish /\ c.writes = old.writes /\ c.ids = rest
        /\ c.arg = old.arg /\ c.known = old.known
    BY <1>2 DEF Call
  <2> HIDE DEF c
  <2>3. KeepsParents(c, agents')
    BY <1>1, <1>2, <2>2 DEF KeepsParents
  <2>4. Owes(c, agents', InForce')
    BY <1>1, <1>10, <2>2 DEF Owes, Publish, Registered
  <2> QED
    BY <1>1, <1>8, <2>1, <2>3, <2>4, GoKeepsRevocationInv
<1> QED
  BY <1>11, <1>12

\* A request that is refused or that a failed call ends owes nothing any more; a
\* write that was applied although it failed moves no agent and revokes.
LEMMA EndedCallKeeps ==
    ASSUME RevocationInv, Inv', NEW p \in Proc,
           RefuseDepth(p) \/ ReadFails(p) \/ WriteFails(p) \/ RedisFails(p)
    PROVE  RevocationInv'
<1>1. acked' = acked /\ Respond(p)
  BY DEF RefuseDepth, ReadFails, WriteFails, RedisFails, history
<1>2. SameParents
  <2>1. CASE UNCHANGED store
    BY <2>1, UnchangedSameParents
  <2>2. CASE WriteFails(p) /\ UpdateAgent(Head(call[p].writes))
    BY <2>2, NextWriteSameParents DEF WriteFails
  <2> QED
    BY <2>1, <2>2 DEF RefuseDepth, ReadFails, WriteFails, RedisFails
<1>3. redis \subseteq redis' /\ memory' = memory
  BY DEF RefuseDepth, ReadFails, WriteFails, RedisFails, SetRedis, registry
<1>4. InForce \subseteq InForce'
  BY <1>3, InForceGrows
<1> QED
  BY <1>1, <1>2, <1>4, RespondKeepsRevocationInv

\* A listing that fails: where listings are complete, there is none.
LEMMA ListFailsKeeps ==
    ASSUME RevocationInv, Inv', NEW p \in Proc, ListFails(p)
    PROVE  RevocationInv'
<1> DEFINE old == call[p]
           c == [old EXCEPT !.pc = "revokeRead", !.ids = <<old.arg>>, !.queue = <<>>]
<1>1. /\ Go(p, c) /\ SameParents /\ agents' = agents
      /\ acked' = acked /\ InForce \subseteq InForce' /\ ~Complete
  BY UnchangedSameParents, InForceGrows DEF ListFails, Fault, Complete, store, registry, history
<1>2. old \in Call /\ KeepsParents(old, agents)
  BY DEF RevocationInv, Inv, CallsOK
<1>3. c.writes = old.writes
  BY <1>2 DEF Call
<1> HIDE DEF c
<1>4. Owes(c, agents', InForce') /\ KeepsParents(c, agents')
  BY <1>1, <1>2, <1>3 DEF Owes, KeepsParents
<1> QED
  BY <1>1, <1>4, GoKeepsRevocationInv

LEMMA CrashKeeps ==
    ASSUME RevocationInv, Inv', NEW i \in Instance, Crash(i)
    PROVE  RevocationInv'
<1>1. acked' = acked
  BY DEF Crash, history
<1>2. Complete => InForce \subseteq InForce'
  BY InForceGrows DEF Crash, ForgetMemory, Fault, Complete, RegistrySurvives
<1>3. ASSUME NEW q \in Proc
      PROVE  Owes(call'[q], agents', InForce') /\ KeepsParents(call'[q], agents')
  <2>1. call'[q] = Idle \/ (call'[q] = call[q] /\ UNCHANGED store)
    BY CrashCases DEF Crash, RevocationInv
  <2>2. Owes(call[q], agents, InForce) /\ KeepsParents(call[q], agents)
    BY DEF RevocationInv
  <2>3. CASE call'[q] = Idle
    BY <2>3, IdleOwesNothing
  <2>4. CASE call'[q] = call[q] /\ UNCHANGED store
    <3>1. SameParents /\ agents' = agents
      BY <2>4, UnchangedSameParents DEF store
    <3>2. ASSUME Complete
          PROVE  Owes(call[q], agents', InForce')
      BY <1>2, <2>2, <3>1, <3>2, OwesLater
    <3>3. ~Complete => Owes(call[q], agents', InForce')
      BY DEF Owes
    <3> QED
      BY <2>2, <2>4, <3>1, <3>2, <3>3
  <2> QED
    BY <2>1, <2>3, <2>4
<1> QED
  BY <1>1, <1>2, <1>3 DEF RevocationInv

-----------------------------------------------------------------------------
(* The theorem                                                               *)

LEMMA RevocationInit == Init => RevocationInv
<1> SUFFICES ASSUME Init PROVE RevocationInv
  OBVIOUS
<1>1. Inv
  BY InitInv
<1>2. acked = {} /\ \A p \in Proc : call[p] = Idle
  BY DEF Init
<1> QED
  BY <1>1, <1>2, IdleOwesNothing DEF RevocationInv

LEMMA RevocationNext == RevocationInv /\ [Next]_vars => RevocationInv'
<1> SUFFICES ASSUME RevocationInv, [Next]_vars PROVE RevocationInv'
  OBVIOUS
<1>1. Inv'
  BY NextInv DEF RevocationInv
<1>2. ASSUME NEW p \in Proc, Start(p) \/ Continue(p) \/ Fail(p)
      PROVE  RevocationInv'
  <2>1. CASE Start(p)
    BY <1>1, <2>1, SuspendKeeps, RotateKeeps, RevokeBeginKeeps DEF Start
  <2>2. CASE Continue(p)
    BY <1>1, <2>2, SuspendKeeps, RotateKeeps, ListStepKeeps, RevokeReadKeeps, RevokeWriteKeeps,
       ReadChildrenKeeps, EndedCallKeeps, WriteChildKeeps, WriteRedisKeeps, WriteMemoryKeeps
       DEF Continue
  <2>3. CASE Fail(p)
    BY <1>1, <2>3, ListFailsKeeps, EndedCallKeeps DEF Fail
  <2> QED
    BY <1>2, <2>1, <2>2, <2>3
<1>3. CASE UNCHANGED vars
  <2>1. SameParents /\ call' = call /\ acked' = acked
    BY <1>3, UnchangedSameParents DEF vars, store
  <2>2. InForce \subseteq InForce'
    BY <1>3, InForceGrows DEF vars
  <2>3. \A q \in Proc : Owes(call[q], agents', InForce') /\ KeepsParents(call[q], agents')
    <3> TAKE q \in Proc
    <3>1. /\ Owes(call[q], agents, InForce) /\ KeepsParents(call[q], agents)
          /\ CallOK(call[q], Registered, redis)
      BY DEF RevocationInv, Inv, CallsOK
    <3> QED
      BY <2>1, <2>2, <3>1, OwesLater, KeepsParentsLater
  <2> QED
    BY <1>1, <2>1, <2>2, <2>3 DEF RevocationInv
<1> QED
  BY <1>1, <1>2, <1>3, RegisterKeeps, CrashKeeps DEF Next

\* A revocation that answered 200 is in force, on every instance, for the agent
\* and with cascade for all that was below it when the request began (RevokeAgent
\* of handlers_identity.go): for trees of any size and shape that grow meanwhile,
\* any number of concurrent requests that write stale records back, failed reads
\* and writes, and, with Redis, restarts. Without Redis a restart forgets what was
\* answered (the maps of registry.go), and the theorem is for a process that runs on.
THEOREM AnsweredRevocationIsInForce ==
    ASSUME "list" \notin Failures, ListsAreComplete, RegistrySurvives
    PROVE  Spec => []AckedIsInForce
<1>1. Init => RevocationInv
  BY RevocationInit
<1>2. RevocationInv /\ [Next]_vars => RevocationInv'
  BY RevocationNext
<1>3. RevocationInv => AckedIsInForce
  BY DEF RevocationInv, AckedIsInForce, Complete
<1> QED
  BY <1>1, <1>2, <1>3, PTL DEF Spec
=============================================================================
