-------------------------- MODULE RefinementProofs --------------------------
(***************************************************************************)
(* AgentLifecycle implements Revocation: the handlers, the two stores, the *)
(* registry and the key cache, with everything that can fail, keep what    *)
(* POST /agents/{id}/revoke promises, if listings are complete (Complete   *)
(* of RevocationProofs) and no restart forgets revocations: those are in   *)
(* Redis, or the process runs on. That the registry is filled from the top *)
(* of the tree, that an answer speaks true of the agent it names, and what *)
(* the two walks down the tree promise need no hypothesis.                 *)
(***************************************************************************)
EXTENDS RevocationProofs

\* What the order of a request's list of IDs relies on, A being the records, T
\* the agents some request named and F the agents in force: whoever is next was
\* named, or the one above it is in force or comes before it in the list.
InOrder(ids, A, T, F) ==
    \A n \in DOMAIN ids :
        /\ ids[n] \in DOMAIN A
        /\ \/ ids[n] \in T
           \/ A[ids[n]].parent \in F
           \/ \E m \in 1..(n - 1) : ids[m] = A[ids[n]].parent

\* An agent in the queue of a listing is in the list already.
QueueIsListed(c) == \A n \in DOMAIN c.queue : c.queue[n].id \in ToSet(c.ids)

Orderly(c, A, T, F) ==
    /\ c.pc \notin Revoking => c.known = {}
    /\ c.pc \in Revoking => c.arg \in T /\ InOrder(c.ids, A, T, F)
    /\ c.pc = "list" => QueueIsListed(c)

\* The agents that were registered at some time: their IDs are not used again.
UsedAgents == {a \in Agent : keysMade[a] > 0}

\* The inductive invariant of the refinement.
TreeInv ==
    /\ RevocationInv
    /\ InForce \cup Registered \subseteq UsedAgents
    /\ RegistryTopDown
    /\ \A p \in Proc : Orderly(call[p], agents, targets, InForce)

-----------------------------------------------------------------------------
(* Lemmas                                                                    *)

\* A step that registers nobody and moves nobody.
SameTree == Registered' = Registered /\ SameParents

\* A step by which at most one revocation comes into force, in order.
OneMoreInForce ==
    \/ InForce' = InForce
    \/ \E a \in Registered :
         /\ a \in targets \/ agents[a].parent \in InForce
         /\ InForce' = InForce \cup {a}

\* No step makes an ID fit for another registration.
StillUsed == UsedAgents \subseteq UsedAgents' /\ Registered' \subseteq UsedAgents'

LEMMA UnchangedSameTree == UNCHANGED store => SameTree
BY UnchangedSameParents DEF SameTree, Registered, store

LEMMA UpdateSameTree ==
    ASSUME RevocationInv, NEW p \in Proc, UpdateAgent(Head(call[p].writes)),
           call[p].pc \in {"suspend", "rotateWrite", "revokeWrite", "childWrite"}
    PROVE  SameTree
<1>1. SameParents
  BY NextWriteSameParents
<1>2. Registered' = Registered
  BY DEF UpdateAgent, Registered
<1> QED
  BY <1>1, <1>2 DEF SameTree

LEMMA UnchangedRegistryGrows == UNCHANGED registry => OneMoreInForce
BY DEF OneMoreInForce, InForce, IsRevoked, registry

LEMMA OrderlyLater ==
    ASSUME NEW c, Orderly(c, agents, targets, InForce), SameParents,
           targets \subseteq targets', InForce \subseteq InForce'
    PROVE  Orderly(c, agents', targets', InForce')
<1>1. ASSUME c.pc \in Revoking
      PROVE  InOrder(c.ids, agents', targets', InForce')
  <2> SUFFICES ASSUME NEW n \in DOMAIN c.ids
               PROVE  /\ c.ids[n] \in DOMAIN agents'
                      /\ \/ c.ids[n] \in targets'
                         \/ agents'[c.ids[n]].parent \in InForce'
                         \/ \E m \in 1..(n - 1) : c.ids[m] = agents'[c.ids[n]].parent
    BY DEF InOrder
  <2>1. /\ c.ids[n] \in Registered
        /\ \/ c.ids[n] \in targets
           \/ agents[c.ids[n]].parent \in InForce
           \/ \E m \in 1..(n - 1) : c.ids[m] = agents[c.ids[n]].parent
    BY <1>1 DEF Orderly, InOrder, Registered
  <2>2. c.ids[n] \in DOMAIN agents' /\ agents'[c.ids[n]].parent = agents[c.ids[n]].parent
    BY <2>1 DEF SameParents, Registered
  <2> QED
    BY <2>1, <2>2
<1> QED
  BY <1>1 DEF Orderly

LEMMA IdleIsOrderly ==
    ASSUME NEW A, NEW T, NEW F
    PROVE  Orderly(Idle, A, T, F)
BY DEF Orderly, Idle, Revoking

\* What is in force stays in force, from the top down.
LEMMA TopDownLater ==
    ASSUME InForce \cup Registered \subseteq UsedAgents, StillUsed, RegistryTopDown,
           SameParents, (Registered' \ Registered) \cap InForce = {}, OneMoreInForce,
           targets \subseteq targets'
    PROVE  /\ InForce \subseteq InForce'
           /\ InForce' \cup Registered' \subseteq UsedAgents'
           /\ RegistryTopDown'
<1>1. InForce \subseteq InForce'
  BY DEF OneMoreInForce
<1>2. \A a \in InForce' : a \in InForce \/ (a \in Registered /\ (a \in targets \/ agents[a].parent \in InForce))
  BY DEF OneMoreInForce
<1>3. InForce' \cup Registered' \subseteq UsedAgents'
  BY <1>2 DEF StillUsed
<1>4. ASSUME NEW a \in (InForce' \cap Registered') \ targets'
      PROVE  agents'[a].parent \in InForce'
  <2>1. a \in Registered /\ agents'[a].parent = agents[a].parent
    BY <1>2 DEF SameParents
  <2>2. agents[a].parent \in InForce
    BY <1>2, <2>1 DEF RegistryTopDown
  <2> QED
    BY <1>1, <2>1, <2>2
<1> QED
  BY <1>1, <1>3, <1>4 DEF RegistryTopDown

\* A step of process p, which has request c to serve after it: it is Work.
LEMMA GoIsWork ==
    ASSUME TreeInv, RevocationInv', StillUsed, NEW p \in Proc, NEW c, Go(p, c),
           SameTree, OneMoreInForce, targets' = targets,
           Orderly(c, agents', targets', InForce'),
           \/ acked' = acked /\ c.known \in {call[p].known, {}}
           \/ acked' = acked \cup call[p].known /\ c.known = {}
    PROVE  TreeInv' /\ (Complete => Promise!Work)
<1>1. call' = [call EXCEPT ![p] = c] /\ DOMAIN call = Proc
  BY DEF Go, TreeInv, RevocationInv, Inv, CallsOK
<1>2. InForce \subseteq InForce' /\ InForce' \cup Registered' \subseteq UsedAgents' /\ RegistryTopDown'
  BY TopDownLater DEF TreeInv, SameTree
<1>3. ASSUME NEW q \in Proc
      PROVE  Orderly(call'[q], agents', targets', InForce')
  <2>1. CASE q = p
    BY <1>1, <2>1
  <2>2. CASE q # p
    <3>1. call'[q] = call[q] /\ Orderly(call[q], agents, targets, InForce)
      BY <1>1, <2>2 DEF TreeInv
    <3> QED
      BY <1>2, <3>1, OrderlyLater DEF SameTree
  <2> QED
    BY <2>1, <2>2
<1>4. TreeInv'
  BY <1>2, <1>3 DEF TreeInv
<1> DEFINE open == [q \in Proc |-> call[q].known]
           parent == [a \in Registered |-> agents[a].parent]
<1>5. parent' = parent
  BY DEF SameTree, SameParents
<1>6. InForce' = InForce \/ Promise!Enforce
  BY DEF OneMoreInForce, Promise!Enforce
<1>7. ASSUME Complete
      PROVE  (\E P \in SUBSET Proc : Promise!Abandon(P)) \/ (\E q \in Proc : Promise!Answer(q))
  <2>1. \A q \in Proc : open'[q] = IF q = p THEN c.known ELSE open[q]
    BY <1>1
  <2>2. CASE acked' = acked /\ c.known = call[p].known
    <3>1. open' = [q \in Proc |-> IF q \in {} THEN {} ELSE open[q]]
      BY <2>1, <2>2
    <3>2. Promise!Abandon({})
      BY <2>2, <3>1 DEF Promise!Abandon
    <3> QED
      BY <3>2
  <2>3. CASE acked' = acked /\ c.known = {}
    <3>1. open' = [q \in Proc |-> IF q \in {p} THEN {} ELSE open[q]]
      BY <2>1, <2>3
    <3>2. Promise!Abandon({p})
      BY <2>3, <3>1 DEF Promise!Abandon
    <3> QED
      BY <3>2
  <2>4. CASE acked' = acked \cup call[p].known /\ c.known = {}
    <3>1. open' = [open EXCEPT ![p] = {}]
      BY <2>1, <2>4
    <3>2. open[p] = call[p].known /\ call[p].known \subseteq InForce'
      BY <1>7, <2>4 DEF RevocationInv
    <3>3. Promise!Answer(p)
      BY <2>4, <3>1, <3>2 DEF Promise!Answer
    <3> QED
      BY <3>3
  <2> QED
    BY <2>2, <2>3, <2>4
<1> QED
  BY <1>4, <1>5, <1>6, <1>7 DEF Promise!Work

LEMMA RespondIsWork ==
    ASSUME TreeInv, RevocationInv', StillUsed, NEW p \in Proc, Respond(p),
           SameTree, OneMoreInForce, targets' = targets,
           acked' \in {acked, acked \cup call[p].known}
    PROVE  TreeInv' /\ (Complete => Promise!Work)
<1>1. Idle.known = {}
  BY DEF Idle
<1> QED
  BY <1>1, IdleIsOrderly, GoIsWork DEF Respond

\* A step to a request that revokes nothing.
LEMMA OtherRequestIsWork ==
    ASSUME TreeInv, RevocationInv', StillUsed, NEW p \in Proc, NEW c, Go(p, c),
           c.pc \notin Revoking, c.known = {},
           SameTree, OneMoreInForce, UNCHANGED history
    PROVE  TreeInv' /\ (Complete => Promise!Work)
<1>1. Orderly(c, agents', targets', InForce')
  BY DEF Orderly, Revoking
<1> QED
  BY <1>1, GoIsWork DEF history

\* A step of a revocation after its listing that leaves the list alone.
LEMMA RevokingIsWork ==
    ASSUME TreeInv, RevocationInv', StillUsed, NEW p \in Proc, NEW c, Go(p, c),
           SameTree, OneMoreInForce, UNCHANGED history,
           call[p].pc \in Revoking \ {"list"}, c.pc \in Revoking \ {"list"},
           c.arg = call[p].arg, c.known = call[p].known, c.ids = call[p].ids
    PROVE  TreeInv' /\ (Complete => Promise!Work)
<1>1. Orderly(call[p], agents, targets, InForce)
  BY DEF TreeInv
<1>2. Orderly(c, agents, targets, InForce)
  BY <1>1 DEF Orderly
<1>3. InForce \subseteq InForce'
  BY DEF OneMoreInForce
<1>4. Orderly(c, agents', targets', InForce')
  BY <1>2, <1>3, OrderlyLater DEF SameTree, history
<1> QED
  BY <1>4, GoIsWork DEF history

-----------------------------------------------------------------------------
(* The steps                                                                 *)

LEMMA RegisterIsRegister ==
    ASSUME TreeInv, RevocationInv', StillUsed, NEW a \in Agent, NEW above \in Agent \cup {None},
           RegisterAgent(a, above)
    PROVE  TreeInv' /\ Promise!Register(a, above)
<1> DEFINE rec == [id |-> a, parent |-> above, key |-> <<a, 0>>, status |-> "active",
                   created |-> Cardinality(Registered)]
           parent == [x \in Registered |-> agents[x].parent]
<1>1. /\ a \notin Registered /\ agents' = Put(agents, a, rec)
      /\ above \in Registered \cup {None} /\ a \notin InForce
  BY DEF RegisterAgent, CreateAgent, TreeInv, UsedAgents
<1>2. rec.parent = above
  OBVIOUS
<1> HIDE DEF rec
<1>3. /\ Registered' = Registered \cup {a} /\ agents'[a] = rec
      /\ \A x \in Registered : agents'[x] = agents[x]
  BY <1>1 DEF Put, Registered
<1>4. call' = call /\ UNCHANGED history /\ UNCHANGED registry
  BY DEF RegisterAgent
<1>5. SameParents /\ OneMoreInForce
  BY <1>3, <1>4, UnchangedRegistryGrows DEF SameParents
<1>6. InForce' = InForce
  BY <1>4 DEF InForce, IsRevoked, registry
<1>7. TreeInv'
  <2>1. InForce' \cup Registered' \subseteq UsedAgents' /\ RegistryTopDown'
    BY <1>1, <1>3, <1>4, <1>5, TopDownLater DEF TreeInv, history
  <2>2. \A q \in Proc : Orderly(call'[q], agents', targets', InForce')
    BY <1>4, <1>5, <1>6, OrderlyLater DEF TreeInv, history
  <2> QED
    BY <2>1, <2>2 DEF TreeInv
<1>8. parent' = [x \in Registered \cup {a} |-> IF x = a THEN above ELSE parent[x]]
  BY <1>1, <1>2, <1>3
<1> QED
  BY <1>1, <1>4, <1>6, <1>7, <1>8 DEF Promise!Register, history

LEMMA RevokeBeginIsAsk ==
    ASSUME TreeInv, RevocationInv', StillUsed, NEW p \in Proc, NEW a \in Agent, NEW cascade \in BOOLEAN,
           RevokeBegin(p, a, cascade)
    PROVE  TreeInv' /\ Promise!Ask(p, a)
<1> DEFINE queue == IF cascade THEN <<[id |-> a, depth |-> 0]>> ELSE <<>>
           known == {a} \cup IF cascade THEN Subtree(a) ELSE {}
           c == [Idle EXCEPT !.pc = IF cascade THEN "list" ELSE "revokeRead",
                             !.arg = a, !.cascade = cascade, !.ids = <<a>>,
                             !.queue = queue, !.known = known]
           open == [q \in Proc |-> call[q].known]
           parent == [x \in Registered |-> agents[x].parent]
<1>1. /\ a \in Registered /\ Go(p, c) /\ UNCHANGED <<store, registry>>
      /\ targets' = targets \cup {a} /\ acked' = acked /\ call[p].pc = "idle"
  BY DEF RevokeBegin, Accept, At
<1>2. SameTree /\ InForce' = InForce /\ OneMoreInForce
  BY <1>1, UnchangedSameTree, UnchangedRegistryGrows DEF InForce, IsRevoked, registry
<1>3. c.pc = (IF cascade THEN "list" ELSE "revokeRead") /\ c.arg = a /\ c.ids = <<a>>
      /\ c.queue = queue /\ c.known = known
  BY DEF Idle
<1>4. Orderly(c, agents', targets', InForce')
  <2>1. c.pc \in Revoking
    BY <1>3 DEF Revoking
  <2>2. InOrder(<<a>>, agents', targets', InForce')
    BY <1>1, <1>2 DEF InOrder, SameTree, Registered
  <2>3. c.pc = "list" => QueueIsListed(c)
    <3> SUFFICES ASSUME cascade, NEW n \in DOMAIN queue PROVE queue[n].id \in ToSet(<<a>>)
      BY <1>3 DEF QueueIsListed
    <3>1. queue[n].id = a /\ 1 \in DOMAIN <<a>> /\ <<a>>[1] = a
      OBVIOUS
    <3> QED
      BY <3>1 DEF ToSet
  <2> QED
    BY <1>1, <1>3, <2>1, <2>2, <2>3 DEF Orderly
<1> HIDE DEF c
<1>5. call' = [call EXCEPT ![p] = c] /\ DOMAIN call = Proc
  BY <1>1 DEF Go, TreeInv, RevocationInv, Inv, CallsOK
<1>6. TreeInv'
  <2>1. InForce' \cup Registered' \subseteq UsedAgents' /\ RegistryTopDown'
    BY <1>1, <1>2, TopDownLater DEF TreeInv, SameTree
  <2>2. ASSUME NEW q \in Proc
        PROVE  Orderly(call'[q], agents', targets', InForce')
    BY <1>1, <1>2, <1>4, <1>5, OrderlyLater DEF TreeInv, SameTree
  <2> QED
    BY <2>1, <2>2 DEF TreeInv
<1>7. open[p] = {} /\ open' = [open EXCEPT ![p] = known]
  <2>1. call[p].known = {}
    BY <1>1 DEF TreeInv, Orderly, Revoking
  <2> QED
    BY <1>3, <1>5, <2>1
<1>8. parent' = parent
  BY <1>2 DEF SameTree, SameParents
<1>9. known \in {{a}, {a} \cup Promise!Tree(a)}
  <2>1. Promise!Tree(a) = Subtree(a)
    BY DEF Promise!Tree, Subtree
  <2> QED
    BY <2>1
<1> HIDE DEF known
<1> QED
  BY <1>1, <1>2, <1>6, <1>7, <1>8, <1>9 DEF Promise!Ask

LEMMA SuspendIsWork ==
    ASSUME TreeInv, RevocationInv', StillUsed, NEW p \in Proc, NEW a, SuspendRead(p, a) \/ SuspendWrite(p)
    PROVE  TreeInv' /\ (Complete => Promise!Work)
<1>1. UNCHANGED history /\ OneMoreInForce
  BY UnchangedRegistryGrows DEF SuspendRead, SuspendWrite
<1>2. CASE SuspendRead(p, a)
  <2> DEFINE c == [Idle EXCEPT !.pc = "suspend", !.arg = a,
                               !.writes = <<[agents[a] EXCEPT !.status = "suspended"]>>]
  <2>1. c.pc \notin Revoking /\ c.known = {}
    BY DEF Idle, Revoking
  <2>2. Go(p, c) /\ SameTree
    BY <1>2, UnchangedSameTree DEF SuspendRead
  <2> HIDE DEF c
  <2> QED
    BY <1>1, <2>1, <2>2, OtherRequestIsWork
<1>3. CASE SuspendWrite(p)
  <2>1. SameTree
    BY <1>3, UpdateSameTree DEF SuspendWrite, At, TreeInv
  <2> QED
    BY <1>1, <1>3, <2>1, RespondIsWork DEF SuspendWrite, history
<1> QED
  BY <1>2, <1>3

LEMMA RotateIsWork ==
    ASSUME TreeInv, RevocationInv', StillUsed, NEW p \in Proc, NEW a,
           \/ RotateBegin(p, a) \/ RotateRead(p) \/ RotateRefused(p)
           \/ RotateWrite(p) \/ RotateInvalidate(p)
    PROVE  TreeInv' /\ (Complete => Promise!Work)
<1>1. UNCHANGED history /\ OneMoreInForce
  BY UnchangedRegistryGrows DEF RotateBegin, RotateRead, RotateRefused, RotateWrite, RotateInvalidate
<1>2. call[p] \in Call /\ (call[p].pc \notin Revoking => call[p].known = {})
  BY DEF TreeInv, Orderly, RevocationInv, Inv, CallsOK
<1>3. CASE RotateBegin(p, a)
  <2> DEFINE c == [Idle EXCEPT !.pc = "rotateRead", !.arg = a, !.oldKey = agents[a].key]
  <2>1. c.pc \notin Revoking /\ c.known = {}
    BY DEF Idle, Revoking
  <2>2. Go(p, c) /\ SameTree
    BY <1>3, UnchangedSameTree DEF RotateBegin
  <2> HIDE DEF c
  <2> QED
    BY <1>1, <2>1, <2>2, OtherRequestIsWork
<1>4. CASE RotateRead(p)
  <2> DEFINE b == call[p].arg
             c == [call[p] EXCEPT !.pc = "rotateWrite", !.replaced = agents[b].key,
                                  !.writes = <<[agents[b] EXCEPT !.key = <<b, keysMade[b]>>]>>]
  <2>1. Go(p, c) /\ SameTree /\ call[p].pc = "rotateRead"
    BY <1>4, UnchangedSameTree DEF RotateRead, At
  <2>2. c.pc \notin Revoking /\ c.known = {}
    BY <1>2, <2>1 DEF Call, Revoking
  <2> HIDE DEF c
  <2> QED
    BY <1>1, <2>1, <2>2, OtherRequestIsWork
<1>5. CASE RotateRefused(p) \/ RotateInvalidate(p)
  <2>1. SameTree /\ Respond(p)
    BY <1>5, UnchangedSameTree DEF RotateRefused, RotateInvalidate
  <2> QED
    BY <1>1, <2>1, RespondIsWork DEF history
<1>6. CASE RotateWrite(p)
  <2> DEFINE c == [call[p] EXCEPT !.pc = "invalidate", !.writes = <<>>]
  <2>1. Go(p, c) /\ SameTree /\ call[p].pc = "rotateWrite"
    BY <1>6, UpdateSameTree DEF RotateWrite, At, TreeInv
  <2>2. c.pc \notin Revoking /\ c.known = {}
    BY <1>2, <2>1 DEF Call, Revoking
  <2> HIDE DEF c
  <2> QED
    BY <1>1, <2>1, <2>2, OtherRequestIsWork
<1> QED
  BY <1>3, <1>4, <1>5, <1>6

\* The agents a listing finds go behind the one they are children of.
LEMMA ListStepIsWork ==
    ASSUME TreeInv, RevocationInv', StillUsed, NEW p \in Proc, ListStep(p)
    PROVE  TreeInv' /\ (Complete => Promise!Work)
<1> DEFINE old == call[p]
           cur == Head(old.queue)
<1>1. PICK s \in ChildLists(cur.id) :
        LET rest == Dequeue(old.queue) \o Items(s, cur.depth + 1) IN
        Go(p, [old EXCEPT !.ids = Collect(@, s), !.queue = rest,
                          !.pc = IF rest = <<>> THEN "revokeRead" ELSE "list"])
  BY DEF ListStep
<1> DEFINE items == Items(s, cur.depth + 1)
           found == [n \in DOMAIN s |-> s[n].id]
           rest == Tail(old.queue) \o items
           ids == old.ids \o found
           c == [old EXCEPT !.ids = ids, !.queue = rest,
                            !.pc = IF rest = <<>> THEN "revokeRead" ELSE "list"]
<1>2. Go(p, c) /\ SameTree /\ OneMoreInForce /\ agents' = agents /\ InForce' = InForce /\ UNCHANGED history
  BY <1>1, UnchangedSameTree, UnchangedRegistryGrows
     DEF ListStep, Dequeue, Collect, store, InForce, IsRevoked, registry
<1>3. /\ old \in Call /\ old.pc = "list" /\ old.queue # <<>>
      /\ old.ids \in Seq(Agent) /\ old.queue \in Seq(Item)
  BY DEF ListStep, At, TreeInv, RevocationInv, Inv, CallsOK, CallOK, Call
<1>4. old.arg \in targets /\ InOrder(old.ids, agents, targets, InForce) /\ QueueIsListed(old)
  BY <1>3 DEF TreeInv, Orderly, Revoking
<1>5. cur \in Item /\ cur.depth + 1 \in Nat /\ cur.id \in ToSet(old.ids)
  <2>1. cur = old.queue[1] /\ 1 \in DOMAIN old.queue /\ cur \in Item
    BY <1>3
  <2> QED
    BY <1>4, <2>1 DEF QueueIsListed, Item
<1>6. items \in Seq(Item) /\ found \in Seq(Agent) /\ s \in Seq(AgentRecord)
  BY <1>5, ItemsAreOK, ChildListsAreRecords DEF TreeInv, RevocationInv, Inv
<1>7. DOMAIN items = DOMAIN s /\ \A n \in DOMAIN s : items[n].id = s[n].id
  BY DEF Items
<1>8. \A n \in DOMAIN s : s[n].id \in Registered /\ agents[s[n].id].parent = cur.id
  BY <1>6, ChildListsAreRecords DEF TreeInv, RevocationInv, Inv
<1> HIDE DEF items
<1>9. DOMAIN found = DOMAIN s /\ \A n \in DOMAIN s : found[n] = s[n].id
  OBVIOUS
<1> HIDE DEF found
<1>10. InOrder(ids, agents, targets, InForce)
  <2> SUFFICES ASSUME NEW n \in DOMAIN ids
               PROVE  /\ ids[n] \in DOMAIN agents
                      /\ \/ ids[n] \in targets
                         \/ agents[ids[n]].parent \in InForce
                         \/ \E m \in 1..(n - 1) : ids[m] = agents[ids[n]].parent
    BY DEF InOrder
  <2>1. CASE n <= Len(old.ids)
    <3>1. n \in DOMAIN old.ids /\ ids[n] = old.ids[n]
          /\ \A m \in 1..(n - 1) : ids[m] = old.ids[m]
      BY <1>3, <1>6, <2>1
    <3> HIDE DEF ids
    <3> QED
      BY <1>4, <3>1 DEF InOrder
  <2>2. CASE n > Len(old.ids)
    <3>1. n - Len(old.ids) \in DOMAIN found /\ ids[n] = found[n - Len(old.ids)]
      BY <1>3, <1>6, <2>2
    <3>2. PICK m \in DOMAIN old.ids : old.ids[m] = cur.id
      BY <1>5 DEF ToSet
    <3>3. m \in 1..(n - 1) /\ ids[m] = cur.id
      BY <1>3, <1>6, <2>2, <3>2
    <3> HIDE DEF ids, cur
    <3> QED
      BY <1>8, <1>9, <3>1, <3>3 DEF Registered
  <2> QED
    BY <1>3, <2>1, <2>2
<1>11. \A n \in DOMAIN rest : rest[n].id \in ToSet(ids)
  <2>1. ToSet(ids) = ToSet(old.ids) \cup ToSet(found)
    BY <1>3, <1>6, ToSetOfConcat
  <2>2. Tail(old.queue) \in Seq(Item)
    BY <1>3
  <2> HIDE DEF ids
  <2> TAKE n \in DOMAIN rest
  <2>3. CASE n <= Len(Tail(old.queue))
    <3>1. n + 1 \in DOMAIN old.queue /\ rest[n] = old.queue[n + 1]
      BY <1>3, <1>6, <2>2, <2>3
    <3> QED
      BY <1>4, <2>1, <3>1 DEF QueueIsListed
  <2>4. CASE n > Len(Tail(old.queue))
    <3> DEFINE left == Tail(old.queue)
    <3>1. left \in Seq(Item) /\ n > Len(left) /\ n \in DOMAIN (left \o items)
      BY <2>2, <2>4
    <3> HIDE DEF left
    <3>2. n - Len(left) \in DOMAIN items /\ (left \o items)[n] = items[n - Len(left)]
      BY <1>6, <3>1
    <3> QED
      BY <1>7, <1>9, <2>1, <3>2 DEF ToSet, left
  <2> QED
    BY <1>6, <2>2, <2>3, <2>4
<1> HIDE DEF ids, rest
<1>12. /\ c.ids = ids /\ c.queue = rest /\ c.arg = old.arg /\ c.known = old.known
       /\ c.pc \in {"revokeRead", "list"}
  BY <1>3 DEF Call
<1> HIDE DEF c
<1>13. Orderly(c, agents', targets', InForce')
  BY <1>2, <1>4, <1>10, <1>11, <1>12 DEF Orderly, QueueIsListed, Revoking, history
<1> QED
  BY <1>2, <1>12, <1>13, GoIsWork DEF history

LEMMA ListFailsIsWork ==
    ASSUME TreeInv, RevocationInv', StillUsed, NEW p \in Proc, ListFails(p)
    PROVE  TreeInv' /\ (Complete => Promise!Work)
<1> DEFINE old == call[p]
           c == [old EXCEPT !.pc = "revokeRead", !.ids = <<old.arg>>, !.queue = <<>>]
<1>1. Go(p, c) /\ SameTree /\ OneMoreInForce /\ agents' = agents /\ UNCHANGED history /\ old.pc = "list"
  BY UnchangedSameTree, UnchangedRegistryGrows DEF ListFails, At, store
<1>2. old \in Call /\ CallOK(old, Registered, redis) /\ Orderly(old, agents, targets, InForce)
  BY DEF TreeInv, RevocationInv, Inv, CallsOK
<1>3. c.pc = "revokeRead" /\ c.ids = <<old.arg>> /\ c.arg = old.arg /\ c.known = old.known
  BY <1>2 DEF Call
<1> HIDE DEF c
<1>4. old.arg \in Registered /\ old.arg \in targets
  BY <1>1, <1>2 DEF CallOK, Orderly, Revoking
<1> HIDE DEF old
<1>5. Orderly(c, agents', targets', InForce')
  BY <1>1, <1>3, <1>4 DEF Orderly, InOrder, Revoking, Registered, history
<1> QED
  BY <1>1, <1>3, <1>5, GoIsWork DEF history, old

LEMMA AdvanceKeepsList ==
    ASSUME NEW c
    PROVE  /\ Advance(c).pc \in Revoking \ {"list"}
           /\ Advance(c).arg = c.arg /\ Advance(c).known = c.known /\ Advance(c).ids = c.ids
BY DEF Advance, Revoking, Publish

\* The walk over the store.
LEMMA WalkIsWork ==
    ASSUME TreeInv, RevocationInv', StillUsed, NEW p \in Proc,
           RevokeRead(p) \/ RevokeWrite(p) \/ ReadChildren(p) \/ WriteChild(p)
    PROVE  TreeInv' /\ (Complete => Promise!Work)
<1> DEFINE old == call[p]
<1>1. UNCHANGED history /\ OneMoreInForce
  BY UnchangedRegistryGrows DEF RevokeRead, RevokeWrite, ReadChildren, WriteChild
<1>2. /\ old \in Call /\ old.queue \in Seq(Item)
      /\ old.pc \in {"children", "childWrite"} => old.ids # <<>>
      /\ old.pc = "children" => old.queue # <<>>
      /\ old.pc = "childWrite" => old.writes # <<>>
      /\ old.writes \in Seq(AgentRecord)
  BY DEF TreeInv, RevocationInv, Inv, CallsOK, CallOK, Call
<1>3. CASE RevokeRead(p)
  <2> DEFINE c == [old EXCEPT !.pc = "revokeWrite", !.writes = <<Revoked(agents[old.arg])>>]
  <2>1. Go(p, c) /\ SameTree /\ old.pc = "revokeRead"
    BY <1>3, UnchangedSameTree DEF RevokeRead, At
  <2>2. c.pc = "revokeWrite" /\ c.arg = old.arg /\ c.known = old.known /\ c.ids = old.ids
    BY <1>2 DEF Call
  <2> HIDE DEF c
  <2> QED
    BY <1>1, <2>1, <2>2, RevokingIsWork DEF Revoking
<1>4. CASE RevokeWrite(p)
  <2> DEFINE c == [old EXCEPT !.pc = IF old.cascade THEN "children" ELSE Publish,
                              !.writes = <<>>,
                              !.queue = IF old.cascade THEN <<[id |-> old.arg, depth |-> 0]>> ELSE <<>>]
  <2>1. Go(p, c) /\ SameTree /\ old.pc = "revokeWrite"
    BY <1>4, UpdateSameTree DEF RevokeWrite, At, TreeInv
  <2>2. /\ c.pc \in {"children", "redis", "remember"}
        /\ c.arg = old.arg /\ c.known = old.known /\ c.ids = old.ids
    BY <1>2 DEF Call, Publish
  <2> HIDE DEF c
  <2> QED
    BY <1>1, <2>1, <2>2, RevokingIsWork DEF Revoking
<1>5. CASE ReadChildren(p)
  <2> DEFINE cur == Head(old.queue)
  <2>1. PICK s \in ChildLists(cur.id) :
          Go(p, Advance([old EXCEPT !.queue = Dequeue(@) \o Items(s, cur.depth + 1),
                                    !.writes = [n \in DOMAIN s |-> Revoked(s[n])]]))
    BY <1>5 DEF ReadChildren
  <2> DEFINE b == [old EXCEPT !.queue = Dequeue(@) \o Items(s, cur.depth + 1),
                              !.writes = [n \in DOMAIN s |-> Revoked(s[n])]]
  <2>2. SameTree /\ old.pc = "children"
    BY <1>5, UnchangedSameTree DEF ReadChildren, At
  <2>3. b.arg = old.arg /\ b.known = old.known /\ b.ids = old.ids
    BY <1>2 DEF Call
  <2> DEFINE c == Advance(b)
  <2> HIDE DEF b
  <2>4. /\ c.pc \in Revoking \ {"list"}
        /\ c.arg = old.arg /\ c.known = old.known /\ c.ids = old.ids
    BY <2>3, AdvanceKeepsList
  <2>5. Go(p, c)
    BY <2>1 DEF b
  <2> HIDE DEF c
  <2> QED
    BY <1>1, <2>2, <2>4, <2>5, RevokingIsWork DEF Revoking
<1>6. CASE WriteChild(p)
  <2> DEFINE b == [old EXCEPT !.writes = Tail(@)]
             c == Advance(b)
  <2>1. Go(p, c) /\ SameTree /\ old.pc = "childWrite"
    BY <1>6, UpdateSameTree DEF WriteChild, At, TreeInv
  <2>2. b.arg = old.arg /\ b.known = old.known /\ b.ids = old.ids
    BY <1>2 DEF Call
  <2> HIDE DEF b
  <2>3. /\ c.pc \in Revoking \ {"list"}
        /\ c.arg = old.arg /\ c.known = old.known /\ c.ids = old.ids
    BY <2>2, AdvanceKeepsList
  <2> HIDE DEF c
  <2> QED
    BY <1>1, <2>1, <2>3, RevokingIsWork DEF Revoking
<1> QED
  BY <1>3, <1>4, <1>5, <1>6

\* The next of a list may come into force.
LEMMA NextInOrder ==
    ASSUME TreeInv, NEW p \in Proc, call[p].pc \in {"redis", "remember"}
    PROVE  /\ call[p].ids \in Seq(Agent) /\ call[p].ids # <<>>
           /\ Head(call[p].ids) \in Registered
           /\ \/ Head(call[p].ids) \in targets
              \/ agents[Head(call[p].ids)].parent \in InForce
<1>1. call[p].ids \in Seq(Agent) /\ call[p].ids # <<>>
  BY DEF TreeInv, RevocationInv, Inv, CallsOK, CallOK, Call
<1>2. InOrder(call[p].ids, agents, targets, InForce)
  BY DEF TreeInv, Orderly, Revoking
<1>3. 1 \in DOMAIN call[p].ids /\ Head(call[p].ids) = call[p].ids[1] /\ 1..(1 - 1) = {}
  BY <1>1
<1>4. /\ call[p].ids[1] \in DOMAIN agents
      /\ \/ call[p].ids[1] \in targets
         \/ agents[call[p].ids[1]].parent \in InForce
         \/ \E m \in 1..(1 - 1) : call[p].ids[m] = agents[call[p].ids[1]].parent
  BY <1>2, <1>3 DEF InOrder
<1> QED
  BY <1>1, <1>3, <1>4 DEF Registered

LEMMA SetRedisGrows ==
    ASSUME TreeInv, NEW p \in Proc, call[p].pc = "redis", SetRedis(Head(call[p].ids))
    PROVE  OneMoreInForce
<1> DEFINE a == Head(call[p].ids)
<1>1. a \in Registered /\ a \in Agent /\ (a \in targets \/ agents[a].parent \in InForce)
  BY NextInOrder DEF TreeInv, RevocationInv, Inv, StoreInv, StoreTypeOK, Registered
<1>2. redis' = redis \cup {a} /\ memory' = memory
  BY DEF SetRedis
<1> HIDE DEF a
<1>3. CASE RedisEnabled
  <2>1. \E i : i \in Instance
    BY DeploymentAssumption
  <2>2. InForce' = InForce \cup {a}
    BY <1>1, <1>2, <1>3, <2>1 DEF InForce, IsRevoked
  <2> QED
    BY <1>1, <2>2 DEF OneMoreInForce
<1>4. CASE ~RedisEnabled
  BY <1>2, <1>4 DEF OneMoreInForce, InForce, IsRevoked
<1> QED
  BY <1>3, <1>4

LEMMA WriteRedisIsWork ==
    ASSUME TreeInv, RevocationInv', StillUsed, NEW p \in Proc, WriteRedis(p)
    PROVE  TreeInv' /\ (Complete => Promise!Work)
<1> DEFINE old == call[p]
           c == [old EXCEPT !.pc = "remember"]
<1>1. Go(p, c) /\ SameTree /\ OneMoreInForce /\ UNCHANGED history /\ old.pc = "redis"
  BY UnchangedSameTree, SetRedisGrows DEF WriteRedis, At
<1>2. old \in Call
  BY DEF TreeInv, RevocationInv, Inv, CallsOK
<1>3. c.pc = "remember" /\ c.arg = old.arg /\ c.known = old.known /\ c.ids = old.ids
  BY <1>2 DEF Call
<1> HIDE DEF c
<1> QED
  BY <1>1, <1>3, RevokingIsWork DEF Revoking

LEMMA WriteMemoryIsWork ==
    ASSUME TreeInv, RevocationInv', StillUsed, NEW p \in Proc, WriteMemory(p)
    PROVE  TreeInv' /\ (Complete => Promise!Work)
<1> DEFINE old == call[p]
           a == Head(old.ids)
           rest == Tail(old.ids)
           c == [old EXCEPT !.pc = Publish, !.ids = rest]
<1>1. old.pc = "remember" /\ SameTree /\ agents' = agents /\ targets' = targets
  BY UnchangedSameTree DEF WriteMemory, At, store
<1>2. /\ old.ids \in Seq(Agent) /\ old.ids # <<>>
      /\ a \in Registered /\ (a \in targets \/ agents[a].parent \in InForce)
  BY <1>1, NextInOrder
<1>3. /\ old \in Call /\ (RedisEnabled => old.ids[1] \in redis)
      /\ old.arg \in targets /\ InOrder(old.ids, agents, targets, InForce)
  BY <1>1 DEF TreeInv, Orderly, Revoking, RevocationInv, Inv, CallsOK, CallOK
<1>4. a = old.ids[1] /\ a \in Agent /\ rest \in Seq(Agent)
  BY <1>2
<1>5. redis' = redis /\ memory' = [memory EXCEPT ![Host[p]] = @ \cup {a}]
  BY DEF WriteMemory, Remember
<1>6. memory \in [Instance -> SUBSET Name] /\ Host[p] \in Instance
  BY LifecycleAssumption DEF TreeInv, RevocationInv, Inv, RegistryInv, RegistryTypeOK
<1>7. WriteMemory(p) => IF rest = <<>> THEN Respond(p) /\ acked' = acked \cup old.known
                                       ELSE Go(p, c) /\ acked' = acked
  BY DEF WriteMemory
<1> HIDE DEF a
<1>8. InForce' = InForce \cup {a}
  <2>1. CASE RedisEnabled
    BY <1>3, <1>4, <1>5, <2>1 DEF InForce, IsRevoked
  <2>2. CASE ~RedisEnabled
    <3>1. Instance = {Host[p]}
      BY <1>6, <2>2, DeploymentAssumption
    <3>2. memory'[Host[p]] = memory[Host[p]] \cup {a}
      BY <1>5, <1>6
    <3> QED
      BY <1>4, <2>2, <3>1, <3>2 DEF InForce, IsRevoked
  <2> QED
    BY <2>1, <2>2
<1>9. OneMoreInForce
  BY <1>2, <1>8 DEF OneMoreInForce
<1>10. CASE rest = <<>>
  <2>1. Respond(p) /\ acked' = acked \cup old.known
    BY <1>7, <1>10
  <2> QED
    BY <1>1, <1>9, <2>1, RespondIsWork
<1>11. CASE rest # <<>>
  <2>1. Go(p, c) /\ acked' = acked
    BY <1>7, <1>11
  <2>2. InOrder(rest, agents', targets', InForce')
    <3> SUFFICES ASSUME NEW n \in DOMAIN rest
                 PROVE  /\ rest[n] \in DOMAIN agents
                        /\ \/ rest[n] \in targets
                           \/ agents[rest[n]].parent \in InForce'
                           \/ \E m \in 1..(n - 1) : rest[m] = agents[rest[n]].parent
      BY <1>1 DEF InOrder
    <3>1. n + 1 \in DOMAIN old.ids /\ rest[n] = old.ids[n + 1] /\ n \in Nat
      BY <1>2
    <3>2. /\ rest[n] \in DOMAIN agents
          /\ \/ rest[n] \in targets
             \/ agents[rest[n]].parent \in InForce
             \/ \E m \in 1..((n + 1) - 1) : old.ids[m] = agents[rest[n]].parent
      BY <1>3, <3>1 DEF InOrder
    <3>3. ASSUME NEW m \in 1..((n + 1) - 1), old.ids[m] = agents[rest[n]].parent
          PROVE  \/ agents[rest[n]].parent \in InForce'
                 \/ \E k \in 1..(n - 1) : rest[k] = agents[rest[n]].parent
      <4>1. CASE m = 1
        BY <1>4, <1>8, <3>3, <4>1
      <4>2. CASE m # 1
        <5>1. m - 1 \in 1..(n - 1) /\ rest[m - 1] = old.ids[m]
          BY <1>2, <3>1, <4>2
        <5> HIDE DEF rest
        <5> QED
          BY <3>3, <5>1
      <4> QED
        BY <4>1, <4>2
    <3> QED
      BY <1>8, <3>2, <3>3
  <2> HIDE DEF rest
  <2>3. /\ c.pc \in {"redis", "remember"} /\ c.ids = rest
        /\ c.arg = old.arg /\ c.known = old.known
    BY <1>3 DEF Call, Publish
  <2> HIDE DEF c
  <2>4. Orderly(c, agents', targets', InForce')
    BY <1>1, <1>3, <2>2, <2>3 DEF Orderly, Revoking
  <2> QED
    BY <1>1, <1>9, <2>1, <2>3, <2>4, GoIsWork
<1> QED
  BY <1>10, <1>11

LEMMA EndedCallIsWork ==
    ASSUME TreeInv, RevocationInv', StillUsed, NEW p \in Proc,
           RefuseDepth(p) \/ ReadFails(p) \/ WriteFails(p) \/ RedisFails(p)
    PROVE  TreeInv' /\ (Complete => Promise!Work)
<1>1. UNCHANGED history /\ Respond(p)
  BY DEF RefuseDepth, ReadFails, WriteFails, RedisFails, history
<1>2. SameTree
  <2>1. CASE UNCHANGED store
    BY <2>1, UnchangedSameTree
  <2>2. CASE WriteFails(p) /\ UpdateAgent(Head(call[p].writes))
    BY <2>2, UpdateSameTree DEF WriteFails, TreeInv
  <2> QED
    BY <2>1, <2>2 DEF RefuseDepth, ReadFails, WriteFails, RedisFails
<1>3. OneMoreInForce
  <2>1. CASE UNCHANGED registry
    BY <2>1, UnchangedRegistryGrows
  <2>2. CASE RedisFails(p) /\ SetRedis(Head(call[p].ids))
    BY <2>2, SetRedisGrows DEF RedisFails, At
  <2> QED
    BY <2>1, <2>2 DEF RefuseDepth, ReadFails, WriteFails, RedisFails
<1> QED
  BY <1>1, <1>2, <1>3, RespondIsWork DEF history

\* A restart abandons the requests of one instance; where it takes the store
\* or the only registry with it, nothing is under way any more.
LEMMA RestartFromNothing ==
    ASSUME TreeInv, RevocationInv', StillUsed, InForce' \subseteq InForce,
           call' = [p \in Proc |-> Idle], Registered' = {} \/ InForce' = {}
    PROVE  TreeInv'
<1>1. InForce' \cup Registered' \subseteq UsedAgents'
  BY DEF TreeInv, StillUsed
<1>2. RegistryTopDown'
  BY DEF RegistryTopDown
<1>3. \A q \in Proc : Orderly(call'[q], agents', targets', InForce')
  BY IdleIsOrderly
<1> QED
  BY <1>1, <1>2, <1>3 DEF TreeInv

LEMMA CrashIsWork ==
    ASSUME TreeInv, RevocationInv', StillUsed, NEW i \in Instance, Crash(i)
    PROVE  TreeInv' /\ (Complete => Promise!Work \/ Promise!Restart)
<1> DEFINE open == [q \in Proc |-> call[q].known]
           P == {q \in Proc : Host[q] = i}
<1>1. /\ UNCHANGED history /\ InForce' \subseteq InForce
      /\ RedisEnabled => InForce' = InForce
      /\ Complete => RedisEnabled
  BY DEF Crash, Fault, ForgetMemory, InForce, IsRevoked, Complete, RegistrySurvives,
         TreeInv, RevocationInv, Inv, RegistryInv, RegistryTypeOK
<1>2. \A q \in Proc : call'[q] = IF q \in P THEN Idle ELSE call[q]
  BY DEF Crash
<1>3. CASE Registered' = {} /\ call' = [q \in Proc |-> Idle]
  <2>1. TreeInv'
    BY <1>1, <1>3, RestartFromNothing
  <2>2. [a \in Registered |-> agents[a].parent]' = [a \in {} |-> None]
    BY <1>3
  <2>3. open' = [q \in Proc |-> {}]
    BY <1>3 DEF Idle
  <2>4. Complete => Promise!Restart
    BY <1>1, <2>2, <2>3 DEF Promise!Restart, history
  <2> QED
    BY <2>1, <2>4
<1>4. CASE UNCHANGED store /\ ~RedisEnabled
  <2>1. Instance = {i}
    BY <1>4, DeploymentAssumption
  <2>2. call' = [q \in Proc |-> Idle]
    BY <2>1, LifecycleAssumption DEF Crash
  <2>3. InForce' = {}
    BY <1>4 DEF Crash, ForgetMemory, InForce, IsRevoked,
                TreeInv, RevocationInv, Inv, RegistryInv, RegistryTypeOK
  <2> QED
    BY <1>1, <1>4, <2>2, <2>3, RestartFromNothing
<1>5. CASE UNCHANGED store /\ RedisEnabled
  <2>1. SameTree /\ agents' = agents /\ OneMoreInForce
    BY <1>1, <1>5, UnchangedSameTree DEF store, OneMoreInForce
  <2>2. \A q \in Proc : Orderly(call'[q], agents', targets', InForce')
    BY <1>1, <1>2, <1>5, <2>1, IdleIsOrderly DEF TreeInv, history
  <2>3. TreeInv'
    <3>1. InForce' \cup Registered' \subseteq UsedAgents' /\ RegistryTopDown'
      BY <1>1, <2>1, TopDownLater DEF TreeInv, SameTree, history
    <3> QED
      BY <2>2, <3>1 DEF TreeInv
  <2>4. open' = [q \in Proc |-> IF q \in P THEN {} ELSE open[q]]
    <3>1. Idle.known = {}
      BY DEF Idle
    <3> HIDE DEF P
    <3>2. \A q \in Proc : call'[q].known = IF q \in P THEN {} ELSE call[q].known
      BY <1>2, <3>1
    <3> QED
      BY <3>2
  <2>5. P \in SUBSET Proc
    OBVIOUS
  <2> HIDE DEF P
  <2>6. Promise!Abandon(P)
    BY <1>1, <2>4 DEF Promise!Abandon, history
  <2>7. [a \in Registered |-> agents[a].parent]' = [a \in Registered |-> agents[a].parent]
    BY <2>1 DEF SameTree
  <2>8. Promise!Work
    BY <1>1, <1>5, <2>5, <2>6, <2>7 DEF Promise!Work, history
  <2> QED
    BY <2>3, <2>8
<1> QED
  BY <1>3, <1>4, <1>5, CrashCases DEF TreeInv, RevocationInv

\* IDs are used once: whoever is registered has a key of its own, and the count
\* of the keys made for an agent never goes back.
LEMMA UsedStaysUsed ==
    ASSUME Inv, Registered \subseteq UsedAgents, [Next]_vars
    PROVE  StillUsed
<1>1. keysMade \in [Agent -> Nat] /\ Registered \subseteq Agent
  BY DEF Inv, CountsOK, StoreInv, StoreTypeOK, Registered
<1>2. ASSUME keysMade' = keysMade, Registered' \subseteq Registered
      PROVE  StillUsed
  BY <1>2 DEF StillUsed, UsedAgents
<1>3. ASSUME NEW a \in Agent, keysMade' = [keysMade EXCEPT ![a] = @ + 1], Registered' \subseteq Registered
      PROVE  StillUsed
  BY <1>1, <1>3 DEF StillUsed, UsedAgents
<1>4. ASSUME NEW a \in Agent, NEW parent, RegisterAgent(a, parent)
      PROVE  StillUsed
  <2> DEFINE rec == [id |-> a, parent |-> parent, key |-> <<a, 0>>, status |-> "active",
                     created |-> Cardinality(Registered)]
  <2>1. keysMade' = [keysMade EXCEPT ![a] = 1] /\ agents' = Put(agents, rec.id, rec)
    BY <1>4 DEF RegisterAgent, CreateAgent
  <2>2. rec.id = a
    OBVIOUS
  <2> HIDE DEF rec
  <2>3. Registered' = Registered \cup {a}
    BY <2>1, <2>2 DEF Put, Registered
  <2> QED
    BY <1>1, <2>1, <2>3 DEF StillUsed, UsedAgents
<1>5. ASSUME NEW i \in Instance, Crash(i)
      PROVE  StillUsed
  <2>1. keysMade' = keysMade
    BY <1>5 DEF Crash
  <2>2. Registered' \subseteq Registered
    BY <1>5, CrashCases DEF store, Registered
  <2> QED
    BY <1>2, <2>1, <2>2
<1>6. ASSUME NEW p \in Proc, Start(p) \/ Continue(p) \/ Fail(p)
      PROVE  StillUsed
  <2>1. Registered' = Registered
    <3>1. UNCHANGED store \/ UpdateAgent(Head(call[p].writes))
      BY <1>6 DEF Start, Continue, Fail, At, SuspendRead, SuspendWrite, RotateBegin, RotateRead,
         RotateRefused, RotateWrite, RotateInvalidate, RevokeBegin, ListStep, RevokeRead,
         RevokeWrite, ReadChildren, RefuseDepth, WriteChild, WriteRedis, WriteMemory, ListFails,
         ReadFails, WriteFails, RedisFails
    <3> QED
      BY <3>1 DEF UpdateAgent, store, Registered
  <2>2. CASE RotateRead(p)
    <3>1. call[p].arg \in Registered
      BY <2>2 DEF RotateRead, At, Inv, CallsOK, CallOK
    <3> QED
      BY <1>1, <1>3, <2>1, <2>2, <3>1 DEF RotateRead
  <2>3. CASE ~RotateRead(p)
    <3>1. keysMade' = keysMade
      BY <1>6, <2>3 DEF Start, Continue, Fail, SuspendRead, SuspendWrite, RotateBegin,
         RotateRefused, RotateWrite, RotateInvalidate, RevokeBegin, ListStep, RevokeRead,
         RevokeWrite, ReadChildren, RefuseDepth, WriteChild, WriteRedis, WriteMemory, ListFails,
         ReadFails, WriteFails, RedisFails
    <3> QED
      BY <1>2, <2>1, <3>1
  <2> QED
    BY <2>2, <2>3
<1>7. CASE UNCHANGED vars
  BY <1>2, <1>7 DEF vars, Registered
<1> QED
  BY <1>4, <1>5, <1>6, <1>7 DEF Next

-----------------------------------------------------------------------------
(* The theorems                                                              *)

LEMMA TreeInit == Init => TreeInv /\ Promise!ServiceInit
<1> SUFFICES ASSUME Init PROVE TreeInv /\ Promise!ServiceInit
  OBVIOUS
<1>1. /\ agents = [a \in {} |-> None] /\ Registered = {}
      /\ call = [p \in Proc |-> Idle] /\ targets = {} /\ acked = {}
  BY DEF Init, StoreInit, Registered
<1>2. InForce = {}
  BY DeploymentAssumption DEF Init, RegistryInit, InForce, IsRevoked
<1>3. TreeInv
  BY <1>1, <1>2, RevocationInit, IdleIsOrderly DEF TreeInv, RegistryTopDown
<1>4. [p \in Proc |-> call[p].known] = [p \in Proc |-> {}]
  BY <1>1 DEF Idle
<1>5. [a \in Registered |-> agents[a].parent] = [a \in {} |-> None]
  BY <1>1
<1> QED
  BY <1>1, <1>2, <1>3, <1>4, <1>5 DEF Promise!ServiceInit

\* Every step keeps the invariant and, where listings are complete, is a step of
\* the service or none.
LEMMA TreeNext ==
    TreeInv /\ [Next]_vars => TreeInv' /\ (Complete => [Promise!ServiceNext]_(Promise!serviceVars))
<1> SUFFICES ASSUME TreeInv, [Next]_vars
             PROVE  TreeInv' /\ (Complete => Promise!ServiceNext \/ UNCHANGED Promise!serviceVars)
  OBVIOUS
<1>1. RevocationInv' /\ StillUsed
  BY RevocationNext, UsedStaysUsed DEF TreeInv, RevocationInv
<1>2. ASSUME NEW p \in Proc, Start(p) \/ Continue(p) \/ Fail(p)
      PROVE  TreeInv' /\ (Complete => Promise!ServiceNext)
  <2>1. CASE Start(p)
    <3>1. PICK a \in Agent : \/ SuspendRead(p, a) \/ RotateBegin(p, a)
                             \/ \E cascade \in BOOLEAN : RevokeBegin(p, a, cascade)
      BY <2>1 DEF Start
    <3>2. CASE SuspendRead(p, a) \/ RotateBegin(p, a)
      BY <1>1, <3>2, SuspendIsWork, RotateIsWork DEF Promise!ServiceNext
    <3>3. CASE \E cascade \in BOOLEAN : RevokeBegin(p, a, cascade)
      <4>1. TreeInv' /\ Promise!Ask(p, a)
        BY <1>1, <3>3, RevokeBeginIsAsk
      <4> QED
        BY <4>1 DEF Promise!ServiceNext
    <3> QED
      BY <3>1, <3>2, <3>3
  <2>2. CASE Continue(p)
    <3>1. TreeInv' /\ (Complete => Promise!Work)
      BY <1>1, <2>2, SuspendIsWork, RotateIsWork, ListStepIsWork, WalkIsWork, EndedCallIsWork,
         WriteRedisIsWork, WriteMemoryIsWork DEF Continue
    <3> QED
      BY <3>1 DEF Promise!ServiceNext
  <2>3. CASE Fail(p)
    <3>1. TreeInv' /\ (Complete => Promise!Work)
      BY <1>1, <2>3, ListFailsIsWork, EndedCallIsWork DEF Fail
    <3> QED
      BY <3>1 DEF Promise!ServiceNext
  <2> QED
    BY <1>2, <2>1, <2>2, <2>3
<1>3. ASSUME NEW a \in Agent, NEW parent \in Agent \cup {None}, RegisterAgent(a, parent)
      PROVE  TreeInv' /\ Promise!ServiceNext
  <2>1. TreeInv' /\ Promise!Register(a, parent)
    BY <1>1, <1>3, RegisterIsRegister
  <2> QED
    BY <2>1 DEF Promise!ServiceNext
<1>4. ASSUME NEW i \in Instance, Crash(i)
      PROVE  TreeInv' /\ (Complete => Promise!ServiceNext)
  BY <1>1, <1>4, CrashIsWork DEF Promise!ServiceNext
<1>5. CASE UNCHANGED vars
  <2>1. SameTree /\ call' = call /\ UNCHANGED history /\ agents' = agents
    BY <1>5, UnchangedSameTree DEF vars, store, history
  <2>2. InForce' = InForce /\ OneMoreInForce
    BY <1>5, UnchangedRegistryGrows DEF vars, registry, InForce, IsRevoked
  <2>3. TreeInv'
    BY <1>1, <2>1, <2>2, OrderlyLater, TopDownLater DEF TreeInv, SameTree, history
  <2>4. UNCHANGED Promise!serviceVars
    BY <2>1, <2>2 DEF Promise!serviceVars, history, Registered
  <2> QED
    BY <2>3, <2>4
<1> QED
  BY <1>2, <1>3, <1>4, <1>5 DEF Next

\* An agent that no request named is never in force before its parent: a cascade
\* that fails half way (the loop over toRevoke in RevokeAgent of
\* handlers_identity.go) leaves no agent that delegates to a revoked one without
\* being revoked itself; for any tree, any failures and incomplete listings too.
THEOREM RegistryIsTopDown == Spec => []RegistryTopDown
<1>1. Init => TreeInv
  BY TreeInit
<1>2. TreeInv /\ [Next]_vars => TreeInv'
  BY TreeNext
<1>3. TreeInv => RegistryTopDown
  BY DEF TreeInv
<1> QED
  BY <1>1, <1>2, <1>3, PTL DEF Spec

\* The lifecycle implements what RevokeAgent of handlers_identity.go promises:
\* every behaviour of handlers, stores, registry and cache is one of Revocation,
\* unless an instance without Redis restarts and its map is gone.
THEOREM LifecycleKeepsPromise ==
    ASSUME "list" \notin Failures, ListsAreComplete, RegistrySurvives
    PROVE  Spec => KeepsPromise
<1>1. Complete
  BY DEF Complete
<1>2. Init => TreeInv /\ Promise!ServiceInit
  BY TreeInit
<1>3. TreeInv /\ [Next]_vars => TreeInv' /\ [Promise!ServiceNext]_(Promise!serviceVars)
  BY <1>1, TreeNext
<1> QED
  BY <1>2, <1>3, PTL DEF Spec, KeepsPromise, Promise!ServiceSpec

-----------------------------------------------------------------------------
(* What the promise is worth                                                 *)

\* What Revocation says implies what is checked of the handlers: AckedIsInForce
\* and RegistryTopDown hold of whatever implements it.
PromiseInv == AckedIsInForce /\ RegistryTopDown

LEMMA PromiseInit == Promise!ServiceInit => PromiseInv
<1> SUFFICES ASSUME Promise!ServiceInit PROVE PromiseInv
  OBVIOUS
<1>1. acked = {} /\ InForce = {}
  BY DEF Promise!ServiceInit
<1> QED
  BY <1>1 DEF PromiseInv, AckedIsInForce, RegistryTopDown

LEMMA PromiseStep ==
    ASSUME PromiseInv, Promise!ServiceNext \/ UNCHANGED Promise!serviceVars
    PROVE  PromiseInv' /\ InForce \subseteq InForce' /\ acked \subseteq acked'
<1> DEFINE parent == [a \in Registered |-> agents[a].parent]
           open == [p \in Proc |-> call[p].known]
<1>1. /\ acked \subseteq InForce
      /\ \A a \in (InForce \cap Registered) \ targets : parent[a] \in InForce
  BY DEF PromiseInv, AckedIsInForce, RegistryTopDown
<1>2. DOMAIN parent = Registered /\ DOMAIN parent' = Registered'
  OBVIOUS
<1> DEFINE Grown ==
           /\ targets \subseteq targets' /\ acked \subseteq acked'
           /\ InForce \subseteq InForce' /\ acked' \subseteq InForce'
           /\ \A a \in InForce' \cap Registered' :
                /\ a \in Registered /\ parent'[a] = parent[a]
                /\ a \in InForce \/ a \in targets \/ parent[a] \in InForce
<1>3. Grown
  <2>1. ASSUME NEW a \in Agent, NEW above \in Agent \cup {None}, Promise!Register(a, above)
        PROVE  Grown
    <3>1. /\ a \notin Registered /\ a \notin InForce
          /\ parent' = [x \in Registered \cup {a} |-> IF x = a THEN above ELSE parent[x]]
          /\ targets' = targets /\ InForce' = InForce /\ acked' = acked
      BY <1>2, <2>1 DEF Promise!Register
    <3> HIDE DEF parent
    <3> QED
      BY <1>1, <1>2, <3>1
  <2>2. ASSUME NEW p \in Proc, NEW a \in Agent, Promise!Ask(p, a)
        PROVE  Grown
    <3>1. targets' = targets \cup {a} /\ parent' = parent /\ InForce' = InForce /\ acked' = acked
      BY <2>2 DEF Promise!Ask
    <3> HIDE DEF parent
    <3> QED
      BY <1>1, <1>2, <3>1
  <2>3. CASE Promise!Work
    <3>1. parent' = parent /\ targets' = targets
      BY <2>3 DEF Promise!Work
    <3>2. InForce' = InForce \/ \E a \in Registered : /\ a \in targets \/ parent[a] \in InForce
                                                     /\ InForce' = InForce \cup {a}
      BY <2>3 DEF Promise!Work, Promise!Enforce
    <3>3. acked' = acked \/ \E p \in Proc : open[p] \subseteq InForce' /\ acked' = acked \cup open[p]
      BY <2>3 DEF Promise!Work, Promise!Abandon, Promise!Answer
    <3> HIDE DEF parent, open
    <3> QED
      BY <1>1, <1>2, <3>1, <3>2, <3>3
  <2>4. CASE Promise!Restart
    <3>1. /\ parent' = [a \in {} |-> None]
          /\ targets' = targets /\ InForce' = InForce /\ acked' = acked
      BY <2>4 DEF Promise!Restart
    <3> HIDE DEF parent
    <3>2. Registered' = {}
      BY <1>2, <3>1
    <3> QED
      BY <1>1, <3>1, <3>2
  <2>5. CASE UNCHANGED Promise!serviceVars
    <3>1. parent' = parent /\ targets' = targets /\ InForce' = InForce /\ acked' = acked
      BY <2>5 DEF Promise!serviceVars
    <3> HIDE DEF parent
    <3> QED
      BY <1>1, <1>2, <3>1
  <2> QED
    BY <2>1, <2>2, <2>3, <2>4, <2>5 DEF Promise!ServiceNext
<1>4. AckedIsInForce'
  BY <1>3 DEF AckedIsInForce
<1>5. ASSUME NEW a \in (InForce' \cap Registered') \ targets'
      PROVE  agents'[a].parent \in InForce'
  <2>1. /\ a \in Registered /\ parent'[a] = parent[a] /\ parent[a] \in InForce
    BY <1>1, <1>3
  <2> QED
    BY <1>3, <2>1
<1> QED
  BY <1>3, <1>4, <1>5 DEF PromiseInv, RegistryTopDown

\* The abstract specification says what it is meant to: of whatever keeps the
\* promise of POST /agents/{id}/revoke, an answered revocation is in force for all
\* it is about, the registry is filled from the top of the tree, and neither an
\* answer nor a revocation is ever taken back.
THEOREM PromiseSuffices ==
    KeepsPromise =>
        /\ [](AckedIsInForce /\ RegistryTopDown)
        /\ [][InForce \subseteq InForce' /\ acked \subseteq acked']_(Promise!serviceVars)
<1>1. PromiseInv /\ [Promise!ServiceNext]_(Promise!serviceVars)
        => PromiseInv' /\ [InForce \subseteq InForce' /\ acked \subseteq acked']_(Promise!serviceVars)
  BY PromiseStep
<1>2. PromiseInv => AckedIsInForce /\ RegistryTopDown
  BY DEF PromiseInv
<1> QED
  BY <1>1, <1>2, PromiseInit, PTL DEF KeepsPromise, Promise!ServiceSpec

-----------------------------------------------------------------------------
(* What holds however little a listing returns                               *)

\* A map only gains names while its instance runs.
LEMMA RememberGrows ==
    ASSUME Inv, NEW i \in Instance, NEW a, Remember(i, a)
    PROVE  InForce \subseteq InForce'
<1>1. memory \in [Instance -> SUBSET Name]
  BY DEF Inv, RegistryInv, RegistryTypeOK
<1>2. redis' = redis /\ \A j \in Instance : memory[j] \subseteq memory'[j]
  BY <1>1 DEF Remember
<1> QED
  BY <1>2, InForceGrows

\* No request and no failed call takes a revocation out of force; a restart does
\* where the revocations are in the memory of the only instance, and no request
\* survives it.
LEMMA RegistryOnlyGrows ==
    ASSUME Inv, [Next]_vars
    PROVE  \/ InForce \subseteq InForce'
           \/ call' = [p \in Proc |-> Idle] /\ ~RegistrySurvives
<1>2. CASE UNCHANGED registry
  BY <1>2, InForceGrows DEF registry
<1>3. ASSUME NEW a, SetRedis(a)
      PROVE  InForce \subseteq InForce'
  BY <1>3, InForceGrows DEF SetRedis
<1>4. ASSUME NEW i \in Instance, NEW a, Remember(i, a)
      PROVE  InForce \subseteq InForce'
  BY <1>4, RememberGrows
<1>5. ASSUME NEW i \in Instance, Crash(i)
      PROVE  InForce \subseteq InForce' \/ (call' = [p \in Proc |-> Idle] /\ ~RegistrySurvives)
  <2>1. CASE RedisEnabled
    BY <1>5, <2>1, InForceGrows DEF Crash, ForgetMemory
  <2>2. CASE ~RedisEnabled
    <3>1. \A p \in Proc : Host[p] = i
      BY <2>2, DeploymentAssumption, LifecycleAssumption
    <3> QED
      BY <1>5, <2>2, <3>1 DEF Crash, Fault, RegistrySurvives
  <2> QED
    BY <2>1, <2>2
<1>6. ASSUME NEW p \in Proc, Start(p)
      PROVE  UNCHANGED registry
  BY <1>6 DEF Start, SuspendRead, RotateBegin, RevokeBegin
<1>7. ASSUME NEW p \in Proc, Continue(p)
      PROVE  UNCHANGED registry \/ (\E a : SetRedis(a)) \/ (\E i \in Instance, a \in Agent \cup {Head(call[p].ids)} : Remember(i, a))
  <2>1. Host[p] \in Instance
    BY LifecycleAssumption
  <2>2. WriteRedis(p) => SetRedis(Head(call[p].ids))
    BY DEF WriteRedis
  <2>3. WriteMemory(p) => Remember(Host[p], Head(call[p].ids))
    BY DEF WriteMemory
  <2> QED
    BY <1>7, <2>1, <2>2, <2>3
    DEF Continue, SuspendWrite, RotateRead, RotateRefused, RotateWrite, RotateInvalidate, ListStep,
        RevokeRead, RevokeWrite, ReadChildren, RefuseDepth, WriteChild
<1>8. ASSUME NEW p \in Proc, Fail(p)
      PROVE  UNCHANGED registry \/ \E a : SetRedis(a)
  BY <1>8 DEF Fail, ListFails, ReadFails, WriteFails, RedisFails
<1>9. ASSUME NEW a, NEW parent, RegisterAgent(a, parent)
      PROVE  UNCHANGED registry
  BY <1>9 DEF RegisterAgent
<1>10. UNCHANGED vars => UNCHANGED registry
  BY DEF vars, registry
<1> QED
  BY <1>2, <1>3, <1>4, <1>5, <1>6, <1>7, <1>8, <1>9, <1>10 DEF Next

\* A revocation that ends with 200 has put the agent it names in force.
AnswerRevokesNamed ==
    [][\A p \in Proc : WriteMemory(p) /\ call'[p].pc = "idle" => call[p].arg \in InForce']_vars

\* The agent the request names is in the list until it is in force.
NamedIsListed(c, F) == c.pc \in Revoking => c.arg \in ToSet(c.ids) \cup F

NamedInv == Inv /\ \A p \in Proc : NamedIsListed(call[p], InForce)

\* A step of process p alone, which has request c to serve after it.
LEMMA GoKeepsNamed ==
    ASSUME NamedInv, Inv', InForce \subseteq InForce', NEW p \in Proc, NEW c, Go(p, c),
           NamedIsListed(c, InForce')
    PROVE  NamedInv'
<1>1. call \in [Proc -> Call]
  BY DEF NamedInv, Inv, CallsOK
<1>2. ASSUME NEW q \in Proc
      PROVE  NamedIsListed(call'[q], InForce')
  <2>1. CASE q = p
    BY <1>1, <2>1 DEF Go
  <2>2. CASE q # p
    <3>1. call'[q] = call[q] /\ NamedIsListed(call[q], InForce)
      BY <1>1, <2>2 DEF Go, NamedInv
    <3> QED
      BY <3>1 DEF NamedIsListed
  <2> QED
    BY <2>1, <2>2
<1> QED
  BY <1>2 DEF NamedInv

LEMMA IdleNamesNobody == \A F : NamedIsListed(Idle, F)
BY DEF NamedIsListed, Idle, Revoking

\* A step that keeps the agent named and the list.
LEMMA SameListKeepsNamed ==
    ASSUME NamedInv, Inv', InForce \subseteq InForce', NEW p \in Proc, NEW c, Go(p, c),
           call[p].pc \in Revoking, c.arg = call[p].arg, c.ids = call[p].ids
    PROVE  NamedInv'
<1>1. NamedIsListed(c, InForce')
  BY DEF NamedInv, NamedIsListed
<1> QED
  BY <1>1, GoKeepsNamed

LEMMA StartKeepsNamed ==
    ASSUME NamedInv, Inv', InForce \subseteq InForce', NEW p \in Proc, Start(p)
    PROVE  NamedInv'
<1>1. ASSUME NEW a, SuspendRead(p, a) PROVE NamedInv'
  <2> DEFINE c == [Idle EXCEPT !.pc = "suspend", !.arg = a,
                               !.writes = <<[agents[a] EXCEPT !.status = "suspended"]>>]
  <2>1. c.pc \notin Revoking
    BY DEF Idle, Revoking
  <2>2. Go(p, c)
    BY <1>1 DEF SuspendRead
  <2> HIDE DEF c
  <2> QED
    BY <2>1, <2>2, GoKeepsNamed DEF NamedIsListed
<1>2. ASSUME NEW a, RotateBegin(p, a) PROVE NamedInv'
  <2> DEFINE c == [Idle EXCEPT !.pc = "rotateRead", !.arg = a, !.oldKey = agents[a].key]
  <2>1. c.pc \notin Revoking
    BY DEF Idle, Revoking
  <2>2. Go(p, c)
    BY <1>2 DEF RotateBegin
  <2> HIDE DEF c
  <2> QED
    BY <2>1, <2>2, GoKeepsNamed DEF NamedIsListed
<1>3. ASSUME NEW a, NEW cascade, RevokeBegin(p, a, cascade) PROVE NamedInv'
  <2> DEFINE queue == IF cascade THEN <<[id |-> a, depth |-> 0]>> ELSE <<>>
             known == {a} \cup IF cascade THEN Subtree(a) ELSE {}
             c == [Idle EXCEPT !.pc = IF cascade THEN "list" ELSE "revokeRead",
                               !.arg = a, !.cascade = cascade, !.ids = <<a>>,
                               !.queue = queue, !.known = known]
  <2>1. Go(p, c)
    BY <1>3 DEF RevokeBegin
  <2>2. c.arg = a /\ c.ids = <<a>>
    BY DEF Idle
  <2>3. a \in ToSet(<<a>>)
    <3>1. 1 \in DOMAIN <<a>> /\ <<a>>[1] = a
      OBVIOUS
    <3> QED
      BY <3>1 DEF ToSet
  <2> HIDE DEF c
  <2> QED
    BY <2>1, <2>2, <2>3, GoKeepsNamed DEF NamedIsListed
<1> QED
  BY <1>1, <1>2, <1>3 DEF Start

LEMMA ListKeepsNamed ==
    ASSUME NamedInv, Inv', InForce \subseteq InForce', NEW p \in Proc, ListStep(p) \/ ListFails(p)
    PROVE  NamedInv'
<1> DEFINE old == call[p]
<1>1. old \in Call /\ old.pc = "list" /\ old.ids \in Seq(Agent)
  BY DEF NamedInv, Inv, CallsOK, Call, ListStep, ListFails, At
<1>2. old.arg \in ToSet(old.ids) \cup InForce
  BY <1>1 DEF NamedInv, NamedIsListed, Revoking
<1>3. CASE ListStep(p)
  <2> DEFINE cur == Head(old.queue)
             rest(s) == Dequeue(old.queue) \o Items(s, cur.depth + 1)
             next(s) == [old EXCEPT !.ids = Collect(@, s), !.queue = rest(s),
                                    !.pc = IF rest(s) = <<>> THEN "revokeRead" ELSE "list"]
  <2>1. PICK s \in ChildLists(cur.id) : Go(p, next(s))
    BY <1>3 DEF ListStep
  <2>2. next(s).arg = old.arg /\ next(s).ids = Collect(old.ids, s)
    BY <1>1 DEF Call
  <2> HIDE DEF next
  <2>3. ToSet(old.ids) \subseteq ToSet(Collect(old.ids, s))
    <3> DEFINE found == [n \in DOMAIN s |-> s[n].id]
    <3>1. found \in Seq(Agent)
      BY <2>1, 0 \in Nat, ItemsAreOK DEF NamedInv, Inv
    <3>2. Collect(old.ids, s) = old.ids \o found
      BY DEF Collect
    <3> HIDE DEF found
    <3> QED
      BY <1>1, <3>1, <3>2, ToSetOfConcat
  <2> QED
    BY <1>2, <2>1, <2>2, <2>3, GoKeepsNamed DEF NamedIsListed
<1>4. CASE ListFails(p)
  <2> DEFINE c == [old EXCEPT !.pc = "revokeRead", !.ids = <<old.arg>>, !.queue = <<>>]
  <2>1. Go(p, c)
    BY <1>4 DEF ListFails
  <2>2. c.arg = old.arg /\ c.ids = <<old.arg>>
    BY <1>1 DEF Call
  <2>3. old.arg \in ToSet(<<old.arg>>)
    <3>1. 1 \in DOMAIN <<old.arg>> /\ <<old.arg>>[1] = old.arg
      OBVIOUS
    <3> QED
      BY <3>1 DEF ToSet
  <2> HIDE DEF c
  <2> QED
    BY <2>1, <2>2, <2>3, GoKeepsNamed DEF NamedIsListed
<1> QED
  BY <1>3, <1>4

\* The steps between the listing and the registry.
LEMMA WalkKeepsNamed ==
    ASSUME NamedInv, Inv', InForce \subseteq InForce', NEW p \in Proc,
           RevokeRead(p) \/ RevokeWrite(p) \/ ReadChildren(p) \/ WriteChild(p) \/ WriteRedis(p)
    PROVE  NamedInv'
<1> DEFINE old == call[p]
<1>1. old \in Call
  BY DEF NamedInv, Inv, CallsOK
<1>2. old.pc \in Revoking
  BY DEF RevokeRead, RevokeWrite, ReadChildren, WriteChild, WriteRedis, At, Revoking
<1>3. ASSUME NEW c \in Call, Go(p, Advance(c)), c.arg = old.arg, c.ids = old.ids
      PROVE  NamedInv'
  BY <1>2, <1>3, AdvanceKeepsFields, SameListKeepsNamed
<1>4. CASE RevokeRead(p)
  <2> DEFINE c == [old EXCEPT !.pc = "revokeWrite", !.writes = <<Revoked(agents[old.arg])>>]
  <2>1. Go(p, c) /\ c.arg = old.arg /\ c.ids = old.ids
    BY <1>1, <1>4 DEF RevokeRead, Call
  <2> HIDE DEF c
  <2> QED
    BY <1>2, <2>1, SameListKeepsNamed
<1>5. CASE RevokeWrite(p)
  <2> DEFINE c == [old EXCEPT !.pc = IF old.cascade THEN "children" ELSE Publish, !.writes = <<>>,
                              !.queue = IF old.cascade THEN <<[id |-> old.arg, depth |-> 0]>> ELSE <<>>]
  <2>1. Go(p, c) /\ c.arg = old.arg /\ c.ids = old.ids
    BY <1>1, <1>5 DEF RevokeWrite, Call
  <2> HIDE DEF c
  <2> QED
    BY <1>2, <2>1, SameListKeepsNamed
<1>6. CASE ReadChildren(p)
  <2> DEFINE next(s) == [old EXCEPT !.queue = Dequeue(@) \o Items(s, Head(old.queue).depth + 1),
                                    !.writes = [n \in DOMAIN s |-> Revoked(s[n])]]
  <2>1. PICK s : Go(p, Advance(next(s)))
    BY <1>6 DEF ReadChildren
  <2>2. next(s).arg = old.arg /\ next(s).ids = old.ids
    BY <1>1 DEF Call
  <2>3. Advance(next(s)).arg = next(s).arg /\ Advance(next(s)).ids = next(s).ids
    BY <1>1 DEF Advance, Call
  <2> HIDE DEF next
  <2> QED
    BY <1>2, <2>1, <2>2, <2>3, SameListKeepsNamed
<1>7. CASE WriteChild(p)
  <2> DEFINE c == [old EXCEPT !.writes = Tail(@)]
  <2>1. Go(p, Advance(c)) /\ c.arg = old.arg /\ c.ids = old.ids
    BY <1>1, <1>7 DEF WriteChild, Call
  <2>2. Advance(c).arg = c.arg /\ Advance(c).ids = c.ids
    BY <1>1 DEF Advance, Call
  <2> HIDE DEF c
  <2> QED
    BY <1>2, <2>1, <2>2, SameListKeepsNamed
<1>8. CASE WriteRedis(p)
  <2> DEFINE c == [old EXCEPT !.pc = "remember"]
  <2>1. Go(p, c) /\ c.arg = old.arg /\ c.ids = old.ids
    BY <1>1, <1>8 DEF WriteRedis, Call
  <2> HIDE DEF c
  <2> QED
    BY <1>2, <2>1, SameListKeepsNamed
<1> QED
  BY <1>4, <1>5, <1>6, <1>7, <1>8

\* Of the agents in the list, the head is in force after it is remembered.
LEMMA HeadInForce ==
    ASSUME Inv, NEW p \in Proc, WriteMemory(p)
    PROVE  /\ Head(call[p].ids) \in InForce'
           /\ ToSet(call[p].ids) \subseteq {Head(call[p].ids)} \cup ToSet(Tail(call[p].ids))
<1> DEFINE ids == call[p].ids
<1>1. ids \in Seq(Agent) /\ ids # <<>> /\ (RedisEnabled => ids[1] \in redis)
  BY DEF WriteMemory, At, Inv, CallsOK, CallOK, Call
<1>2. Head(ids) \in Agent /\ Head(ids) = ids[1] /\ Tail(ids) \in Seq(Agent)
  BY <1>1
<1>3. ToSet(ids) \subseteq {Head(ids)} \cup ToSet(Tail(ids))
  <2> SUFFICES ASSUME NEW n \in DOMAIN ids, n # 1 PROVE ids[n] \in ToSet(Tail(ids))
    BY <1>2 DEF ToSet
  <2>1. n - 1 \in DOMAIN Tail(ids) /\ Tail(ids)[n - 1] = ids[n]
    BY <1>1
  <2> QED
    BY <2>1 DEF ToSet
<1> DEFINE a == Head(ids)
<1>4. redis' = redis /\ memory' = [memory EXCEPT ![Host[p]] = @ \cup {a}]
  BY DEF WriteMemory, Remember
<1>5. memory \in [Instance -> SUBSET Name] /\ Host[p] \in Instance
  BY LifecycleAssumption DEF Inv, RegistryInv, RegistryTypeOK
<1>6. a \in Agent /\ (RedisEnabled => a \in redis)
  BY <1>1, <1>2
<1> HIDE DEF a
<1>7. a \in InForce'
  <2>1. CASE RedisEnabled
    BY <1>4, <1>6, <2>1 DEF InForce, IsRevoked
  <2>2. CASE ~RedisEnabled
    BY <1>4, <1>5, <1>6, <2>2, DeploymentAssumption DEF InForce, IsRevoked
  <2> QED
    BY <2>1, <2>2
<1> QED
  BY <1>3, <1>7 DEF a

LEMMA WriteMemoryKeepsNamed ==
    ASSUME NamedInv, Inv', InForce \subseteq InForce', NEW p \in Proc, WriteMemory(p)
    PROVE  /\ NamedInv'
           /\ call'[p].pc = "idle" => call[p].arg \in InForce'
<1> DEFINE old == call[p]
           rest == Tail(old.ids)
           c == [old EXCEPT !.pc = Publish, !.ids = rest]
<1>1. old \in Call /\ old.pc = "remember" /\ call \in [Proc -> Call]
  BY DEF WriteMemory, At, NamedInv, Inv, CallsOK
<1>2. old.arg \in ToSet(rest) \cup InForce'
  <2>1. old.arg \in ToSet(old.ids) \cup InForce
    BY <1>1 DEF NamedInv, NamedIsListed, Revoking
  <2> QED
    BY <2>1, HeadInForce DEF NamedInv
<1>3. IF rest = <<>> THEN Respond(p) ELSE Go(p, c)
  BY DEF WriteMemory
<1>4. c.pc = Publish /\ c.arg = old.arg /\ c.ids = rest
  BY <1>1 DEF Call
<1> HIDE DEF rest, c
<1>5. CASE rest = <<>>
  <2>1. old.arg \in InForce'
    BY <1>2, <1>5 DEF ToSet
  <2>2. NamedInv'
    BY <1>3, <1>5, IdleNamesNobody, GoKeepsNamed DEF Respond
  <2> QED
    BY <2>1, <2>2
<1>6. CASE rest # <<>>
  <2>1. Go(p, c) /\ NamedIsListed(c, InForce')
    BY <1>2, <1>3, <1>4, <1>6 DEF NamedIsListed
  <2>2. NamedInv'
    BY <2>1, GoKeepsNamed
  <2>3. call'[p].pc # "idle"
    BY <1>1, <1>4, <2>1 DEF Go, Publish
  <2> QED
    BY <2>2, <2>3
<1> QED
  BY <1>5, <1>6

\* The steps of the other requests, and those that end one.
LEMMA OthersKeepNamed ==
    ASSUME NamedInv, Inv', InForce \subseteq InForce', NEW p \in Proc,
           \/ SuspendWrite(p) \/ RotateRead(p) \/ RotateRefused(p) \/ RotateWrite(p)
           \/ RotateInvalidate(p) \/ RefuseDepth(p)
           \/ ReadFails(p) \/ WriteFails(p) \/ RedisFails(p)
    PROVE  NamedInv'
<1>1. call[p] \in Call
  BY DEF NamedInv, Inv, CallsOK
<1>2. CASE Respond(p)
  BY <1>2, IdleNamesNobody, GoKeepsNamed DEF Respond
<1>3. CASE RotateRead(p)
  <2> DEFINE a == call[p].arg
             c == [call[p] EXCEPT !.pc = "rotateWrite", !.replaced = agents[a].key,
                                  !.writes = <<[agents[a] EXCEPT !.key = <<a, keysMade[a]>>]>>]
  <2>1. Go(p, c)
    BY <1>3 DEF RotateRead
  <2>2. c.pc \notin Revoking
    BY <1>1 DEF Call, Revoking
  <2> HIDE DEF c
  <2> QED
    BY <2>1, <2>2, GoKeepsNamed DEF NamedIsListed
<1>4. CASE RotateWrite(p)
  <2> DEFINE c == [call[p] EXCEPT !.pc = "invalidate", !.writes = <<>>]
  <2>1. Go(p, c)
    BY <1>4 DEF RotateWrite
  <2>2. c.pc \notin Revoking
    BY <1>1 DEF Call, Revoking
  <2> HIDE DEF c
  <2> QED
    BY <2>1, <2>2, GoKeepsNamed DEF NamedIsListed
<1> QED
  BY <1>2, <1>3, <1>4
  DEF SuspendWrite, RotateRefused, RotateInvalidate, RefuseDepth, ReadFails, WriteFails, RedisFails

LEMMA NamedNext ==
    ASSUME NamedInv, [Next]_vars
    PROVE  /\ NamedInv'
           /\ \A p \in Proc : WriteMemory(p) /\ call'[p].pc = "idle" => call[p].arg \in InForce'
<1>1. Inv'
  BY NextInv DEF NamedInv
<1>2. ASSUME InForce \subseteq InForce'
      PROVE  NamedInv'
  <2>1. ASSUME NEW p \in Proc, Start(p) \/ Continue(p) \/ Fail(p)
        PROVE  NamedInv'
    BY <1>1, <1>2, <2>1, StartKeepsNamed, ListKeepsNamed, WalkKeepsNamed, WriteMemoryKeepsNamed,
       OthersKeepNamed
    DEF Continue, Fail
  <2>2. ASSUME \A p \in Proc : call'[p] \in {call[p], Idle}
        PROVE  NamedInv'
    <3> SUFFICES ASSUME NEW p \in Proc PROVE NamedIsListed(call'[p], InForce')
      BY <1>1 DEF NamedInv
    <3>1. NamedIsListed(call[p], InForce')
      BY <1>2 DEF NamedInv, NamedIsListed
    <3> QED
      BY <2>2, <3>1, IdleNamesNobody
  <2>3. ASSUME NEW i \in Instance, Crash(i)
        PROVE  NamedInv'
    BY <2>2, <2>3 DEF Crash
  <2>4. ASSUME call' = call
        PROVE  NamedInv'
    BY <2>2, <2>4
  <2> QED
    BY <2>1, <2>3, <2>4 DEF Next, RegisterAgent, vars
<1>3. ASSUME call' = [p \in Proc |-> Idle]
      PROVE  NamedInv'
  BY <1>1, <1>3, IdleNamesNobody DEF NamedInv
<1>4. ASSUME NEW p \in Proc, WriteMemory(p), call'[p].pc = "idle"
      PROVE  call[p].arg \in InForce'
  <2>1. InForce \subseteq InForce'
    BY <1>4, RememberGrows, LifecycleAssumption DEF WriteMemory, NamedInv
  <2> QED
    BY <1>1, <1>4, <2>1, WriteMemoryKeepsNamed
<1> QED
  BY <1>2, <1>3, <1>4, RegistryOnlyGrows DEF NamedInv

\* Even where the listing of the descendants failed, which RevokeAgent of
\* handlers_identity.go does not report, or returned a part of them, a revocation
\* answered 200 is in force for the agent it names.
THEOREM NamedAgentIsRevoked == Spec => AnswerRevokesNamed
<1>1. Init => NamedInv
  BY InitInv, IdleNamesNobody DEF NamedInv, Init
<1>2. NamedInv /\ [Next]_vars
        => NamedInv' /\ [\A p \in Proc : WriteMemory(p) /\ call'[p].pc = "idle"
                                          => call[p].arg \in InForce']_vars
  BY NamedNext
<1> QED
  BY <1>1, <1>2, PTL DEF Spec, AnswerRevokesNamed
-----------------------------------------------------------------------------
(* The walks down the tree                                                   *)

\* The agents form a forest: nobody is, by however many steps, an ancestor of
\* itself. In any set of agents somebody's parent is outside.
Forest ==
    /\ \A a \in Registered : agents[a].parent \in Registered \cup {None}
    /\ \A S \in SUBSET Registered : S # {} => \E a \in S : agents[a].parent \notin S

Distinct(s) == \A m, n \in DOMAIN s : s[m] = s[n] => m = n

\* x is n levels below a, A being the records.
Below(a, x, n, A) ==
    \E up \in [0..n -> DOMAIN A] :
        /\ up[0] = x /\ up[n] = a
        /\ \A k \in 0..(n - 1) : A[up[k]].parent = up[k + 1]

\* ListDescendants under way: the queue is the rest of the list, and who is in the
\* list, but for the agent named, is a child of one that was taken from the queue.
ListTree(c, A) ==
    LET done == Len(c.ids) - Len(c.queue) IN
    /\ c.ids[1] = c.arg
    /\ done >= 0
    /\ \A n \in 2..Len(c.ids) : \E m \in 1..done : A[c.ids[n]].parent = c.ids[m]
    /\ \A k \in DOMAIN c.queue : c.queue[k].id = c.ids[done + k]

Walk(c, A) ==
    /\ \A n \in DOMAIN c.ids : c.ids[n] \in DOMAIN A
    /\ Distinct(c.ids)
    /\ \A n \in DOMAIN c.queue : Below(c.arg, c.queue[n].id, c.queue[n].depth, A)
    /\ c.pc = "list" => ListTree(c, A)

WalkInv == RevocationInv /\ Forest /\ \A p \in Proc : Walk(call[p], agents)

-----------------------------------------------------------------------------
(* Lemmas about the tree and the walks                                       *)

\* A registration apart, and a restart that loses it, no step changes the tree.
LEMMA StepSameTree ==
    ASSUME RevocationInv, [Next]_vars
    PROVE  \/ SameTree
           \/ \E a \in Agent, parent \in Agent \cup {None} : RegisterAgent(a, parent)
           \/ Registered' = {} /\ call' = [p \in Proc |-> Idle]
<1>1. CASE UNCHANGED store
  BY <1>1, UnchangedSameTree
<1>2. CASE \E p \in Proc : /\ UpdateAgent(Head(call[p].writes))
                           /\ call[p].pc \in {"suspend", "rotateWrite", "revokeWrite", "childWrite"}
  BY <1>2, UpdateSameTree
<1>3. ASSUME NEW p \in Proc, Start(p) \/ Continue(p) \/ Fail(p)
      PROVE  UNCHANGED store
                \/ /\ UpdateAgent(Head(call[p].writes))
                   /\ call[p].pc \in {"suspend", "rotateWrite", "revokeWrite", "childWrite"}
  BY <1>3 DEF Start, Continue, Fail, At, SuspendRead, SuspendWrite, RotateBegin, RotateRead,
      RotateRefused, RotateWrite, RotateInvalidate, RevokeBegin, ListStep, RevokeRead, RevokeWrite,
      ReadChildren, RefuseDepth, WriteChild, WriteRedis, WriteMemory, ListFails, ReadFails,
      WriteFails, RedisFails
<1>4. UNCHANGED vars => UNCHANGED store
  BY DEF vars, store
<1> QED
  BY <1>1, <1>2, <1>3, <1>4, CrashCases DEF Next, RevocationInv

\* A new agent is registered under one there is, and is nobody's parent yet.
LEMMA RegisterKeepsForest ==
    ASSUME Forest, Registered \subseteq Agent,
           NEW a \in Agent, NEW parent \in Agent \cup {None}, RegisterAgent(a, parent)
    PROVE  Forest' /\ SameParents
<1> DEFINE rec == [id |-> a, parent |-> parent, key |-> <<a, 0>>, status |-> "active",
                   created |-> Cardinality(Registered)]
<1>1. /\ a \notin Registered /\ agents' = Put(agents, a, rec)
      /\ parent \in Registered \cup {None}
  BY DEF RegisterAgent, CreateAgent
<1>2. rec.parent = parent
  OBVIOUS
<1> HIDE DEF rec
<1>3. /\ Registered' = Registered \cup {a} /\ agents'[a].parent = parent
      /\ \A x \in Registered : agents'[x] = agents[x]
  BY <1>1, <1>2 DEF Put, Registered
<1>4. None # a
  BY DeploymentAssumption
<1>5. ASSUME NEW S \in SUBSET Registered', S # {}
      PROVE  \E x \in S : agents'[x].parent \notin S
  <2>1. CASE S \ {a} = {}
    BY <1>1, <1>3, <1>4, <1>5, <2>1
  <2>2. CASE S \ {a} # {}
    <3>1. S \ {a} \in SUBSET Registered
      BY <1>3
    <3>2. PICK x \in S \ {a} : agents[x].parent \notin S \ {a}
      BY <2>2, <3>1 DEF Forest
    <3>3. agents'[x].parent = agents[x].parent /\ agents[x].parent \in Registered \cup {None}
      BY <1>3, <3>1 DEF Forest
    <3> QED
      BY <1>1, <1>4, <3>2, <3>3
  <2> QED
    BY <2>1, <2>2
<1> QED
  BY <1>1, <1>3, <1>5 DEF Forest, SameParents

\* No other step changes the forest.
LEMMA SameTreeKeepsForest ==
    ASSUME Forest, SameTree
    PROVE  Forest'
<1>1. Registered' = Registered /\ \A a \in Registered : agents'[a].parent = agents[a].parent
  BY DEF SameTree, SameParents
<1>2. ASSUME NEW S \in SUBSET Registered, S # {}
      PROVE  \E a \in S : agents'[a].parent \notin S
  BY <1>1, <1>2 DEF Forest
<1> QED
  BY <1>1, <1>2 DEF Forest

\* Who is below whom stays so.
LEMMA BelowLater ==
    ASSUME NEW a, NEW x, NEW n \in Nat, Below(a, x, n, agents), SameParents
    PROVE  Below(a, x, n, agents')
<1>1. PICK up \in [0..n -> Registered] :
        /\ up[0] = x /\ up[n] = a
        /\ \A k \in 0..(n - 1) : agents[up[k]].parent = up[k + 1]
  BY DEF Below, Registered
<1>2. up \in [0..n -> Registered']
  BY <1>1 DEF SameParents
<1>3. \A k \in 0..(n - 1) : agents'[up[k]].parent = up[k + 1]
  <2> TAKE k \in 0..(n - 1)
  <2>1. k \in 0..n
    OBVIOUS
  <2> QED
    BY <1>1, <2>1 DEF SameParents
<1> QED
  BY <1>1, <1>2, <1>3 DEF Below, Registered

LEMMA BelowItself ==
    ASSUME NEW A, NEW a \in DOMAIN A
    PROVE  Below(a, a, 0, A)
<1> DEFINE up == [k \in 0..0 |-> a]
<1>1. up \in [0..0 -> DOMAIN A] /\ up[0] = a /\ \A k \in 0..(0 - 1) : A[up[k]].parent = up[k + 1]
  OBVIOUS
<1> QED
  BY <1>1 DEF Below

LEMMA ChildIsBelow ==
    ASSUME NEW A, NEW a, NEW x, NEW n \in Nat, Below(a, x, n, A),
           NEW child \in DOMAIN A, A[child].parent = x
    PROVE  Below(a, child, n + 1, A)
<1>1. PICK up \in [0..n -> DOMAIN A] :
        /\ up[0] = x /\ up[n] = a
        /\ \A k \in 0..(n - 1) : A[up[k]].parent = up[k + 1]
  BY DEF Below
<1> DEFINE up2 == [k \in 0..(n + 1) |-> IF k = 0 THEN child ELSE up[k - 1]]
<1>2. up2 \in [0..(n + 1) -> DOMAIN A] /\ up2[0] = child /\ up2[n + 1] = a
  <2>1. \A k \in 0..(n + 1) : k # 0 => k - 1 \in 0..n
    OBVIOUS
  <2> QED
    BY <1>1, <2>1
<1>3. ASSUME NEW k \in 0..((n + 1) - 1)
      PROVE  A[up2[k]].parent = up2[k + 1]
  <2>1. k \in 0..(n + 1) /\ k + 1 \in 0..(n + 1) /\ (k + 1) - 1 = k /\ k + 1 # 0
    OBVIOUS
  <2>2. up2[k + 1] = up[k]
    BY <2>1
  <2>3. CASE k = 0
    BY <1>1, <2>1, <2>2, <2>3
  <2>4. CASE k # 0
    <3>1. k - 1 \in 0..(n - 1) /\ (k - 1) + 1 = k /\ up2[k] = up[k - 1]
      BY <2>1, <2>4
    <3> QED
      BY <1>1, <2>2, <3>1
  <2> QED
    BY <2>3, <2>4
<1> HIDE DEF up2
<1> QED
  BY <1>2, <1>3 DEF Below

\* What the other requests do leaves a walk as it is.
LEMMA WalkLater ==
    ASSUME NEW c \in Call, Walk(c, agents), SameParents
    PROVE  Walk(c, agents')
<1>1. \A n \in DOMAIN c.ids : c.ids[n] \in Registered
  BY DEF Walk, Registered
<1>2. \A n \in DOMAIN c.queue : c.queue[n].depth \in Nat
  <2>1. c.queue \in Seq(Item)
    BY DEF Call
  <2>2. \A n \in DOMAIN c.queue : c.queue[n] \in Item
    BY <2>1
  <2> QED
    BY <2>2 DEF Item
<1>3. \A n \in DOMAIN c.queue : Below(c.arg, c.queue[n].id, c.queue[n].depth, agents')
  BY <1>2, BelowLater DEF Walk
<1>4. c.pc = "list" => ListTree(c, agents')
  <2> SUFFICES ASSUME ListTree(c, agents) PROVE ListTree(c, agents')
    BY DEF Walk
  <2>1. c.ids \in Seq(Agent)
    BY DEF Call
  <2>2. \A n \in 2..Len(c.ids) : agents'[c.ids[n]].parent = agents[c.ids[n]].parent
    BY <1>1, <2>1 DEF SameParents
  <2> QED
    BY <2>2 DEF ListTree
<1> QED
  BY <1>1, <1>3, <1>4 DEF Walk, SameParents, Registered

LEMMA EmptyWalk ==
    ASSUME NEW A, NEW c, c.ids = <<>>, c.queue = <<>>, c.pc # "list"
    PROVE  Walk(c, A)
BY DEF Walk, Distinct

LEMMA SameWalk ==
    ASSUME NEW A, NEW old, NEW c, Walk(old, A), c.arg = old.arg, c.ids = old.ids,
           c.queue = old.queue, c.pc # "list"
    PROVE  Walk(c, A)
BY DEF Walk

\* A step of process p alone, which has request c to serve after it.
LEMMA GoKeepsWalk ==
    ASSUME WalkInv, RevocationInv', SameTree, NEW p \in Proc, NEW c, Go(p, c), Walk(c, agents)
    PROVE  WalkInv'
<1>1. call \in [Proc -> Call] /\ call' \in [Proc -> Call]
  BY DEF WalkInv, RevocationInv, Inv, CallsOK
<1>2. ASSUME NEW q \in Proc
      PROVE  Walk(call'[q], agents')
  <2>1. call'[q] \in Call /\ Walk(call'[q], agents)
    BY <1>1 DEF Go, WalkInv
  <2> QED
    BY <2>1, WalkLater DEF SameTree
<1>3. Forest'
  BY SameTreeKeepsForest DEF WalkInv
<1> QED
  BY <1>2, <1>3 DEF WalkInv

-----------------------------------------------------------------------------
(* The steps of a walk                                                       *)

LEMMA StartKeepsWalk ==
    ASSUME WalkInv, RevocationInv', SameTree, NEW p \in Proc, Start(p)
    PROVE  WalkInv'
<1>1. ASSUME NEW a, SuspendRead(p, a) PROVE WalkInv'
  <2> DEFINE c == [Idle EXCEPT !.pc = "suspend", !.arg = a,
                               !.writes = <<[agents[a] EXCEPT !.status = "suspended"]>>]
  <2>1. c.ids = <<>> /\ c.queue = <<>> /\ c.pc # "list"
    BY DEF Idle
  <2>2. Go(p, c)
    BY <1>1 DEF SuspendRead
  <2> HIDE DEF c
  <2> QED
    BY <2>1, <2>2, EmptyWalk, GoKeepsWalk
<1>2. ASSUME NEW a, RotateBegin(p, a) PROVE WalkInv'
  <2> DEFINE c == [Idle EXCEPT !.pc = "rotateRead", !.arg = a, !.oldKey = agents[a].key]
  <2>1. c.ids = <<>> /\ c.queue = <<>> /\ c.pc # "list"
    BY DEF Idle
  <2>2. Go(p, c)
    BY <1>2 DEF RotateBegin
  <2> HIDE DEF c
  <2> QED
    BY <2>1, <2>2, EmptyWalk, GoKeepsWalk
<1>3. ASSUME NEW a, NEW cascade, RevokeBegin(p, a, cascade) PROVE WalkInv'
  <2> DEFINE item == [id |-> a, depth |-> 0]
             queue == IF cascade THEN <<item>> ELSE <<>>
             known == {a} \cup IF cascade THEN Subtree(a) ELSE {}
             c == [Idle EXCEPT !.pc = IF cascade THEN "list" ELSE "revokeRead",
                               !.arg = a, !.cascade = cascade, !.ids = <<a>>,
                               !.queue = queue, !.known = known]
  <2>1. Go(p, c) /\ a \in Registered
    BY <1>3 DEF RevokeBegin, Accept
  <2>2. /\ c.arg = a /\ c.ids = <<a>> /\ c.queue = queue
        /\ c.pc = IF cascade THEN "list" ELSE "revokeRead"
    BY DEF Idle
  <2>3. item.id = a /\ item.depth = 0
    OBVIOUS
  <2>4. Below(a, item.id, item.depth, agents)
    BY <2>1, <2>3, BelowItself DEF Registered
  <2> HIDE DEF c, item
  <2>5. Walk(c, agents)
    <3>1. \A n \in DOMAIN <<a>> : n = 1 /\ <<a>>[n] = a
      OBVIOUS
    <3>2. \A n \in DOMAIN queue : cascade /\ n = 1 /\ queue[n] = item
      OBVIOUS
    <3>3. c.pc = "list" => ListTree(c, agents)
      <4> SUFFICES ASSUME cascade PROVE ListTree(c, agents)
        BY <2>2
      <4>1. Len(c.ids) = 1 /\ Len(c.queue) = 1 /\ c.ids[1] = a /\ c.queue = <<item>>
        BY <2>2
      <4> QED
        BY <2>2, <2>3, <4>1 DEF ListTree
    <3> QED
      BY <2>1, <2>2, <2>4, <3>1, <3>2, <3>3 DEF Walk, Distinct, Registered
  <2> QED
    BY <2>1, <2>5, GoKeepsWalk
<1> QED
  BY <1>1, <1>2, <1>3 DEF Start

\* Where the members of two lists are once one follows the other.
LEMMA Concatenation ==
    ASSUME NEW S, NEW s \in Seq(S), NEW t \in Seq(S), NEW l \in Nat, l = Len(s)
    PROVE  /\ s \o t \in Seq(S) /\ Len(s \o t) = l + Len(t)
           /\ DOMAIN (s \o t) = 1..(l + Len(t))
           /\ \A n \in 1..l : (s \o t)[n] = s[n]
           /\ \A n \in 1..Len(t) : (s \o t)[l + n] = t[n]
           /\ \A n \in DOMAIN (s \o t) :
                \/ n \in DOMAIN s /\ (s \o t)[n] = s[n]
                \/ n - l \in DOMAIN t /\ (s \o t)[n] = t[n - l]
<1>1. /\ s \o t \in Seq(S) /\ Len(s \o t) = l + Len(t)
      /\ DOMAIN (s \o t) = 1..(l + Len(t))
  OBVIOUS
<1>2. \A n \in 1..l : (s \o t)[n] = s[n]
  OBVIOUS
<1>3. \A n \in 1..Len(t) : (s \o t)[l + n] = t[n]
  OBVIOUS
<1>4. ASSUME NEW n \in DOMAIN (s \o t)
      PROVE  \/ n \in DOMAIN s /\ (s \o t)[n] = s[n]
             \/ n - l \in DOMAIN t /\ (s \o t)[n] = t[n - l]
  <2>1. Len(t) \in Nat /\ DOMAIN s = 1..l /\ DOMAIN t = 1..Len(t)
    OBVIOUS
  <2>2. CASE n <= l
    BY <1>1, <1>2, <2>1, <2>2
  <2>3. CASE n > l
    <3>1. PICK j \in 1..Len(t) : n = l + j
      <4>1. n - l \in 1..Len(t) /\ n = l + (n - l)
        BY <1>1, <2>1, <2>3
      <4> QED
        BY <4>1
    <3>2. n - l = j
      BY <3>1
    <3> QED
      BY <1>3, <2>1, <3>1, <3>2
  <2> QED
    BY <1>1, <2>1, <2>2, <2>3
<1> QED
  BY <1>1, <1>2, <1>3, <1>4

\* No listing answers a child twice.
LEMMA ChildrenAreDistinct ==
    ASSUME StoreInv, NEW a, NEW s \in ChildLists(a), NEW m \in DOMAIN s, NEW n \in DOMAIN s,
           s[m].id = s[n].id
    PROVE  m = n
<1> DEFINE newer(c) == {d \in Children(a) : agents[d].created > agents[c].created}
           L == {c \in Children(a) : Postgres => Cardinality(newer(c)) < ChildLimit}
<1>1. PICK t \in SetToSeqs(L) : s = [k \in DOMAIN t |-> agents[t[k]]]
  BY DEF ChildLists
<1>2. L \subseteq Registered
  BY DEF Children
<1> HIDE DEF L, newer
<1>3. /\ t \in [1..Cardinality(L) -> L]
      /\ \A j, k \in 1..Cardinality(L) : j # k => t[j] # t[k]
  BY <1>1 DEF SetToSeqs
<1>4. DOMAIN s = 1..Cardinality(L) /\ \A k \in DOMAIN s : s[k].id = t[k]
  BY <1>1, <1>3, <1>2 DEF StoreInv, StoreTypeOK, Registered
<1> QED
  BY <1>3, <1>4

\* The next of the queue is in the list; its children are not.
LEMMA ChildrenAreNew ==
    ASSUME Forest, NEW c \in Call, Walk(c, agents), c.pc = "list", c.queue # <<>>, c.ids # <<>>,
           NEW x \in Registered, agents[x].parent = Head(c.queue).id, NEW n \in DOMAIN c.ids
    PROVE  c.ids[n] # x
<1> DEFINE ids == c.ids
           done == Len(c.ids) - Len(c.queue)
           cur == Head(c.queue).id
<1>1. ids \in Seq(Agent) /\ c.queue \in Seq(Item)
  BY DEF Call
<1>2. /\ done \in Nat /\ done + 1 \in DOMAIN ids /\ 1 \in DOMAIN ids
      /\ ids[done + 1] = cur
      /\ \A k \in DOMAIN ids : k # 1 => \E m \in 1..done : agents[ids[k]].parent = ids[m]
  <2>1. ListTree(c, agents)
    BY DEF Walk
  <2>2. Len(c.queue) \in Nat /\ Len(ids) \in Nat /\ Len(c.queue) > 0 /\ Head(c.queue) = c.queue[1]
    BY <1>1
  <2>3. 1 \in DOMAIN c.queue /\ \A k \in DOMAIN ids : k # 1 => k \in 2..Len(ids)
    BY <1>1, <2>2
  <2>4. done \in Nat /\ done + 1 \in DOMAIN ids /\ 1 \in DOMAIN ids /\ ids[done + 1] = cur
    <3>1. done >= 0 /\ c.queue[1].id = ids[done + 1]
      BY <2>1, <2>3 DEF ListTree
    <3>2. DOMAIN ids = 1..Len(ids) /\ Len(ids) > 0
      BY <1>1
    <3>3. cur = c.queue[1].id
      BY <2>2
    <3>4. done \in Nat /\ done + 1 \in DOMAIN ids /\ 1 \in DOMAIN ids
      <4>1. PICK l \in Nat, q \in Nat : l = Len(ids) /\ q = Len(c.queue) /\ q > 0
        BY <2>2
      <4> PICK d \in Int : d = l - q
        OBVIOUS
      <4>2. d = done
        BY <4>1
      <4>3. d >= 0 /\ q > 0
        BY <3>1, <4>1, <4>2
      <4>4. d \in Nat /\ d + 1 \in 1..l /\ 1 \in 1..l
        BY <4>3
      <4> QED
        BY <3>2, <4>1, <4>2, <4>4
    <3> QED
      BY <3>1, <3>3, <3>4
  <2> QED
    BY <1>1, <2>1, <2>3, <2>4 DEF ListTree
<1>3. \A j, k \in DOMAIN ids : ids[j] = ids[k] => j = k
  BY DEF Walk, Distinct
<1>4. \A k \in DOMAIN ids : ids[k] \in Registered
  BY DEF Walk, Registered
<1> HIDE DEF ids, done, cur
<1> SUFFICES ASSUME ids[n] = x PROVE FALSE
  BY DEF ids
<1>5. agents[ids[n]].parent = cur
  BY DEF cur
<1>6. n \in DOMAIN ids /\ DOMAIN ids = 1..Len(ids) /\ Len(ids) \in Nat
  BY <1>1 DEF ids
<1>7. CASE n # 1
  <2>1. PICK m \in 1..done : agents[ids[n]].parent = ids[m]
    BY <1>2, <1>6, <1>7
  <2>2. m \in DOMAIN ids /\ m # done + 1
    BY <1>2, <1>6
  <2> QED
    BY <1>2, <1>3, <1>5, <2>1, <2>2
<1>8. CASE n = 1
  <2> DEFINE S == {ids[k] : k \in DOMAIN ids}
  <2>1. S \in SUBSET Registered /\ S # {}
    BY <1>2, <1>4
  <2>2. PICK y \in S : agents[y].parent \notin S
    BY <2>1 DEF Forest
  <2>3. PICK k \in DOMAIN ids : y = ids[k]
    BY <2>2
  <2>4. CASE k = 1
    BY <1>2, <1>5, <1>8, <2>2, <2>3, <2>4
  <2>5. CASE k # 1
    <3>1. PICK m \in 1..done : agents[ids[k]].parent = ids[m]
      BY <1>2, <2>5
    <3>2. m \in DOMAIN ids
      BY <1>2, <1>6
    <3> QED
      BY <2>2, <2>3, <3>1, <3>2
  <2> QED
    BY <2>4, <2>5
<1> QED
  BY <1>7, <1>8

\* The queue of a walk after the next agent was taken and its children were added.
LEMMA QueueGoesDown ==
    ASSUME Inv, NEW c \in Call, Walk(c, agents), c.queue # <<>>,
           NEW s \in ChildLists(Head(c.queue).id)
    PROVE  LET queue == Dequeue(c.queue) \o Items(s, Head(c.queue).depth + 1)
           IN \A n \in DOMAIN queue : Below(c.arg, queue[n].id, queue[n].depth, agents)
<1> DEFINE cur == Head(c.queue)
           items == Items(s, cur.depth + 1)
           queue == Tail(c.queue) \o items
<1>1. c.queue \in Seq(Item)
  BY DEF Call
<1>2. cur \in Item /\ cur = c.queue[1] /\ 1 \in DOMAIN c.queue
  BY <1>1
<1>3. cur.depth \in Nat /\ Below(c.arg, cur.id, cur.depth, agents)
  BY <1>2 DEF Walk, Item
<1>4. \A n \in DOMAIN s : s[n].id \in Registered /\ agents[s[n].id].parent = cur.id
  BY ChildListsAreRecords DEF Inv
<1>5. items \in Seq(Item) /\ DOMAIN items = DOMAIN s
  <2>1. cur.depth + 1 \in Nat
    BY <1>3
  <2> QED
    BY <2>1, ItemsAreOK DEF Inv, Items
<1>6. ASSUME NEW n \in DOMAIN items
      PROVE  Below(c.arg, items[n].id, items[n].depth, agents)
  <2>1. items[n].id = s[n].id /\ items[n].depth = cur.depth + 1
    BY <1>5 DEF Items
  <2> QED
    BY <1>3, <1>4, <1>5, <2>1, ChildIsBelow DEF Registered
<1> HIDE DEF items, cur
<1>7. ASSUME NEW n \in DOMAIN queue
      PROVE  Below(c.arg, queue[n].id, queue[n].depth, agents)
  <2>1. CASE n <= Len(Tail(c.queue))
    <3>1. n + 1 \in DOMAIN c.queue /\ queue[n] = c.queue[n + 1]
      BY <1>1, <1>2, <1>5, <2>1
    <3> QED
      BY <3>1 DEF Walk
  <2>2. CASE n > Len(Tail(c.queue))
    <3>1. n - Len(Tail(c.queue)) \in DOMAIN items /\ queue[n] = items[n - Len(Tail(c.queue))]
      BY <1>1, <1>2, <1>5, <2>2
    <3> QED
      BY <1>6, <3>1
  <2> QED
    BY <1>1, <1>2, <1>5, <2>1, <2>2
<1> QED
  BY <1>7 DEF Dequeue, items, cur

\* An iteration of ListDescendants.
LEMMA ListStepKeepsWalk ==
    ASSUME WalkInv, RevocationInv', SameTree, NEW p \in Proc, ListStep(p)
    PROVE  WalkInv'
<1> DEFINE old == call[p]
           cur == Head(old.queue)
           ids == old.ids
           queue == old.queue
<1>1. PICK s \in ChildLists(cur.id) :
        LET rest == Dequeue(old.queue) \o Items(s, cur.depth + 1) IN
        Go(p, [old EXCEPT !.ids = Collect(@, s), !.queue = rest,
                          !.pc = IF rest = <<>> THEN "revokeRead" ELSE "list"])
  BY DEF ListStep
<1> DEFINE items == Items(s, cur.depth + 1)
           found == [n \in DOMAIN s |-> s[n].id]
           rest == Tail(queue) \o items
           c == [old EXCEPT !.ids = ids \o found, !.queue = rest,
                            !.pc = IF rest = <<>> THEN "revokeRead" ELSE "list"]
<1>2. Go(p, c)
  BY <1>1 DEF Dequeue, Collect
<1>3. /\ old \in Call /\ old.pc = "list" /\ queue # <<>> /\ ids # <<>>
      /\ ids \in Seq(Agent) /\ queue \in Seq(Item)
      /\ Walk(old, agents) /\ ListTree(old, agents)
  BY DEF ListStep, At, WalkInv, RevocationInv, Inv, CallsOK, CallOK, Call, Walk
<1>4. c.arg = old.arg /\ c.ids = ids \o found /\ c.queue = rest
  BY <1>3 DEF Call
<1>5. /\ found \in Seq(Agent) /\ DOMAIN found = DOMAIN s
      /\ \A n \in DOMAIN found : /\ found[n] \in Registered
                                 /\ agents[found[n]].parent = cur.id
                                 /\ \A m \in DOMAIN found : found[m] = found[n] => m = n
  <2>1. found \in Seq(Agent)
    BY 0 \in Nat, ItemsAreOK DEF WalkInv, RevocationInv, Inv
  <2>2. \A n \in DOMAIN s : s[n].id \in Registered /\ agents[s[n].id].parent = cur.id
    BY ChildListsAreRecords DEF WalkInv, RevocationInv, Inv
  <2> QED
    BY <2>1, <2>2, ChildrenAreDistinct DEF WalkInv, RevocationInv, Inv
<1>6. /\ items \in Seq(Item) /\ DOMAIN items = DOMAIN found
      /\ \A n \in DOMAIN found : items[n].id = found[n]
  <2>1. cur \in Item
    BY <1>3
  <2>2. cur.depth + 1 \in Nat
    BY <2>1 DEF Item
  <2>3. items \in Seq(Item)
    BY <2>2, ItemsAreOK DEF WalkInv, RevocationInv, Inv
  <2> QED
    BY <2>3 DEF Items
<1>7. \A n \in DOMAIN rest : Below(c.arg, rest[n].id, rest[n].depth, agents)
  BY <1>3, <1>4, QueueGoesDown DEF Dequeue, WalkInv, RevocationInv
<1>8. \A m \in DOMAIN ids, n \in DOMAIN found : ids[m] # found[n]
  <2> SUFFICES ASSUME NEW m \in DOMAIN ids, NEW n \in DOMAIN found PROVE ids[m] # found[n]
    OBVIOUS
  <2>1. found[n] \in Registered /\ agents[found[n]].parent = cur.id
    BY <1>5
  <2> HIDE DEF found
  <2> QED
    BY <1>3, <2>1, ChildrenAreNew DEF WalkInv
<1>9. Distinct(ids) /\ \A n \in DOMAIN ids : ids[n] \in Registered
  BY <1>3 DEF Walk, Registered
<1> HIDE DEF found, items, c
<1>10. \A n \in DOMAIN (ids \o found) :
         \/ n \in DOMAIN ids /\ (ids \o found)[n] = ids[n]
         \/ n - Len(ids) \in DOMAIN found /\ (ids \o found)[n] = found[n - Len(ids)]
  BY <1>3, <1>5
<1>11. Distinct(ids \o found) /\ \A n \in DOMAIN (ids \o found) : (ids \o found)[n] \in Registered
  <2>1. ASSUME NEW m \in DOMAIN (ids \o found), NEW n \in DOMAIN (ids \o found),
               (ids \o found)[m] = (ids \o found)[n]
        PROVE  m = n
    <3>1. m \in Int /\ n \in Int /\ Len(ids) \in Int
      BY <1>3, <1>5
    <3> QED
      BY <1>5, <1>8, <1>9, <1>10, <2>1, <3>1 DEF Distinct
  <2> QED
    BY <1>5, <1>9, <1>10, <2>1 DEF Distinct
<1>12. ListTree(c, agents)
  <2>1. PICK l \in Nat, q \in Nat, f \in Nat :
          /\ l = Len(ids) /\ q = Len(queue) /\ f = Len(found) /\ f = Len(items) /\ q > 0 /\ l > 0
          /\ DOMAIN ids = 1..l /\ DOMAIN queue = 1..q /\ DOMAIN found = 1..f
    <3>1. Len(ids) \in Nat /\ DOMAIN ids = 1..Len(ids) /\ Len(ids) > 0
      BY <1>3
    <3>2. Len(queue) \in Nat /\ DOMAIN queue = 1..Len(queue) /\ Len(queue) > 0
      BY <1>3
    <3>3. Len(found) \in Nat /\ DOMAIN found = 1..Len(found) /\ Len(found) = Len(items)
      BY <1>5, <1>6
    <3> HIDE DEF ids, queue
    <3> QED
      BY <3>1, <3>2, <3>3
  <2>2. PICK done \in Int : done = l - q
    OBVIOUS
  <2>3. /\ ids[1] = old.arg /\ done >= 0
        /\ \A n \in 2..l : \E m \in 1..done : agents[ids[n]].parent = ids[m]
        /\ \A k \in 1..q : queue[k].id = ids[done + k]
    BY <1>3, <2>1, <2>2 DEF ListTree
  <2>4. PICK ids2, rest2 : ids2 = ids \o found /\ rest2 = rest
    OBVIOUS
  <2>5. /\ Len(ids2) = l + f /\ \A n \in 1..l : ids2[n] = ids[n]
        /\ \A n \in 1..f : ids2[l + n] = found[n]
    <3>1. found \in Seq(Agent) /\ ids \in Seq(Agent)
      BY <1>3, <1>5
    <3>2. l = Len(ids) /\ f = Len(found)
      BY <2>1
    <3> HIDE DEF ids
    <3>3. /\ Len(ids \o found) = l + Len(found)
          /\ \A n \in 1..l : (ids \o found)[n] = ids[n]
          /\ \A n \in 1..Len(found) : (ids \o found)[l + n] = found[n]
      BY <3>1, <3>2, Concatenation
    <3> QED
      BY <2>4, <3>2, <3>3
  <2>6. Tail(queue) \in Seq(Item) /\ Len(Tail(queue)) = q - 1
        /\ \A k \in 1..(q - 1) : Tail(queue)[k] = queue[k + 1]
    BY <1>3, <2>1
  <2>7. /\ Len(rest2) = q - 1 + f /\ DOMAIN rest2 = 1..(q - 1 + f)
        /\ \A k \in 1..(q - 1) : rest2[k] = queue[k + 1]
        /\ \A k \in 1..f : rest2[q - 1 + k] = items[k]
    <3>1. PICK t \in Seq(Item) : t = Tail(queue)
      BY <2>6
    <3>2. rest2 = t \o items /\ Len(t) = q - 1 /\ \A k \in 1..(q - 1) : t[k] = queue[k + 1]
      BY <2>4, <2>6, <3>1
    <3> HIDE DEF rest
    <3>3. items \in Seq(Item) /\ DOMAIN items = 1..f /\ Len(items) = f
      BY <1>6, <2>1
    <3>4. q > 0 /\ Len(t) = q - 1
      BY <2>1, <3>2
    <3>5. PICK r \in Nat : r = q - 1
      BY <3>4
    <3>6. r = Len(t) /\ f = Len(items)
      BY <3>3, <3>4, <3>5
    <3>7. /\ Len(t \o items) = r + Len(items) /\ DOMAIN (t \o items) = 1..(r + Len(items))
          /\ \A k \in 1..r : (t \o items)[k] = t[k]
          /\ \A k \in 1..Len(items) : (t \o items)[r + k] = items[k]
      <4>1. t \in Seq(Item) /\ items \in Seq(Item)
        BY <3>3
      <4>2. r = Len(t)
        BY <3>6
      <4> QED
        BY ONLY <4>1, <4>2, r \in Nat, Concatenation
    <3>8. /\ Len(rest2) = r + f /\ DOMAIN rest2 = 1..(r + f)
          /\ \A k \in 1..r : rest2[k] = t[k]
          /\ \A k \in 1..f : rest2[r + k] = items[k]
      BY <3>2, <3>6, <3>7
    <3> QED
      BY <3>2, <3>5, <3>8
  <2>8. cur.id = ids[done + 1]
    <3>1. cur = queue[1] /\ 1 \in 1..q
      BY <1>3, <2>1
    <3> QED
      BY <2>3, <3>1
  <2> HIDE DEF ids, queue, rest, cur
  <2>9. Len(ids2) - Len(rest2) = done + 1 /\ done + 1 >= 0
    BY <2>2, <2>3, <2>5, <2>7
  <2>10. ids2[1] = old.arg
    BY <2>1, <2>3, <2>5
  <2>11. ASSUME NEW n \in 2..Len(ids2)
        PROVE  \E m \in 1..(done + 1) : agents[ids2[n]].parent = ids2[m]
    <3>1. CASE n <= l
      <4>1. PICK m \in 1..done : agents[ids[n]].parent = ids[m]
        BY <2>3, <3>1
      <4>2. m \in 1..(done + 1) /\ m \in 1..l /\ n \in 1..l
        BY <2>1, <2>2, <2>3, <3>1
      <4> QED
        BY <2>5, <4>1, <4>2
    <3>2. CASE n > l
      <4>1. PICK j \in 1..f : n = l + j
        <5>1. n - l \in 1..f /\ n = l + (n - l)
          BY <2>5, <3>2
        <5> QED
          BY <5>1
      <4>2. done + 1 \in 1..l /\ done + 1 \in 1..(done + 1)
        BY <2>1, <2>2, <2>3
      <4>3. ids2[n] = found[j] /\ agents[found[j]].parent = cur.id
        BY <1>5, <2>1, <2>5, <4>1
      <4>4. ids2[done + 1] = cur.id
        BY <2>5, <2>8, <4>2
      <4> QED
        BY <4>2, <4>3, <4>4
    <3> QED
      BY <3>1, <3>2
  <2>12. ASSUME NEW k \in DOMAIN rest2
        PROVE  rest2[k].id = ids2[done + 1 + k]
    <3>1. CASE k <= q - 1
      <4>1. k \in 1..(q - 1) /\ k + 1 \in 1..q /\ done + (k + 1) = done + 1 + k
            /\ done + 1 + k \in 1..l
        <5>1. k \in Int /\ k >= 1 /\ q > 0 /\ done = l - q /\ done >= 0
          BY <2>1, <2>2, <2>3, <2>7
        <5> QED
          BY <3>1, <5>1
      <4>2. rest2[k].id = ids[done + (k + 1)]
        BY <2>3, <2>7, <4>1
      <4> QED
        BY <2>5, <4>1, <4>2
    <3>2. CASE k > q - 1
      <4>1. PICK j \in 1..f : k = q - 1 + j
        <5>1. k - (q - 1) \in 1..f /\ k = q - 1 + (k - (q - 1))
          BY <2>7, <3>2
        <5> QED
          BY <5>1
      <4>2. done + 1 + k = l + j
        BY <2>2, <4>1
      <4>3. rest2[k] = items[j] /\ items[j].id = found[j] /\ ids2[l + j] = found[j]
        BY <1>6, <2>1, <2>5, <2>7, <4>1
      <4> QED
        BY <4>2, <4>3
    <3> QED
      BY <2>7, <3>1, <3>2
  <2>13. c.arg = old.arg /\ c.ids = ids2 /\ c.queue = rest2
    BY <1>4, <2>4
  <2> QED
    BY <2>9, <2>10, <2>11, <2>12, <2>13 DEF ListTree
<1>13. Walk(c, agents)
  BY <1>4, <1>7, <1>11, <1>12 DEF Walk, Registered
<1> QED
  BY <1>2, <1>13, GoKeepsWalk
\* The listing failed: the agent named is all that is left of the list.
LEMMA ListFailsKeepsWalk ==
    ASSUME WalkInv, RevocationInv', SameTree, NEW p \in Proc, ListFails(p)
    PROVE  WalkInv'
<1> DEFINE old == call[p]
           c == [old EXCEPT !.pc = "revokeRead", !.ids = <<old.arg>>, !.queue = <<>>]
<1>1. Go(p, c)
  BY DEF ListFails
<1>2. old \in Call /\ old.arg \in Registered
  BY DEF ListFails, At, WalkInv, RevocationInv, Inv, CallsOK, CallOK
<1>3. c.arg = old.arg /\ c.ids = <<old.arg>> /\ c.queue = <<>> /\ c.pc = "revokeRead"
  BY <1>2 DEF Call
<1> HIDE DEF c
<1>4. Walk(c, agents)
  BY <1>2, <1>3 DEF Walk, Distinct, Registered
<1> QED
  BY <1>1, <1>4, GoKeepsWalk

\* Before and between the walks.
LEMMA RevokeKeepsWalk ==
    ASSUME WalkInv, RevocationInv', SameTree, NEW p \in Proc, RevokeRead(p) \/ RevokeWrite(p)
    PROVE  WalkInv'
<1> DEFINE old == call[p]
<1>1. old \in Call /\ Walk(old, agents)
  BY DEF WalkInv, RevocationInv, Inv, CallsOK
<1>2. CASE RevokeRead(p)
  <2> DEFINE c == [old EXCEPT !.pc = "revokeWrite", !.writes = <<Revoked(agents[old.arg])>>]
  <2>1. Go(p, c)
    BY <1>2 DEF RevokeRead
  <2>2. c.arg = old.arg /\ c.ids = old.ids /\ c.queue = old.queue /\ c.pc # "list"
    BY <1>1 DEF Call
  <2> HIDE DEF c
  <2> QED
    BY <1>1, <2>1, <2>2, SameWalk, GoKeepsWalk
<1>3. CASE RevokeWrite(p)
  <2> DEFINE item == [id |-> old.arg, depth |-> 0]
             queue == IF old.cascade THEN <<item>> ELSE <<>>
             c == [old EXCEPT !.pc = IF old.cascade THEN "children" ELSE Publish,
                              !.writes = <<>>, !.queue = queue]
  <2>1. Go(p, c)
    BY <1>3 DEF RevokeWrite
  <2>2. c.arg = old.arg /\ c.ids = old.ids /\ c.queue = queue /\ c.pc # "list"
    BY <1>1 DEF Call, Publish
  <2>3. old.arg \in Registered
    BY <1>3 DEF RevokeWrite, At, WalkInv, RevocationInv, Inv, CallsOK, CallOK
  <2>4. item.id = old.arg /\ item.depth = 0
    OBVIOUS
  <2>5. Below(old.arg, item.id, item.depth, agents)
    BY <2>3, <2>4, BelowItself DEF Registered
  <2> HIDE DEF c, item
  <2>6. \A n \in DOMAIN queue : queue[n] = item
    OBVIOUS
  <2>7. Walk(c, agents)
    BY <1>1, <2>2, <2>5, <2>6 DEF Walk
  <2> QED
    BY <2>1, <2>7, GoKeepsWalk
<1> QED
  BY <1>2, <1>3

\* The walk that writes.
LEMMA ChildrenKeepWalk ==
    ASSUME WalkInv, RevocationInv', SameTree, NEW p \in Proc, ReadChildren(p) \/ WriteChild(p)
    PROVE  WalkInv'
<1> DEFINE old == call[p]
<1>1. old \in Call /\ Walk(old, agents)
  BY DEF WalkInv, RevocationInv, Inv, CallsOK
<1>2. CASE ReadChildren(p)
  <2> DEFINE cur == Head(old.queue)
  <2>1. PICK s \in ChildLists(cur.id) :
          Go(p, Advance([old EXCEPT !.queue = Dequeue(@) \o Items(s, cur.depth + 1),
                                    !.writes = [n \in DOMAIN s |-> Revoked(s[n])]]))
    BY <1>2 DEF ReadChildren
  <2> DEFINE queue == Dequeue(old.queue) \o Items(s, cur.depth + 1)
             read == [old EXCEPT !.queue = queue, !.writes = [n \in DOMAIN s |-> Revoked(s[n])]]
             c == Advance(read)
  <2>2. Go(p, c)
    BY <2>1
  <2>3. c.arg = old.arg /\ c.ids = old.ids /\ c.queue = queue /\ c.pc # "list"
    BY <1>1 DEF Call, Advance, Publish
  <2>4. old.queue # <<>>
    BY <1>2 DEF ReadChildren, At, WalkInv, RevocationInv, Inv, CallsOK, CallOK
  <2>5. \A n \in DOMAIN queue : Below(old.arg, queue[n].id, queue[n].depth, agents)
    BY <1>1, <2>4, QueueGoesDown DEF WalkInv, RevocationInv
  <2> HIDE DEF c, queue
  <2>6. Walk(c, agents)
    BY <1>1, <2>3, <2>5 DEF Walk
  <2> QED
    BY <2>2, <2>6, GoKeepsWalk
<1>3. CASE WriteChild(p)
  <2> DEFINE wrote == [old EXCEPT !.writes = Tail(@)]
             c == Advance(wrote)
  <2>1. Go(p, c)
    BY <1>3 DEF WriteChild
  <2>2. c.arg = old.arg /\ c.ids = old.ids /\ c.queue = old.queue /\ c.pc # "list"
    BY <1>1 DEF Call, Advance, Publish
  <2> HIDE DEF c
  <2> QED
    BY <1>1, <2>1, <2>2, SameWalk, GoKeepsWalk
<1> QED
  BY <1>2, <1>3

\* The list is written to the registry from its front.
LEMMA PublishKeepsWalk ==
    ASSUME WalkInv, RevocationInv', SameTree, NEW p \in Proc, WriteRedis(p) \/ WriteMemory(p)
    PROVE  WalkInv'
<1> DEFINE old == call[p]
<1>1. old \in Call /\ Walk(old, agents)
  BY DEF WalkInv, RevocationInv, Inv, CallsOK
<1>2. CASE WriteRedis(p)
  <2> DEFINE c == [old EXCEPT !.pc = "remember"]
  <2>1. Go(p, c)
    BY <1>2 DEF WriteRedis
  <2>2. c.arg = old.arg /\ c.ids = old.ids /\ c.queue = old.queue /\ c.pc # "list"
    BY <1>1 DEF Call
  <2> HIDE DEF c
  <2> QED
    BY <1>1, <2>1, <2>2, SameWalk, GoKeepsWalk
<1>3. CASE WriteMemory(p)
  <2>1. CASE Respond(p)
    BY <2>1, EmptyWalk, GoKeepsWalk DEF Respond, Idle
  <2>2. CASE ~Respond(p)
    <3> DEFINE ids == old.ids
               c == [old EXCEPT !.pc = Publish, !.ids = Tail(ids)]
    <3>1. Go(p, c)
      BY <1>3, <2>2 DEF WriteMemory
    <3>2. c.arg = old.arg /\ c.ids = Tail(ids) /\ c.queue = old.queue /\ c.pc # "list"
      BY <1>1 DEF Call, Publish
    <3>3. ids \in Seq(Agent) /\ ids # <<>>
      BY <1>1, <1>3 DEF Call, WriteMemory, At, WalkInv, RevocationInv, Inv, CallsOK, CallOK
    <3> HIDE DEF c
    <3>4. \A n \in DOMAIN Tail(ids) : n \in Int /\ n + 1 \in DOMAIN ids /\ Tail(ids)[n] = ids[n + 1]
      BY <3>3
    <3>5. Distinct(Tail(ids))
      <4> SUFFICES ASSUME NEW m \in DOMAIN Tail(ids), NEW n \in DOMAIN Tail(ids),
                          Tail(ids)[m] = Tail(ids)[n]
                   PROVE  m = n
        BY DEF Distinct
      <4>1. m + 1 = n + 1 /\ m \in Int /\ n \in Int
        BY <1>1, <3>4 DEF Walk, Distinct
      <4> QED
        BY <4>1
    <3>6. Walk(c, agents)
      BY <1>1, <3>2, <3>4, <3>5 DEF Walk
    <3> QED
      BY <3>1, <3>6, GoKeepsWalk
  <2> QED
    BY <2>1, <2>2
<1> QED
  BY <1>2, <1>3

\* The other requests, and the steps that end one.
LEMMA OthersKeepWalk ==
    ASSUME WalkInv, RevocationInv', SameTree, NEW p \in Proc,
           \/ SuspendWrite(p) \/ RotateRead(p) \/ RotateRefused(p) \/ RotateWrite(p)
           \/ RotateInvalidate(p) \/ RefuseDepth(p)
           \/ ReadFails(p) \/ WriteFails(p) \/ RedisFails(p)
    PROVE  WalkInv'
<1> DEFINE old == call[p]
<1>1. old \in Call /\ Walk(old, agents)
  BY DEF WalkInv, RevocationInv, Inv, CallsOK
<1>2. CASE Respond(p)
  BY <1>2, EmptyWalk, GoKeepsWalk DEF Respond, Idle
<1>3. CASE RotateRead(p)
  <2> DEFINE a == old.arg
             c == [old EXCEPT !.pc = "rotateWrite", !.replaced = agents[a].key,
                              !.writes = <<[agents[a] EXCEPT !.key = <<a, keysMade[a]>>]>>]
  <2>1. Go(p, c)
    BY <1>3 DEF RotateRead
  <2>2. c.arg = old.arg /\ c.ids = old.ids /\ c.queue = old.queue /\ c.pc # "list"
    BY <1>1 DEF Call
  <2> HIDE DEF c
  <2> QED
    BY <1>1, <2>1, <2>2, SameWalk, GoKeepsWalk
<1>4. CASE RotateWrite(p)
  <2> DEFINE c == [old EXCEPT !.pc = "invalidate", !.writes = <<>>]
  <2>1. Go(p, c)
    BY <1>4 DEF RotateWrite
  <2>2. c.arg = old.arg /\ c.ids = old.ids /\ c.queue = old.queue /\ c.pc # "list"
    BY <1>1 DEF Call
  <2> HIDE DEF c
  <2> QED
    BY <1>1, <2>1, <2>2, SameWalk, GoKeepsWalk
<1> QED
  BY <1>2, <1>3, <1>4
  DEF SuspendWrite, RotateRefused, RotateInvalidate, RefuseDepth, ReadFails, WriteFails, RedisFails

LEMMA WalkNext ==
    ASSUME WalkInv, [Next]_vars
    PROVE  WalkInv'
<1>1. RevocationInv'
  BY RevocationNext DEF WalkInv
<1>2. ASSUME NEW a \in Agent, NEW parent \in Agent \cup {None}, RegisterAgent(a, parent)
      PROVE  WalkInv'
  <2>1. Registered \subseteq Agent
    BY DEF WalkInv, RevocationInv, Inv, StoreInv, StoreTypeOK, Registered
  <2>2. Forest' /\ SameParents
    BY <1>2, <2>1, RegisterKeepsForest DEF WalkInv
  <2>3. call' = call /\ call \in [Proc -> Call]
    BY <1>2 DEF RegisterAgent, WalkInv, RevocationInv, Inv, CallsOK
  <2>4. ASSUME NEW q \in Proc
        PROVE  Walk(call[q], agents')
    BY <2>2, <2>3, WalkLater DEF WalkInv
  <2> QED
    BY <1>1, <2>2, <2>3, <2>4 DEF WalkInv
<1>3. CASE SameTree
  <2>1. ASSUME NEW p \in Proc, Start(p) \/ Continue(p) \/ Fail(p)
        PROVE  WalkInv'
    BY <1>1, <1>3, <2>1, StartKeepsWalk, ListStepKeepsWalk, ListFailsKeepsWalk, RevokeKeepsWalk,
       ChildrenKeepWalk, PublishKeepsWalk, OthersKeepWalk
    DEF Continue, Fail
  <2>2. ASSUME \A p \in Proc : call'[p] \in {call[p], Idle}
        PROVE  WalkInv'
    <3>1. Forest'
      BY <1>3, SameTreeKeepsForest DEF WalkInv
    <3>2. ASSUME NEW q \in Proc
          PROVE  Walk(call'[q], agents')
      <4>1. Walk(Idle, agents')
        BY EmptyWalk DEF Idle
      <4>2. call[q] \in Call /\ Walk(call[q], agents)
        BY DEF WalkInv, RevocationInv, Inv, CallsOK
      <4>3. Walk(call[q], agents')
        BY <1>3, <4>2, WalkLater DEF SameTree
      <4> QED
        BY <2>2, <4>1, <4>3
    <3> QED
      BY <1>1, <3>1, <3>2 DEF WalkInv
  <2>3. ASSUME NEW i \in Instance, Crash(i)
        PROVE  WalkInv'
    BY <2>2, <2>3 DEF Crash
  <2>4. CASE UNCHANGED vars
    BY <2>2, <2>4 DEF vars
  <2>5. CASE \E a \in Agent, parent \in Agent \cup {None} : RegisterAgent(a, parent)
    BY <1>2, <2>5
  <2> QED
    BY <2>1, <2>3, <2>4, <2>5 DEF Next
<1>4. CASE Registered' = {} /\ call' = [p \in Proc |-> Idle]
  <2>1. Forest'
    BY <1>4 DEF Forest
  <2>2. \A p \in Proc : Walk(call'[p], agents')
    BY <1>4, EmptyWalk DEF Idle
  <2> QED
    BY <1>1, <2>1, <2>2 DEF WalkInv
<1> QED
  BY <1>2, <1>3, <1>4, StepSameTree DEF WalkInv

LEMMA WalkInit == Init => WalkInv
<1> SUFFICES ASSUME Init PROVE WalkInv
  OBVIOUS
<1>1. RevocationInv
  BY RevocationInit
<1>2. Registered = {}
  BY DEF Init, StoreInit, Registered
<1>3. Forest
  BY <1>2 DEF Forest
<1>4. ASSUME NEW p \in Proc
      PROVE  Walk(call[p], agents)
  BY EmptyWalk DEF Init, Idle
<1> QED
  BY <1>1, <1>3, <1>4 DEF WalkInv

-----------------------------------------------------------------------------
(* What the walks promise                                                    *)

\* No agent is, through however many parents, its own ancestor: a registration
\* (RegisterAgent of identity/service.go) names a parent there is, and no write
\* of a whole record, however stale, gives an agent another parent.
THEOREM ParentsFormAForest == Spec => []Forest
<1>1. WalkInv => Forest
  BY DEF WalkInv
<1> QED
  BY <1>1, WalkInit, WalkNext, PTL DEF Spec

\* No list of agents to revoke has an agent twice.
ListedOnce == \A p \in Proc : Distinct(call[p].ids)

\* ListDescendants of identity/service.go remembers nobody it has seen and knows
\* no depth limit: still it lists no agent twice, and so no longer than there are
\* agents, whatever is registered while it runs.
THEOREM NobodyIsListedTwice == Spec => []ListedOnce
<1>1. WalkInv => ListedOnce
  BY DEF WalkInv, ListedOnce, Walk
<1> QED
  BY <1>1, WalkInit, WalkNext, PTL DEF Spec

\* A request that revokeChildren refuses for the depth of the tree names an agent
\* that has another one maxRevokeDepth levels below.
RefusedOnlyTooDeep ==
    [][\A p \in Proc : RefuseDepth(p) =>
          \E x \in Registered : Below(call[p].arg, x, MaxRevokeDepth, agents)]_vars

\* The head of the queue is as deep as the number it carries says.
LEMMA TooDeepIsDeep ==
    ASSUME WalkInv, NEW p \in Proc, RefuseDepth(p)
    PROVE  \E x \in Registered : Below(call[p].arg, x, MaxRevokeDepth, agents)
<1> DEFINE a == call[p].arg
           queue == call[p].queue
<1>1. call[p] \in Call /\ queue # <<>> /\ Head(queue).depth >= MaxRevokeDepth
  BY DEF RefuseDepth, TooDeep, At, WalkInv, RevocationInv, Inv, CallsOK, CallOK
<1>2. queue \in Seq(Item)
  BY <1>1 DEF Call
<1>3. 1 \in DOMAIN queue /\ Head(queue) = queue[1] /\ Head(queue) \in Item
  BY <1>1, <1>2
<1>4. PICK n \in Nat, y \in Agent : n = Head(queue).depth /\ y = Head(queue).id
  BY <1>3 DEF Item
<1>5. Below(a, y, n, agents) /\ n >= MaxRevokeDepth
  BY <1>1, <1>3, <1>4 DEF WalkInv, Walk
<1>6. PICK up \in [0..n -> Registered] :
        /\ up[0] = y /\ up[n] = a
        /\ \A k \in 0..(n - 1) : agents[up[k]].parent = up[k + 1]
  BY <1>5 DEF Below, Registered
<1>7. PICK m \in Nat, s \in Nat : m = MaxRevokeDepth /\ s + m = n
  <2>1. MaxRevokeDepth \in Nat /\ n - MaxRevokeDepth \in Nat
    BY <1>5, LifecycleAssumption
  <2> QED
    BY <2>1
<1> DEFINE high == [k \in 0..m |-> up[s + k]]
<1>8. \A k \in 0..m : s + k \in 0..n
  BY <1>7
<1>9. high \in [0..m -> Registered] /\ high[0] = up[s] /\ high[m] = a
  <2>1. s + 0 = s /\ 0 \in 0..m /\ m \in 0..m
    OBVIOUS
  <2> QED
    BY <1>6, <1>7, <1>8, <2>1
<1>10. ASSUME NEW k \in 0..(m - 1)
       PROVE  agents[high[k]].parent = high[k + 1]
  <2>1. k \in 0..m /\ k + 1 \in 0..m /\ s + k \in 0..(n - 1) /\ (s + k) + 1 = s + (k + 1)
    BY <1>7
  <2> QED
    BY <1>6, <2>1
<1> HIDE DEF high
<1>11. Below(a, up[s], m, agents) /\ up[s] \in Registered
  <2>1. s \in 0..n
    BY <1>7
  <2> QED
    BY <1>6, <1>9, <1>10, <2>1 DEF Below, Registered
<1> QED
  BY <1>7, <1>11

\* revokeChildren of identity/service.go counts the levels right, however long
\* it waits between two of them: it refuses no tree that is not too deep.
THEOREM OnlyDeepTreesAreRefused == Spec => RefusedOnlyTooDeep
<1>1. WalkInv /\ [Next]_vars
        => WalkInv' /\ [\A p \in Proc : RefuseDepth(p) =>
                           \E x \in Registered : Below(call[p].arg, x, MaxRevokeDepth, agents)]_vars
  BY WalkNext, TooDeepIsDeep
<1> QED
  BY <1>1, WalkInit, PTL DEF Spec, RefusedOnlyTooDeep
=============================================================================
