------------------------ MODULE StoreRevocationProofs ------------------------
(***************************************************************************)
(* An answered revocation is also one in the store: the traversal of       *)
(* identity.Service writes the records from the top of the tree, reaches   *)
(* every agent that was below when the request began, and from then on no  *)
(* token is issued to any of them.                                         *)
(*                                                                         *)
(* The hypothesis is that requests register and revoke only: a suspension  *)
(* or rotation writes a whole record back from a stale read.  The section  *)
(* "What can undo a revocation in the store" shows that nothing else can.  *)
(*                                                                         *)
(* The last section carries the promise of a revocation, which             *)
(* RefinementProofs shows of the lifecycle alone, over to the token        *)
(* handlers.                                                               *)
(***************************************************************************)
EXTENDS TokenServiceProofs, RefinementProofs

OnlyRevokes == {"suspend", "rotate"} \cap Requests = {}

\* The agents the records A have as revoked.
RevokedIn(A) == {x \in DOMAIN A : A[x].status = "revoked"}

\* The agents a request has in hand: those it writes next, those in its queue.
Ids(s)     == {s[n].id : n \in DOMAIN s}
Pending(c) == Ids(c.writes)
Queued(c)  == Ids(c.queue)

\* What a request that revokes does, A being the records and T the agents asked
\* for: it writes an agent after the one above it.
WritesTopDown(c, A, T) ==
    /\ c.pc \in {"idle"} \cup Revoking
    /\ \A n \in DOMAIN c.writes : c.writes[n].status = "revoked"
    /\ c.pc \in Revoking => c.arg \in T
    /\ c.pc = "revokeWrite" => Pending(c) \subseteq {c.arg}
    /\ c.pc = "children" => c.writes = <<>>
    /\ c.pc = "childWrite" => \A x \in Pending(c) : A[x].parent \in RevokedIn(A)
    /\ c.pc \in {"children", "childWrite"} => Queued(c) \subseteq RevokedIn(A) \cup Pending(c)

\* What its answer is about can be reached from the agent it names.
IsAbout(c, A) ==
    c.pc \in Revoking =>
        /\ c.known \subseteq DOMAIN A
        /\ ReachedFrom(c.arg, c.known, A)
        /\ ~c.cascade => c.known = {c.arg}

\* revokeChildren under way, V being the agents it has come to: what is below one
\* of them is one, unless that one is still in the queue.
Traverses(c, V, A) ==
    /\ c.arg \in V
    /\ V \subseteq RevokedIn(A) \cup Pending(c)
    /\ \A x \in c.known : A[x].parent \in V => x \in V \/ A[x].parent \in Queued(c)

\* After it, all that the answer is about is revoked.
Reaches(c, A) ==
    ListsAreComplete =>
        /\ c.pc \in {"children", "childWrite"} => \E V \in SUBSET Agent : Traverses(c, V, A)
        /\ c.pc \in {"redis", "remember"} => c.known \subseteq RevokedIn(A)

StoreCall(c, A, T) == WritesTopDown(c, A, T) /\ IsAbout(c, A) /\ Reaches(c, A)

TopDown(A, T) == \A x \in RevokedIn(A) \ T : A[x].parent \in RevokedIn(A)

\* The inductive invariant.
StoreRevocationInv ==
    /\ RevocationInv
    /\ \A p \in Proc : StoreCall(call[p], agents, targets)
    /\ TopDown(agents, targets)
    /\ ListsAreComplete => acked \cap DOMAIN agents \subseteq RevokedIn(agents)

\* The agents of an answer are ones that were registered once, and the ID of an
\* agent that the restart of an in-memory store has lost is not handed out again.
AckedAreUsed == acked \cup Registered \subseteq UsedAgents

-----------------------------------------------------------------------------
(* Lemmas                                                                    *)

LEMMA IdsOfConcat ==
    ASSUME NEW S, NEW s \in Seq(S), NEW t \in Seq(S)
    PROVE  Ids(s \o t) = Ids(s) \cup Ids(t)
<1>1. \A x \in Ids(t) : x \in Ids(s \o t)
  <2> SUFFICES ASSUME NEW n \in DOMAIN t PROVE t[n].id \in Ids(s \o t)
    BY DEF Ids
  <2>1. Len(s) + n \in DOMAIN (s \o t) /\ (s \o t)[Len(s) + n] = t[n]
    OBVIOUS
  <2> QED
    BY <2>1 DEF Ids
<1>2. \A x \in Ids(s) : x \in Ids(s \o t)
  <2> SUFFICES ASSUME NEW n \in DOMAIN s PROVE s[n].id \in Ids(s \o t)
    BY DEF Ids
  <2>1. n \in DOMAIN (s \o t) /\ (s \o t)[n] = s[n]
    OBVIOUS
  <2> QED
    BY <2>1 DEF Ids
<1>3. \A x \in Ids(s \o t) : x \in Ids(s) \cup Ids(t)
  <2> SUFFICES ASSUME NEW n \in DOMAIN (s \o t) PROVE (s \o t)[n].id \in Ids(s) \cup Ids(t)
    BY DEF Ids
  <2>1. CASE n <= Len(s)
    <3>1. n \in DOMAIN s /\ (s \o t)[n] = s[n]
      BY <2>1
    <3> QED
      BY <3>1 DEF Ids
  <2>2. CASE ~(n <= Len(s))
    <3>1. n - Len(s) \in DOMAIN t /\ (s \o t)[n] = t[n - Len(s)]
      BY <2>2
    <3> QED
      BY <3>1 DEF Ids
  <2> QED
    BY <2>1, <2>2
<1> QED
  BY <1>1, <1>2, <1>3

LEMMA IdsOfTail ==
    ASSUME NEW S, NEW s \in Seq(S), s # <<>>
    PROVE  Ids(s) = {Head(s).id} \cup Ids(Tail(s))
<1>1. 1 \in DOMAIN s /\ Head(s) = s[1]
  OBVIOUS
<1>2. \A n \in DOMAIN s : n = 1 \/ (n - 1 \in DOMAIN Tail(s) /\ Tail(s)[n - 1] = s[n])
  OBVIOUS
<1>3. \A n \in DOMAIN Tail(s) : n + 1 \in DOMAIN s /\ Tail(s)[n] = s[n + 1]
  OBVIOUS
<1>4. \A x \in Ids(s) : x = Head(s).id \/ x \in Ids(Tail(s))
  <2> SUFFICES ASSUME NEW n \in DOMAIN s, n # 1 PROVE s[n].id \in Ids(Tail(s))
    BY <1>1 DEF Ids
  <2>1. n - 1 \in DOMAIN Tail(s) /\ Tail(s)[n - 1] = s[n]
    BY <1>2
  <2> QED
    BY <2>1 DEF Ids
<1>5. \A x \in Ids(Tail(s)) : x \in Ids(s)
  <2> SUFFICES ASSUME NEW n \in DOMAIN Tail(s) PROVE Tail(s)[n].id \in Ids(s)
    BY DEF Ids
  <2> QED
    BY <1>3 DEF Ids
<1> QED
  BY <1>1, <1>4, <1>5 DEF Ids

\* A step that takes no revocation back.
Kept ==
    /\ SameParents
    /\ RevokedIn(agents) \subseteq RevokedIn(agents')
    /\ targets \subseteq targets'

LEMMA ReachedLater ==
    ASSUME NEW a, NEW K, K \subseteq Registered, ReachedFrom(a, K, agents), SameParents
    PROVE  K \subseteq Registered' /\ ReachedFrom(a, K, agents')
BY DEF ReachedFrom, SameParents

LEMMA StoreCallLater ==
    ASSUME NEW c, NEW D, CallOK(c, Registered, D), StoreCall(c, agents, targets), Kept
    PROVE  StoreCall(c, agents', targets')
<1>1. Pending(c) \subseteq Registered
  BY DEF CallOK, Pending, Ids
<1>2. \A x \in Registered : agents'[x].parent = agents[x].parent
  BY DEF Kept, SameParents
<1>3. WritesTopDown(c, agents', targets')
  BY <1>1, <1>2 DEF StoreCall, WritesTopDown, Kept
<1>4. IsAbout(c, agents')
  BY ReachedLater DEF StoreCall, IsAbout, Kept, Registered
<1>5. Reaches(c, agents')
  <2> SUFFICES ASSUME ListsAreComplete PROVE Reaches(c, agents')
    BY DEF Reaches
  <2>1. ASSUME c.pc \in {"children", "childWrite"}
        PROVE  \E V \in SUBSET Agent : Traverses(c, V, agents')
    <3>1. PICK V \in SUBSET Agent : Traverses(c, V, agents)
      BY <2>1 DEF StoreCall, Reaches
    <3>2. c.known \subseteq Registered
      BY <2>1 DEF StoreCall, IsAbout, Revoking, Registered
    <3>3. Traverses(c, V, agents')
      BY <1>2, <3>1, <3>2 DEF Traverses, Kept
    <3> QED
      BY <3>3
  <2>2. c.pc \in {"redis", "remember"} => c.known \subseteq RevokedIn(agents')
    BY DEF StoreCall, Reaches, Kept
  <2> QED
    BY <2>1, <2>2 DEF Reaches
<1> QED
  BY <1>3, <1>4, <1>5 DEF StoreCall

\* A step of process p, which has request c to serve after it.
LEMMA GoKeepsStore ==
    ASSUME StoreRevocationInv, RevocationInv', NEW p \in Proc, NEW c, Go(p, c), Kept,
           StoreCall(c, agents', targets'), TopDown(agents', targets'),
           DOMAIN agents' = DOMAIN agents,
           ListsAreComplete => acked' \subseteq acked \cup RevokedIn(agents')
    PROVE  StoreRevocationInv'
<1>1. ASSUME NEW q \in Proc
      PROVE  StoreCall(call'[q], agents', targets')
  <2>1. call' = [call EXCEPT ![p] = c] /\ DOMAIN call = Proc
    BY DEF Go, StoreRevocationInv, RevocationInv, Inv, CallsOK
  <2>2. CASE q = p
    BY <2>1, <2>2
  <2>3. CASE q # p
    <3>1. /\ call'[q] = call[q] /\ CallOK(call[q], Registered, redis)
          /\ StoreCall(call[q], agents, targets)
      BY <2>1, <2>3 DEF StoreRevocationInv, RevocationInv, Inv, CallsOK
    <3> QED
      BY <3>1, StoreCallLater
  <2> QED
    BY <2>2, <2>3
<1>2. ListsAreComplete => acked' \cap DOMAIN agents' \subseteq RevokedIn(agents')
  BY DEF StoreRevocationInv, Kept
<1> QED
  BY <1>1, <1>2 DEF StoreRevocationInv

LEMMA IdleIsStoreCall == \A A, T : StoreCall(Idle, A, T)
BY DEF StoreCall, WritesTopDown, IsAbout, Reaches, Idle, Revoking

\* A step that leaves the records alone.
LEMMA QuietStoreKept ==
    ASSUME StoreRevocationInv, UNCHANGED store, targets \subseteq targets'
    PROVE  /\ Kept /\ agents' = agents
           /\ TopDown(agents', targets')
BY UnchangedSameParents DEF Kept, StoreRevocationInv, TopDown, store

\* The write of a revoked record: of an agent that was asked for, or of one below
\* a revoked one.
LEMMA WriteKept ==
    ASSUME StoreRevocationInv, NEW rec, UpdateAgent(rec), rec.status = "revoked",
           rec.parent = agents[rec.id].parent, targets' = targets,
           rec.id \in targets \/ agents[rec.id].parent \in RevokedIn(agents)
    PROVE  /\ Kept /\ RevokedIn(agents') = RevokedIn(agents) \cup {rec.id}
           /\ TopDown(agents', targets') /\ DOMAIN agents' = DOMAIN agents
<1>1. /\ rec.id \in Registered /\ Registered' = Registered
      /\ \A x \in Registered : agents'[x] = IF x = rec.id THEN rec ELSE agents[x]
  BY DEF UpdateAgent, Registered
<1>2. SameParents
  BY UpdateSameParents
<1>3. RevokedIn(agents') = RevokedIn(agents) \cup {rec.id}
  BY <1>1 DEF RevokedIn, Registered
<1>4. \A x \in Registered : agents'[x].parent = agents[x].parent
  BY <1>2 DEF SameParents
<1>5. TopDown(agents', targets')
  BY <1>1, <1>3, <1>4 DEF StoreRevocationInv, TopDown, RevokedIn, Registered
<1> QED
  BY <1>1, <1>2, <1>3, <1>5 DEF Kept, Registered

\* What a process writes next, while requests register and revoke only.
LEMMA NextWriteKept ==
    ASSUME StoreRevocationInv, NEW p \in Proc, UpdateAgent(Head(call[p].writes)),
           call[p].pc \in {"revokeWrite", "childWrite"}, targets' = targets
    PROVE  /\ Kept /\ TopDown(agents', targets') /\ DOMAIN agents' = DOMAIN agents
           /\ RevokedIn(agents') = RevokedIn(agents) \cup {Head(call[p].writes).id}
<1> DEFINE rec == Head(call[p].writes)
<1>1. /\ call[p].writes \in Seq(AgentRecord) /\ call[p].writes # <<>>
      /\ WritesTopDown(call[p], agents, targets) /\ KeepsParents(call[p], agents)
  BY DEF StoreRevocationInv, RevocationInv, Inv, CallsOK, CallOK, Call, StoreCall
<1>2. 1 \in DOMAIN call[p].writes /\ rec = call[p].writes[1]
  BY <1>1
<1> HIDE DEF rec
<1>3. /\ rec.status = "revoked" /\ rec.parent = agents[rec.id].parent
      /\ rec.id \in Pending(call[p])
  BY <1>1, <1>2 DEF WritesTopDown, KeepsParents, Pending, Ids
<1>4. rec.id \in targets \/ agents[rec.id].parent \in RevokedIn(agents)
  BY <1>1, <1>3 DEF WritesTopDown, Revoking
<1>5. UpdateAgent(rec)
  BY DEF rec
<1> QED
  BY <1>3, <1>4, <1>5, WriteKept DEF rec

\* The traversal between a step and the choice of the next one (Advance).
Walks(c, A, T) ==
    /\ \A n \in DOMAIN c.writes : c.writes[n].status = "revoked"
    /\ c.arg \in T
    /\ \A x \in Pending(c) : A[x].parent \in RevokedIn(A)
    /\ Queued(c) \subseteq RevokedIn(A) \cup Pending(c)
    /\ c.known \subseteq DOMAIN A
    /\ ReachedFrom(c.arg, c.known, A)
    /\ ~c.cascade => c.known = {c.arg}
    /\ ListsAreComplete => \E V \in SUBSET Agent : Traverses(c, V, A)

LEMMA AdvanceWalks ==
    ASSUME NEW c \in Call, NEW A, NEW T, Walks(c, A, T)
    PROVE  StoreCall(Advance(c), A, T)
<1> DEFINE d == Advance(c)
<1>1. /\ d.arg = c.arg /\ d.known = c.known /\ d.writes = c.writes /\ d.queue = c.queue
      /\ d.cascade = c.cascade
      /\ d.pc = IF c.writes # <<>> THEN "childWrite"
                ELSE IF c.queue # <<>> THEN "children" ELSE Publish
  BY DEF Advance, Call
<1>2. Publish \in {"redis", "remember"}
  BY DEF Publish
<1> HIDE DEF d
<1>3. Pending(d) = Pending(c) /\ Queued(d) = Queued(c)
  BY <1>1 DEF Pending, Queued, Ids
<1>4. IsAbout(d, A)
  BY <1>1 DEF Walks, IsAbout
<1>5. WritesTopDown(d, A, T)
  BY <1>1, <1>2, <1>3 DEF Walks, WritesTopDown, Revoking
<1>6. Reaches(d, A)
  <2> SUFFICES ASSUME ListsAreComplete PROVE Reaches(d, A)
    BY DEF Reaches
  <2>1. PICK V \in SUBSET Agent : Traverses(c, V, A)
    BY DEF Walks
  <2>2. Traverses(d, V, A)
    BY <1>1, <1>3, <2>1 DEF Traverses
  <2>3. ASSUME d.pc \in {"redis", "remember"}
        PROVE  d.known \subseteq RevokedIn(A)
    <3>1. c.writes = <<>> /\ c.queue = <<>>
      BY <1>1, <2>3
    <3>2. Pending(c) = {} /\ Queued(c) = {}
      BY <3>1 DEF Pending, Queued, Ids
    <3>3. c.known \subseteq V
      BY <2>1, <3>2 DEF Walks, Traverses, ReachedFrom
    <3> QED
      BY <1>1, <2>1, <3>2, <3>3 DEF Traverses
  <2> QED
    BY <2>2, <2>3 DEF Reaches
<1> QED
  BY <1>4, <1>5, <1>6 DEF StoreCall, d

LEMMA RespondKeepsStore ==
    ASSUME StoreRevocationInv, RevocationInv', NEW p \in Proc, Respond(p), Kept,
           TopDown(agents', targets'), DOMAIN agents' = DOMAIN agents,
           ListsAreComplete => acked' \subseteq acked \cup RevokedIn(agents')
    PROVE  StoreRevocationInv'
BY GoKeepsStore, IdleIsStoreCall DEF Respond

-----------------------------------------------------------------------------
(* The steps                                                                 *)

LEMMA RegisterKeepsStore ==
    ASSUME StoreRevocationInv, AckedAreUsed, RevocationInv', NEW a \in Agent,
           NEW parent \in Agent \cup {None}, RegisterAgent(a, parent)
    PROVE  StoreRevocationInv'
<1> DEFINE rec == [id |-> a, parent |-> parent, key |-> <<a, 0>>, status |-> "active",
                   created |-> Cardinality(Registered)]
<1>1. a \notin Registered /\ agents' = Put(agents, a, rec) /\ a \notin acked
  BY DEF RegisterAgent, CreateAgent, AckedAreUsed, UsedAgents
<1>2. rec.status = "active"
  OBVIOUS
<1>3. targets' = targets /\ acked' = acked /\ call' = call
  BY DEF RegisterAgent, history
<1> HIDE DEF rec
<1>4. /\ Registered' = Registered \cup {a} /\ agents'[a] = rec
      /\ \A x \in Registered : agents'[x] = agents[x]
  BY <1>1 DEF Put, Registered
<1>5. SameParents
  BY <1>4 DEF SameParents
<1>6. RevokedIn(agents') = RevokedIn(agents)
  BY <1>1, <1>2, <1>4 DEF RevokedIn, Registered
<1>7. Kept /\ TopDown(agents', targets')
  BY <1>3, <1>4, <1>5, <1>6 DEF Kept, StoreRevocationInv, TopDown, RevokedIn, Registered
<1>8. ASSUME NEW q \in Proc
      PROVE  StoreCall(call'[q], agents', targets')
  <2>1. CallOK(call[q], Registered, redis) /\ StoreCall(call[q], agents, targets)
    BY DEF StoreRevocationInv, RevocationInv, Inv, CallsOK
  <2> QED
    BY <1>3, <1>7, <2>1, StoreCallLater
<1>9. ListsAreComplete => acked' \cap DOMAIN agents' \subseteq RevokedIn(agents')
  BY <1>1, <1>3, <1>4, <1>6 DEF StoreRevocationInv, Registered
<1> QED
  BY <1>7, <1>8, <1>9 DEF StoreRevocationInv

LEMMA RevokeBeginKeepsStore ==
    ASSUME StoreRevocationInv, RevocationInv', NEW p \in Proc, NEW a \in Agent,
           NEW cascade \in BOOLEAN, RevokeBegin(p, a, cascade)
    PROVE  StoreRevocationInv'
<1> DEFINE queue == IF cascade THEN <<[id |-> a, depth |-> 0]>> ELSE <<>>
           known == {a} \cup IF cascade THEN Subtree(a) ELSE {}
           c == [Idle EXCEPT !.pc = IF cascade THEN "list" ELSE "revokeRead",
                             !.arg = a, !.cascade = cascade, !.ids = <<a>>,
                             !.queue = queue, !.known = known]
<1>1. /\ a \in Registered /\ Go(p, c) /\ UNCHANGED store
      /\ targets' = targets \cup {a} /\ acked' = acked
  BY DEF RevokeBegin, Accept
<1>2. Kept /\ agents' = agents /\ TopDown(agents', targets')
  BY <1>1, QuietStoreKept
<1>3. known \subseteq Registered /\ ReachedFrom(a, known, agents) /\ (~cascade => known = {a})
  <2>1. CASE cascade
    BY <1>1, <2>1, SubtreeIsReached DEF StoreRevocationInv, RevocationInv, Inv
  <2>2. CASE ~cascade
    BY <1>1, <2>2 DEF ReachedFrom
  <2> QED
    BY <2>1, <2>2
<1> HIDE DEF known, queue
<1>4. /\ c.pc \in {"list", "revokeRead"} /\ c.arg = a /\ c.known = known /\ c.writes = <<>>
      /\ c.cascade = cascade
  BY DEF Idle
<1> HIDE DEF c
<1>5. StoreCall(c, agents', targets')
  BY <1>1, <1>2, <1>3, <1>4
     DEF StoreCall, WritesTopDown, IsAbout, Reaches, Revoking, Registered
<1> QED
  BY <1>1, <1>2, <1>5, GoKeepsStore

\* The listing, whatever it finds and whether or not it fails.
LEMMA ListKeepsStore ==
    ASSUME StoreRevocationInv, RevocationInv', NEW p \in Proc, ListStep(p) \/ ListFails(p)
    PROVE  StoreRevocationInv'
<1> DEFINE old == call[p]
           c(pc, ids, queue) == [old EXCEPT !.pc = pc, !.ids = ids, !.queue = queue]
<1>1. old \in Call /\ old.pc = "list" /\ StoreCall(old, agents, targets)
  BY DEF StoreRevocationInv, RevocationInv, Inv, CallsOK, ListStep, ListFails, At
<1>2. UNCHANGED store /\ UNCHANGED history
  BY DEF ListStep, ListFails
<1>3. Kept /\ agents' = agents /\ TopDown(agents', targets')
  BY <1>2, QuietStoreKept DEF history
<1>4. PICK pc, ids, queue : pc \in {"list", "revokeRead"} /\ Go(p, c(pc, ids, queue))
  <2>1. CASE ListStep(p)
    <3>1. PICK s : LET rest == Dequeue(old.queue) \o Items(s, Head(old.queue).depth + 1) IN
                   Go(p, [old EXCEPT !.ids = Collect(@, s), !.queue = rest,
                                     !.pc = IF rest = <<>> THEN "revokeRead" ELSE "list"])
      BY <2>1 DEF ListStep
    <3> DEFINE rest == Dequeue(old.queue) \o Items(s, Head(old.queue).depth + 1)
               next == IF rest = <<>> THEN "revokeRead" ELSE "list"
    <3>2. Go(p, c(next, Collect(old.ids, s), rest)) /\ next \in {"list", "revokeRead"}
      BY <1>1, <3>1 DEF Call
    <3> HIDE DEF c, rest, next
    <3> QED
      BY <3>2
  <2>2. CASE ListFails(p)
    <3>1. Go(p, c("revokeRead", <<old.arg>>, <<>>))
      BY <2>2 DEF ListFails
    <3> HIDE DEF c
    <3> QED
      BY <3>1
  <2> QED
    BY <2>1, <2>2
<1> DEFINE d == c(pc, ids, queue)
<1>5. /\ d.pc = pc /\ d.arg = old.arg /\ d.known = old.known /\ d.writes = old.writes
      /\ d.cascade = old.cascade
  BY <1>1 DEF Call
<1>6. Go(p, d)
  BY <1>4
<1> HIDE DEF d
<1>7. StoreCall(d, agents', targets')
  BY <1>1, <1>2, <1>3, <1>4, <1>5
     DEF StoreCall, WritesTopDown, IsAbout, Reaches, Revoking, history
<1> QED
  BY <1>2, <1>3, <1>6, <1>7, GoKeepsStore DEF history

LEMMA RevokeReadKeepsStore ==
    ASSUME StoreRevocationInv, RevocationInv', NEW p \in Proc, RevokeRead(p)
    PROVE  StoreRevocationInv'
<1> DEFINE old == call[p]
           rec == Revoked(agents[old.arg])
           c == [old EXCEPT !.pc = "revokeWrite", !.writes = <<rec>>]
<1>1. /\ old \in Call /\ old.pc = "revokeRead" /\ StoreCall(old, agents, targets)
      /\ old.arg \in Registered
  BY DEF StoreRevocationInv, RevocationInv, Inv, CallsOK, CallOK, RevokeRead, At
<1>2. Go(p, c) /\ UNCHANGED store /\ UNCHANGED history
  BY DEF RevokeRead
<1>3. Kept /\ agents' = agents /\ TopDown(agents', targets')
  BY <1>2, QuietStoreKept DEF history
<1>4. rec.status = "revoked" /\ rec.id = old.arg
  BY <1>1 DEF Revoked, StoreRevocationInv, RevocationInv, Inv, StoreInv, StoreTypeOK, Registered,
              AgentRecord
<1> HIDE DEF rec
<1>5. /\ c.pc = "revokeWrite" /\ c.arg = old.arg /\ c.known = old.known /\ c.writes = <<rec>>
      /\ c.cascade = old.cascade
  BY <1>1 DEF Call
<1> HIDE DEF c
<1>6. Pending(c) = {old.arg} /\ \A n \in DOMAIN c.writes : c.writes[n].status = "revoked"
  BY <1>4, <1>5 DEF Pending, Ids
<1>7. StoreCall(c, agents', targets')
  BY <1>1, <1>2, <1>3, <1>5, <1>6
     DEF StoreCall, WritesTopDown, IsAbout, Reaches, Revoking, history
<1> QED
  BY <1>2, <1>3, <1>7, GoKeepsStore DEF history

LEMMA RevokeWriteKeepsStore ==
    ASSUME StoreRevocationInv, RevocationInv', NEW p \in Proc, RevokeWrite(p)
    PROVE  StoreRevocationInv'
<1> DEFINE old == call[p]
           pc == IF old.cascade THEN "children" ELSE Publish
           queue == IF old.cascade THEN <<[id |-> old.arg, depth |-> 0]>> ELSE <<>>
           c == [old EXCEPT !.pc = pc, !.writes = <<>>, !.queue = queue]
<1>1. /\ old \in Call /\ old.pc = "revokeWrite" /\ StoreCall(old, agents, targets)
      /\ CallOK(old, Registered, redis)
  BY DEF StoreRevocationInv, RevocationInv, Inv, CallsOK, RevokeWrite, At
<1>2. Go(p, c) /\ UpdateAgent(Head(old.writes)) /\ UNCHANGED history
  BY DEF RevokeWrite
<1>3. /\ Kept /\ TopDown(agents', targets') /\ DOMAIN agents' = DOMAIN agents
      /\ RevokedIn(agents') = RevokedIn(agents) \cup {Head(old.writes).id}
  BY <1>1, <1>2, NextWriteKept DEF history
<1>4. Head(old.writes).id = old.arg
  <2>1. old.writes \in Seq(AgentRecord) /\ old.writes # <<>>
    BY <1>1 DEF CallOK, Call
  <2>2. 1 \in DOMAIN old.writes /\ Head(old.writes) = old.writes[1]
    BY <2>1
  <2> QED
    BY <1>1, <2>2 DEF StoreCall, WritesTopDown, Pending, Ids
<1>5. /\ c.pc = pc /\ c.arg = old.arg /\ c.known = old.known /\ c.writes = <<>>
      /\ c.cascade = old.cascade /\ c.queue = queue
  BY <1>1 DEF Call
<1>6. /\ pc \in {"children", "redis", "remember"} /\ (pc # "children" => ~old.cascade)
      /\ pc = "children" => queue = <<[id |-> old.arg, depth |-> 0]>>
  BY DEF Publish
<1> HIDE DEF c, pc, queue
<1>7. Pending(c) = {} /\ (c.pc = "children" => Queued(c) = {old.arg})
  BY <1>5, <1>6 DEF Pending, Queued, Ids
<1>8. StoreCall(old, agents', targets')
  BY <1>1, <1>3, StoreCallLater
<1>9. WritesTopDown(c, agents', targets') /\ IsAbout(c, agents')
  BY <1>1, <1>3, <1>4, <1>5, <1>6, <1>7, <1>8 DEF StoreCall, WritesTopDown, IsAbout, Revoking
<1>10. Reaches(c, agents')
  <2>1. CASE c.pc = "children"
    <3>1. old.arg \in Agent
      BY <1>1 DEF StoreRevocationInv, RevocationInv, Inv, StoreInv, StoreTypeOK, CallOK, Registered
    <3>2. Traverses(c, {old.arg}, agents')
      BY <1>3, <1>4, <1>5, <1>7, <2>1 DEF Traverses
    <3> QED
      BY <2>1, <3>1, <3>2 DEF Reaches
  <2>2. CASE c.pc # "children"
    BY <1>1, <1>3, <1>4, <1>5, <1>6, <1>8, <2>2 DEF StoreCall, IsAbout, Reaches, Revoking
  <2> QED
    BY <2>1, <2>2
<1>11. StoreCall(c, agents', targets')
  BY <1>9, <1>10 DEF StoreCall
<1> QED
  BY <1>2, <1>3, <1>11, GoKeepsStore DEF history

LEMMA ReadChildrenKeepsStore ==
    ASSUME StoreRevocationInv, RevocationInv', NEW p \in Proc, ReadChildren(p)
    PROVE  StoreRevocationInv'
<1> DEFINE old == call[p]
           cur == Head(old.queue)
<1>1. PICK s \in ChildLists(cur.id) :
        Go(p, Advance([old EXCEPT !.queue = Dequeue(@) \o Items(s, cur.depth + 1),
                                  !.writes = [n \in DOMAIN s |-> Revoked(s[n])]]))
  BY DEF ReadChildren
<1> DEFINE items == Items(s, cur.depth + 1)
           queue == Tail(old.queue) \o items
           writes == [n \in DOMAIN s |-> Revoked(s[n])]
           b == [old EXCEPT !.queue = queue, !.writes = writes]
<1>2. Go(p, Advance(b)) /\ UNCHANGED store /\ UNCHANGED history
  BY <1>1 DEF ReadChildren, Dequeue
<1>3. Kept /\ agents' = agents /\ TopDown(agents', targets')
  BY <1>2, QuietStoreKept DEF history
<1>4. /\ old \in Call /\ old.pc = "children" /\ StoreCall(old, agents, targets)
      /\ old.queue \in Seq(Item) /\ old.queue # <<>>
  BY DEF StoreRevocationInv, RevocationInv, Inv, CallsOK, CallOK, Call, ReadChildren, At
<1>5. cur \in Item /\ Tail(old.queue) \in Seq(Item)
  BY <1>4
<1>6. cur.depth + 1 \in Nat
  BY <1>5 DEF Item
<1>7. items \in Seq(Item)
  BY <1>6, ItemsAreOK DEF StoreRevocationInv, RevocationInv, Inv
<1>8. /\ s \in Seq(AgentRecord)
      /\ \A n \in DOMAIN s : s[n].id \in Registered /\ s[n] = agents[s[n].id]
  BY ChildListsAreRecords DEF StoreRevocationInv, RevocationInv, Inv
<1>9. \A n \in DOMAIN s : /\ Revoked(s[n]) \in AgentRecord
                          /\ Revoked(s[n]).id = s[n].id
                          /\ Revoked(s[n]).status = "revoked"
  <2> TAKE n \in DOMAIN s
  <2>1. s[n] \in AgentRecord
    BY <1>8
  <2> QED
    BY <2>1 DEF Revoked, AgentRecord, Status
<1>10. writes \in Seq(AgentRecord) /\ DOMAIN writes = DOMAIN s
  <2>1. DOMAIN s = 1..Len(s) /\ Len(s) \in Nat
    BY <1>8
  <2>2. writes \in [1..Len(s) -> AgentRecord]
    BY <1>9, <2>1
  <2> QED
    BY <2>1, <2>2, SeqDef
<1>11. \A n \in DOMAIN writes : writes[n].id = s[n].id /\ writes[n].status = "revoked"
  BY <1>9
<1>12. DOMAIN items = DOMAIN s /\ \A n \in DOMAIN s : items[n].id = s[n].id
  BY DEF Items
<1> DEFINE found == Ids(s)
<1>13. \A x \in found : x \in Registered /\ agents[x].parent = cur.id
  <2>1. \A n \in DOMAIN s : /\ s[n].id \in Registered /\ s[n] = agents[s[n].id]
                            /\ s[n].parent = cur.id
    BY ChildListsAreRecords DEF StoreRevocationInv, RevocationInv, Inv
  <2> HIDE DEF cur
  <2> QED
    BY <2>1 DEF Ids
<1>14. ListsAreComplete => \A x \in Registered : agents[x].parent = cur.id => x \in found
  BY ChildListsAreComplete DEF StoreRevocationInv, RevocationInv, Inv, Children, Ids
<1> HIDE DEF items, writes
<1>15. Ids(queue) = Ids(Tail(old.queue)) \cup found
  <2>1. Ids(items) = found
    BY <1>12 DEF Ids
  <2> HIDE DEF found
  <2> QED
    BY <1>5, <1>7, <2>1, IdsOfConcat
<1>16. Queued(old) = {cur.id} \cup Ids(Tail(old.queue))
  BY <1>4, IdsOfTail DEF Queued
<1>17. queue \in Seq(Item)
  BY <1>5, <1>7
<1> HIDE DEF queue, found
<1>18. /\ b \in Call /\ b.writes = writes /\ b.queue = queue /\ b.arg = old.arg
       /\ b.known = old.known /\ b.cascade = old.cascade
  BY <1>4, <1>10, <1>17 DEF Call
<1> HIDE DEF b, cur
<1>19. Pending(b) = found
  BY <1>10, <1>11, <1>18 DEF Pending, Ids, found
<1>20. Queued(b) \cup {cur.id} = Queued(old) \cup found /\ found \subseteq Queued(b)
  BY <1>15, <1>16, <1>18 DEF Queued
<1>21. Pending(old) = {} /\ Queued(old) \subseteq RevokedIn(agents)
  BY <1>4 DEF StoreCall, WritesTopDown, Pending, Ids
<1>22. ListsAreComplete => \E V \in SUBSET Agent : Traverses(b, V, agents)
  <2> SUFFICES ASSUME ListsAreComplete PROVE \E V \in SUBSET Agent : Traverses(b, V, agents)
    OBVIOUS
  <2>1. PICK V \in SUBSET Agent : Traverses(old, V, agents)
    BY <1>4 DEF StoreCall, Reaches
  <2>2. V \cup found \in SUBSET Agent
    BY <1>13 DEF StoreRevocationInv, RevocationInv, Inv, StoreInv, StoreTypeOK, Registered
  <2>3. old.known \subseteq Registered
    BY <1>4 DEF StoreCall, IsAbout, Revoking, Registered
  <2>4. ASSUME NEW x \in old.known, agents[x].parent \in V \cup found
        PROVE  x \in V \cup found \/ agents[x].parent \in Queued(b)
    <3>1. CASE agents[x].parent \in found
      BY <1>20, <3>1
    <3>2. CASE agents[x].parent = cur.id
      BY <1>14, <2>3, <3>2
    <3>3. CASE agents[x].parent \in V /\ agents[x].parent # cur.id
      BY <1>20, <2>1, <3>3 DEF Traverses
    <3> QED
      BY <2>4, <3>1, <3>2, <3>3
  <2>5. Traverses(b, V \cup found, agents)
    BY <1>18, <1>19, <1>21, <2>1, <2>4 DEF Traverses
  <2> QED
    BY <2>2, <2>5
<1>23. Walks(b, agents, targets)
  <2>1. cur.id \in RevokedIn(agents)
    BY <1>16, <1>21
  <2>2. \A x \in Pending(b) : agents[x].parent \in RevokedIn(agents)
    BY <1>13, <1>19, <2>1
  <2>3. Queued(b) \subseteq RevokedIn(agents) \cup Pending(b)
    BY <1>19, <1>20, <1>21
  <2>4. \A n \in DOMAIN b.writes : b.writes[n].status = "revoked"
    BY <1>11, <1>18
  <2>5. /\ b.arg \in targets /\ b.known \subseteq DOMAIN agents
        /\ ReachedFrom(b.arg, b.known, agents) /\ (~b.cascade => b.known = {b.arg})
    BY <1>4, <1>18 DEF StoreCall, WritesTopDown, IsAbout, Revoking
  <2> QED
    BY <1>22, <2>2, <2>3, <2>4, <2>5 DEF Walks
<1>24. StoreCall(Advance(b), agents', targets')
  BY <1>2, <1>3, <1>18, <1>23, AdvanceWalks DEF history
<1> QED
  BY <1>2, <1>3, <1>24, GoKeepsStore DEF history

LEMMA WriteChildKeepsStore ==
    ASSUME StoreRevocationInv, RevocationInv', NEW p \in Proc, WriteChild(p)
    PROVE  StoreRevocationInv'
<1> DEFINE old == call[p]
           b == [old EXCEPT !.writes = Tail(old.writes)]
<1>1. /\ old \in Call /\ old.pc = "childWrite" /\ StoreCall(old, agents, targets)
      /\ old.writes \in Seq(AgentRecord) /\ old.writes # <<>>
      /\ CallOK(old, Registered, redis)
  BY DEF StoreRevocationInv, RevocationInv, Inv, CallsOK, CallOK, Call, WriteChild, At
<1>2. Go(p, Advance(b)) /\ UpdateAgent(Head(old.writes)) /\ UNCHANGED history
  BY DEF WriteChild
<1>3. /\ Kept /\ TopDown(agents', targets') /\ DOMAIN agents' = DOMAIN agents
      /\ RevokedIn(agents') = RevokedIn(agents) \cup {Head(old.writes).id}
  BY <1>1, <1>2, NextWriteKept DEF history
<1>4. StoreCall(old, agents', targets')
  BY <1>1, <1>3, StoreCallLater
<1>5. Tail(old.writes) \in Seq(AgentRecord)
  BY <1>1
<1>6. /\ b \in Call /\ b.writes = Tail(old.writes) /\ b.queue = old.queue /\ b.arg = old.arg
      /\ b.known = old.known /\ b.cascade = old.cascade
  BY <1>1, <1>5 DEF Call
<1> HIDE DEF b
<1>7. Pending(old) = {Head(old.writes).id} \cup Pending(b) /\ Queued(b) = Queued(old)
  BY <1>1, <1>6, IdsOfTail DEF Pending, Queued
<1>8. \A n \in DOMAIN b.writes : b.writes[n].status = "revoked"
  <2> SUFFICES ASSUME NEW n \in DOMAIN b.writes PROVE b.writes[n].status = "revoked"
    OBVIOUS
  <2>1. n + 1 \in DOMAIN old.writes /\ b.writes[n] = old.writes[n + 1]
    BY <1>1, <1>6
  <2> QED
    BY <1>1, <2>1 DEF StoreCall, WritesTopDown
<1>9. ListsAreComplete => \E V \in SUBSET Agent : Traverses(b, V, agents')
  <2> SUFFICES ASSUME ListsAreComplete PROVE \E V \in SUBSET Agent : Traverses(b, V, agents')
    OBVIOUS
  <2>1. PICK V \in SUBSET Agent : Traverses(old, V, agents')
    BY <1>1, <1>4 DEF StoreCall, Reaches
  <2>2. Traverses(b, V, agents')
    BY <1>3, <1>6, <1>7, <2>1 DEF Traverses
  <2> QED
    BY <2>2
<1>10. Walks(b, agents', targets')
  <2>1. /\ \A x \in Pending(b) : agents'[x].parent \in RevokedIn(agents')
        /\ Queued(b) \subseteq RevokedIn(agents') \cup Pending(b)
    BY <1>1, <1>3, <1>4, <1>7 DEF StoreCall, WritesTopDown
  <2>2. /\ b.arg \in targets' /\ b.known \subseteq DOMAIN agents'
        /\ ReachedFrom(b.arg, b.known, agents') /\ (~b.cascade => b.known = {b.arg})
    BY <1>1, <1>4, <1>6 DEF StoreCall, WritesTopDown, IsAbout, Revoking
  <2> QED
    BY <1>8, <1>9, <2>1, <2>2 DEF Walks
<1>11. StoreCall(Advance(b), agents', targets')
  BY <1>6, <1>10, AdvanceWalks
<1> QED
  BY <1>2, <1>3, <1>11, GoKeepsStore DEF history

\* The writes to the registry leave the store alone; the last one answers.
LEMMA RegistryWriteKeepsStore ==
    ASSUME StoreRevocationInv, RevocationInv', NEW p \in Proc, WriteRedis(p) \/ WriteMemory(p)
    PROVE  StoreRevocationInv'
<1> DEFINE old == call[p]
           c(pc, ids) == [old EXCEPT !.pc = pc, !.ids = ids]
<1>1. /\ old \in Call /\ old.pc \in {"redis", "remember"} /\ StoreCall(old, agents, targets)
  BY DEF StoreRevocationInv, RevocationInv, Inv, CallsOK, WriteRedis, WriteMemory, At
<1>2. UNCHANGED store /\ targets' = targets
  BY DEF WriteRedis, WriteMemory, history
<1>3. Kept /\ agents' = agents /\ TopDown(agents', targets')
  BY <1>2, QuietStoreKept
<1>4. \/ Respond(p) /\ acked' = acked \cup old.known
      \/ acked' = acked /\ \E pc \in {"redis", "remember"} : \E ids : Go(p, c(pc, ids))
  <2>1. CASE WriteRedis(p)
    <3>1. Go(p, [old EXCEPT !.pc = "remember"]) /\ acked' = acked
      BY <2>1 DEF WriteRedis, history
    <3>2. [old EXCEPT !.pc = "remember"] = c("remember", old.ids)
      BY <1>1 DEF Call
    <3> QED
      BY <3>1, <3>2
  <2>2. CASE WriteMemory(p)
    BY <2>2 DEF WriteMemory, Publish
  <2> QED
    BY <2>1, <2>2
<1>5. CASE Respond(p) /\ acked' = acked \cup old.known
  <2>1. ListsAreComplete => old.known \subseteq RevokedIn(agents')
    BY <1>1, <1>3 DEF StoreCall, Reaches
  <2> QED
    BY <1>3, <1>5, <2>1, RespondKeepsStore
<1>6. ASSUME acked' = acked, NEW pc \in {"redis", "remember"}, NEW ids, Go(p, c(pc, ids))
      PROVE  StoreRevocationInv'
  <2> DEFINE d == c(pc, ids)
  <2>1. /\ d.pc = pc /\ d.arg = old.arg /\ d.known = old.known /\ d.writes = old.writes
        /\ d.cascade = old.cascade
    BY <1>1 DEF Call
  <2>2. Go(p, d)
    BY <1>6
  <2> HIDE DEF d
  <2>3. StoreCall(d, agents', targets')
    BY <1>1, <1>2, <1>3, <2>1 DEF StoreCall, WritesTopDown, IsAbout, Reaches, Revoking
  <2> QED
    BY <1>3, <1>6, <2>2, <2>3, GoKeepsStore
<1> QED
  BY <1>4, <1>5, <1>6

LEMMA EndedCallKeepsStore ==
    ASSUME StoreRevocationInv, RevocationInv', NEW p \in Proc,
           RefuseDepth(p) \/ ReadFails(p) \/ WriteFails(p) \/ RedisFails(p)
    PROVE  StoreRevocationInv'
<1>1. Respond(p) /\ acked' = acked /\ targets' = targets
  BY DEF RefuseDepth, ReadFails, WriteFails, RedisFails, history
<1>2. Kept /\ TopDown(agents', targets') /\ DOMAIN agents' = DOMAIN agents
  <2>1. CASE UNCHANGED store
    BY <1>1, <2>1, QuietStoreKept
  <2>2. CASE WriteFails(p) /\ UpdateAgent(Head(call[p].writes))
    <3>1. call[p].pc \in {"revokeWrite", "childWrite"}
      BY <2>2 DEF WriteFails, StoreRevocationInv, StoreCall, WritesTopDown, Revoking
    <3> QED
      BY <1>1, <2>2, <3>1, NextWriteKept
  <2> QED
    BY <2>1, <2>2 DEF RefuseDepth, ReadFails, WriteFails, RedisFails
<1> QED
  BY <1>1, <1>2, RespondKeepsStore

\* A restart keeps the records, or loses them all and every request with them.
LEMMA CrashKeepsStore ==
    ASSUME StoreRevocationInv, RevocationInv', NEW i \in Instance, Crash(i)
    PROVE  StoreRevocationInv'
<1>1. targets' = targets /\ acked' = acked
  BY DEF Crash, history
<1>2. CASE UNCHANGED store
  <2>1. Kept /\ agents' = agents /\ TopDown(agents', targets')
    BY <1>1, <1>2, QuietStoreKept
  <2>2. ASSUME NEW q \in Proc
        PROVE  StoreCall(call'[q], agents', targets')
    <3>1. call'[q] = Idle \/ call'[q] = call[q]
      BY DEF Crash
    <3> QED
      BY <1>1, <2>1, <3>1, IdleIsStoreCall DEF StoreRevocationInv
  <2> QED
    BY <1>1, <2>1, <2>2 DEF StoreRevocationInv
<1>3. CASE Registered' = {} /\ call' = [p \in Proc |-> Idle]
  <2>1. DOMAIN agents' = {} /\ RevokedIn(agents') = {}
    BY <1>3 DEF Registered, RevokedIn
  <2>2. \A q \in Proc : StoreCall(call'[q], agents', targets')
    BY <1>3, IdleIsStoreCall
  <2>3. TopDown(agents', targets')
    BY <2>1 DEF TopDown
  <2> QED
    BY <2>1, <2>2, <2>3 DEF StoreRevocationInv
<1> QED
  BY <1>2, <1>3, CrashCases DEF StoreRevocationInv, RevocationInv

\* An answer is about registered agents.
LEMMA AckedStayUsed ==
    ASSUME StoreRevocationInv, AckedAreUsed, [Next]_vars
    PROVE  AckedAreUsed'
<1>1. StillUsed
  BY UsedStaysUsed DEF StoreRevocationInv, RevocationInv, AckedAreUsed
<1>2. ASSUME NEW p \in Proc, WriteMemory(p)
      PROVE  acked' \subseteq acked \cup Registered
  BY <1>2 DEF WriteMemory, history, At, StoreRevocationInv, StoreCall, IsAbout, Revoking, Registered
<1>3. acked' \subseteq acked \cup Registered
  BY <1>2 DEF Next, vars, history, RegisterAgent, Start, Continue, Fail, Crash, SuspendRead, SuspendWrite,
           RotateBegin, RotateRead, RotateRefused, RotateWrite, RotateInvalidate, RevokeBegin,
           ListStep, RevokeRead, RevokeWrite, ReadChildren, RefuseDepth, WriteChild, WriteRedis,
           ListFails, ReadFails, WriteFails, RedisFails
<1> QED
  BY <1>1, <1>3 DEF AckedAreUsed, StillUsed

-----------------------------------------------------------------------------
(* The theorems                                                              *)

LEMMA StoreRevocationInit == Init => StoreRevocationInv /\ AckedAreUsed
<1> SUFFICES ASSUME Init PROVE StoreRevocationInv /\ AckedAreUsed
  OBVIOUS
<1>1. RevocationInv
  BY RevocationInit
<1>2. acked = {} /\ (\A p \in Proc : call[p] = Idle) /\ RevokedIn(agents) = {}
  BY DEF Init, StoreInit, RevokedIn
<1> QED
  BY <1>1, <1>2, IdleIsStoreCall
     DEF StoreRevocationInv, TopDown, AckedAreUsed, Init, StoreInit, Registered

LEMMA StoreRevocationNext ==
    ASSUME OnlyRevokes, StoreRevocationInv, AckedAreUsed, RevocationInv', [Next]_vars
    PROVE  StoreRevocationInv'
<1>1. ASSUME NEW p \in Proc, Start(p)
      PROVE  StoreRevocationInv'
  BY <1>1, RevokeBeginKeepsStore DEF Start, SuspendRead, RotateBegin, Accept, OnlyRevokes
<1>2. ASSUME NEW p \in Proc, Continue(p)
      PROVE  StoreRevocationInv'
  <2>1. call[p].pc \notin {"suspend", "rotateRead", "rotateWrite", "invalidate"}
    BY DEF StoreRevocationInv, StoreCall, WritesTopDown, Revoking
  <2>2. ~(SuspendWrite(p) \/ RotateRead(p) \/ RotateRefused(p) \/ RotateWrite(p) \/ RotateInvalidate(p))
    BY <2>1 DEF SuspendWrite, RotateRead, RotateRefused, RotateWrite, RotateInvalidate, At
  <2> QED
    BY <1>2, <2>2, ListKeepsStore, RevokeReadKeepsStore, RevokeWriteKeepsStore,
       ReadChildrenKeepsStore, EndedCallKeepsStore, WriteChildKeepsStore, RegistryWriteKeepsStore
       DEF Continue
<1>3. ASSUME NEW p \in Proc, Fail(p)
      PROVE  StoreRevocationInv'
  BY <1>3, ListKeepsStore, EndedCallKeepsStore DEF Fail
<1>4. CASE UNCHANGED vars
  <2>1. Kept /\ agents' = agents /\ call' = call /\ targets' = targets /\ acked' = acked
    BY <1>4, QuietStoreKept DEF vars, store
  <2> QED
    BY <2>1 DEF StoreRevocationInv
<1> QED
  BY <1>1, <1>2, <1>3, <1>4, RegisterKeepsStore, CrashKeepsStore DEF Next

LEMMA StoreRevocationSpec ==
    ASSUME OnlyRevokes
    PROVE  Spec => []StoreRevocationInv
<1>1. Init => StoreRevocationInv /\ AckedAreUsed
  BY StoreRevocationInit
<1>2. StoreRevocationInv /\ AckedAreUsed /\ [Next]_vars => StoreRevocationInv' /\ AckedAreUsed'
  BY StoreRevocationNext, AckedStayUsed, RevocationNext DEF StoreRevocationInv
<1> QED
  BY <1>1, <1>2, PTL DEF Spec

\* A 200 answer to a cascade means that the agent and all that was below it when
\* the request began are revoked in the store (RevokeAgent and revokeChildren of
\* identity/service.go): for trees of any size and shape that grow during the
\* traversal, any number of revocations at once, and whichever reads, writes and
\* Redis commands fail, the listing of the descendants included. After the restart
\* of an in-memory store the answer is about agents that are no longer there.
THEOREM AnsweredRevocationIsInStore ==
    ASSUME OnlyRevokes, ListsAreComplete
    PROVE  Spec => []AckedIsRevokedInStore
<1>1. StoreRevocationInv => AckedIsRevokedInStore
  BY DEF StoreRevocationInv, AckedIsRevokedInStore, RevokedIn, Registered
<1> QED
  BY <1>1, StoreRevocationSpec, PTL

\* The store is written from the top of the tree (revokeChildren): an agent that
\* no request named is revoked after the one above it, so that a revocation that
\* fails half way leaves no revoked agent below an active one.
THEOREM StoreIsTopDown ==
    ASSUME OnlyRevokes
    PROVE  Spec => []StoreTopDown
<1>1. StoreRevocationInv => StoreTopDown
  <2> SUFFICES ASSUME StoreRevocationInv, NEW a \in Registered \ targets, agents[a].status = "revoked"
               PROVE  /\ agents[a].parent # None
                      /\ agents[agents[a].parent].status = "revoked"
    BY DEF StoreTopDown
  <2>1. agents[a].parent \in RevokedIn(agents)
    BY DEF StoreRevocationInv, TopDown, RevokedIn, Registered
  <2>2. DOMAIN agents \subseteq Agent
    BY DEF StoreRevocationInv, RevocationInv, Inv, StoreInv, StoreTypeOK
  <2> QED
    BY <2>1, <2>2, DeploymentAssumption DEF RevokedIn
<1> QED
  BY <1>1, StoreRevocationSpec, PTL

\* A step of the token handlers is one of the lifecycle, or leaves the agents and
\* the requests about them alone.
LEMMA TokenStepOfLifecycle ==
    ASSUME [TokenNext]_allVars
    PROVE  [Next]_vars \/ UNCHANGED <<store, call, keysMade, history>>
<1>1. CASE UNCHANGED allVars
  BY <1>1 DEF allVars, vars
<1>2. CASE Register \/ \E p \in Proc : AgentStep(p) \/ RotateAnswer(p)
  BY <1>2 DEF Register, AgentStep, RotateAnswer, Continue, Next
<1>3. CASE \E i \in Instance : TokenCrash(i)
  BY <1>3 DEF TokenCrash, Next
<1>4. CASE \E t \in tokens, child \in Agent : Delegate(t, child)
  BY <1>4 DEF Delegate
<1>5. CASE \E v \in TokenProc : TokenStart(v) \/ TokenContinue(v) \/ TokenFail(v)
  <2>1. PICK v \in TokenProc : TokenStart(v) \/ TokenContinue(v) \/ TokenFail(v)
    BY <1>5
  <2>2. CASE TokenStart(v)
    BY <2>2 DEF TokenStart, IssueCheck, RevokeToken, VerifyBegin
  <2>3. CASE TokenContinue(v)
    <3>1. UNCHANGED vars \/ UNCHANGED <<store, call, keysMade, history>>
      BY <2>3 DEF TokenContinue, IssueToken, TokenToRedis, TokenToMemory, CheckTokenId,
                  CheckSubject, CheckIssuer, Check, ResolveFast, ResolveMiss, ResolveLookup,
                  ResolveInsert, AnswerAccepted
    <3> QED
      BY <3>1
  <2>4. CASE TokenFail(v)
    BY <2>4 DEF TokenFail, CheckFails, TokenRedisFails
  <2> QED
    BY <2>1, <2>2, <2>3, <2>4
<1> QED
  BY <1>1, <1>2, <1>3, <1>4, <1>5 DEF TokenNext

\* What issuance relies on.
IssueInv ==
    /\ TokenInv
    /\ StoreRevocationInv
    /\ AckedAreUsed
    /\ ListsAreComplete => NoIssueAfterRevoke

LEMMA IssueNext ==
    ASSUME OnlyRevokes, IssueInv, [TokenNext]_allVars
    PROVE  IssueInv'
<1>1. TokenInv'
  BY TokenNextInv DEF IssueInv
<1>2. StoreRevocationInv' /\ AckedAreUsed'
  <2>1. CASE [Next]_vars
    BY <1>1, <2>1, StoreRevocationNext, AckedStayUsed DEF IssueInv, TokenInv
  <2>2. CASE UNCHANGED <<store, call, keysMade, history>>
    <3>1. Kept /\ agents' = agents /\ call' = call /\ targets' = targets /\ acked' = acked
      BY <2>2, QuietStoreKept DEF IssueInv, store, history
    <3>2. AckedAreUsed'
      BY <2>2, <3>1 DEF IssueInv, AckedAreUsed, UsedAgents, Registered
    <3> QED
      BY <1>1, <3>1, <3>2 DEF IssueInv, TokenInv, StoreRevocationInv
  <2> QED
    BY <2>1, <2>2, TokenStepOfLifecycle
<1>3. serve \in [TokenProc -> Serve]
  BY DEF IssueInv, TokenInv, ServesOK
<1>4. ASSUME ListsAreComplete, NEW v \in TokenProc, serve'[v].pc = "issue"
      PROVE  serve'[v].agent \notin serve'[v].before
  <2>1. CASE serve'[v] = serve[v]
    BY <1>4, <2>1 DEF IssueInv, NoIssueAfterRevoke, On
  <2>2. CASE \E a \in Agent : IssueCheck(v, a)
    <3>1. PICK a \in Agent : IssueCheck(v, a)
      BY <2>2
    <3>2. a \in Registered /\ agents[a].status = "active"
      BY <3>1 DEF IssueCheck
    <3>3. serve'[v] = [Begun EXCEPT !.pc = "issue", !.agent = a]
      BY <1>3, <3>1 DEF IssueCheck, GoServe
    <3>4. serve'[v].agent = a /\ serve'[v].before = acked \cup ackedTokens
      BY <3>3 DEF Begun, IdleServe
    <3>5. a \notin acked
      BY <1>4, <3>2 DEF IssueInv, StoreRevocationInv, RevokedIn, Registered
    <3>6. a \notin ackedTokens
      BY DeploymentAssumption DEF IssueInv, TokenInv, HistoryOK
    <3> QED
      BY <3>4, <3>5, <3>6
  <2>3. CASE ~(\E a \in Agent : IssueCheck(v, a)) /\ serve'[v] # serve[v]
    <3>1. serve'[v].pc # "issue"
      <4>1. CASE \E i \in Instance : TokenCrash(i)
        BY <2>3, <4>1 DEF TokenCrash, IdleServe
      <4>2. CASE TokenStart(v) \/ TokenContinue(v) \/ TokenFail(v)
        <5>1. serve[v] \in Serve
          BY <1>3
        <5>2. CASE Answer(v)
          BY <1>3, <5>2 DEF Answer, GoServe, IdleServe
        <5>3. CASE (\E id \in UsedIds : RevokeToken(v, id)) \/ (\E t \in tokens : VerifyBegin(v, t))
          BY <1>3, <5>3 DEF RevokeToken, VerifyBegin, GoServe, Begun, IdleServe
        <5>4. CASE TokenToRedis(v) \/ ResolveMiss(v)
          BY <1>3, <5>1, <5>4 DEF TokenToRedis, ResolveMiss, GoServe, Serve
        <5>5. CASE ~Answer(v) /\ (CheckTokenId(v) \/ CheckSubject(v) \/ CheckIssuer(v) \/ ResolveLookup(v))
          BY <1>3, <5>1, <5>5 DEF CheckTokenId, CheckSubject, CheckIssuer, Check, ResolveLookup, GoServe, Serve
        <5>6. CASE ResolveFast(v) \/ ResolveInsert(v)
          <6>1. Signed(v).pc \in {"accepted", "subject"}
            BY <5>1 DEF Signed, Serve
          <6> QED
            BY <1>3, <5>6, <6>1 DEF ResolveFast, ResolveInsert, GoServe
        <5>7. TokenFail(v) => Answer(v)
          BY DEF TokenFail, CheckFails, TokenRedisFails
        <5>8. IssueToken(v) \/ TokenToMemory(v) \/ AnswerAccepted(v) => Answer(v)
          BY DEF IssueToken, TokenToMemory, AnswerAccepted
        <5> QED
          BY <2>3, <4>2, <5>2, <5>3, <5>4, <5>5, <5>6, <5>7, <5>8 DEF TokenStart, TokenContinue
      <4>3. CASE \E w \in TokenProc \ {v} : TokenStart(w) \/ TokenContinue(w) \/ TokenFail(w)
        <5>1. PICK w \in TokenProc \ {v} : TokenStart(w) \/ TokenContinue(w) \/ TokenFail(w)
          BY <4>3
        <5>2. \E s : GoServe(w, s)
          BY <5>1
             DEF TokenStart, TokenContinue, TokenFail, IssueCheck, RevokeToken, VerifyBegin, IssueToken,
                 TokenToRedis, TokenToMemory, CheckTokenId, CheckSubject, CheckIssuer, Check,
                 ResolveFast, ResolveMiss, ResolveLookup, ResolveInsert, AnswerAccepted, CheckFails,
                 TokenRedisFails, Answer
        <5>3. serve'[v] = serve[v]
          BY <1>3, <5>1, <5>2 DEF GoServe
        <5> QED
          BY <2>3, <5>3
      <4>4. CASE UNCHANGED serve
        BY <2>3, <4>4
      <4> QED
        BY <4>1, <4>2, <4>3, <4>4
           DEF TokenNext, allVars, tokenVars, Register, AgentStep, RotateAnswer, Delegate
    <3> QED
      BY <1>4, <3>1
  <2> QED
    BY <2>1, <2>2, <2>3
<1> QED
  BY <1>1, <1>2, <1>4 DEF IssueInv, NoIssueAfterRevoke, On

\* No issuance that begins after a revocation answered 200 is let through (the
\* status check of IssueToken, handlers_token.go), for an agent that was revoked
\* by name or as a descendant, however many requests run at once.
THEOREM NoIssuanceAfterRevocation ==
    ASSUME OnlyRevokes, ListsAreComplete
    PROVE  TokenSpec => []NoIssueAfterRevoke
<1>1. TokenInit => IssueInv
  <2> SUFFICES ASSUME TokenInit PROVE IssueInv
    OBVIOUS
  <2>1. \A v \in TokenProc : serve[v].pc = "idle"
    BY DEF TokenInit, IdleServe
  <2> QED
    BY <2>1, TokenInitInv, StoreRevocationInit DEF IssueInv, NoIssueAfterRevoke, On, TokenInit
<1>2. IssueInv /\ [TokenNext]_allVars => IssueInv'
  BY IssueNext
<1>3. IssueInv => NoIssueAfterRevoke
  BY DEF IssueInv
<1> QED
  BY <1>1, <1>2, <1>3, PTL DEF TokenSpec

-----------------------------------------------------------------------------
(* What can undo a revocation in the store                                   *)

\* The records in hand that a request writes next: a revocation writes revoked
\* ones, the other requests the one of the agent they name.
InHand(c) ==
    /\ c.pc \in {"revokeWrite", "childWrite"} => \A n \in DOMAIN c.writes : c.writes[n].status = "revoked"
    /\ c.pc \in {"suspend", "rotateWrite"} => \A n \in DOMAIN c.writes : c.writes[n].id = c.arg

\* Whoever is revoked in the store stays so while the store has it, but for a
\* suspension or a rotation of that very agent that is under way.
UndoneByOwnWrite ==
    [][\A a \in Registered \cap Registered' :
          agents[a].status = "revoked" /\ agents'[a].status # "revoked" =>
              \E p \in Proc : call[p].pc \in {"suspend", "rotateWrite"} /\ call[p].arg = a]_vars

LEMMA GoInHand ==
    ASSUME Inv, \A q \in Proc : InHand(call[q]), NEW p \in Proc, NEW c, Go(p, c), InHand(c)
    PROVE  \A q \in Proc : InHand(call'[q])
BY DEF Go, Inv, CallsOK

\* One record in hand.
LEMMA OneRecordInHand ==
    ASSUME NEW c, NEW r, c.writes = <<r>>,
           \/ c.pc = "revokeWrite" /\ r.status = "revoked"
           \/ c.pc \in {"suspend", "rotateWrite"} /\ r.id = c.arg
    PROVE  InHand(c)
BY DEF InHand

LEMMA InHandNext ==
    ASSUME Inv, \A q \in Proc : InHand(call[q]), [Next]_vars
    PROVE  \A q \in Proc : InHand(call'[q])
<1>1. ASSUME NEW p \in Proc, NEW c, Go(p, c),
             c.pc \notin {"suspend", "rotateWrite", "revokeWrite", "childWrite"}
      PROVE  \A q \in Proc : InHand(call'[q])
  BY <1>1, GoInHand DEF InHand
<1>2. ASSUME NEW p \in Proc, Respond(p)
      PROVE  \A q \in Proc : InHand(call'[q])
  BY <1>1, <1>2 DEF Respond, Idle
<1>3. \A a \in Registered : agents[a] \in AgentRecord /\ agents[a].id = a
  BY DEF Inv, StoreInv, StoreTypeOK, Registered
<1>4. ASSUME NEW p \in Proc, NEW a \in Agent, SuspendRead(p, a) \/ RotateBegin(p, a)
      PROVE  \A q \in Proc : InHand(call'[q])
  <2>1. CASE SuspendRead(p, a)
    <3> DEFINE r == [agents[a] EXCEPT !.status = "suspended"]
               c == [Idle EXCEPT !.pc = "suspend", !.arg = a, !.writes = <<r>>]
    <3>1. Go(p, c) /\ c.pc = "suspend" /\ c.arg = a /\ c.writes = <<r>> /\ a \in Registered
      BY <2>1 DEF SuspendRead, Accept, Idle
    <3>2. r.id = a
      BY <1>3, <3>1 DEF AgentRecord
    <3> HIDE DEF c, r
    <3> QED
      BY <3>1, <3>2, OneRecordInHand, GoInHand
  <2>2. CASE RotateBegin(p, a)
    <3> DEFINE c == [Idle EXCEPT !.pc = "rotateRead", !.arg = a, !.oldKey = agents[a].key]
    <3>1. Go(p, c) /\ c.pc = "rotateRead"
      BY <2>2 DEF RotateBegin, Idle
    <3> HIDE DEF c
    <3> QED
      BY <1>1, <3>1
  <2> QED
    BY <1>4, <2>1, <2>2
<1>5. ASSUME NEW p \in Proc, NEW a \in Agent, NEW cascade \in BOOLEAN, RevokeBegin(p, a, cascade)
      PROVE  \A q \in Proc : InHand(call'[q])
  <2> DEFINE c == [Idle EXCEPT !.pc = IF cascade THEN "list" ELSE "revokeRead",
                          !.arg = a, !.cascade = cascade, !.ids = <<a>>,
                          !.queue = IF cascade THEN <<[id |-> a, depth |-> 0]>> ELSE <<>>,
                          !.known = {a} \cup IF cascade THEN Subtree(a) ELSE {}]
  <2>1. Go(p, c) /\ c.pc \in {"list", "revokeRead"}
    BY <1>5 DEF RevokeBegin, Idle
  <2> HIDE DEF c
  <2> QED
    BY <1>1, <2>1
<1>6. ASSUME NEW p \in Proc, Continue(p)
      PROVE  \A q \in Proc : InHand(call'[q])
  <2>1. call[p] \in Call /\ CallOK(call[p], Registered, redis)
    BY DEF Inv, CallsOK
  <2>2. CASE SuspendWrite(p) \/ RotateRefused(p) \/ RotateInvalidate(p) \/ RefuseDepth(p)
    BY <1>2, <2>2 DEF SuspendWrite, RotateRefused, RotateInvalidate, RefuseDepth
  <2>3. CASE RotateRead(p)
    <3> DEFINE a == call[p].arg
               r == [agents[a] EXCEPT !.key = <<a, keysMade[a]>>]
               c == [call[p] EXCEPT !.pc = "rotateWrite", !.replaced = agents[a].key, !.writes = <<r>>]
    <3>1. Go(p, c) /\ a \in Registered
      BY <2>1, <2>3 DEF RotateRead, At, CallOK
    <3>2. c.pc = "rotateWrite" /\ c.arg = a /\ c.writes = <<r>>
      BY <2>1 DEF Call, PC
    <3>3. r.id = a
      BY <1>3, <3>1 DEF AgentRecord
    <3> HIDE DEF c, r, a
    <3> QED
      BY <3>1, <3>2, <3>3, OneRecordInHand, GoInHand
  <2>4. CASE RotateWrite(p)
    <3> DEFINE c == [call[p] EXCEPT !.pc = "invalidate", !.writes = <<>>]
    <3>1. Go(p, c) /\ c.pc = "invalidate"
      BY <2>1, <2>4 DEF RotateWrite, Call
    <3> HIDE DEF c
    <3> QED
      BY <1>1, <3>1
  <2>5. CASE ListStep(p)
    <3> DEFINE c(s, rest) == [call[p] EXCEPT !.ids = Collect(@, s), !.queue = rest,
                                 !.pc = IF rest = <<>> THEN "revokeRead" ELSE "list"]
    <3>1. \E s, rest : Go(p, c(s, rest))
      BY <2>5 DEF ListStep
    <3>2. \A s, rest : c(s, rest).pc \in {"revokeRead", "list"}
      BY <2>1 DEF Call
    <3> HIDE DEF c
    <3> QED
      BY <1>1, <3>1, <3>2
  <2>6. CASE RevokeRead(p)
    <3> DEFINE r == Revoked(agents[call[p].arg])
               c == [call[p] EXCEPT !.pc = "revokeWrite", !.writes = <<r>>]
    <3>1. Go(p, c) /\ call[p].arg \in Registered
      BY <2>1, <2>6 DEF RevokeRead, At, CallOK
    <3>2. c.pc = "revokeWrite" /\ c.writes = <<r>>
      BY <2>1 DEF Call
    <3>3. r.status = "revoked"
      BY <1>3, <3>1 DEF Revoked, AgentRecord
    <3> HIDE DEF c, r
    <3> QED
      BY <3>1, <3>2, <3>3, OneRecordInHand, GoInHand
  <2>7. CASE RevokeWrite(p)
    <3> DEFINE c == [call[p] EXCEPT !.pc = IF call[p].cascade THEN "children" ELSE Publish,
                       !.writes = <<>>,
                       !.queue = IF call[p].cascade THEN <<[id |-> call[p].arg, depth |-> 0]>> ELSE <<>>]
    <3>1. Go(p, c)
      BY <2>7 DEF RevokeWrite
    <3>2. c.pc \in {"children", "redis", "remember"}
      BY <2>1 DEF Call, Publish
    <3> HIDE DEF c
    <3> QED
      BY <1>1, <3>1, <3>2
  <2>8. CASE ReadChildren(p)
    <3>1. PICK s \in ChildLists(Head(call[p].queue).id) :
            Go(p, Advance([call[p] EXCEPT !.queue = Dequeue(@) \o Items(s, Head(call[p].queue).depth + 1),
                                          !.writes = [n \in DOMAIN s |-> Revoked(s[n])]]))
      BY <2>8 DEF ReadChildren
    <3> DEFINE w == [n \in DOMAIN s |-> Revoked(s[n])]
               c == Advance([call[p] EXCEPT !.queue = Dequeue(@) \o Items(s, Head(call[p].queue).depth + 1),
                                            !.writes = w])
    <3>2. \A n \in DOMAIN s : s[n] \in AgentRecord
      BY ChildListsAreRecords DEF Inv
    <3>3. c.writes = w /\ c.pc \in {"childWrite", "children", "redis", "remember"}
      BY <2>1 DEF Call, Advance, Publish
    <3>4. \A n \in DOMAIN s : w[n].status = "revoked"
      BY <3>2 DEF Revoked, AgentRecord
    <3>5. Go(p, c)
      BY <3>1
    <3> HIDE DEF c
    <3>6. InHand(c)
      BY <3>3, <3>4 DEF InHand
    <3> QED
      BY <3>5, <3>6, GoInHand
  <2>9. CASE WriteChild(p)
    <3> DEFINE c == Advance([call[p] EXCEPT !.writes = Tail(@)])
    <3>1. Go(p, c) /\ call[p].pc = "childWrite"
      BY <2>9 DEF WriteChild, At
    <3>2. /\ c.writes = Tail(call[p].writes) /\ call[p].writes \in Seq(AgentRecord) /\ call[p].writes # <<>>
          /\ c.pc \in {"childWrite", "children", "redis", "remember"}
      BY <2>1, <3>1 DEF Advance, Call, CallOK, Publish
    <3>3. \A n \in DOMAIN call[p].writes : call[p].writes[n].status = "revoked"
      BY <3>1 DEF InHand
    <3> HIDE DEF c
    <3>4. \A n \in DOMAIN c.writes : c.writes[n].status = "revoked"
      BY <3>2, <3>3
    <3>5. InHand(c)
      BY <3>2, <3>4 DEF InHand
    <3> QED
      BY <3>1, <3>5, GoInHand
  <2>10. CASE WriteRedis(p)
    <3> DEFINE c == [call[p] EXCEPT !.pc = "remember"]
    <3>1. Go(p, c) /\ c.pc = "remember"
      BY <2>1, <2>10 DEF WriteRedis, Call
    <3> HIDE DEF c
    <3> QED
      BY <1>1, <3>1
  <2>11. CASE WriteMemory(p)
    <3> DEFINE c == [call[p] EXCEPT !.pc = Publish, !.ids = Tail(call[p].ids)]
    <3>1. Respond(p) \/ Go(p, c)
      BY <2>11 DEF WriteMemory
    <3>2. c.pc \in {"redis", "remember"}
      BY <2>1 DEF Call, Publish
    <3> HIDE DEF c
    <3> QED
      BY <1>1, <1>2, <3>1, <3>2
  <2> QED
    BY <1>6, <2>2, <2>3, <2>4, <2>5, <2>6, <2>7, <2>8, <2>9, <2>10, <2>11 DEF Continue
<1>7. ASSUME NEW p \in Proc, Fail(p)
      PROVE  \A q \in Proc : InHand(call'[q])
  <2>1. CASE ListFails(p)
    <3> DEFINE c == [call[p] EXCEPT !.pc = "revokeRead", !.ids = <<call[p].arg>>, !.queue = <<>>]
    <3>1. Go(p, c)
      BY <2>1 DEF ListFails
    <3>2. c.pc = "revokeRead"
      BY DEF Inv, CallsOK, Call
    <3> HIDE DEF c
    <3> QED
      BY <1>1, <3>1, <3>2
  <2>2. CASE ReadFails(p) \/ WriteFails(p) \/ RedisFails(p)
    BY <1>2, <2>2 DEF ReadFails, WriteFails, RedisFails
  <2> QED
    BY <1>7, <2>1, <2>2 DEF Fail
<1>8. CASE UNCHANGED vars \/ \E a, parent : RegisterAgent(a, parent)
  BY <1>8 DEF vars, RegisterAgent
<1>9. CASE \E i \in Instance : Crash(i)
  BY <1>9 DEF Crash, InHand, Idle
<1> QED
  BY <1>4, <1>5, <1>6, <1>7, <1>8, <1>9 DEF Next, Start

\* The steps that write a record.
LEMMA StoreSteps ==
    ASSUME Inv, [Next]_vars
    PROVE  \/ UNCHANGED store
           \/ Registered' = {}
           \/ \E a \in Agent, parent \in Agent \cup {None} : RegisterAgent(a, parent)
           \/ \E p \in Proc : /\ UpdateAgent(Head(call[p].writes))
                              /\ call[p].pc \in {"suspend", "rotateWrite", "revokeWrite", "childWrite"}
<1>1. ASSUME NEW p \in Proc, Start(p) \/ Continue(p) \/ Fail(p)
      PROVE  \/ UNCHANGED store
             \/ /\ UpdateAgent(Head(call[p].writes))
                /\ call[p].pc \in {"suspend", "rotateWrite", "revokeWrite", "childWrite"}
  BY <1>1 DEF Start, Continue, Fail, SuspendRead, SuspendWrite,
           RotateBegin, RotateRead, RotateRefused, RotateWrite, RotateInvalidate, RevokeBegin,
           ListStep, RevokeRead, RevokeWrite, ReadChildren, RefuseDepth, WriteChild, WriteRedis,
           WriteMemory, ListFails, ReadFails, WriteFails, RedisFails, At
<1> QED
  BY <1>1, CrashCases DEF Next, vars, store

LEMMA UndoneStep ==
    ASSUME Inv, \A q \in Proc : InHand(call[q]), [Next]_vars,
           NEW a \in Registered \cap Registered', agents[a].status = "revoked",
           agents'[a].status # "revoked"
    PROVE  \E p \in Proc : call[p].pc \in {"suspend", "rotateWrite"} /\ call[p].arg = a
<1>1. \E p \in Proc : /\ UpdateAgent(Head(call[p].writes))
                      /\ call[p].pc \in {"suspend", "rotateWrite", "revokeWrite", "childWrite"}
  <2>1. CASE UNCHANGED store
    BY <2>1 DEF store
  <2>2. CASE \E b \in Agent, parent \in Agent \cup {None} : RegisterAgent(b, parent)
    BY <2>2 DEF RegisterAgent, CreateAgent, Put, Registered
  <2> QED
    BY <2>1, <2>2, StoreSteps
<1>2. PICK p \in Proc : /\ UpdateAgent(Head(call[p].writes))
                        /\ call[p].pc \in {"suspend", "rotateWrite", "revokeWrite", "childWrite"}
  BY <1>1
<1> DEFINE r == Head(call[p].writes)
<1>3. 1 \in DOMAIN call[p].writes /\ r = call[p].writes[1]
  <2>1. call[p].writes \in Seq(AgentRecord) /\ call[p].writes # <<>>
    BY <1>2 DEF Inv, CallsOK, CallOK, Call
  <2> QED
    BY <2>1
<1>4. r.status # "revoked" /\ r.id = a
  BY <1>2 DEF UpdateAgent, Registered
<1> HIDE DEF r
<1> QED
  BY <1>2, <1>3, <1>4 DEF InHand

\* Only a suspension or a rotation of the agent itself can take its revocation
\* out of the store (SuspendAgent and RotateKey of identity/service.go write back
\* the record they had read): no registration, no other agent's request, no
\* failure and no restart does, unless the restart loses the agent itself.
THEOREM OnlyOwnWritesUndoARevocation == Spec => UndoneByOwnWrite
<1> DEFINE HandsOK == Inv /\ \A q \in Proc : InHand(call[q])
<1>1. Init => HandsOK
  BY InitInv DEF Init, InHand, Idle
<1>2. HandsOK /\ [Next]_vars => HandsOK'
  BY NextInv, InHandNext
<1>3. HandsOK /\ [Next]_vars =>
        [\A a \in Registered \cap Registered' :
            agents[a].status = "revoked" /\ agents'[a].status # "revoked" =>
                \E p \in Proc : call[p].pc \in {"suspend", "rotateWrite"} /\ call[p].arg = a]_vars
  BY UndoneStep
<1> HIDE DEF HandsOK
<1> QED
  BY <1>1, <1>2, <1>3, PTL DEF Spec, UndoneByOwnWrite

\* Without suspensions and rotations a revocation is final in the store ("cannot
\* suspend a revoked agent", identity/service.go): the writes of overlapping
\* cascades, of retries and of failed ones never take one back.
THEOREM RevocationIsFinal ==
    ASSUME OnlyRevokes
    PROVE  Spec => RevokedIsFinal
<1>1. StoreRevocationInv /\ [Next]_vars =>
        [\A a \in Registered \cap Registered' :
            agents[a].status = "revoked" => agents'[a].status = "revoked"]_vars
  <2> SUFFICES ASSUME StoreRevocationInv, [Next]_vars,
                      NEW a \in Registered \cap Registered', agents[a].status = "revoked", 
                      agents'[a].status # "revoked"
               PROVE  FALSE
    OBVIOUS
  <2>1. \A p \in Proc : call[p].pc \in {"idle"} \cup Revoking /\ InHand(call[p])
    BY DEF StoreRevocationInv, StoreCall, WritesTopDown, InHand, Revoking
  <2>2. PICK p \in Proc : call[p].pc \in {"suspend", "rotateWrite"}
    BY <2>1, UndoneStep DEF StoreRevocationInv, RevocationInv
  <2> QED
    BY <2>1, <2>2 DEF Revoking
<1> QED
  BY <1>1, StoreRevocationSpec, PTL DEF Spec, RevokedIsFinal

-----------------------------------------------------------------------------
(* Tokens leave the promise of a revocation alone                            *)

\* A step of the token handlers is one of the lifecycle, or changes nothing of
\* what Revocation sees: the ID of a token is not one of an agent.
LEMMA TokenStepKeepsInForce ==
    ASSUME TokenInv, [TokenNext]_allVars
    PROVE  [Next]_vars \/ (UNCHANGED <<store, call, keysMade, history>> /\ InForce' = InForce)
<1>1. CASE UNCHANGED registry
  <2>1. InForce' = InForce
    BY <1>1 DEF InForce, IsRevoked, registry
  <2> QED
    BY <2>1, TokenStepOfLifecycle
<1>2. ASSUME NEW id \in TokenId, NEW i \in Instance, SetRedis(id) \/ Remember(i, id),
             UNCHANGED <<store, call, keysMade, history>>
      PROVE  UNCHANGED <<store, call, keysMade, history>> /\ InForce' = InForce
  <2>1. id \notin Agent
    BY DeploymentAssumption
  <2>2. memory \in [Instance -> SUBSET Name]
    BY DEF TokenInv, RevocationInv, Inv, RegistryInv, RegistryTypeOK
  <2>3. \A a \in Agent, j \in Instance : IsRevoked(j, a)' <=> IsRevoked(j, a)
    BY <1>2, <2>1, <2>2 DEF SetRedis, Remember, IsRevoked
  <2> QED
    BY <1>2, <2>3 DEF InForce
<1>3. ASSUME NEW v \in TokenProc, TokenToRedis(v) \/ TokenToMemory(v) \/ TokenRedisFails(v)
      PROVE  UNCHANGED <<store, call, keysMade, history>> /\ InForce' = InForce
  <2>1. serve[v].id \in TokenId /\ TokenHost[v] \in Instance /\ UNCHANGED <<store, call, keysMade, history>>
    BY <1>3, TokenAssumption
       DEF TokenToRedis, TokenToMemory, TokenRedisFails, On, TokenInv, ServesOK, RequestOK
  <2>2. UNCHANGED registry \/ SetRedis(serve[v].id) \/ Remember(TokenHost[v], serve[v].id)
    BY <1>3 DEF TokenToRedis, TokenToMemory, TokenRedisFails
  <2> PICK id \in TokenId : id = serve[v].id
    BY <2>1
  <2>3. CASE UNCHANGED registry
    BY <2>1, <2>3 DEF InForce, IsRevoked, registry
  <2>4. CASE SetRedis(id) \/ Remember(TokenHost[v], id)
    BY <1>2, <2>1, <2>4
  <2> QED
    BY <2>2, <2>3, <2>4
<1>4. ASSUME NEW v \in TokenProc, TokenStart(v) \/ TokenContinue(v) \/ TokenFail(v), ~UNCHANGED registry
      PROVE  TokenToRedis(v) \/ TokenToMemory(v) \/ TokenRedisFails(v)
  BY <1>4 DEF TokenStart, TokenContinue, TokenFail, IssueCheck, RevokeToken, VerifyBegin, IssueToken,
              CheckTokenId, CheckSubject, CheckIssuer, Check, ResolveFast, ResolveMiss, ResolveLookup,
              ResolveInsert, AnswerAccepted, CheckFails, vars, registry
<1>5. CASE \E v \in TokenProc : TokenStart(v) \/ TokenContinue(v) \/ TokenFail(v)
  BY <1>1, <1>3, <1>4, <1>5
<1>6. CASE Register \/ \E p \in Proc : AgentStep(p) \/ RotateAnswer(p)
  BY <1>6 DEF Register, AgentStep, RotateAnswer, Continue, Next
<1>7. CASE \E i \in Instance : TokenCrash(i)
  BY <1>7 DEF TokenCrash, Next
<1>8. CASE UNCHANGED allVars \/ \E t \in tokens, child \in Agent : Delegate(t, child)
  BY <1>8 DEF Delegate, allVars
<1> QED
  BY <1>5, <1>6, <1>7, <1>8 DEF TokenNext

LEMMA TokenTreeNext ==
    ASSUME TokenInv, TreeInv, TokenInv', [TokenNext]_allVars
    PROVE  TreeInv' /\ (Complete => [Promise!ServiceNext]_(Promise!serviceVars))
<1>1. CASE [Next]_vars
  BY <1>1, TreeNext
<1>2. CASE UNCHANGED <<store, call, keysMade, history>> /\ InForce' = InForce
  <2>1. SameTree /\ OneMoreInForce /\ agents' = agents /\ targets' = targets
    BY <1>2, UnchangedSameTree DEF OneMoreInForce, store, history
  <2>2. StillUsed /\ Registered' = Registered
    BY <1>2 DEF TreeInv, StillUsed, UsedAgents, Registered, store
  <2>3. InForce' \cup Registered' \subseteq UsedAgents' /\ RegistryTopDown'
    BY <2>1, <2>2, TopDownLater DEF TreeInv, SameTree
  <2>4. TreeInv'
    BY <1>2, <2>1, <2>3, OrderlyLater DEF TreeInv, SameTree, TokenInv
  <2>5. UNCHANGED Promise!serviceVars
    BY <1>2 DEF Promise!serviceVars, history, Registered, store
  <2> QED
    BY <2>4, <2>5
<1> QED
  BY <1>1, <1>2, TokenStepKeepsInForce

\* The promise of POST /agents/{id}/revoke is kept by the whole of the handlers:
\* with tokens issued, delegated, verified and revoked at the same time, every
\* behaviour is still one of Revocation, where the registry survives restarts.
THEOREM TokenServiceKeepsPromise ==
    ASSUME "list" \notin Failures, ListsAreComplete, RegistrySurvives
    PROVE  TokenSpec => KeepsPromise
<1>1. Complete
  BY DEF Complete
<1>2. TokenInit => TokenInv /\ TreeInv /\ Promise!ServiceInit
  BY TokenInitInv, TreeInit DEF TokenInit
<1>3. /\ TokenInv /\ [TokenNext]_allVars => TokenInv'
      /\ TokenInv /\ TreeInv /\ TokenInv' /\ [TokenNext]_allVars
            => TreeInv' /\ [Promise!ServiceNext]_(Promise!serviceVars)
  BY <1>1, TokenNextInv, TokenTreeNext
<1> QED
  BY <1>2, <1>3, PTL DEF TokenSpec, KeepsPromise, Promise!ServiceSpec

\* What the promise is worth holds with tokens in flight, too: an answered
\* revocation is in force for the agent it names and all below it. A restart is
\* one step of it where the registry is in Redis.
THEOREM AnsweredIsInForceWithTokens ==
    ASSUME "list" \notin Failures, ListsAreComplete, RegistrySurvives
    PROVE  TokenSpec => []AckedIsInForce
BY TokenServiceKeepsPromise, PromiseSuffices, PTL

\* Issuing, delegating, verifying and revoking tokens disturbs neither the order
\* in which a cascade fills the registry nor the index of the keys, whatever
\* listings miss.
THEOREM TokensDisturbNothing == TokenSpec => [](RegistryTopDown /\ KeyIndexIsInverse)
<1>1. TokenInit => TokenInv /\ TreeInv
  BY TokenInitInv, TreeInit DEF TokenInit
<1>2. /\ TokenInv /\ [TokenNext]_allVars => TokenInv'
      /\ TokenInv /\ TreeInv /\ TokenInv' /\ [TokenNext]_allVars => TreeInv'
  BY TokenNextInv, TokenTreeNext
<1>3. TreeInv => RegistryTopDown /\ KeyIndexIsInverse
  BY DEF TreeInv, RevocationInv, Inv, StoreInv
<1> QED
  BY <1>1, <1>2, <1>3, PTL DEF TokenSpec
=============================================================================
