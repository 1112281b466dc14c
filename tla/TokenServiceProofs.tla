------------------------- MODULE TokenServiceProofs -------------------------
(***************************************************************************)
(* Theorems about TokenService, for every set of agents, tokens, processes *)
(* and instances, either store, with or without Redis, and every failure:  *)
(* type correctness, the form of the key caches under verification, and    *)
(* that a key ID a rotation replaced does not come back; and where the     *)
(* registry survives restarts, which it does in Redis, that no             *)
(* verification accepts what was answered as revoked before it.            *)
(***************************************************************************)
EXTENDS TokenService, RevocationProofs

\* The names every instance answers as revoked.
Everywhere == {n \in Name : \A i \in Instance : IsRevoked(i, n)}

\* A token that clients can hold has one block at least.
TokenOK(t) == t \in Token /\ t.chain # <<>>

\* Where a verification stands.
AtBlock   == {"subject", "issuer", "cached", "lookup", "insert"}
Verifying == {"token", "accepted"} \cup AtBlock

\* The subject of block n has been looked up in the registry.
Checked(s, n) ==
    \/ s.pc = "accepted"
    \/ n < s.block
    \/ n = s.block /\ s.pc # "subject"

\* What a request relies on, D being the names in Redis.
RequestOK(s, R, D) ==
    /\ s.pc = "issue" => s.agent \in R
    /\ s.pc \in {"redisToken", "rememberToken"} => s.id \in TokenId
    /\ s.pc = "rememberToken" /\ RedisEnabled => s.id \in D
    /\ s.pc \in Verifying => s.tok \in Token /\ s.tok.chain # <<>>
    /\ s.pc \in AtBlock => s.block \in DOMAIN s.tok.chain
    /\ s.pc \in {"lookup", "insert"} => s.tok.chain[s.block].signer # None

\* What a request that begins knows of that cannot fail to be in force: where
\* listings may miss descendants, an answer is only relied on for a token, and
\* where a restart loses the registry, for nothing.
Told(s) == {n \in s.before : Complete \/ (n \in TokenId /\ RegistrySurvives)}

\* What a request was told of when it began is revoked for every instance, F
\* being what is; and of the token at hand, the names that have been looked up
\* are not among it.
NotStale(s, F) ==
    /\ Told(s) \subseteq F
    /\ s.pc \in AtBlock \cup {"accepted"} =>
          /\ s.tok.id \notin Told(s)
          /\ \A n \in DOMAIN s.tok.chain :
                Checked(s, n) => s.tok.chain[n].subject \notin Told(s)

ServesOK ==
    /\ serve \in [TokenProc -> Serve]
    /\ \A v \in TokenProc : RequestOK(serve[v], Registered, redis) /\ NotStale(serve[v], Everywhere)

HistoryOK ==
    /\ ackedTokens \subseteq TokenId
    /\ RegistrySurvives => ackedTokens \subseteq Everywhere
    /\ retired \subseteq Key
    /\ raced \subseteq retired

\* A rotation under way replaces a key ID, K being those there can be.
ReplacesKey(c, K) == c.pc \in {"rotateWrite", "invalidate"} => c.replaced \in K

\* The key IDs in the store.
StoreKeys == {agents[a].key : a \in Registered}

\* The inductive invariant.
TokenInv ==
    /\ RevocationInv
    /\ \A p \in Proc : ReplacesKey(call[p], Key)
    /\ \A t \in tokens : TokenOK(t)
    /\ ServesOK
    /\ HistoryOK

\* Agents stay registered and revocations in force.
Grows ==
    /\ Registered \subseteq Registered'
    /\ redis \subseteq redis'
    /\ Everywhere \subseteq Everywhere'

\* The steps of the lifecycle other than a restart.
Running ==
    \/ \E a \in Agent, parent \in Agent \cup {None} : RegisterAgent(a, parent)
    \/ \E p \in Proc : Start(p) \/ Continue(p) \/ Fail(p)

-----------------------------------------------------------------------------
(* What a step of the lifecycle does                                         *)

LEMMA EverywhereGrows ==
    ASSUME redis \subseteq redis', RedisEnabled \/ \A i \in Instance : memory[i] \subseteq memory'[i]
    PROVE  Everywhere \subseteq Everywhere'
BY DEF Everywhere, IsRevoked, Name

LEMMA LifecycleGrows ==
    ASSUME Inv, Running \/ UNCHANGED vars
    PROVE  Grows
<1>1. Registered \subseteq Registered'
  <2>1. CASE UNCHANGED store
    BY <2>1 DEF Registered, store
  <2>2. CASE \E rec : UpdateAgent(rec)
    BY <2>2 DEF UpdateAgent, Registered
  <2>3. CASE \E rec : CreateAgent(rec)
    BY <2>3 DEF CreateAgent, Put, Registered
  <2> QED
    BY <2>1, <2>2, <2>3
       DEF Running, vars, store, RegisterAgent, Start, Continue, Fail, SuspendRead, SuspendWrite,
           RotateBegin, RotateRead, RotateRefused, RotateWrite, RotateInvalidate, RevokeBegin,
           ListStep, RevokeRead, RevokeWrite, ReadChildren, RefuseDepth, WriteChild, WriteRedis,
           WriteMemory, ListFails, ReadFails, WriteFails, RedisFails
<1>2. redis \subseteq redis' /\ (RedisEnabled \/ \A i \in Instance : memory[i] \subseteq memory'[i])
  <2>1. CASE UNCHANGED registry
    BY <2>1 DEF registry
  <2>2. CASE \E a : SetRedis(a)
    BY <2>2 DEF SetRedis
  <2>3. CASE \E i, a : Remember(i, a)
    BY <2>3 DEF Remember, Inv, RegistryInv, RegistryTypeOK
  <2> QED
    BY <2>1, <2>2, <2>3
       DEF Running, vars, registry, RegisterAgent, Start, Continue, Fail, SuspendRead, SuspendWrite,
           RotateBegin, RotateRead, RotateRefused, RotateWrite, RotateInvalidate, RevokeBegin,
           ListStep, RevokeRead, RevokeWrite, ReadChildren, RefuseDepth, WriteChild, WriteRedis,
           WriteMemory, ListFails, ReadFails, WriteFails, RedisFails
<1> QED
  BY <1>1, <1>2, EverywhereGrows DEF Grows

LEMMA GoReplacesKey ==
    ASSUME NEW K, Inv, \A q \in Proc : ReplacesKey(call[q], K), NEW p \in Proc, NEW c, Go(p, c),
           ReplacesKey(c, K)
    PROVE  \A q \in Proc : ReplacesKey(call'[q], K)
BY DEF Go, Inv, CallsOK

LEMMA RotationReplacesKey ==
    ASSUME NEW K, Inv, StoreKeys \subseteq K, \A q \in Proc : ReplacesKey(call[q], K),
           NEW p \in Proc, RotateRead(p) \/ RotateWrite(p)
    PROVE  \A q \in Proc : ReplacesKey(call'[q], K)
<1>1. call[p] \in Call /\ CallOK(call[p], Registered, redis) /\ ReplacesKey(call[p], K)
  BY DEF Inv, CallsOK
<1>2. CASE RotateRead(p)
  <2> DEFINE a == call[p].arg
             c == [call[p] EXCEPT !.pc = "rotateWrite", !.replaced = agents[a].key,
                                  !.writes = <<[agents[a] EXCEPT !.key = <<a, keysMade[a]>>]>>]
  <2>1. Go(p, c) /\ a \in Registered
    BY <1>1, <1>2 DEF RotateRead, At, CallOK
  <2>2. c.replaced = agents[a].key
    BY <1>1 DEF Call
  <2>3. agents[a].key \in K
    BY <2>1 DEF StoreKeys
  <2> HIDE DEF c, a
  <2> QED
    BY <2>1, <2>2, <2>3, GoReplacesKey DEF ReplacesKey
<1>3. CASE RotateWrite(p)
  <2> DEFINE c == [call[p] EXCEPT !.pc = "invalidate", !.writes = <<>>]
  <2>1. Go(p, c) /\ call[p].pc = "rotateWrite"
    BY <1>3 DEF RotateWrite, At
  <2>2. c.replaced = call[p].replaced
    BY <1>1 DEF Call
  <2> HIDE DEF c
  <2> QED
    BY <1>1, <2>1, <2>2, GoReplacesKey DEF ReplacesKey
<1> QED
  BY <1>2, <1>3

LEMMA LifecycleReplacesKey ==
    ASSUME NEW K, Inv, StoreKeys \subseteq K, \A q \in Proc : ReplacesKey(call[q], K), [Next]_vars
    PROVE  \A q \in Proc : ReplacesKey(call'[q], K)
<1>1. ASSUME NEW p \in Proc, NEW c, Go(p, c), c.pc \notin {"rotateWrite", "invalidate"}
      PROVE  \A q \in Proc : ReplacesKey(call'[q], K)
  BY <1>1, GoReplacesKey DEF ReplacesKey
<1>2. ASSUME NEW p \in Proc, Respond(p)
      PROVE  \A q \in Proc : ReplacesKey(call'[q], K)
  BY <1>1, <1>2 DEF Respond, Idle
<1>3. ASSUME NEW p \in Proc, Start(p)
      PROVE  \A q \in Proc : ReplacesKey(call'[q], K)
  <2>1. PICK a \in Agent :
          SuspendRead(p, a) \/ RotateBegin(p, a) \/ \E cascade \in BOOLEAN : RevokeBegin(p, a, cascade)
    BY <1>3 DEF Start
  <2>2. CASE SuspendRead(p, a)
    <3> DEFINE c == [Idle EXCEPT !.pc = "suspend", !.arg = a,
                                 !.writes = <<[agents[a] EXCEPT !.status = "suspended"]>>]
    <3>1. Go(p, c) /\ c.pc = "suspend"
      BY <2>2 DEF SuspendRead, Idle
    <3> HIDE DEF c
    <3> QED
      BY <1>1, <3>1
  <2>3. CASE RotateBegin(p, a)
    <3> DEFINE c == [Idle EXCEPT !.pc = "rotateRead", !.arg = a, !.oldKey = agents[a].key]
    <3>1. Go(p, c) /\ c.pc = "rotateRead"
      BY <2>3 DEF RotateBegin, Idle
    <3> HIDE DEF c
    <3> QED
      BY <1>1, <3>1
  <2>4. CASE \E cascade \in BOOLEAN : RevokeBegin(p, a, cascade)
    <3>1. PICK cascade \in BOOLEAN : RevokeBegin(p, a, cascade)
      BY <2>4
    <3> DEFINE c == [Idle EXCEPT !.pc = IF cascade THEN "list" ELSE "revokeRead",
                          !.arg = a, !.cascade = cascade, !.ids = <<a>>,
                          !.queue = IF cascade THEN <<[id |-> a, depth |-> 0]>> ELSE <<>>,
                          !.known = {a} \cup IF cascade THEN Subtree(a) ELSE {}]
    <3>2. Go(p, c) /\ c.pc \in {"list", "revokeRead"}
      BY <3>1 DEF RevokeBegin, Idle
    <3> HIDE DEF c
    <3> QED
      BY <1>1, <3>2
  <2> QED
    BY <2>1, <2>2, <2>3, <2>4
<1>4. ASSUME NEW p \in Proc, Continue(p)
      PROVE  \A q \in Proc : ReplacesKey(call'[q], K)
  <2>1. call[p] \in Call
    BY DEF Inv, CallsOK
  <2>2. CASE SuspendWrite(p) \/ RotateRefused(p) \/ RotateInvalidate(p) \/ RefuseDepth(p)
    BY <1>2, <2>2 DEF SuspendWrite, RotateRefused, RotateInvalidate, RefuseDepth
  <2>3. CASE RotateRead(p) \/ RotateWrite(p)
    BY <2>3, RotationReplacesKey
  <2>4. CASE ListStep(p)
    <3> DEFINE c(s, rest) == [call[p] EXCEPT !.ids = Collect(@, s), !.queue = rest,
                                 !.pc = IF rest = <<>> THEN "revokeRead" ELSE "list"]
    <3>1. \E s, rest : Go(p, c(s, rest))
      BY <2>4 DEF ListStep
    <3>2. \A s, rest : c(s, rest).pc \in {"revokeRead", "list"}
      BY <2>1 DEF Call
    <3> HIDE DEF c
    <3> QED
      BY <1>1, <3>1, <3>2
  <2>5. CASE RevokeRead(p)
    <3> DEFINE c == [call[p] EXCEPT !.pc = "revokeWrite", !.writes = <<Revoked(agents[call[p].arg])>>]
    <3>1. Go(p, c) /\ c.pc = "revokeWrite"
      BY <2>1, <2>5 DEF RevokeRead, Call
    <3> HIDE DEF c
    <3> QED
      BY <1>1, <3>1
  <2>6. CASE RevokeWrite(p)
    <3> DEFINE c == [call[p] EXCEPT !.pc = IF call[p].cascade THEN "children" ELSE Publish,
                       !.writes = <<>>,
                       !.queue = IF call[p].cascade THEN <<[id |-> call[p].arg, depth |-> 0]>> ELSE <<>>]
    <3>1. Go(p, c)
      BY <2>6 DEF RevokeWrite
    <3>2. c.pc \in {"children", "redis", "remember"}
      BY <2>1 DEF Call, Publish
    <3> HIDE DEF c
    <3> QED
      BY <1>1, <3>1, <3>2
  <2>7. CASE ReadChildren(p) \/ WriteChild(p)
    <3>1. \E c : Go(p, Advance(c)) /\ Advance(c).pc \notin {"rotateWrite", "invalidate"}
      <4> DEFINE r(q, w) == [call[p] EXCEPT !.queue = q, !.writes = w]
                 w1 == [call[p] EXCEPT !.writes = Tail(@)]
      <4>1. \A q, w : Advance(r(q, w)).pc \in {"childWrite", "children", Publish}
        BY <2>1 DEF Advance, Call
      <4>2. Advance(w1).pc \in {"childWrite", "children", Publish}
        BY <2>1 DEF Advance, Call
      <4>3. (\E q, w : Go(p, Advance(r(q, w)))) \/ Go(p, Advance(w1))
        BY <2>7 DEF ReadChildren, WriteChild
      <4>4. Publish \notin {"rotateWrite", "invalidate"}
        BY DEF Publish
      <4> HIDE DEF r, w1
      <4> QED
        BY <4>1, <4>2, <4>3, <4>4
    <3> QED
      BY <1>1, <3>1
  <2>8. CASE WriteRedis(p)
    <3> DEFINE c == [call[p] EXCEPT !.pc = "remember"]
    <3>1. Go(p, c) /\ c.pc = "remember"
      BY <2>1, <2>8 DEF WriteRedis, Call
    <3> HIDE DEF c
    <3> QED
      BY <1>1, <3>1
  <2>9. CASE WriteMemory(p)
    <3> DEFINE c == [call[p] EXCEPT !.pc = Publish, !.ids = Tail(call[p].ids)]
    <3>1. Respond(p) \/ Go(p, c)
      BY <2>9 DEF WriteMemory
    <3>2. c.pc \in {"redis", "remember"}
      BY <2>1 DEF Call, Publish
    <3> HIDE DEF c
    <3> QED
      BY <1>1, <1>2, <3>1, <3>2
  <2> QED
    BY <1>4, <2>2, <2>3, <2>4, <2>5, <2>6, <2>7, <2>8, <2>9 DEF Continue
<1>5. ASSUME NEW p \in Proc, Fail(p)
      PROVE  \A q \in Proc : ReplacesKey(call'[q], K)
  <2>1. CASE ListFails(p)
    <3> DEFINE c == [call[p] EXCEPT !.pc = "revokeRead", !.ids = <<call[p].arg>>, !.queue = <<>>]
    <3>1. Go(p, c)
      BY <2>1 DEF ListFails
    <3>2. c.pc = "revokeRead"
      BY DEF Inv, CallsOK, Call
    <3> HIDE DEF c
    <3> QED
      BY <1>1, <3>1, <3>2
  <2>2. CASE ReadFails(p) \/ WriteFails(p) \/ RedisFails(p)
    BY <1>2, <2>2 DEF ReadFails, WriteFails, RedisFails
  <2> QED
    BY <1>5, <2>1, <2>2 DEF Fail
<1>6. CASE UNCHANGED vars \/ \E a, parent : RegisterAgent(a, parent)
  BY <1>6 DEF vars, RegisterAgent
<1>7. CASE \E i \in Instance : Crash(i)
  BY <1>7 DEF Crash, ReplacesKey, Idle
<1> QED
  BY <1>3, <1>4, <1>5, <1>6, <1>7 DEF Next

\* Every step of the lifecycle keeps what TokenInv says of it.
LEMMA LifecycleStep ==
    ASSUME TokenInv, [Next]_vars
    PROVE  RevocationInv' /\ \A p \in Proc : ReplacesKey(call'[p], Key)
<1>1. StoreKeys \subseteq Key
  BY DEF TokenInv, RevocationInv, Inv, StoreInv, StoreTypeOK, StoreKeys, Registered, AgentRecord
<1> QED
  BY <1>1, RevocationNext, LifecycleReplacesKey DEF TokenInv, RevocationInv

\* A step of a token request that touches the registry or a cache at most.
LEMMA RequestStep ==
    ASSUME TokenInv, RegistryInv', CacheInv', faults' \in Nat,
           UNCHANGED <<store, call, keysMade, history>>,
           redis \subseteq redis', RedisEnabled \/ \A i \in Instance : memory[i] \subseteq memory'[i]
    PROVE  RevocationInv' /\ Grows /\ \A p \in Proc : ReplacesKey(call'[p], Key)
<1>1. Registered' = Registered /\ SameParents /\ InForce \subseteq InForce' /\ Grows
  BY UnchangedSameParents, InForceGrows, EverywhereGrows DEF Grows, Registered, store
<1>2. Inv'
  <2>1. StoreInv'
    BY StoreUnchanged DEF TokenInv, RevocationInv, Inv
  <2>2. CallsOK'
    BY <1>1, UnchangedKeepsCalls DEF TokenInv, RevocationInv, Inv
  <2>3. CountsOK'
    BY DEF TokenInv, RevocationInv, Inv, CountsOK, history
  <2> QED
    BY <2>1, <2>2, <2>3 DEF Inv
<1>3. ASSUME NEW q \in Proc
      PROVE  Owes(call'[q], agents', InForce') /\ KeepsParents(call'[q], agents')
  <2>1. /\ Owes(call[q], agents, InForce) /\ KeepsParents(call[q], agents)
        /\ CallOK(call[q], Registered, redis)
    BY DEF TokenInv, RevocationInv, Inv, CallsOK
  <2> QED
    BY <1>1, <2>1, OwesLater, KeepsParentsLater
<1> QED
  BY <1>1, <1>2, <1>3 DEF TokenInv, RevocationInv, history

\* In particular one that touches neither.
LEMMA QuietStep ==
    ASSUME TokenInv, UNCHANGED vars
    PROVE  RevocationInv' /\ Grows /\ \A p \in Proc : ReplacesKey(call'[p], Key)
BY LifecycleStep, LifecycleGrows DEF TokenInv, RevocationInv

-----------------------------------------------------------------------------
(* What a step does to the requests for tokens                               *)

LEMMA RequestOKLater ==
    ASSUME NEW s, RequestOK(s, Registered, redis), NotStale(s, Everywhere), Grows
    PROVE  RequestOK(s, Registered', redis') /\ NotStale(s, Everywhere')
BY DEF RequestOK, NotStale, Told, Grows

LEMMA GoServeKeeps ==
    ASSUME ServesOK, NEW v \in TokenProc, NEW s \in Serve, GoServe(v, s), Grows,
           RequestOK(s, Registered', redis'), NotStale(s, Everywhere')
    PROVE  ServesOK'
<1>1. serve' \in [TokenProc -> Serve]
  BY DEF ServesOK, GoServe
<1>2. ASSUME NEW w \in TokenProc
      PROVE  RequestOK(serve'[w], Registered', redis') /\ NotStale(serve'[w], Everywhere')
  <2>1. CASE w = v
    BY <2>1 DEF ServesOK, GoServe
  <2>2. CASE w # v
    <3>1. /\ serve'[w] = serve[w]
          /\ RequestOK(serve[w], Registered, redis) /\ NotStale(serve[w], Everywhere)
      BY <2>2 DEF ServesOK, GoServe
    <3> QED
      BY <3>1, RequestOKLater
  <2> QED
    BY <2>1, <2>2
<1> QED
  BY <1>1, <1>2 DEF ServesOK

LEMMA IdleServeIsOK ==
    /\ IdleServe \in Serve
    /\ \A R, D : RequestOK(IdleServe, R, D)
    /\ \A F : NotStale(IdleServe, F)
<1>1. IdleServe \in Serve
  BY DEF IdleServe, Serve, TokenPC
<1> QED
  BY <1>1 DEF IdleServe, RequestOK, NotStale, Told, Verifying, AtBlock

LEMMA AnswerKeeps ==
    ASSUME ServesOK, NEW v \in TokenProc, Answer(v), Grows
    PROVE  ServesOK'
BY IdleServeIsOK, GoServeKeeps DEF Answer

LEMMA TokensAndHistoryKept ==
    ASSUME TokenInv, Grows, UNCHANGED <<tokens, ackedTokens, retired, raced>>
    PROVE  (\A t \in tokens' : TokenOK(t)) /\ HistoryOK'
BY DEF TokenInv, Grows, TokenOK, HistoryOK

\* What a request knows when it begins.
LEMMA BegunIsKnown ==
    ASSUME TokenInv
    PROVE  /\ acked \cup ackedTokens \subseteq Agent \cup TokenId
           /\ \A n \in acked \cup ackedTokens :
                Complete \/ (n \in TokenId /\ RegistrySurvives) => n \in Everywhere
<1>1. /\ acked \subseteq Agent /\ ackedTokens \subseteq TokenId
      /\ RegistrySurvives => ackedTokens \subseteq Everywhere
  BY DEF TokenInv, RevocationInv, Inv, CountsOK, HistoryOK
<1>2. Complete => acked \subseteq Everywhere
  BY DEF TokenInv, RevocationInv, InForce, Everywhere, Name
<1>3. Agent \cap TokenId = {}
  BY DeploymentAssumption
<1> QED
  BY <1>1, <1>2, <1>3 DEF Complete

-----------------------------------------------------------------------------
(* The steps                                                                 *)

\* A step that leaves the lifecycle, the tokens and the histories alone, and has
\* process v go on as s.
LEMMA QuietGoKeeps ==
    ASSUME TokenInv, NEW v \in TokenProc, NEW s \in Serve, GoServe(v, s),
           UNCHANGED <<vars, tokens, ackedTokens, retired, raced>>,
           RequestOK(s, Registered, redis), NotStale(s, Everywhere)
    PROVE  TokenInv'
<1>1. RevocationInv' /\ Grows /\ \A p \in Proc : ReplacesKey(call'[p], Key)
  BY QuietStep
<1>2. RequestOK(s, Registered', redis') /\ NotStale(s, Everywhere')
  BY <1>1, RequestOKLater
<1>3. ServesOK'
  BY <1>1, <1>2, GoServeKeeps DEF TokenInv
<1> QED
  BY <1>1, <1>3, TokensAndHistoryKept DEF TokenInv

LEMMA QuietAnswerKeeps ==
    ASSUME TokenInv, NEW v \in TokenProc, Answer(v),
           UNCHANGED <<vars, tokens, ackedTokens, retired, raced>>
    PROVE  TokenInv'
BY IdleServeIsOK, QuietGoKeeps DEF Answer

LEMMA BeginKeeps ==
    ASSUME TokenInv, NEW v \in TokenProc,
           \/ \E a \in Agent : IssueCheck(v, a)
           \/ \E id \in UsedIds : RevokeToken(v, id)
           \/ \E t \in tokens : VerifyBegin(v, t)
    PROVE  TokenInv'
<1>1. /\ Begun.before = acked \cup ackedTokens
      /\ acked \cup ackedTokens \subseteq Agent \cup TokenId
      /\ \A n \in acked \cup ackedTokens :
           Complete \/ (n \in TokenId /\ RegistrySurvives) => n \in Everywhere
      /\ Begun \in Serve
  <2>1. retired \subseteq Key
    BY DEF TokenInv, HistoryOK
  <2> QED
    BY <2>1, BegunIsKnown, IdleServeIsOK DEF Begun, IdleServe, Serve
<1>2. CASE \E a \in Agent : IssueCheck(v, a)
  <2>1. PICK a \in Agent : IssueCheck(v, a)
    BY <1>2
  <2> DEFINE s == [Begun EXCEPT !.pc = "issue", !.agent = a]
  <2>2. GoServe(v, s) /\ UNCHANGED <<vars, tokens, ackedTokens, retired, raced>> /\ a \in Registered
    BY <2>1 DEF IssueCheck
  <2>3. s \in Serve /\ s.pc = "issue" /\ s.agent = a /\ s.before = Begun.before
    BY <1>1 DEF Serve, TokenPC
  <2> HIDE DEF s
  <2>4. RequestOK(s, Registered, redis) /\ NotStale(s, Everywhere)
    BY <1>1, <2>2, <2>3 DEF RequestOK, NotStale, Told, Verifying, AtBlock
  <2> QED
    BY <2>2, <2>3, <2>4, QuietGoKeeps
<1>3. CASE \E id \in UsedIds : RevokeToken(v, id)
  <2>1. PICK id \in UsedIds : RevokeToken(v, id)
    BY <1>3
  <2> DEFINE s == [Begun EXCEPT !.pc = IF RedisEnabled THEN "redisToken" ELSE "rememberToken",
                                !.id = id]
  <2>2. GoServe(v, s) /\ UNCHANGED <<vars, tokens, ackedTokens, retired, raced>>
    BY <2>1 DEF RevokeToken
  <2>3. id \in TokenId
    BY <2>1 DEF UsedIds, TokenInv, TokenOK, Token
  <2>4. /\ s \in Serve /\ s.id = id /\ s.before = Begun.before
        /\ s.pc = IF RedisEnabled THEN "redisToken" ELSE "rememberToken"
    BY <1>1, <2>3 DEF Serve, TokenPC
  <2> HIDE DEF s
  <2>5. RequestOK(s, Registered, redis) /\ NotStale(s, Everywhere)
    BY <1>1, <2>3, <2>4 DEF RequestOK, NotStale, Told, Verifying, AtBlock
  <2> QED
    BY <2>2, <2>4, <2>5, QuietGoKeeps
<1>4. CASE \E t \in tokens : VerifyBegin(v, t)
  <2>1. PICK t \in tokens : VerifyBegin(v, t)
    BY <1>4
  <2> DEFINE s == [Begun EXCEPT !.pc = "token", !.tok = t]
  <2>2. /\ GoServe(v, s) /\ UNCHANGED <<vars, tokens, ackedTokens, retired, raced>>
        /\ t \in Token /\ t.chain # <<>>
    BY <2>1 DEF VerifyBegin, TokenInv, TokenOK
  <2>3. s \in Serve /\ s.pc = "token" /\ s.tok = t /\ s.before = Begun.before
    BY <1>1, <2>2 DEF Serve, TokenPC
  <2> HIDE DEF s
  <2>4. RequestOK(s, Registered, redis) /\ NotStale(s, Everywhere)
    BY <1>1, <2>2, <2>3 DEF RequestOK, NotStale, Told, Verifying, AtBlock
  <2> QED
    BY <2>2, <2>3, <2>4, QuietGoKeeps
<1> QED
  BY <1>2, <1>3, <1>4

LEMMA IssueTokenKeeps ==
    ASSUME TokenInv, NEW v \in TokenProc, IssueToken(v)
    PROVE  TokenInv'
<1>1. RevocationInv' /\ Grows /\ \A p \in Proc : ReplacesKey(call'[p], Key)
  BY QuietStep DEF IssueToken
<1>2. ServesOK'
  BY <1>1, AnswerKeeps DEF TokenInv, IssueToken
<1>3. HistoryOK'
  BY <1>1 DEF TokenInv, HistoryOK, Grows, IssueToken
<1>4. \A t \in tokens : TokenOK(t)
  BY DEF TokenInv
<1>5. CASE UNCHANGED tokens
  BY <1>1, <1>2, <1>3, <1>4, <1>5 DEF TokenInv
<1>6. CASE ~UNCHANGED tokens
  <2> DEFINE a == serve[v].agent
  <2>1. a \in Agent
    BY DEF IssueToken, On, TokenInv, ServesOK, RequestOK, RevocationInv, Inv, StoreInv, StoreTypeOK,
           Registered
  <2>2. PICK id \in TokenId :
          tokens' = tokens \cup {[id |-> id, chain |-> <<[subject |-> a, signer |-> None]>>]}
    BY <1>6 DEF IssueToken
  <2> HIDE DEF a
  <2> DEFINE b == [subject |-> a, signer |-> None]
             t == [id |-> id, chain |-> <<b>>]
  <2>3. b \in Block
    BY <2>1 DEF Block
  <2> HIDE DEF b
  <2>4. t \in Token /\ t.chain # <<>>
    BY <2>2, <2>3 DEF Token
  <2>5. tokens' = tokens \cup {t}
    BY <2>2 DEF b
  <2> HIDE DEF t
  <2>6. TokenOK(t)
    BY <2>4 DEF TokenOK
  <2> QED
    BY <1>1, <1>2, <1>3, <1>4, <2>5, <2>6 DEF TokenInv
<1> QED
  BY <1>5, <1>6

LEMMA DelegateKeeps ==
    ASSUME TokenInv, NEW t \in tokens, NEW child \in Agent, Delegate(t, child)
    PROVE  TokenInv'
<1>1. RevocationInv' /\ Grows /\ \A p \in Proc : ReplacesKey(call'[p], Key)
  BY QuietStep DEF Delegate
<1>2. ServesOK'
  BY <1>1, RequestOKLater DEF TokenInv, ServesOK, Delegate
<1>3. HistoryOK'
  BY <1>1 DEF TokenInv, HistoryOK, Grows, Delegate
<1> DEFINE key == agents[Last(t.chain).subject].key
           b == [subject |-> child, signer |-> key]
           new == [t EXCEPT !.chain = Append(@, b)]
<1>4. t \in Token /\ t.chain \in Seq(Block) /\ t.chain # <<>>
  BY DEF TokenInv, TokenOK, Token
<1>5. key \in Key /\ tokens' = tokens \cup {new}
  BY DEF Delegate, TokenInv, RevocationInv, Inv, StoreInv, StoreTypeOK, Registered, AgentRecord
<1> HIDE DEF key
<1>6. b \in Block
  BY <1>5 DEF Block
<1> HIDE DEF b
<1>7. new.chain = Append(t.chain, b) /\ new \in Token
  BY <1>4, <1>6 DEF Token
<1> HIDE DEF new
<1>8. TokenOK(new)
  BY <1>4, <1>6, <1>7 DEF TokenOK
<1> QED
  BY <1>1, <1>2, <1>3, <1>5, <1>8 DEF TokenInv

\* The revocation of a token: Redis first, then the map of the instance.
LEMMA TokenToRedisKeeps ==
    ASSUME TokenInv, NEW v \in TokenProc, TokenToRedis(v) \/ TokenRedisFails(v)
    PROVE  TokenInv'
<1> DEFINE id == serve[v].id
<1>1. id \in TokenId /\ serve[v] \in Serve /\ NotStale(serve[v], Everywhere)
  BY DEF TokenToRedis, TokenRedisFails, On, TokenInv, ServesOK, RequestOK
<1>2. /\ redis \subseteq redis' /\ redis' \subseteq redis \cup {id} /\ memory' = memory
      /\ TokenToRedis(v) => id \in redis'
  BY DEF TokenToRedis, TokenRedisFails, SetRedis, registry
<1> HIDE DEF id
<1>3. RegistryInv'
  BY <1>1, <1>2 DEF TokenInv, RevocationInv, Inv, RegistryInv, RegistryTypeOK, MemoryTrailsRedis, Name
<1>4. CacheInv' /\ faults' \in Nat
  BY CacheUnchanged DEF TokenToRedis, TokenRedisFails, Fault, TokenInv, RevocationInv, Inv, CountsOK
<1>5. RevocationInv' /\ Grows /\ \A p \in Proc : ReplacesKey(call'[p], Key)
  BY <1>2, <1>3, <1>4, RequestStep DEF TokenToRedis, TokenRedisFails
<1>6. ServesOK'
  <2>1. CASE TokenToRedis(v)
    <3> DEFINE s == [serve[v] EXCEPT !.pc = "rememberToken"]
    <3>1. GoServe(v, s) /\ id \in redis'
      BY <1>2, <2>1 DEF TokenToRedis
    <3>2. s \in Serve /\ s.pc = "rememberToken" /\ s.id = id /\ s.before = serve[v].before
      BY <1>1 DEF Serve, TokenPC, id
    <3> HIDE DEF s
    <3>3. RequestOK(s, Registered', redis') /\ NotStale(s, Everywhere')
      BY <1>1, <1>5, <3>1, <3>2 DEF RequestOK, NotStale, Told, Verifying, AtBlock, Grows
    <3> QED
      BY <1>5, <3>1, <3>2, <3>3, GoServeKeeps DEF TokenInv
  <2>2. CASE TokenRedisFails(v)
    BY <1>5, <2>2, AnswerKeeps DEF TokenInv, TokenRedisFails
  <2> QED
    BY <2>1, <2>2
<1> QED
  BY <1>5, <1>6, TokensAndHistoryKept DEF TokenInv, TokenToRedis, TokenRedisFails

LEMMA TokenToMemoryKeeps ==
    ASSUME TokenInv, NEW v \in TokenProc, TokenToMemory(v)
    PROVE  TokenInv'
<1> DEFINE id == serve[v].id
<1>1. id \in TokenId /\ (RedisEnabled => id \in redis)
  BY DEF TokenToMemory, On, TokenInv, ServesOK, RequestOK
<1>2. redis' = redis /\ memory' = [memory EXCEPT ![TokenHost[v]] = @ \cup {id}]
  BY DEF TokenToMemory, Remember
<1>3. TokenHost[v] \in Instance /\ memory \in [Instance -> SUBSET Name]
  BY TokenAssumption DEF TokenInv, RevocationInv, Inv, RegistryInv, RegistryTypeOK
<1> HIDE DEF id
<1>4. RegistryInv' /\ \A i \in Instance : memory[i] \subseteq memory'[i]
  BY <1>1, <1>2, <1>3
     DEF TokenInv, RevocationInv, Inv, RegistryInv, RegistryTypeOK, MemoryTrailsRedis, Name
<1>5. CacheInv' /\ faults' \in Nat
  BY CacheUnchanged DEF TokenToMemory, TokenInv, RevocationInv, Inv, CountsOK
<1>6. RevocationInv' /\ Grows /\ \A p \in Proc : ReplacesKey(call'[p], Key)
  BY <1>2, <1>4, <1>5, RequestStep DEF TokenToMemory
<1>7. ServesOK'
  BY <1>6, AnswerKeeps DEF TokenInv, TokenToMemory
<1>8. \A t \in tokens' : TokenOK(t)
  BY DEF TokenInv, TokenToMemory
<1>9. id \in Everywhere'
  <2>1. CASE RedisEnabled
    BY <1>1, <1>2, <2>1 DEF Everywhere, IsRevoked, Name
  <2>2. CASE ~RedisEnabled
    BY <1>1, <1>2, <1>3, <2>2, DeploymentAssumption DEF Everywhere, IsRevoked, Name
  <2> QED
    BY <2>1, <2>2
<1>10. HistoryOK'
  BY <1>1, <1>6, <1>9 DEF TokenInv, HistoryOK, Grows, TokenToMemory, id
<1> QED
  BY <1>6, <1>7, <1>8, <1>10 DEF TokenInv

\* A name that passes a check is not revoked for every instance.
LEMMA PassedIsNotEverywhere ==
    ASSUME NEW v \in TokenProc, NEW name, ~RevokedFor(v, name)
    PROVE  name \notin Everywhere
BY TokenAssumption DEF RevokedFor, Everywhere

LEMMA CheckTokenIdKeeps ==
    ASSUME TokenInv, NEW v \in TokenProc, CheckTokenId(v)
    PROVE  TokenInv'
<1> DEFINE old == serve[v]
           s == [old EXCEPT !.pc = "subject", !.block = 1]
<1>1. /\ old.pc = "token"
      /\ UNCHANGED <<vars, tokens, ackedTokens, retired, raced>>
      /\ Answer(v) \/ (~RevokedFor(v, old.tok.id) /\ GoServe(v, s))
  BY DEF CheckTokenId, Check, On
<1>2. CASE Answer(v)
  BY <1>1, <1>2, QuietAnswerKeeps
<1>3. CASE ~RevokedFor(v, old.tok.id) /\ GoServe(v, s)
  <2>1. old \in Serve /\ RequestOK(old, Registered, redis) /\ NotStale(old, Everywhere)
    BY DEF TokenInv, ServesOK
  <2>2. old.tok \in Token /\ old.tok.chain # <<>> /\ old.tok.chain \in Seq(Block)
    BY <1>1, <2>1 DEF RequestOK, Verifying, Token
  <2>3. /\ s \in Serve /\ s.pc = "subject" /\ s.block = 1
        /\ s.tok = old.tok /\ s.before = old.before
    BY <2>1 DEF Serve, TokenPC
  <2> HIDE DEF s
  <2>4. RequestOK(s, Registered, redis)
    BY <2>2, <2>3 DEF RequestOK, Verifying, AtBlock
  <2>5. \A n \in DOMAIN s.tok.chain : ~Checked(s, n)
    BY <2>2, <2>3 DEF Checked
  <2>6. NotStale(s, Everywhere)
    BY <1>3, <2>1, <2>3, <2>5, PassedIsNotEverywhere DEF NotStale, Told
  <2> QED
    BY <1>1, <1>3, <2>3, <2>4, <2>6, QuietGoKeeps
<1> QED
  BY <1>1, <1>2, <1>3

\* The subject of the block at hand and the issuer of it.
LEMMA CheckSubjectKeeps ==
    ASSUME TokenInv, NEW v \in TokenProc, CheckSubject(v) \/ CheckIssuer(v)
    PROVE  TokenInv'
<1> DEFINE old == serve[v]
           goes(pc) == [old EXCEPT !.pc = pc]
<1>1. /\ old.pc \in {"subject", "issuer"}
      /\ UNCHANGED <<vars, tokens, ackedTokens, retired, raced>>
  BY DEF CheckSubject, CheckIssuer, Check, On
<1>2. old \in Serve /\ RequestOK(old, Registered, redis) /\ NotStale(old, Everywhere)
  BY DEF TokenInv, ServesOK
<1>3. \/ Answer(v)
      \/ /\ old.pc = "subject" => ~RevokedFor(v, CurBlock(v).subject)
         /\ \E pc \in {"issuer", "cached"} : GoServe(v, goes(pc))
  <2>1. CASE CheckSubject(v)
    BY <2>1 DEF CheckSubject, Check
  <2>2. CASE CheckIssuer(v)
    BY <2>2 DEF CheckIssuer, Check, On
  <2> QED
    BY <2>1, <2>2
<1>4. CASE Answer(v)
  BY <1>1, <1>4, QuietAnswerKeeps
<1>5. ASSUME NEW pc \in {"issuer", "cached"}, GoServe(v, goes(pc)),
             old.pc = "subject" => ~RevokedFor(v, CurBlock(v).subject)
      PROVE  TokenInv'
  <2> DEFINE s == goes(pc)
  <2>1. /\ s \in Serve /\ s.pc = pc /\ s.block = old.block
        /\ s.tok = old.tok /\ s.before = old.before
    BY <1>2 DEF Serve, TokenPC
  <2>2. GoServe(v, s)
    BY <1>5
  <2> HIDE DEF s
  <2>3. RequestOK(s, Registered, redis)
    BY <1>1, <1>2, <2>1 DEF RequestOK, Verifying, AtBlock
  <2>4. old.pc = "subject" => s.tok.chain[s.block].subject \notin Everywhere
    BY <1>5, <2>1, PassedIsNotEverywhere DEF CurBlock
  <2>5. NotStale(s, Everywhere)
    <3>1. /\ Told(s) = Told(old) /\ Told(old) \subseteq Everywhere /\ old.tok.id \notin Told(old)
          /\ \A n \in DOMAIN old.tok.chain :
                Checked(old, n) => old.tok.chain[n].subject \notin Told(old)
      BY <1>1, <1>2, <2>1 DEF NotStale, Told, AtBlock
    <3>2. ASSUME NEW n \in DOMAIN s.tok.chain, Checked(s, n)
          PROVE  s.tok.chain[n].subject \notin Told(s)
      <4>1. CASE Checked(old, n)
        BY <2>1, <3>1, <3>2, <4>1
      <4>2. CASE ~Checked(old, n)
        <5>1. n = s.block /\ old.pc = "subject"
          BY <1>1, <2>1, <3>2, <4>2 DEF Checked
        <5> QED
          BY <2>1, <2>4, <3>1, <5>1
      <4> QED
        BY <4>1, <4>2
    <3> QED
      BY <2>1, <3>1, <3>2 DEF NotStale
  <2> QED
    BY <1>1, <2>1, <2>2, <2>3, <2>5, QuietGoKeeps
<1> QED
  BY <1>3, <1>4, <1>5

\* On to the next block, or to the answer.
LEMMA SignedIsOK ==
    ASSUME NEW v \in TokenProc, serve[v] \in Serve,
           RequestOK(serve[v], Registered, redis), NotStale(serve[v], Everywhere),
           serve[v].pc \in {"cached", "insert"}
    PROVE  /\ Signed(v) \in Serve
           /\ RequestOK(Signed(v), Registered, redis) /\ NotStale(Signed(v), Everywhere)
<1> DEFINE old == serve[v]
           s == Signed(v)
<1>1. /\ old.tok \in Token /\ old.tok.chain \in Seq(Block) /\ old.tok.chain # <<>>
      /\ old.block \in DOMAIN old.tok.chain
  BY DEF RequestOK, Verifying, AtBlock, Token
<1>2. /\ s \in Serve /\ s.tok = old.tok /\ s.before = old.before
      /\ \/ old.block = Len(old.tok.chain) /\ s.pc = "accepted"
         \/ old.block # Len(old.tok.chain) /\ s.pc = "subject" /\ s.block = old.block + 1
  <2>1. CASE old.block = Len(old.tok.chain)
    BY <2>1 DEF Signed, Serve, TokenPC
  <2>2. CASE old.block # Len(old.tok.chain)
    <3>1. s = [old EXCEPT !.pc = "subject", !.block = old.block + 1]
      BY <2>2 DEF Signed
    <3>2. old.block \in Nat /\ old.block + 1 \in Nat
      BY DEF Serve
    <3> HIDE DEF s
    <3> QED
      BY <2>2, <3>1, <3>2 DEF Serve, TokenPC
  <2> QED
    BY <2>1, <2>2
<1> HIDE DEF s
<1>3. RequestOK(s, Registered, redis)
  BY <1>1, <1>2 DEF RequestOK, Verifying, AtBlock
<1>4. ASSUME NEW n \in DOMAIN s.tok.chain, Checked(s, n)
      PROVE  Checked(old, n)
  BY <1>1, <1>2, <1>4 DEF Checked
<1>5. NotStale(s, Everywhere)
  BY <1>2, <1>4 DEF NotStale, Told, AtBlock
<1> QED
  BY <1>2, <1>3, <1>5 DEF s

LEMMA ResolveFastKeeps ==
    ASSUME TokenInv, NEW v \in TokenProc, ResolveFast(v) \/ ResolveInsert(v)
    PROVE  TokenInv'
<1>1. /\ serve[v] \in Serve /\ serve[v].pc \in {"cached", "insert"}
      /\ RequestOK(serve[v], Registered, redis) /\ NotStale(serve[v], Everywhere)
  BY DEF TokenInv, ServesOK, ResolveFast, ResolveInsert, On
<1>2. Signer(v) \in Key \cup {None}
  <2>1. serve[v].tok.chain \in Seq(Block) /\ serve[v].block \in DOMAIN serve[v].tok.chain
    BY <1>1 DEF RequestOK, Verifying, AtBlock, Token
  <2>2. CurBlock(v) \in Block
    BY <2>1 DEF CurBlock
  <2> QED
    BY <2>2 DEF Signer, Block
<1>3. CacheInv'
  <2>1. CASE ResolveFast(v) /\ Signer(v) = None
    BY <2>1, CacheUnchanged DEF TokenInv, RevocationInv, Inv, ResolveFast
  <2>2. CASE ResolveFast(v) /\ Signer(v) # None
    BY <1>2, <2>2, CacheOperationsKeepWellFormed, TokenAssumption
       DEF TokenInv, RevocationInv, Inv, CacheInv, ResolveFast
  <2>3. CASE ResolveInsert(v)
    <3>1. Signer(v) \in Key
      BY <1>1, <1>2, <2>3 DEF RequestOK, ResolveInsert, On, Signer, CurBlock
    <3> QED
      BY <2>3, <3>1, CacheOperationsKeepWellFormed, TokenAssumption
         DEF TokenInv, RevocationInv, Inv, CacheInv, ResolveInsert
  <2> QED
    BY <2>1, <2>2, <2>3
<1>4. RegistryInv' /\ faults' \in Nat
  BY RegistryUnchanged DEF ResolveFast, ResolveInsert, TokenInv, RevocationInv, Inv, CountsOK
<1>5. redis' = redis /\ memory' = memory
  BY DEF ResolveFast, ResolveInsert, registry
<1>6. RevocationInv' /\ Grows /\ \A p \in Proc : ReplacesKey(call'[p], Key)
  BY <1>3, <1>4, <1>5, RequestStep DEF ResolveFast, ResolveInsert
<1>7. ServesOK'
  <2>1. /\ Signed(v) \in Serve /\ GoServe(v, Signed(v))
        /\ RequestOK(Signed(v), Registered', redis') /\ NotStale(Signed(v), Everywhere')
    BY <1>1, <1>6, SignedIsOK, RequestOKLater DEF ResolveFast, ResolveInsert
  <2> QED
    BY <1>6, <2>1, GoServeKeeps DEF TokenInv
<1> QED
  BY <1>6, <1>7, TokensAndHistoryKept DEF TokenInv, ResolveFast, ResolveInsert

LEMMA ResolveMissKeeps ==
    ASSUME TokenInv, NEW v \in TokenProc, ResolveMiss(v) \/ ResolveLookup(v)
    PROVE  TokenInv'
<1> DEFINE old == serve[v]
           goes(pc) == [old EXCEPT !.pc = pc]
<1>1. /\ old \in Serve /\ RequestOK(old, Registered, redis) /\ NotStale(old, Everywhere)
      /\ old.pc \in {"cached", "lookup"}
      /\ UNCHANGED <<vars, tokens, ackedTokens, retired, raced>>
  BY DEF TokenInv, ServesOK, ResolveMiss, ResolveLookup, On
<1>2. Signer(v) # None
  BY <1>1 DEF ResolveMiss, ResolveLookup, On, RequestOK, Signer, CurBlock
<1>3. Answer(v) \/ \E pc \in {"lookup", "insert"} : GoServe(v, goes(pc))
  BY DEF ResolveMiss, ResolveLookup
<1>4. CASE Answer(v)
  BY <1>1, <1>4, QuietAnswerKeeps
<1>5. ASSUME NEW pc \in {"lookup", "insert"}, GoServe(v, goes(pc))
      PROVE  TokenInv'
  <2> DEFINE s == goes(pc)
  <2>1. /\ s \in Serve /\ s.pc = pc /\ s.block = old.block
        /\ s.tok = old.tok /\ s.before = old.before
    BY <1>1 DEF Serve, TokenPC
  <2>2. GoServe(v, s)
    BY <1>5
  <2> HIDE DEF s
  <2>3. RequestOK(s, Registered, redis)
    BY <1>1, <1>2, <2>1 DEF RequestOK, Verifying, AtBlock, Signer, CurBlock
  <2>4. NotStale(s, Everywhere)
    BY <1>1, <2>1 DEF NotStale, Told, AtBlock, Checked
  <2> QED
    BY <1>1, <2>1, <2>2, <2>3, <2>4, QuietGoKeeps
<1> QED
  BY <1>3, <1>4, <1>5

\* A crash ends the requests of its instance.  Where other instances go on, the
\* store is Postgres and the registry is in Redis.
LEMMA TokenCrashKeeps ==
    ASSUME TokenInv, NEW i \in Instance, TokenCrash(i)
    PROVE  TokenInv'
<1>1. RevocationInv' /\ \A p \in Proc : ReplacesKey(call'[p], Key)
  BY LifecycleStep DEF TokenCrash, Next
<1>2. serve' = [v \in TokenProc |-> IF TokenHost[v] = i THEN IdleServe ELSE serve[v]]
  BY DEF TokenCrash
<1>3. serve' \in [TokenProc -> Serve]
  BY <1>2, IdleServeIsOK DEF TokenInv, ServesOK
<1>4. redis' = redis /\ "crash" \in Failures
  BY DEF TokenCrash, Crash, ForgetMemory, Fault
<1>5. RedisEnabled => Everywhere' = Everywhere
  BY <1>4 DEF Everywhere, IsRevoked
<1>6. Postgres => Registered' = Registered
  BY DEF TokenCrash, Crash, RestartStore, store, Registered
<1>7. ASSUME NEW v \in TokenProc
      PROVE  RequestOK(serve'[v], Registered', redis') /\ NotStale(serve'[v], Everywhere')
  <2>1. CASE TokenHost[v] = i
    BY <1>2, <2>1, IdleServeIsOK
  <2>2. CASE TokenHost[v] # i
    <3>1. Postgres /\ RedisEnabled
      BY <2>2, TokenAssumption, DeploymentAssumption
    <3>2. RequestOK(serve[v], Registered, redis) /\ NotStale(serve[v], Everywhere)
      BY DEF TokenInv, ServesOK
    <3> QED
      BY <1>2, <1>4, <1>5, <1>6, <2>2, <3>1, <3>2
  <2> QED
    BY <2>1, <2>2
<1>8. ServesOK'
  BY <1>3, <1>7 DEF ServesOK
<1>9. HistoryOK'
  BY <1>4, <1>5 DEF TokenInv, HistoryOK, RegistrySurvives, TokenCrash
<1>10. \A t \in tokens' : TokenOK(t)
  BY DEF TokenInv, TokenCrash
<1> QED
  BY <1>1, <1>8, <1>9, <1>10 DEF TokenInv

\* A step of the lifecycle that leaves the requests for tokens alone.
LEMMA AgentStepKeeps ==
    ASSUME TokenInv, Running, UNCHANGED serve, UNCHANGED tokens, UNCHANGED ackedTokens,
           retired' \subseteq Key, raced' \subseteq retired'
    PROVE  TokenInv'
<1>1. RevocationInv' /\ \A p \in Proc : ReplacesKey(call'[p], Key)
  BY LifecycleStep DEF Running, Next
<1>2. Grows
  BY LifecycleGrows DEF TokenInv, RevocationInv
<1>3. ServesOK'
  BY <1>2, RequestOKLater DEF TokenInv, ServesOK
<1>4. (\A t \in tokens' : TokenOK(t)) /\ HistoryOK'
  BY <1>2 DEF TokenInv, HistoryOK, Grows
<1> QED
  BY <1>1, <1>3, <1>4 DEF TokenInv

LEMMA RotateAnswerKeeps ==
    ASSUME TokenInv, NEW p \in Proc, RotateAnswer(p)
    PROVE  TokenInv'
<1> DEFINE k == call[p].replaced
<1>1. k \in Key
  BY DEF RotateAnswer, RotateInvalidate, At, TokenInv, ReplacesKey
<1>2. /\ Running /\ UNCHANGED <<tokens, serve, ackedTokens>>
      /\ retired' = retired \cup {k}
      /\ raced' = raced \cup {k} \/ raced' = raced
  BY DEF RotateAnswer, Running, Continue
<1>3. retired \subseteq Key /\ raced \subseteq retired
  BY DEF TokenInv, HistoryOK
<1> HIDE DEF k
<1> QED
  BY <1>1, <1>2, <1>3, AgentStepKeeps

-----------------------------------------------------------------------------
(* A key ID that a rotation has replaced does not come back                  *)

\* The key IDs generated so far.
MadeKeys == {k \in Key : k[2] < keysMade[k[1]]}

\* The key IDs in the records a request has in hand, and those a lookup may find
\* now or after a write.
HandKeys(c) == {c.writes[n].key : n \in DOMAIN c.writes}
Held == StoreKeys \cup UNION {HandKeys(call[p]) : p \in Proc}

\* No record and no cache has key ID k.
Gone(k) == k \notin Held /\ \A i \in Instance : ~Cached(i, k)

\* The signature of block n has been verified.
Resolved(s, n) == s.pc = "accepted" \/ n < s.block

\* Of what was retired when the request began, R being what is now and X the part
\* of it that something held, the request inserts nothing into a cache and has
\* verified no signature.
Refuses(s, R, X) ==
    /\ s.stale \subseteq R
    /\ s.pc = "insert" => s.tok.chain[s.block].signer \notin R \ X
    /\ s.pc \in AtBlock \cup {"accepted"} =>
          \A n \in DOMAIN s.tok.chain : Resolved(s, n) => s.tok.chain[n].signer \notin s.stale \ X

\* The part of the inductive invariant that is about rotations.
RotationInv ==
    /\ Held \subseteq MadeKeys
    /\ retired \subseteq MadeKeys
    /\ \A p \in Proc : ReplacesKey(call[p], MadeKeys)
    /\ \A k \in retired \ raced : Gone(k)
    /\ \A v \in TokenProc : Refuses(serve[v], retired, raced)

\* The key IDs with a record change by newly made ones only.
KeysMove ==
    /\ MadeKeys \subseteq MadeKeys'
    /\ Held' \subseteq MadeKeys'
    /\ Held' \cap MadeKeys \subseteq Held

\* A step of process p other than the generation of a key.
LEMMA GoHeld ==
    ASSUME CallsOK, Held \subseteq MadeKeys, NEW p \in Proc, NEW c, Go(p, c),
           HandKeys(c) \subseteq Held, StoreKeys' \subseteq Held,
           MadeKeys \subseteq MadeKeys'
    PROVE  KeysMove
<1>1. \A q \in Proc : HandKeys(call'[q]) \subseteq Held
  BY DEF Go, CallsOK, Held
<1>2. Held' \subseteq Held
  BY <1>1 DEF Held, HandKeys
<1> QED
  BY <1>2 DEF KeysMove

LEMMA RespondHeld ==
    ASSUME CallsOK, Held \subseteq MadeKeys, NEW p \in Proc, Respond(p),
           StoreKeys' \subseteq Held, MadeKeys \subseteq MadeKeys'
    PROVE  KeysMove
<1>1. HandKeys(Idle) = {}
  BY DEF HandKeys, Idle
<1> QED
  BY <1>1, GoHeld DEF Respond

\* Steps that generate no key.
LEMMA MadeKeysKept ==
    ASSUME UNCHANGED keysMade
    PROVE  MadeKeys \subseteq MadeKeys'
BY DEF MadeKeys

\* The write of the next record in hand.
LEMMA WriteHeld ==
    ASSUME Inv, NEW p \in Proc, UpdateAgent(Head(call[p].writes)),
           call[p].pc \in {"suspend", "rotateWrite", "revokeWrite", "childWrite"}
    PROVE  StoreKeys' \subseteq Held /\ Registered' = Registered
<1> DEFINE rec == Head(call[p].writes)
<1>1. call[p].writes \in Seq(AgentRecord) /\ call[p].writes # <<>>
  BY DEF Inv, CallsOK, CallOK, Call
<1>2. rec.key \in HandKeys(call[p])
  BY <1>1 DEF HandKeys
<1>3. /\ Registered' = Registered /\ \A a \in Registered : agents'[a] \in {agents[a], rec}
  BY DEF UpdateAgent, Registered
<1> HIDE DEF rec
<1> QED
  BY <1>2, <1>3 DEF StoreKeys, Held

\* A request that has one record in hand, made from one in the store.
LEMMA OneInHand ==
    ASSUME NEW c, NEW a \in Registered, NEW r, c.writes = <<r>>, r.key = agents[a].key
    PROVE  HandKeys(c) \subseteq Held
BY DEF HandKeys, Held, StoreKeys

LEMMA NoneInHand ==
    ASSUME NEW c, c.writes = <<>>
    PROVE  HandKeys(c) \subseteq Held
BY DEF HandKeys

LEMMA SameInHand ==
    ASSUME NEW c, NEW p \in Proc, c.writes = call[p].writes
    PROVE  HandKeys(c) \subseteq Held
BY DEF HandKeys, Held

LEMMA RegisterHeld ==
    ASSUME Inv, Held \subseteq MadeKeys, NEW a \in Agent, NEW parent, RegisterAgent(a, parent)
    PROVE  KeysMove
<1> DEFINE k == <<a, 0>>
<1>1. /\ a \notin Registered /\ Registered' = Registered \cup {a}
      /\ \A b \in Registered : agents'[b] = agents[b]
      /\ agents'[a].key = k
      /\ keysMade[a] = 0 /\ keysMade' = [keysMade EXCEPT ![a] = 1] /\ UNCHANGED call
  BY DEF RegisterAgent, CreateAgent, Put, Registered
<1>2. k \in Key /\ keysMade \in [Agent -> Nat]
  BY DEF Key, Inv, CountsOK
<1>3. MadeKeys \subseteq MadeKeys'
  <2> SUFFICES ASSUME NEW l \in MadeKeys PROVE l \in MadeKeys'
    OBVIOUS
  <2>1. l \in Key /\ l[1] \in Agent /\ l[2] \in Nat /\ l[2] < keysMade[l[1]]
    BY DEF MadeKeys, Key
  <2>2. l[1] # a
    BY <1>1, <2>1
  <2> QED
    BY <1>1, <1>2, <2>1, <2>2 DEF MadeKeys
<1>4. k \in MadeKeys' /\ k \notin MadeKeys
  BY <1>1, <1>2 DEF MadeKeys
<1> HIDE DEF k
<1>5. Held' = Held \cup {k}
  BY <1>1 DEF Held, StoreKeys, HandKeys
<1> QED
  BY <1>3, <1>4, <1>5 DEF KeysMove

LEMMA RotateReadHeld ==
    ASSUME Inv, Held \subseteq MadeKeys, NEW p \in Proc, RotateRead(p)
    PROVE  KeysMove
<1> DEFINE a == call[p].arg
           k == <<a, keysMade[a]>>
           rec == [agents[a] EXCEPT !.key = k]
           c == [call[p] EXCEPT !.pc = "rotateWrite", !.replaced = agents[a].key, !.writes = <<rec>>]
<1>1. /\ Go(p, c) /\ keysMade' = [keysMade EXCEPT ![a] = keysMade[a] + 1]
      /\ UNCHANGED store /\ call[p] \in Call /\ a \in Registered
  BY DEF RotateRead, At, Inv, CallsOK, CallOK
<1>2. /\ Registered' = Registered /\ StoreKeys' = StoreKeys
      /\ keysMade \in [Agent -> Nat] /\ Registered \subseteq Agent
      /\ agents[a] \in AgentRecord
  BY <1>1 DEF Inv, CountsOK, StoreInv, StoreTypeOK, Registered, store, StoreKeys
<1>3. k \in Key /\ k \notin MadeKeys
  BY <1>1, <1>2 DEF Key, MadeKeys
<1>4. MadeKeys \subseteq MadeKeys' /\ k \in MadeKeys'
  <2>1. /\ \A b \in Agent : keysMade'[b] \in Nat /\ keysMade[b] <= keysMade'[b]
        /\ keysMade[a] < keysMade'[a]
    BY <1>1, <1>2
  <2>2. ASSUME NEW l \in MadeKeys
        PROVE  l \in MadeKeys'
    <3>1. l \in Key /\ l[1] \in Agent /\ l[2] < keysMade[l[1]] /\ l[2] \in Nat
      BY <2>2 DEF MadeKeys, Key
    <3>2. l[2] < keysMade'[l[1]]
      BY <1>2, <2>1, <3>1
    <3> QED
      BY <1>2, <3>1, <3>2 DEF MadeKeys
  <2>3. k \in MadeKeys'
    BY <1>1, <1>2, <1>3, <2>1 DEF MadeKeys
  <2> QED
    BY <2>2, <2>3
<1>5. rec.key = k
  BY <1>2 DEF AgentRecord
<1>6. c.writes = <<rec>>
  BY <1>1 DEF Call
<1> HIDE DEF rec, k
<1>7. HandKeys(c) = {k}
  <2> HIDE DEF c
  <2> QED
    BY <1>5, <1>6 DEF HandKeys
<1> HIDE DEF c
<1>8. Held' \subseteq Held \cup {k}
  <2>1. \A q \in Proc : HandKeys(call'[q]) \subseteq Held \cup {k}
    BY <1>1, <1>7 DEF Go, Inv, CallsOK, Held
  <2> QED
    BY <1>2, <2>1 DEF Held, HandKeys
<1> QED
  BY <1>3, <1>4, <1>8 DEF KeysMove

LEMMA ChildrenInHand ==
    ASSUME Inv, NEW p \in Proc, ReadChildren(p)
    PROVE  /\ \E c : Go(p, c) /\ HandKeys(c) \subseteq Held
           /\ UNCHANGED <<store, keysMade>>
<1>1. PICK s \in ChildLists(Head(call[p].queue).id) :
        Go(p, Advance([call[p] EXCEPT !.queue = Dequeue(@) \o Items(s, Head(call[p].queue).depth + 1),
                                      !.writes = [n \in DOMAIN s |-> Revoked(s[n])]]))
  BY DEF ReadChildren
<1> DEFINE w == [n \in DOMAIN s |-> Revoked(s[n])]
           c == Advance([call[p] EXCEPT !.queue = Dequeue(@) \o Items(s, Head(call[p].queue).depth + 1),
                                        !.writes = w])
<1>2. s \in Seq(AgentRecord) /\ \A n \in DOMAIN s : s[n].id \in Registered /\ s[n] = agents[s[n].id]
  BY ChildListsAreRecords DEF Inv
<1>3. c.writes = w
  BY DEF Inv, CallsOK, Call, Advance
<1>4. \A n \in DOMAIN s : w[n].key = s[n].key /\ s[n].key \in StoreKeys
  <2> TAKE n \in DOMAIN s
  <2>1. s[n] \in AgentRecord /\ s[n] = agents[s[n].id] /\ s[n].id \in Registered
    BY <1>2
  <2>2. Revoked(s[n]).key = s[n].key
    BY <2>1 DEF Revoked, AgentRecord
  <2> QED
    BY <2>1, <2>2 DEF StoreKeys
<1> HIDE DEF c
<1>5. HandKeys(c) \subseteq Held
  BY <1>3, <1>4 DEF HandKeys, Held
<1> QED
  BY <1>1, <1>5 DEF ReadChildren, c

LEMMA LifecycleHeld ==
    ASSUME Inv, Held \subseteq MadeKeys, [Next]_vars
    PROVE  KeysMove
<1>1. CallsOK /\ call \in [Proc -> Call]
  BY DEF Inv, CallsOK
<1>2. ASSUME NEW p \in Proc, NEW c, Go(p, c), UNCHANGED <<store, keysMade>>, HandKeys(c) \subseteq Held
      PROVE  KeysMove
  <2>1. StoreKeys' \subseteq Held /\ Registered' = Registered
    BY <1>2 DEF StoreKeys, Held, Registered, store
  <2> QED
    BY <1>1, <1>2, <2>1, MadeKeysKept, GoHeld
<1>3. ASSUME NEW p \in Proc, NEW c, Go(p, c), UNCHANGED keysMade, HandKeys(c) \subseteq Held,
             UpdateAgent(Head(call[p].writes)),
             call[p].pc \in {"suspend", "rotateWrite", "revokeWrite", "childWrite"}
      PROVE  KeysMove
  BY <1>1, <1>3, WriteHeld, MadeKeysKept, GoHeld
<1>4. HandKeys(Idle) \subseteq Held
  BY NoneInHand DEF Idle
<1>5. ASSUME NEW p \in Proc, Start(p)
      PROVE  KeysMove
  <2>1. PICK a \in Agent :
          SuspendRead(p, a) \/ RotateBegin(p, a) \/ \E cascade \in BOOLEAN : RevokeBegin(p, a, cascade)
    BY <1>5 DEF Start
  <2>2. CASE SuspendRead(p, a)
    <3> DEFINE r == [agents[a] EXCEPT !.status = "suspended"]
               c == [Idle EXCEPT !.pc = "suspend", !.arg = a, !.writes = <<r>>]
    <3>1. Go(p, c) /\ UNCHANGED <<store, keysMade>> /\ c.writes = <<r>> /\ a \in Registered
      BY <2>2 DEF SuspendRead, Accept, Idle
    <3>2. r.key = agents[a].key
      BY <3>1 DEF Inv, StoreInv, StoreTypeOK, Registered, AgentRecord
    <3> HIDE DEF c, r
    <3> QED
      BY <1>2, <3>1, <3>2, OneInHand
  <2>3. CASE RotateBegin(p, a)
    <3> DEFINE c == [Idle EXCEPT !.pc = "rotateRead", !.arg = a, !.oldKey = agents[a].key]
    <3>1. Go(p, c) /\ UNCHANGED <<store, keysMade>> /\ c.writes = <<>>
      BY <2>3 DEF RotateBegin, Idle
    <3> HIDE DEF c
    <3> QED
      BY <1>2, <3>1, NoneInHand
  <2>4. CASE \E cascade \in BOOLEAN : RevokeBegin(p, a, cascade)
    <3>1. PICK cascade \in BOOLEAN : RevokeBegin(p, a, cascade)
      BY <2>4
    <3> DEFINE c == [Idle EXCEPT !.pc = IF cascade THEN "list" ELSE "revokeRead",
                          !.arg = a, !.cascade = cascade, !.ids = <<a>>,
                          !.queue = IF cascade THEN <<[id |-> a, depth |-> 0]>> ELSE <<>>,
                          !.known = {a} \cup IF cascade THEN Subtree(a) ELSE {}]
    <3>2. Go(p, c) /\ UNCHANGED <<store, keysMade>> /\ c.writes = <<>>
      BY <3>1 DEF RevokeBegin, Idle
    <3> HIDE DEF c
    <3> QED
      BY <1>2, <3>2, NoneInHand
  <2> QED
    BY <2>1, <2>2, <2>3, <2>4
<1>6. ASSUME NEW p \in Proc, Continue(p)
      PROVE  KeysMove
  <2>1. call[p] \in Call /\ CallOK(call[p], Registered, redis)
    BY DEF Inv, CallsOK
  <2>2. CASE RotateRefused(p) \/ RotateInvalidate(p) \/ RefuseDepth(p)
    BY <1>2, <1>4, <2>2 DEF Respond, RotateRefused, RotateInvalidate, RefuseDepth
  <2>3. CASE SuspendWrite(p)
    BY <1>3, <1>4, <2>3 DEF Respond, SuspendWrite, At
  <2>4. CASE RotateWrite(p)
    <3> DEFINE c == [call[p] EXCEPT !.pc = "invalidate", !.writes = <<>>]
    <3>1. Go(p, c) /\ UNCHANGED keysMade /\ UpdateAgent(Head(call[p].writes)) /\ call[p].pc = "rotateWrite"
          /\ c.writes = <<>>
      BY <2>1, <2>4 DEF RotateWrite, At, Call
    <3> HIDE DEF c
    <3> QED
      BY <1>3, <3>1, NoneInHand
  <2>5. CASE ListStep(p)
    <3> DEFINE c(s, rest) == [call[p] EXCEPT !.ids = Collect(@, s), !.queue = rest,
                                 !.pc = IF rest = <<>> THEN "revokeRead" ELSE "list"]
    <3>1. (\E s, rest : Go(p, c(s, rest))) /\ UNCHANGED <<store, keysMade>>
      BY <2>5 DEF ListStep
    <3>2. \A s, rest : c(s, rest).writes = call[p].writes
      BY <2>1 DEF Call
    <3> HIDE DEF c
    <3> QED
      BY <1>2, <3>1, <3>2, SameInHand
  <2>6. CASE RevokeRead(p)
    <3> DEFINE r == Revoked(agents[call[p].arg])
               c == [call[p] EXCEPT !.pc = "revokeWrite", !.writes = <<r>>]
    <3>1. Go(p, c) /\ UNCHANGED <<store, keysMade>> /\ c.writes = <<r>> /\ call[p].arg \in Registered
      BY <2>1, <2>6 DEF RevokeRead, At, Call, CallOK
    <3>2. r.key = agents[call[p].arg].key
      BY <3>1 DEF Inv, StoreInv, StoreTypeOK, Registered, AgentRecord, Revoked
    <3> HIDE DEF c, r
    <3> QED
      BY <1>2, <3>1, <3>2, OneInHand
  <2>7. CASE RevokeWrite(p)
    <3> DEFINE c == [call[p] EXCEPT !.pc = IF call[p].cascade THEN "children" ELSE Publish,
                       !.writes = <<>>,
                       !.queue = IF call[p].cascade THEN <<[id |-> call[p].arg, depth |-> 0]>> ELSE <<>>]
    <3>1. Go(p, c) /\ UNCHANGED keysMade /\ UpdateAgent(Head(call[p].writes)) /\ call[p].pc = "revokeWrite"
      BY <2>7 DEF RevokeWrite, At
    <3>2. c.writes = <<>>
      BY <2>1 DEF Call
    <3> HIDE DEF c
    <3> QED
      BY <1>3, <3>1, <3>2, NoneInHand
  <2>8. CASE ReadChildren(p)
    BY <1>2, <2>1, <2>8, ChildrenInHand
  <2>9. CASE WriteChild(p)
    <3> DEFINE c == Advance([call[p] EXCEPT !.writes = Tail(@)])
    <3>1. Go(p, c) /\ UNCHANGED keysMade /\ UpdateAgent(Head(call[p].writes)) /\ call[p].pc = "childWrite"
      BY <2>9 DEF WriteChild, At
    <3>2. c.writes = Tail(call[p].writes) /\ call[p].writes \in Seq(AgentRecord) /\ call[p].writes # <<>>
      BY <2>1, <3>1 DEF Advance, Call, CallOK
    <3> HIDE DEF c
    <3>3. HandKeys(c) \subseteq HandKeys(call[p])
      BY <3>2 DEF HandKeys
    <3>4. HandKeys(c) \subseteq Held
      BY <3>3 DEF Held
    <3> QED
      BY <1>3, <3>1, <3>4
  <2>10. CASE WriteRedis(p)
    <3> DEFINE c == [call[p] EXCEPT !.pc = "remember"]
    <3>1. Go(p, c) /\ UNCHANGED <<store, keysMade>> /\ c.writes = call[p].writes
      BY <2>1, <2>10 DEF WriteRedis, Call
    <3> HIDE DEF c
    <3> QED
      BY <1>2, <3>1, SameInHand
  <2>11. CASE WriteMemory(p)
    <3> DEFINE c == [call[p] EXCEPT !.pc = Publish, !.ids = Tail(call[p].ids)]
    <3>1. (Respond(p) \/ Go(p, c)) /\ UNCHANGED <<store, keysMade>>
      BY <2>11 DEF WriteMemory
    <3>2. c.writes = call[p].writes
      BY <2>1 DEF Call
    <3> HIDE DEF c
    <3> QED
      BY <1>2, <1>4, <3>1, <3>2, SameInHand DEF Respond
  <2> QED
    BY <1>1, <1>6, RotateReadHeld, <2>2, <2>3, <2>4, <2>5, <2>6, <2>7, <2>8, <2>9, <2>10, <2>11 DEF Continue
<1>7. ASSUME NEW p \in Proc, Fail(p)
      PROVE  KeysMove
  <2>1. CASE ListFails(p)
    <3> DEFINE c == [call[p] EXCEPT !.pc = "revokeRead", !.ids = <<call[p].arg>>, !.queue = <<>>]
    <3>1. Go(p, c) /\ UNCHANGED <<store, keysMade>> /\ c.writes = call[p].writes
      BY <1>1, <2>1 DEF ListFails, Call
    <3> HIDE DEF c
    <3> QED
      BY <1>2, <3>1, SameInHand
  <2>2. CASE ReadFails(p) \/ RedisFails(p)
    BY <1>2, <1>4, <2>2 DEF Respond, ReadFails, RedisFails
  <2>3. CASE WriteFails(p)
    BY <1>2, <1>3, <1>4, <2>3 DEF Respond, WriteFails
  <2> QED
    BY <1>7, <2>1, <2>2, <2>3 DEF Fail
<1>8. CASE UNCHANGED vars
  <2>1. Held' = Held /\ MadeKeys' = MadeKeys
    BY <1>8 DEF vars, Held, StoreKeys, HandKeys, MadeKeys, Registered
  <2> QED
    BY <2>1 DEF KeysMove
<1>9. CASE \E i \in Instance : Crash(i)
  <2>1. UNCHANGED keysMade /\ MadeKeys' = MadeKeys /\ \A q \in Proc : call'[q] \in {Idle, call[q]}
    BY <1>9 DEF Crash, MadeKeys
  <2>2. StoreKeys' \subseteq Held
    <3>1. UNCHANGED store \/ Registered' = {}
      BY <1>9, CrashCases
    <3> QED
      BY <3>1 DEF store, StoreKeys, Registered, Held
  <2>3. \A q \in Proc : HandKeys(call'[q]) \subseteq Held
    BY <1>4, <2>1 DEF Held
  <2>4. Held' \subseteq Held
    BY <2>2, <2>3 DEF Held, HandKeys
  <2> QED
    BY <2>1, <2>4 DEF KeysMove
<1> QED
  BY <1>5, <1>6, <1>7, <1>8, <1>9, RegisterHeld DEF Next

LEMMA RefusesLater ==
    ASSUME NEW s, NEW R, NEW X, Refuses(s, R, X), NEW R2, NEW X2, R \subseteq R2, X \subseteq X2,
           s.pc = "insert" => s.tok.chain[s.block].signer \notin R2 \ X2
    PROVE  Refuses(s, R2, X2)
BY DEF Refuses

LEMMA IdleRefuses == \A R, X : Refuses(IdleServe, R, X)
BY DEF Refuses, IdleServe, AtBlock

\* A step of the lifecycle that retires nothing.
LEMMA LifecycleRotates ==
    ASSUME TokenInv, RotationInv, Next, UNCHANGED <<retired, raced>>,
           \A v \in TokenProc : serve'[v] \in {serve[v], IdleServe},
           \A i \in Instance, k \in Key : Cached(i, k)' => Cached(i, k)
    PROVE  RotationInv'
<1>1. KeysMove
  BY LifecycleHeld DEF TokenInv, RevocationInv, RotationInv
<1>2. \A p \in Proc : ReplacesKey(call'[p], MadeKeys)
  BY LifecycleReplacesKey DEF TokenInv, RevocationInv, RotationInv, Held
<1>3. \A p \in Proc : ReplacesKey(call'[p], MadeKeys')
  BY <1>1, <1>2 DEF KeysMove, ReplacesKey
<1>4. \A k \in retired \ raced : Gone(k)'
  BY <1>1 DEF RotationInv, KeysMove, Gone, TokenInv, HistoryOK
<1>5. \A v \in TokenProc : Refuses(serve'[v], retired, raced)
  BY IdleRefuses DEF RotationInv
<1> QED
  BY <1>1, <1>3, <1>4, <1>5 DEF RotationInv, KeysMove

\* A rotation that answers.
LEMMA RotateAnswerRotates ==
    ASSUME TokenInv, RotationInv, NEW p \in Proc, RotateAnswer(p)
    PROVE  RotationInv'
<1> PICK k, i, old : k = call[p].replaced /\ i = Host[p] /\ old = call[p].oldKey
  OBVIOUS
<1>1. /\ KeysMove /\ Next /\ UNCHANGED <<agents, keyIndex, serve>>
      /\ k \in MadeKeys /\ k \in Key /\ i \in Instance
      /\ call' = [call EXCEPT ![p] = Idle]
      /\ InvalidateCache(i, old)
      /\ retired' = retired \cup {k} /\ raced \subseteq raced'
      /\ k \notin raced' => ~BeingCached(i, k) /\ ~WrittenBack(k) /\ old = k
  <2>1. Next /\ RotateInvalidate(p) /\ At(p, "invalidate")
    BY DEF RotateAnswer, RotateInvalidate, Next, Continue
  <2>2. KeysMove
    BY <2>1, LifecycleHeld DEF TokenInv, RevocationInv, RotationInv
  <2>3. k \in MadeKeys /\ k \in Key /\ i \in Instance
    BY <2>1, LifecycleAssumption DEF RotationInv, ReplacesKey, At, MadeKeys
  <2>4. /\ retired' = retired \cup {k} /\ raced \subseteq raced'
        /\ k \notin raced' => ~BeingCached(i, k) /\ ~WrittenBack(k) /\ old = k
    BY DEF RotateAnswer, IsHeld
  <2>5. /\ UNCHANGED <<agents, keyIndex, serve>>
        /\ call' = [call EXCEPT ![p] = Idle]
        /\ InvalidateCache(i, old)
    BY DEF RotateAnswer, RotateInvalidate, Respond, Go, store
  <2> QED
    BY <2>1, <2>2, <2>3, <2>4, <2>5
<1>2. /\ \A j \in Instance, l \in Key : Cached(j, l)' => Cached(j, l)
      /\ old = k => ~Cached(i, k)'
  BY <1>1, CacheLoses DEF TokenInv, RevocationInv, Inv, CacheInv
<1>3. \A q \in Proc : ReplacesKey(call'[q], MadeKeys')
  <2>1. \A q \in Proc : ReplacesKey(call'[q], MadeKeys)
    BY <1>1, LifecycleReplacesKey DEF TokenInv, RevocationInv, RotationInv, Held
  <2> QED
    BY <1>1, <2>1 DEF KeysMove, ReplacesKey
<1>4. ASSUME NEW l \in retired \ raced
      PROVE  Gone(l)'
  BY <1>1, <1>2, <1>4 DEF RotationInv, KeysMove, Gone, TokenInv, HistoryOK
<1>5. ASSUME k \notin raced'
      PROVE  Gone(k)'
  <2>1. k \notin StoreKeys'
    <3>1. KeyOwners(k) = {}
      BY <1>1, <1>5 DEF WrittenBack
    <3>2. KeyIndexIsInverse
      BY DEF TokenInv, RevocationInv, Inv, StoreInv
    <3>3. k \notin StoreKeys
      BY <3>1, <3>2 DEF KeyOwners, KeyIndexIsInverse, StoreKeys
    <3> QED
      BY <1>1, <3>3 DEF StoreKeys, Registered
  <2>2. \A q \in Proc : k \notin HandKeys(call'[q])
    <3>1. \A q \in Proc : k \notin HandKeys(call[q])
      BY <1>1, <1>5 DEF WrittenBack, HandKeys
    <3>2. k \notin HandKeys(Idle)
      BY DEF HandKeys, Idle
    <3>3. \A q \in Proc : call'[q] \in {call[q], Idle}
      BY <1>1 DEF TokenInv, RevocationInv, Inv, CallsOK
    <3> QED
      BY <3>1, <3>2, <3>3
  <2>3. k \notin Held'
    BY <2>1, <2>2 DEF Held, HandKeys
  <2>4. \A j \in Instance : ~Cached(j, k)'
    <3> TAKE j \in Instance
    <3>1. CASE j = i
      BY <1>1, <1>2, <1>5, <3>1
    <3>2. CASE j # i
      BY <1>1, <1>2, <1>5, <3>2 DEF BeingCached
    <3> QED
      BY <3>1, <3>2
  <2> QED
    BY <2>3, <2>4 DEF Gone
<1>6. ASSUME NEW v \in TokenProc
      PROVE  Refuses(serve'[v], retired', raced')
  <2>1. Refuses(serve[v], retired, raced)
    BY DEF RotationInv
  <2>2. serve[v].pc = "insert" => serve[v].tok.chain[serve[v].block].signer \notin retired' \ raced'
    BY <1>1, <2>1 DEF Refuses, BeingCached, On, Signer, CurBlock
  <2> QED
    BY <1>1, <2>1, <2>2, RefusesLater
<1> QED
  BY <1>1, <1>3, <1>4, <1>5, <1>6 DEF RotationInv, KeysMove

\* A step of a token request.
LEMMA RequestRotates ==
    ASSUME TokenInv, RotationInv, NEW v \in TokenProc, NEW s, GoServe(v, s),
           UNCHANGED <<store, call, keysMade, retired, raced>>, Refuses(s, retired, raced),
           \A i \in Instance, k \in Key : Cached(i, k)' => Cached(i, k) \/ k \notin retired \ raced
    PROVE  RotationInv'
<1>1. Held' = Held /\ MadeKeys' = MadeKeys
  BY DEF Held, StoreKeys, HandKeys, MadeKeys, Registered, store
<1>2. \A k \in retired \ raced : Gone(k)'
  BY <1>1 DEF RotationInv, Gone, TokenInv, HistoryOK
<1>3. \A w \in TokenProc : serve'[w] \in {serve[w], s}
  BY DEF GoServe, TokenInv, ServesOK
<1> QED
  BY <1>1, <1>2, <1>3 DEF RotationInv

\* In particular one that leaves the caches alone.
LEMMA QuietRotates ==
    ASSUME TokenInv, RotationInv, NEW v \in TokenProc, NEW s, GoServe(v, s), Refuses(s, retired, raced),
           UNCHANGED <<store, cache, call, keysMade, retired, raced>>
    PROVE  RotationInv'
BY RequestRotates DEF Cached

LEMMA AnswerRotates ==
    ASSUME TokenInv, RotationInv, NEW v \in TokenProc, Answer(v),
           UNCHANGED <<store, cache, call, keysMade, retired, raced>>
    PROVE  RotationInv'
BY IdleRefuses, QuietRotates DEF Answer

LEMMA BeginRotates ==
    ASSUME TokenInv, RotationInv, NEW v \in TokenProc, TokenStart(v)
    PROVE  RotationInv'
<1>1. Begun \in Serve /\ Begun.stale = retired
  <2>1. retired \subseteq Key
    BY DEF TokenInv, HistoryOK
  <2> QED
    BY <2>1, BegunIsKnown, IdleServeIsOK DEF Begun, IdleServe, Serve
<1>2. ASSUME NEW s, GoServe(v, s), UNCHANGED <<vars, retired, raced>>, s.stale = retired,
             s.pc \in {"issue", "redisToken", "rememberToken", "token"}
      PROVE  RotationInv'
  <2>1. Refuses(s, retired, raced)
    BY <1>2 DEF Refuses, AtBlock
  <2> QED
    BY <1>2, <2>1, QuietRotates DEF vars, store
<1>3. ASSUME NEW a \in Agent, IssueCheck(v, a)
      PROVE  RotationInv'
  <2> DEFINE s == [Begun EXCEPT !.pc = "issue", !.agent = a]
  <2>1. GoServe(v, s) /\ UNCHANGED <<vars, retired, raced>> /\ s.stale = retired /\ s.pc = "issue"
    BY <1>1, <1>3 DEF IssueCheck, Serve
  <2> HIDE DEF s
  <2> QED
    BY <1>2, <2>1
<1>4. ASSUME NEW id \in UsedIds, RevokeToken(v, id)
      PROVE  RotationInv'
  <2> DEFINE s == [Begun EXCEPT !.pc = IF RedisEnabled THEN "redisToken" ELSE "rememberToken",
                                !.id = id]
  <2>1. GoServe(v, s) /\ UNCHANGED <<vars, retired, raced>> /\ s.stale = retired
        /\ s.pc \in {"redisToken", "rememberToken"}
    BY <1>1, <1>4 DEF RevokeToken, Serve
  <2> HIDE DEF s
  <2> QED
    BY <1>2, <2>1
<1>5. ASSUME NEW t \in tokens, VerifyBegin(v, t)
      PROVE  RotationInv'
  <2> DEFINE s == [Begun EXCEPT !.pc = "token", !.tok = t]
  <2>1. GoServe(v, s) /\ UNCHANGED <<vars, retired, raced>> /\ s.stale = retired /\ s.pc = "token"
    BY <1>1, <1>5 DEF VerifyBegin, Serve
  <2> HIDE DEF s
  <2> QED
    BY <1>2, <2>1
<1> QED
  BY <1>3, <1>4, <1>5 DEF TokenStart

\* A verification that goes on at the same block.
LEMMA SameBlockRefuses ==
    ASSUME TokenInv, RotationInv, NEW v \in TokenProc, NEW s,
           serve[v].pc \in AtBlock, s.pc \in AtBlock,
           s.stale = serve[v].stale, s.tok = serve[v].tok, s.block = serve[v].block,
           s.pc = "insert" => s.tok.chain[s.block].signer \notin retired \ raced
    PROVE  Refuses(s, retired, raced)
BY DEF RotationInv, Refuses, Resolved, AtBlock

\* One that goes on to the next block, or to the answer.
LEMMA SignedRefuses ==
    ASSUME TokenInv, RotationInv, NEW v \in TokenProc, serve[v].pc \in {"cached", "insert"},
           Signer(v) \notin retired \ raced
    PROVE  Refuses(Signed(v), retired, raced)
<1> DEFINE old == serve[v]
           s == Signed(v)
<1>1. old \in Serve /\ RequestOK(old, Registered, redis) /\ Refuses(old, retired, raced)
  BY DEF TokenInv, ServesOK, RotationInv
<1>2. /\ old.tok.chain \in Seq(Block) /\ old.block \in DOMAIN old.tok.chain /\ old.stale \subseteq retired
      /\ \A n \in DOMAIN old.tok.chain : n < old.block => old.tok.chain[n].signer \notin old.stale \ raced
      /\ old.tok.chain[old.block].signer \notin old.stale \ raced
  BY <1>1 DEF RequestOK, Verifying, AtBlock, Token, Refuses, Resolved, Signer, CurBlock
<1>3. /\ s.tok = old.tok /\ s.stale = old.stale
      /\ \/ old.block = Len(old.tok.chain) /\ s.pc = "accepted"
         \/ s.pc = "subject" /\ s.block = old.block + 1
  <2>1. CASE old.block = Len(old.tok.chain)
    BY <1>1, <2>1 DEF Signed, Serve
  <2>2. CASE old.block # Len(old.tok.chain)
    <3>1. s = [old EXCEPT !.pc = "subject", !.block = old.block + 1]
      BY <2>2 DEF Signed
    <3> HIDE DEF s
    <3> QED
      BY <1>1, <3>1 DEF Serve
  <2> QED
    BY <2>1, <2>2
<1> HIDE DEF s
<1>4. ASSUME NEW n \in DOMAIN s.tok.chain, Resolved(s, n)
      PROVE  n < old.block \/ n = old.block
  BY <1>2, <1>3, <1>4 DEF Resolved
<1>5. Refuses(s, retired, raced)
  BY <1>2, <1>3, <1>4 DEF Refuses
<1> QED
  BY <1>5 DEF s

LEMMA CheckRotates ==
    ASSUME TokenInv, RotationInv, NEW v \in TokenProc, CheckTokenId(v) \/ CheckSubject(v) \/ CheckIssuer(v)
    PROVE  RotationInv'
<1> DEFINE old == serve[v]
<1>1. /\ old \in Serve /\ RequestOK(old, Registered, redis) /\ Refuses(old, retired, raced)
      /\ UNCHANGED <<store, cache, call, keysMade, retired, raced>>
  BY DEF TokenInv, ServesOK, RotationInv, CheckTokenId, CheckSubject, CheckIssuer, Check, vars, store
<1>2. CASE Answer(v)
  BY <1>1, <1>2, AnswerRotates
<1>3. CASE CheckTokenId(v) /\ ~Answer(v)
  <2> DEFINE s == [old EXCEPT !.pc = "subject", !.block = 1]
  <2>1. GoServe(v, s) /\ old.pc = "token"
    BY <1>3 DEF CheckTokenId, Check, On
  <2>2. s.pc = "subject" /\ s.block = 1 /\ s.tok = old.tok /\ s.stale = old.stale
    BY <1>1 DEF Serve
  <2>3. old.tok.chain \in Seq(Block)
    BY <1>1, <2>1 DEF RequestOK, Verifying, Token
  <2> HIDE DEF s
  <2>4. Refuses(s, retired, raced)
    BY <1>1, <2>2, <2>3 DEF Refuses, Resolved
  <2> QED
    BY <1>1, <2>1, <2>4, QuietRotates
<1>4. CASE (CheckSubject(v) \/ CheckIssuer(v)) /\ ~Answer(v)
  <2> DEFINE goes(pc) == [old EXCEPT !.pc = pc]
  <2>1. old.pc \in AtBlock /\ \E pc \in {"issuer", "cached"} : GoServe(v, goes(pc))
    BY <1>4 DEF CheckSubject, CheckIssuer, Check, On, AtBlock
  <2>2. PICK pc \in {"issuer", "cached"} : GoServe(v, goes(pc))
    BY <2>1
  <2> DEFINE s == goes(pc)
  <2>3. s.pc = pc /\ s.block = old.block /\ s.tok = old.tok /\ s.stale = old.stale
    BY <1>1 DEF Serve
  <2>4. GoServe(v, s)
    BY <2>2
  <2> HIDE DEF s
  <2>5. Refuses(s, retired, raced)
    BY <2>1, <2>3, SameBlockRefuses DEF AtBlock
  <2> QED
    BY <1>1, <2>4, <2>5, QuietRotates
<1> QED
  BY <1>2, <1>3, <1>4

LEMMA ResolveFastRotates ==
    ASSUME TokenInv, RotationInv, NEW v \in TokenProc, ResolveFast(v) \/ ResolveInsert(v)
    PROVE  RotationInv'
<1> DEFINE i == TokenHost[v]
<1>1. /\ serve[v] \in Serve /\ serve[v].pc \in {"cached", "insert"}
      /\ RequestOK(serve[v], Registered, redis) /\ Refuses(serve[v], retired, raced)
      /\ UNCHANGED <<store, call, keysMade, retired, raced>> /\ GoServe(v, Signed(v))
      /\ i \in Instance
  BY TokenAssumption DEF TokenInv, ServesOK, RotationInv, ResolveFast, ResolveInsert, On
<1>2. Signer(v) \in Key \cup {None}
  <2>1. serve[v].tok.chain \in Seq(Block) /\ serve[v].block \in DOMAIN serve[v].tok.chain
    BY <1>1 DEF RequestOK, Verifying, AtBlock, Token
  <2>2. CurBlock(v) \in Block
    BY <2>1 DEF CurBlock
  <2> QED
    BY <2>2 DEF Signer, Block
<1>3. Signer(v) \notin retired \ raced
  <2>1. CASE Signer(v) = None
    BY <2>1, DeploymentAssumption DEF TokenInv, HistoryOK
  <2>2. CASE ResolveFast(v) /\ Signer(v) # None
    BY <1>1, <2>2 DEF ResolveFast, Touch, RotationInv, Gone
  <2>3. CASE ResolveInsert(v)
    BY <1>1, <2>3 DEF ResolveInsert, On, Refuses, Signer, CurBlock
  <2> QED
    BY <1>1, <2>1, <2>2, <2>3
<1>4. PICK k : k = Signer(v)
  OBVIOUS
<1>5. ASSUME NEW j \in Instance, NEW l \in Key, Cached(j, l)'
      PROVE  Cached(j, l) \/ l \notin retired \ raced
  <2>1. CASE UNCHANGED cache
    BY <1>5, <2>1 DEF Cached
  <2>2. CASE k \in Key /\ (Touch(i, k) \/ Insert(i, k))
    BY <1>1, <1>3, <1>4, <1>5, <2>2, CacheGains DEF TokenInv, RevocationInv, Inv, CacheInv
  <2>3. k \in Key \/ UNCHANGED cache
    <3>1. ResolveInsert(v) => k # None
      BY <1>1, <1>4 DEF ResolveInsert, On, RequestOK, Signer, CurBlock
    <3> QED
      BY <1>2, <1>4, <3>1 DEF ResolveFast
  <2>4. UNCHANGED cache \/ Touch(i, k) \/ Insert(i, k)
    BY <1>4 DEF ResolveFast, ResolveInsert
  <2> QED
    BY <2>1, <2>2, <2>3, <2>4
<1>6. Refuses(Signed(v), retired, raced)
  BY <1>1, <1>3, SignedRefuses
<1> QED
  BY <1>1, <1>5, <1>6, RequestRotates

LEMMA ResolveMissRotates ==
    ASSUME TokenInv, RotationInv, NEW v \in TokenProc, ResolveMiss(v) \/ ResolveLookup(v)
    PROVE  RotationInv'
<1> DEFINE old == serve[v]
           goes(pc) == [old EXCEPT !.pc = pc]
<1>1. /\ old \in Serve /\ old.pc \in AtBlock
      /\ UNCHANGED <<store, cache, call, keysMade, retired, raced>>
  BY DEF TokenInv, ServesOK, ResolveMiss, ResolveLookup, On, vars, store, AtBlock
<1>2. \/ Answer(v)
      \/ \E pc \in {"lookup", "insert"} : GoServe(v, goes(pc)) /\ (pc = "insert" => KeyOwners(Signer(v)) # {})
  BY DEF ResolveMiss, ResolveLookup
<1>3. CASE Answer(v)
  BY <1>1, <1>3, AnswerRotates
<1>4. ASSUME NEW pc \in {"lookup", "insert"}, GoServe(v, goes(pc)),
             pc = "insert" => KeyOwners(Signer(v)) # {}
      PROVE  RotationInv'
  <2> DEFINE s == goes(pc)
  <2>1. s.pc = pc /\ s.block = old.block /\ s.tok = old.tok /\ s.stale = old.stale
    BY <1>1 DEF Serve
  <2>2. GoServe(v, s)
    BY <1>4
  <2> HIDE DEF s
  <2>3. pc = "insert" => Signer(v) \notin retired \ raced
    <3>1. KeyIndexIsInverse
      BY DEF TokenInv, RevocationInv, Inv, StoreInv
    <3>2. KeyOwners(Signer(v)) # {} => Signer(v) \in StoreKeys
      BY <3>1 DEF KeyOwners, KeyIndexIsInverse, StoreKeys
    <3> QED
      BY <1>4, <3>2 DEF RotationInv, Gone, Held
  <2>4. Refuses(s, retired, raced)
    BY <1>1, <2>1, <2>3, SameBlockRefuses DEF AtBlock, Signer, CurBlock
  <2> QED
    BY <1>1, <2>2, <2>4, QuietRotates
<1> QED
  BY <1>2, <1>3, <1>4

\* The other steps of a request: its answer, or one towards the registry.
LEMMA OtherRotates ==
    ASSUME TokenInv, RotationInv, NEW v \in TokenProc,
           \/ IssueToken(v) \/ TokenToRedis(v) \/ TokenToMemory(v) \/ AnswerAccepted(v)
           \/ CheckFails(v) \/ TokenRedisFails(v)
    PROVE  RotationInv'
<1>1. UNCHANGED <<store, cache, call, keysMade, retired, raced>>
  BY DEF IssueToken, TokenToRedis, TokenToMemory, AnswerAccepted, CheckFails, TokenRedisFails, vars, store
<1>2. CASE Answer(v)
  BY <1>1, <1>2, AnswerRotates
<1>3. CASE TokenToRedis(v)
  <2> DEFINE s == [serve[v] EXCEPT !.pc = "rememberToken"]
  <2>1. serve[v] \in Serve /\ serve[v].stale \subseteq retired
    BY DEF TokenInv, ServesOK, RotationInv, Refuses
  <2>2. GoServe(v, s) /\ s.pc = "rememberToken" /\ s.stale = serve[v].stale
    BY <1>3, <2>1 DEF TokenToRedis, Serve
  <2> HIDE DEF s
  <2>3. Refuses(s, retired, raced)
    BY <2>1, <2>2 DEF Refuses, AtBlock
  <2> QED
    BY <1>1, <2>2, <2>3, QuietRotates
<1> QED
  BY <1>2, <1>3 DEF IssueToken, TokenToMemory, AnswerAccepted, CheckFails, TokenRedisFails

LEMMA RotationNext ==
    ASSUME TokenInv, RotationInv, [TokenNext]_allVars
    PROVE  RotationInv'
<1>1. ASSUME UNCHANGED <<agents, keyIndex, cache, call, keysMade, serve, retired, raced>>
      PROVE  RotationInv'
  <2>1. Held' = Held /\ MadeKeys' = MadeKeys
    BY <1>1 DEF Held, StoreKeys, HandKeys, MadeKeys, Registered
  <2>2. \A k \in retired \ raced : Gone(k)'
    BY <1>1, <2>1 DEF RotationInv, Gone, Cached
  <2> QED
    BY <1>1, <2>1, <2>2 DEF RotationInv
<1>2. CASE UNCHANGED allVars \/ \E t \in tokens, child \in Agent : Delegate(t, child)
  <2>1. UNCHANGED vars /\ UNCHANGED <<serve, retired, raced>>
    BY <1>2 DEF allVars, tokenVars, Delegate
  <2> QED
    BY <1>1, <2>1 DEF vars
<1>3. CASE Register
  <2>1. Next /\ UNCHANGED <<cache, serve, retired, raced>>
    BY <1>3 DEF Register, RegisterAgent, Next, tokenVars
  <2>2. \A i \in Instance, k \in Key : Cached(i, k)' => Cached(i, k)
    BY <2>1 DEF Cached
  <2> QED
    BY <2>1, <2>2, LifecycleRotates
<1>4. ASSUME NEW p \in Proc, AgentStep(p)
      PROVE  RotationInv'
  <2>1. Next /\ UNCHANGED <<serve, retired, raced>>
    BY <1>4 DEF AgentStep, Next, tokenVars
  <2>2. UNCHANGED cache
    BY <1>4 DEF AgentStep, Start, Continue, Fail, SuspendRead, SuspendWrite, RotateBegin, RotateRead,
                RotateRefused, RotateWrite, RotateInvalidate, RevokeBegin, ListStep, RevokeRead, RevokeWrite,
                ReadChildren, RefuseDepth, WriteChild, WriteRedis, WriteMemory, ListFails, ReadFails,
                WriteFails, RedisFails
  <2> QED
    BY <2>1, <2>2, LifecycleRotates DEF Cached
<1>5. ASSUME NEW i \in Instance, TokenCrash(i)
      PROVE  RotationInv'
  <2>1. Next /\ ClearCache(i) /\ UNCHANGED <<retired, raced>>
    BY <1>5 DEF TokenCrash, Crash, Next
  <2>2. \A v \in TokenProc : serve'[v] \in {serve[v], IdleServe}
    BY <1>5 DEF TokenCrash
  <2>3. \A j \in Instance, l \in Key : Cached(j, l)' => Cached(j, l)
    BY <2>1, CacheLoses DEF TokenInv, RevocationInv, Inv, CacheInv
  <2> QED
    BY <2>1, <2>2, <2>3, LifecycleRotates
<1>6. ASSUME NEW v \in TokenProc, TokenContinue(v) \/ TokenFail(v)
      PROVE  RotationInv'
  BY <1>6, OtherRotates, CheckRotates, ResolveFastRotates, ResolveMissRotates DEF TokenContinue, TokenFail
<1> QED
  BY <1>2, <1>3, <1>4, <1>5, <1>6, BeginRotates, RotateAnswerRotates DEF TokenNext

-----------------------------------------------------------------------------
(* The theorems                                                              *)

LEMMA TokenInitInv == TokenInit => TokenInv
<1> SUFFICES ASSUME TokenInit PROVE TokenInv
  OBVIOUS
<1>1. RevocationInv
  BY RevocationInit DEF TokenInit
<1>2. \A p \in Proc : ReplacesKey(call[p], Key)
  BY DEF TokenInit, Init, Idle, ReplacesKey
<1>3. ServesOK
  BY IdleServeIsOK DEF TokenInit, ServesOK
<1> QED
  BY <1>1, <1>2, <1>3 DEF TokenInit, TokenInv, HistoryOK

LEMMA TokenNextInv == TokenInv /\ [TokenNext]_allVars => TokenInv'
<1> SUFFICES ASSUME TokenInv, [TokenNext]_allVars PROVE TokenInv'
  OBVIOUS
<1>1. retired \subseteq Key /\ raced \subseteq retired
  BY DEF TokenInv, HistoryOK
<1>2. CASE UNCHANGED allVars
  <2>1. RevocationInv' /\ Grows /\ \A p \in Proc : ReplacesKey(call'[p], Key)
    BY <1>2, QuietStep DEF allVars
  <2>2. ServesOK'
    BY <1>2, <2>1, RequestOKLater DEF TokenInv, ServesOK, allVars, tokenVars
  <2> QED
    BY <1>2, <2>1, <2>2, TokensAndHistoryKept DEF TokenInv, allVars, tokenVars
<1>3. CASE Register
  BY <1>1, <1>3, AgentStepKeeps DEF Register, Running, tokenVars
<1>4. ASSUME NEW p \in Proc, AgentStep(p)
      PROVE  TokenInv'
  BY <1>1, <1>4, AgentStepKeeps DEF AgentStep, Running, tokenVars
<1>5. ASSUME NEW v \in TokenProc, TokenStart(v) \/ TokenContinue(v) \/ TokenFail(v)
      PROVE  TokenInv'
  <2>1. CASE TokenStart(v)
    BY <2>1, BeginKeeps DEF TokenStart
  <2>2. CASE TokenContinue(v)
    <3>1. CASE AnswerAccepted(v)
      BY <3>1, QuietAnswerKeeps DEF AnswerAccepted
    <3> QED
      BY <2>2, <3>1, IssueTokenKeeps, TokenToRedisKeeps, TokenToMemoryKeeps, CheckTokenIdKeeps,
         CheckSubjectKeeps, ResolveFastKeeps, ResolveMissKeeps DEF TokenContinue
  <2>3. CASE TokenFail(v)
    <3>1. CASE CheckFails(v)
      BY <3>1, QuietAnswerKeeps DEF CheckFails
    <3> QED
      BY <2>3, <3>1, TokenToRedisKeeps DEF TokenFail
  <2> QED
    BY <1>5, <2>1, <2>2, <2>3
<1> QED
  BY <1>2, <1>3, <1>4, <1>5, RotateAnswerKeeps, DelegateKeeps, TokenCrashKeeps DEF TokenNext

LEMMA TokenSpecInv == TokenSpec => []TokenInv
<1>1. TokenInit => TokenInv
  BY TokenInitInv
<1>2. TokenInv /\ [TokenNext]_allVars => TokenInv'
  BY TokenNextInv
<1> QED
  BY <1>1, <1>2, PTL DEF TokenSpec

\* Type correctness of the token handlers: a verification never reads past the
\* chain of its token, and every block a client delegates is signed with a key
\* that was generated for an agent (token.Verify, handlers_token.go).
THEOREM TokenTypeCorrectness == TokenSpec => []TokenTypeOK
<1>1. TokenInv => TokenTypeOK
  BY DEF TokenInv, RevocationInv, Inv, StoreInv, RegistryInv, CacheInv, CallsOK, CountsOK, TypeOK,
         TokenOK, ServesOK, HistoryOK, TokenTypeOK
<1> QED
  BY <1>1, TokenSpecInv, PTL

\* The key cache stays within its limit and has one entry per key (ResolveKey and
\* insertLocked of delegation/verifier.go), for any number of verifications that
\* miss on the same key at once, and whatever rotations and restarts take out.
THEOREM CacheCorrectness == TokenSpec => []CacheWellFormed
<1>1. TokenInv => CacheWellFormed
  BY DEF TokenInv, RevocationInv, Inv, CacheInv
<1> QED
  BY <1>1, TokenSpecInv, PTL

\* No verification that begins after a revocation answered 200 accepts a token of
\* the revoked ID, or one issued to or delegated through a revoked agent, on any
\* instance (token.Verify over the registry): for chains of any length, any number
\* of requests, and whichever calls fail in between; instances restart too, but
\* only where the registry is in Redis, since a restart without it forgets every
\* revocation (NewRegistry of registry.go, "memory-only mode").
THEOREM NoStaleAcceptance ==
    ASSUME "list" \notin Failures, ListsAreComplete, RegistrySurvives
    PROVE  TokenSpec => []NoStaleAccept
<1>1. TokenInv => NoStaleAccept
  <2> SUFFICES ASSUME TokenInv, NEW v \in TokenProc, On(v, "accepted")
               PROVE  Names(serve[v].tok) \cap serve[v].before = {}
    BY DEF NoStaleAccept
  <2>1. NotStale(serve[v], Everywhere) /\ Complete
    BY DEF TokenInv, ServesOK, Complete
  <2> QED
    BY <2>1 DEF NotStale, Told, Checked, On, Names
<1> QED
  BY <1>1, TokenSpecInv, PTL

\* The revocation of a token by its ID needs no listing: once it is answered, no
\* verification that begins later, on any instance, accepts the token or any that
\* was delegated from it, whatever listings miss and whichever calls fail, where
\* the registry survives restarts (RevokeToken of handlers_token.go, token.Verify).
THEOREM RevokedTokensAreRefused ==
    ASSUME RegistrySurvives
    PROVE  TokenSpec => [](\A v \in TokenProc :
                        On(v, "accepted") => serve[v].tok.id \notin serve[v].before \cap TokenId)
<1>1. TokenInv => \A v \in TokenProc :
                    On(v, "accepted") => serve[v].tok.id \notin serve[v].before \cap TokenId
  BY DEF TokenInv, ServesOK, NotStale, Told, On
<1> QED
  BY <1>1, TokenSpecInv, PTL

\* A step of the token handlers sets a name in the registry, at one instance at
\* least, or is one of the lifecycle, or leaves the registry alone; a restart
\* leaves what is in Redis.
LEMMA EverywhereOnlyGrows ==
    ASSUME TokenInv, [TokenNext]_allVars, RegistrySurvives
    PROVE  Everywhere \subseteq Everywhere'
<1>1. CASE Running \/ UNCHANGED vars
  BY <1>1, LifecycleGrows DEF Grows, TokenInv, RevocationInv
<1>2. CASE UNCHANGED registry
  BY <1>2, EverywhereGrows DEF registry
<1>3. CASE \E name : SetRedis(name)
  BY <1>3, EverywhereGrows DEF SetRedis
<1>4. CASE \E i, name : Remember(i, name)
  BY <1>4, EverywhereGrows DEF Remember, TokenInv, RevocationInv, Inv, RegistryInv, RegistryTypeOK
<1>5. CASE \E v \in TokenProc : TokenStart(v) \/ TokenContinue(v) \/ TokenFail(v)
  BY <1>1, <1>2, <1>3, <1>4, <1>5
     DEF TokenStart, TokenContinue, TokenFail, IssueCheck, RevokeToken, VerifyBegin, IssueToken,
         TokenToRedis, TokenToMemory, CheckTokenId, CheckSubject, CheckIssuer, Check, ResolveFast,
         ResolveMiss, ResolveLookup, ResolveInsert, AnswerAccepted, CheckFails, TokenRedisFails, vars
<1>6. CASE Register \/ (\E p \in Proc : AgentStep(p) \/ RotateAnswer(p))
  BY <1>1, <1>6 DEF Register, AgentStep, RotateAnswer, Continue, Running
<1>8. CASE \E i \in Instance : TokenCrash(i)
  BY <1>8 DEF TokenCrash, Crash, Fault, ForgetMemory, RegistrySurvives, Everywhere, IsRevoked
<1>7. CASE UNCHANGED allVars \/ \E t \in tokens, child \in Agent : Delegate(t, child)
  BY <1>1, <1>7 DEF Delegate, allVars
<1> QED
  BY <1>5, <1>6, <1>7, <1>8 DEF TokenNext

\* What is revoked on every instance stays so, agents and tokens alike: no request
\* or failed call takes a revocation back, nor a restart where there is Redis,
\* although it empties the map of an instance (registry.go: Redis has what any
\* instance had). Without Redis it holds as long as no instance restarts.
THEOREM RevocationsStayInForce ==
    ASSUME RegistrySurvives
    PROVE  TokenSpec => [][Everywhere \subseteq Everywhere']_allVars
<1>1. TokenInv /\ [TokenNext]_allVars => [Everywhere \subseteq Everywhere']_allVars
  BY EverywhereOnlyGrows
<1> QED
  BY <1>1, TokenSpecInv, TokenNextInv, PTL DEF TokenSpec

\* No instance lists an agent or a token as revoked that the others accept: the
\* registry writes Redis first (registry.go), tokens included.
THEOREM TokenRegistryNeverAhead == TokenSpec => []MemoryTrailsRedis
<1>1. TokenInv => MemoryTrailsRedis
  BY DEF TokenInv, RevocationInv, Inv, RegistryInv
<1> QED
  BY <1>1, TokenSpecInv, PTL

\* A block signed with a key ID that a rotation replaced is refused by every
\* verification that begins after the rotation answered, whenever nothing held the
\* key ID just then (RotateKey of handlers_identity.go, ResolveKey and
\* InvalidateCache of delegation/verifier.go): on every instance, for any number of
\* rotations, suspensions and revocations at once, whichever calls fail.
THEOREM RotatedKeysAreRefused == TokenSpec => []RotatedKeyIsRefusedUnlessRaced
<1>1. TokenInit => RotationInv
  <2> SUFFICES ASSUME TokenInit PROVE RotationInv
    OBVIOUS
  <2>1. Registered = {} /\ call = [p \in Proc |-> Idle] /\ retired = {}
        /\ serve = [v \in TokenProc |-> IdleServe]
    BY DEF TokenInit, Init, StoreInit, Registered
  <2>2. Held = {}
    BY <2>1 DEF Held, StoreKeys, HandKeys, Idle
  <2> QED
    BY <2>1, <2>2, IdleRefuses DEF RotationInv, ReplacesKey, Idle
<1>2. TokenInv /\ RotationInv /\ [TokenNext]_allVars => RotationInv'
  BY RotationNext
<1>3. RotationInv => RotatedKeyIsRefusedUnlessRaced
  BY DEF RotationInv, Refuses, Resolved, RotatedKeyIsRefusedUnlessRaced, AcceptedStale, On
<1> QED
  BY <1>1, <1>2, <1>3, TokenSpecInv, PTL DEF TokenSpec

=============================================================================
