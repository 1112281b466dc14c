---------------------------- MODULE TokenService ----------------------------
(***************************************************************************)
(* Issuing, delegating, verifying and revoking tokens while agents are     *)
(* registered, rotated, suspended and revoked: handlers_token.go over      *)
(* token.Verify (pkg/token/verify.go), the key resolver and the registry.  *)
(* Capabilities, expiry and policies are not part of this module; a token  *)
(* is its ID and its chain of subjects and signing keys.  A client presents*)
(* the token as it got it: no signature covers the ID (act.go), and one    *)
(* that is changed is the ID of another token to the registry.             *)
(***************************************************************************)
EXTENDS AgentLifecycle

CONSTANTS
    TokenProc,    \* goroutines that serve token requests
    TokenHost,    \* TokenHost[v]: the instance v runs on
    MaxChain      \* bound: the blocks of a token

ASSUME TokenAssumption ==
    /\ TokenHost \in [TokenProc -> Instance]
    /\ MaxChain \in Nat \ {0}

VARIABLES
    tokens,        \* the tokens that clients hold
    serve,         \* serve[v]: the request v is serving
    ackedTokens,   \* history: the token IDs a revocation answered 200 for
    retired,       \* history: the key IDs replaced by rotations that answered 200
    raced          \* history: those of them that something still held then

tokenVars == <<tokens, serve, ackedTokens, retired, raced>>
allVars   == <<vars, tokenVars>>

\* The root block is signed with the server's key (None), every other one
\* with a key of the previous subject.
Block == [subject : Agent, signer : Key \cup {None}]
Token == [id : TokenId, chain : Seq(Block)]
NoToken == [id |-> None, chain |-> <<>>]

TokenPC == {"idle", "issue", "token", "subject", "issuer", "cached", "lookup", "insert",
            "accepted", "redisToken", "rememberToken"}

Serve ==
    [pc : TokenPC,
     agent : Agent \cup {None},
     tok : Token \cup {NoToken},
     id : TokenId \cup {None},
     block : Nat,
     before : SUBSET (Agent \cup TokenId),   \* history: acknowledged as revoked
     stale : SUBSET Key]                     \* history: acknowledged as rotated

IdleServe == [pc |-> "idle", agent |-> None, tok |-> NoToken, id |-> None, block |-> 0,
              before |-> {}, stale |-> {}]

TokenTypeOK ==
    /\ TypeOK
    /\ tokens \subseteq Token
    /\ serve \in [TokenProc -> Serve]
    /\ ackedTokens \subseteq TokenId
    /\ retired \subseteq Key
    /\ raced \subseteq retired

TokenInit ==
    /\ Init
    /\ tokens = {}
    /\ serve = [v \in TokenProc |-> IdleServe]
    /\ ackedTokens = {}
    /\ retired = {}
    /\ raced = {}

On(v, pc)        == serve[v].pc = pc
GoServe(v, s)    == serve' = [serve EXCEPT ![v] = s]
Answer(v)        == GoServe(v, IdleServe)
AcceptToken(v, kind) == On(v, "idle") /\ kind \in Requests

\* What clients have been told is revoked or rotated when a request begins.
Begun == [IdleServe EXCEPT !.before = acked \cup ackedTokens, !.stale = retired]

UsedIds == {t.id : t \in tokens}

-----------------------------------------------------------------------------
(* POST /tokens/issue: the status check, then the signing of a root block.   *)

\* Seeded fault: only suspended agents are refused.
IssueCheckSuspendedOnly(v, a) ==
    /\ AcceptToken(v, "issue")
    /\ a \in Registered
    /\ agents[a].status # "suspended"
    /\ GoServe(v, [Begun EXCEPT !.pc = "issue", !.agent = a])
    /\ UNCHANGED <<vars, tokens, ackedTokens, retired, raced>>

IssueCheck(v, a) ==
    /\ AcceptToken(v, "issue")
    /\ a \in Registered
    /\ agents[a].status = "active"
    /\ GoServe(v, [Begun EXCEPT !.pc = "issue", !.agent = a])
    /\ UNCHANGED <<vars, tokens, ackedTokens, retired, raced>>

IssueToken(v) ==
    /\ On(v, "issue")
    /\ \/ \E id \in TokenId \ UsedIds :
            tokens' = tokens \cup
               {[id |-> id, chain |-> <<[subject |-> serve[v].agent, signer |-> None]>>]}
       \/ TokenId \subseteq UsedIds /\ UNCHANGED tokens   \* the bound on tokens
    /\ Answer(v)
    /\ UNCHANGED <<vars, ackedTokens, retired, raced>>

\* token.Delegate, run by a client that holds the current key of the token's
\* last subject: the block is appended, the token ID stays.  The library takes
\* any key, and Verify the key of any registered agent; what a block was signed
\* with matters here for the keys that are replaced and looked up.  An agent that
\* the restart of an in-memory store has lost has no key that can be resolved.
Delegate(t, child) ==
    /\ "delegate" \in Requests
    /\ Len(t.chain) < MaxChain
    /\ {Last(t.chain).subject, child} \subseteq Registered
    /\ tokens' = tokens \cup
          {[t EXCEPT !.chain = Append(@, [subject |-> child,
                                          signer |-> agents[Last(t.chain).subject].key])]}
    /\ UNCHANGED <<vars, serve, ackedTokens, retired, raced>>

-----------------------------------------------------------------------------
(* POST /tokens/revoke                                                       *)

RevokeToken(v, id) ==
    /\ AcceptToken(v, "revokeToken")
    /\ id \in UsedIds
    /\ GoServe(v, [Begun EXCEPT !.pc = IF RedisEnabled THEN "redisToken" ELSE "rememberToken",
                                !.id = id])
    /\ UNCHANGED <<vars, tokens, ackedTokens, retired, raced>>

TokenToRedis(v) ==
    /\ On(v, "redisToken")
    /\ SetRedis(serve[v].id)
    /\ GoServe(v, [serve[v] EXCEPT !.pc = "rememberToken"])
    /\ UNCHANGED <<store, cache, call, faults, keysMade, history, tokens, ackedTokens, retired, raced>>

TokenToMemory(v) ==
    /\ On(v, "rememberToken")
    /\ Remember(TokenHost[v], serve[v].id)
    /\ ackedTokens' = ackedTokens \cup {serve[v].id}
    /\ Answer(v)
    /\ UNCHANGED <<store, cache, call, faults, keysMade, history, tokens, retired, raced>>

-----------------------------------------------------------------------------
(* POST /tokens/verify and /tokens/delegate: token.Verify, block by block.   *)

CurBlock(v)     == serve[v].tok.chain[serve[v].block]
Signer(v)       == CurBlock(v).signer
RevokedFor(v, name) == IsRevoked(TokenHost[v], name)

VerifyBegin(v, t) ==
    /\ AcceptToken(v, "verify")
    /\ GoServe(v, [Begun EXCEPT !.pc = "token", !.tok = t])
    /\ UNCHANGED <<vars, tokens, ackedTokens, retired, raced>>

\* A check against the registry: the verification goes on or is refused.
Check(v, pc, name, next) ==
    /\ On(v, pc)
    /\ IF RevokedFor(v, name) THEN Answer(v) ELSE GoServe(v, next)
    /\ UNCHANGED <<vars, tokens, ackedTokens, retired, raced>>

CheckTokenId(v) ==
    Check(v, "token", serve[v].tok.id, [serve[v] EXCEPT !.pc = "subject", !.block = 1])

\* Seeded fault: only the agent that holds the token is checked.
CheckSubjectLastOnly(v) ==
    /\ On(v, "subject")
    /\ IF serve[v].block = Len(serve[v].tok.chain) /\ RevokedFor(v, CurBlock(v).subject)
       THEN Answer(v)
       ELSE GoServe(v, [serve[v] EXCEPT !.pc = "cached"])
    /\ UNCHANGED <<vars, tokens, ackedTokens, retired, raced>>

CheckSubject(v) ==
    Check(v, "subject", CurBlock(v).subject,
          [serve[v] EXCEPT !.pc = IF serve[v].block = 1 THEN "cached" ELSE "issuer"])

\* The issuer of a block; the chain-linkage check makes it the subject of the
\* block before it.
CheckIssuer(v) ==
    Check(v, "issuer", serve[v].tok.chain[serve[v].block - 1].subject,
          [serve[v] EXCEPT !.pc = "cached"])

\* Seeded fault: the number of the block runs past the chain.
SignedPastEnd(v) == [serve[v] EXCEPT !.pc = "accepted", !.block = 0 - 1]

\* The signature of the block is verified with the key just resolved: on to
\* the next block, or to the answer.
Signed(v) ==
    IF serve[v].block = Len(serve[v].tok.chain)
    THEN [serve[v] EXCEPT !.pc = "accepted"]
    ELSE [serve[v] EXCEPT !.pc = "subject", !.block = @ + 1]

\* ResolveKey: the root key needs no lookup, a cached key is moved to the front.
ResolveFast(v) ==
    /\ On(v, "cached")
    /\ \/ Signer(v) = None /\ UNCHANGED cache
       \/ Signer(v) # None /\ Touch(TokenHost[v], Signer(v))
    /\ GoServe(v, Signed(v))
    /\ UNCHANGED <<store, registry, call, faults, keysMade, history, tokens, ackedTokens, retired, raced>>

\* A miss is looked up in the store without the lock of the cache ...
ResolveMiss(v) ==
    /\ On(v, "cached")
    /\ Signer(v) # None /\ ~Cached(TokenHost[v], Signer(v))
    /\ GoServe(v, [serve[v] EXCEPT !.pc = "lookup"])
    /\ UNCHANGED <<vars, tokens, ackedTokens, retired, raced>>

ResolveLookup(v) ==
    /\ On(v, "lookup")
    /\ IF KeyOwners(Signer(v)) = {} THEN Answer(v)
                                    ELSE GoServe(v, [serve[v] EXCEPT !.pc = "insert"])
    /\ UNCHANGED <<vars, tokens, ackedTokens, retired, raced>>

\* ... and what was found is inserted whatever happened to the key meanwhile.
ResolveInsert(v) ==
    /\ On(v, "insert")
    /\ Insert(TokenHost[v], Signer(v))
    /\ GoServe(v, Signed(v))
    /\ UNCHANGED <<store, registry, call, faults, keysMade, history, tokens, ackedTokens, retired, raced>>

AnswerAccepted(v) ==
    /\ On(v, "accepted")
    /\ Answer(v)
    /\ UNCHANGED <<vars, tokens, ackedTokens, retired, raced>>

-----------------------------------------------------------------------------
(* Failures: an error from Redis or from the store refuses the request, and  *)
(* a failed SET may or may not have been applied.                            *)

CheckFails(v) ==
    /\ \/ RedisEnabled /\ "redis" \in Failures /\ serve[v].pc \in {"token", "subject", "issuer"}
       \/ Postgres /\ "read" \in Failures /\ serve[v].pc \in {"lookup", "accepted"}
    /\ Answer(v)
    /\ UNCHANGED <<vars, tokens, ackedTokens, retired, raced>>

TokenRedisFails(v) ==
    /\ On(v, "redisToken")
    /\ Fault("redis")
    /\ SetRedis(serve[v].id) \/ UNCHANGED registry
    /\ Answer(v)
    /\ UNCHANGED <<store, cache, call, keysMade, history, tokens, ackedTokens, retired, raced>>

TokenCrash(i) ==
    /\ Crash(i)
    /\ serve' = [v \in TokenProc |-> IF TokenHost[v] = i THEN IdleServe ELSE serve[v]]
    /\ UNCHANGED <<tokens, ackedTokens, retired, raced>>

-----------------------------------------------------------------------------

TokenStart(v) ==
    \/ \E a \in Agent : IssueCheck(v, a)
    \/ \E id \in UsedIds : RevokeToken(v, id)
    \/ \E t \in tokens : VerifyBegin(v, t)

TokenContinue(v) ==
    \/ IssueToken(v)
    \/ TokenToRedis(v) \/ TokenToMemory(v)
    \/ CheckTokenId(v) \/ CheckSubject(v) \/ CheckIssuer(v)
    \/ ResolveFast(v) \/ ResolveMiss(v) \/ ResolveLookup(v) \/ ResolveInsert(v)
    \/ AnswerAccepted(v)

TokenFail(v) == CheckFails(v) \/ TokenRedisFails(v)

\* Key ID k is on its way into a cache, or in one that instance i does not reach.
BeingCached(i, k) ==
    \/ \E v \in TokenProc : On(v, "insert") /\ Signer(v) = k
    \/ \E j \in Instance \ {i} : Cached(j, k)

\* A stale record with key ID k has been written back, or is about to be.
WrittenBack(k) ==
    \/ KeyOwners(k) # {}
    \/ \E q \in Proc : \E n \in DOMAIN call[q].writes : call[q].writes[n].key = k

\* Somebody holds key ID k when p's rotation, which replaced it, answers. The
\* handler takes the key ID it had read out of the cache; with two rotations at
\* once it is another.
IsHeld(p, k) == BeingCached(Host[p], k) \/ WrittenBack(k) \/ call[p].oldKey # k

\* A rotation that answers retires the key ID it replaced.
RotateAnswer(p) ==
    /\ RotateInvalidate(p)
    /\ retired' = retired \cup {call[p].replaced}
    /\ raced' = raced \cup {k \in {call[p].replaced} : IsHeld(p, k)}
    /\ UNCHANGED <<tokens, serve, ackedTokens>>

\* Every other step of AgentLifecycle is one here.
AgentStep(p) ==
    /\ ~At(p, "invalidate")
    /\ Start(p) \/ Continue(p) \/ Fail(p)
    /\ UNCHANGED tokenVars

Register ==
    /\ \E a \in Agent, parent \in Agent \cup {None} : RegisterAgent(a, parent)
    /\ UNCHANGED tokenVars

TokenNext ==
    \/ Register
    \/ \E p \in Proc : AgentStep(p) \/ RotateAnswer(p)
    \/ \E v \in TokenProc : TokenStart(v) \/ TokenContinue(v) \/ TokenFail(v)
    \/ \E t \in tokens, child \in Agent : Delegate(t, child)
    \/ \E i \in Instance : TokenCrash(i)

TokenSpec == TokenInit /\ [][TokenNext]_allVars

-----------------------------------------------------------------------------
(* Properties                                                                *)

Names(t) == {t.id} \cup {t.chain[n].subject : n \in DOMAIN t.chain}

\* A verification that begins after a revocation answered 200 does not accept a
\* token of the revoked ID, or one issued by, for or through a revoked agent
\* (ARCHITECTURE.md, revocation; token.Verify): across all instances, whatever
\* the cache holds, whichever calls fail and whoever else is running.
NoStaleAccept ==
    \A v \in TokenProc :
        On(v, "accepted") => Names(serve[v].tok) \cap serve[v].before = {}

AcceptedStale(v) ==
    {serve[v].tok.chain[n].signer : n \in DOMAIN serve[v].tok.chain} \cap serve[v].stale

\* A block signed with a key ID that a rotation replaced is refused by the
\* verifications that begin after the rotation answered, unless something held it
\* just then: a lookup on its way into a cache, the cache of another instance, a
\* stale record of another request, or another rotation of the agent. The store no
\* longer resolves it and the handler took it out of its cache (RotateKey of
\* handlers_identity.go); it never comes back.
RotatedKeyIsRefusedUnlessRaced ==
    \A v \in TokenProc : On(v, "accepted") => AcceptedStale(v) \subseteq raced

\* "Must be called by RotateKey so that post-rotation verifications resolve the
\* new key" (InvalidateCache of delegation/verifier.go).
RotatedKeyIsRefused ==
    \A v \in TokenProc : On(v, "accepted") => AcceptedStale(v) = {}

\* "We can't issue a token for a revoked agent" (comprehensive_test.go): an
\* issuance that begins after the revocation answered is refused.
NoIssueAfterRevoke ==
    \A v \in TokenProc : On(v, "issue") => serve[v].agent \notin serve[v].before
=============================================================================
