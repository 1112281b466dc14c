# Agentity in TLA+

Agentity is an identity server for AI agents. Agents are registered in a tree (an agent may have
a parent), each one has an Ed25519 key pair, and what an agent may do is written in an ACT, a
token made of a chain of signed blocks that agents extend off line as they delegate to each
other. The server verifies tokens, and it revokes: a token, an agent, or an agent with everything
below it. This directory holds TLA+ modules of the server, the TLC configurations that check them
on small instances, and theorems with proofs that TLAPS checks.

    cd tla
    tlc -workers 2 -config mc_cascade.cfg MCAgentLifecycle
    tlapm AgentLifecycleProofs.tla

Source paths below are relative to the repository.

## 1. The system

### Inventory

| component | state it keeps | operations | where |
|---|---|---|---|
| identity service, agent handlers | none of its own | register, suspend, rotate key, revoke, revoke with cascade, list, tree | `internal/identity`, `internal/api/handlers_identity.go` |
| agent stores | the agent records; in memory also a key index | create, get, get by key, update, list, children | `internal/store` |
| revocation registry | names in Redis (if configured), a map per instance | revoke agent, revoke token, is revoked, lists | `internal/revocation/registry.go` |
| key resolver | an LRU list of 10,000 keys per instance | resolve, insert, invalidate | `internal/delegation/verifier.go` |
| delegation engine, token handlers | none | issue, submit a delegated token, verify, revoke | `internal/delegation/engine.go`, `internal/api/handlers_token.go` |
| capability tokens | the token itself | issue root, delegate, verify | `pkg/token` |
| policy engine | compiled policies in memory, rows in Postgres | load, add, remove, evaluate | `internal/policy` |
| audit log | a bounded buffer, rows in Postgres | append (persisted by a goroutine), list | `internal/audit` |
| approvals | requests in memory or Postgres | request, approve, deny, webhook | `internal/approval` |
| users and OIDC | users, bindings, a JWKS cache | bind, verify a user token, fetch key sets | `internal/user` |
| vault | sealed credentials | store, fetch, list, delete | `internal/vault` |
| middleware | token buckets per agent and per IP, two API keys | limit, clean up, authenticate | `internal/api/middleware.go` |
| OAuth, OIDC, MCP, A2A | none | client-credentials grant, revocation and introspection, adapters over verify | `internal/api/handlers_o*.go`, `pkg/mcp`, `pkg/a2a` |
| root key, configuration, start-up | the root key file | load or create, wire, serve, shut down | `pkg/crypto`, `internal/config`, `internal/server`, `cmd/agentity` |
| clients | none | SDKs, CLI, admin page | `pkg/sdk`, `sdk/python`, `cmd/agentctl` |

### How the components interact

Every request is a goroutine that calls the components one after the other. There is no lock and
no transaction around a request: a store operation, a Redis command, a registry map and the LRU
list are each atomic by themselves, and anything can run between two of them. Several instances
may share one Postgres and one Redis; each keeps its own maps and caches. The paths that matter:

- *revoke* reads the tree from the store (`ListDescendants`), writes the tree in the store
  (`revokeChildren`, a second walk), and then writes the IDs of the first walk into the registry,
  each one into Redis and then into the map of the instance.
- *rotate* reads the agent twice (handler, service), writes the whole record, and removes the old
  key ID from the cache of the instance that served the request.
- *verify* asks the registry for the token ID and for the subject and the issuer of every block,
  and resolves the signing key of every block through the cache, looking a miss up in the store
  without holding the lock of the cache. It never looks at the status in the store.
- *issue* looks at the status in the store, and never at the registry.

So the store decides who gets tokens, the registry decides whose tokens are accepted, and only the
order of the calls keeps the two together. That is the core of the system and what the modules
begin with.

### What is hard, and what makes each component correct

| component | hard because of | correct if |
|---|---|---|
| revocation | two walks over a tree that grows; a loop of writes that can stop anywhere; stale whole-record writes; restarts | an answered revocation covers everything that was below the agent; what a failed one leaves is cut from the top; every request is answered |
| registry | two places written one after the other; several instances; restarts | no instance is ahead of Redis; nothing revoked is accepted after the answer, on any instance |
| stores | a secondary index under stale whole-record writes; row limits | the index is the inverse of the records' keys |
| key cache | lookups without the lock; eviction; one cache per instance | no duplicates, never above the limit, no retired key after a rotation |
| tokens | attenuation, expiry and depth rules written twice, in `Delegate` and in `Verify` | no block has more than the one above it; what `Delegate` makes, `Verify` accepts |
| policies | memory against store, failed loads, several instances | the decision is that of the stored policies |
| audit | asynchronous writes with retries, eviction | an entry is in memory or in the store; nothing is reported as persisted that is not |
| approvals | concurrent decisions, one webhook per request | a request is decided at most once and never changes after |
| users | look-up then create; a cached key set | one user per external identity |
| rate limiters | refill arithmetic, clean-up | no more than the rate in a period |

`PROJECT.json` lists the individual hazards at their lines.

## 2. Modules

    Deployment                what instances, names and keys there are
      AgentStore              identity.Store, both back ends
      RevocationRegistry      revocation.Registry
      KeyCache                the LRU list of delegation.KeyResolverImpl
        AgentLifecycle        the agent handlers over the three above (implements Revocation)
          TokenService        token requests, concurrent with all of the above
      PolicyEngine            policy.Engine and its table
      Approval                approval.ApprovalService and its store
      UserBinding             user.UserService and its store
      Vault                   vault.VaultService, its encryptor and its store
      TokenUse                OAuth, OIDC, MCP and A2A over token.Verify (uses the rules of ActToken)
    Revocation                what revoking an agent promises, without how it is done
    AuditLog                  audit.Logger, its buffer and its table
    JwksCache                 the key sets of OIDC providers, and time
    RateLimiter               the token buckets of middleware.go, and time
    RootKey                   the root key file, over starts and crashes
    ActToken                  pkg/token: the rules of a chain of blocks, and time
    MCAgentLifecycle, MCTokenService, MCActToken, MCServices        instances for TLC
    SharedStateProofs                       the store's index and the key cache by themselves
      AgentLifecycleProofs                  theorems about AgentLifecycle
        RevocationProofs                    an answered cascade is in force
          RefinementProofs                  AgentLifecycle implements Revocation; the walks down the tree
          TokenServiceProofs                nothing revoked and no retired key is accepted
            StoreRevocationProofs           revocation in the store; issuance; the refinement with tokens
    ActTokenProofs                          theorems about ActToken
    ServicesProofs                          theorems about the other components

**Deployment** (`cmd/agentity/main.go`, `pkg/crypto/keys.go`). The instances, whether the store is
Postgres or memory and whether Redis is configured. Agent and token IDs are fresh UUIDs, hence
sets of which each member is handed out at most once. A key is the agent it was generated for and
a serial number. `DeploymentAssumption`: several instances only with both Postgres and Redis; the
memory back ends are for a single process, as `registry.go` says.

**AgentStore** (`internal/store`). `agents` maps the registered IDs to records, `keyIndex` is the
secondary index of the memory store. An operation that reads is an operator (`Children`,
`ChildLists`, `KeyOwners`), one that writes is an action (`CreateAgent`, `UpdateAgent`).
`UpdateAgent` overwrites the whole record, as both back ends do. `RestartStore` is what a restart of
the process leaves: everything with Postgres, nothing of the memory store. `ChildLists` is every list
`GetChildAgents` may answer: any order of the children from a map, the newest `ChildLimit` of
them, newest first, from the query.

**RevocationRegistry** (`internal/revocation/registry.go`). The names with a key in `redis`, and
`memory[i]`, the map of instance `i`. Expiry of token entries in the map is left out: entries are
written without one.

**KeyCache** (`internal/delegation/verifier.go`). `cache[i]`, the LRU list, most recent first. The
map from key IDs to list elements is not a second variable; that the list has no duplicates is
the property `CacheWellFormed`.

**AgentLifecycle** (`handlers_identity.go` over `identity/service.go`). `call[p]` holds the local
variables of the request goroutine `p` serves: its `pc` is the next call it makes, `ids` is what is
left of `toRevoke`, `queue` the queue of the traversal under way, `writes` the records that were
read, changed and not yet written. One action per call:

| request | actions |
|---|---|
| `POST /agents` | `RegisterAgent` (a single `CreateAgent`; the parent is not checked) |
| `.../suspend` | `SuspendRead`, `SuspendWrite` |
| `.../rotate-key` | `RotateBegin` (handler reads the old key ID), `RotateRead` or `RotateRefused` (service), `RotateWrite`, `RotateInvalidate` |
| `.../revoke` | `RevokeBegin`, `ListStep` per iteration of `ListDescendants`, `RevokeRead`, `RevokeWrite`, `ReadChildren` or `RefuseDepth` per iteration of `revokeChildren`, `WriteChild` per child, `WriteRedis` and `WriteMemory` per ID |
| failures | `ListFails` (dropped by the handler), `ReadFails`, `WriteFails` and `RedisFails` (each may have been applied or not), `Crash` |

`Crash(i)` is a restart in any deployment: the map and the cache of the instance are lost, its requests
end without an answer, and a memory store is empty afterwards. Where there is no Redis the restart
forgets every revocation that was answered (`registry.go:35-40`), so whether answers outlive restarts
depends on the configuration; §4 has that as a hypothesis. IDs are UUIDs: an agent that a restart lost
is not registered a second time under its old ID, which `RegisterAgent` says with `keysMade`.

A request that is refused at its first call changes nothing and is not a step. `targets`, `acked`
and the fields `known` and `replaced` are history variables: no guard reads them. `known` is what
a 200 answer is about, the agent and with cascade the tree below it *when the request began*.

**Revocation** is the abstract specification of the lifecycle, the promise of `POST /agents/{id}/revoke`:
there are agents in a tree that only grows (`parent`), requests that are about an agent or about its
whole tree (`open`), a set of agents that are refused everywhere and that grows by one at a time from
the top (`inForce`, `Enforce`), and a set of agents that a 200 answer was about (`promised`). A restart of a
server that keeps the agents in memory may lose all of them and the requests (`Restart`), but nothing
that is in force. It has no store, no Redis, no maps, no key IDs and no lists. `Tree` is defined as the
least closed set, not by a
traversal. `AgentLifecycle!Promise` is the refinement mapping (`INSTANCE Revocation WITH ...`), and
`KeepsPromise` is `Promise!ServiceSpec`, checked by two runs and proved.

**TokenService** (`handlers_token.go`, `pkg/token/verify.go`). Adds `tokens`, those the clients hold,
and `serve[v]`, the token request goroutine `v` serves. A token is its ID and its chain of subjects
and signing keys; verification goes from block to block with one action per question asked of the
registry (`CheckTokenId`, `CheckSubject`, `CheckIssuer`) and per step of the key resolution
(`ResolveFast`, or `ResolveMiss`, `ResolveLookup`, `ResolveInsert`). `before` and `stale` are
histories: what had been answered as revoked or rotated when the request began. Every action
of `AgentLifecycle` is one here; the one that answers a rotation (`RotateAnswer`) also records the retired
key, and in `raced` whether something held it just then: a lookup on its way into a cache or the cache of
another instance (`BeingCached`), a stale record (`WrittenBack`), or another rotation.
A token keeps its ID, although no signature covers it (`act.go:240-262`): that a holder presents the blocks
under another ID, which nobody revoked, is not in the model. `Delegate` signs with the current key of
the last subject, whereas `Verify` accepts any key on record for any block; no property here depends on
whose key it is.

**ActToken** (`pkg/token`). `tok` is the chain of blocks a client holds and `now` the clock. A token is
never changed, only replaced by a longer one or a new one (`IssueRootToken`), so one client with one
token reaches every chain there is. It grows by `Delegate`, or by a block that its holder signs without
pkg/token (`AppendOwnBlock`): any block that `Verify` finds linked to the ones before it, with no
capabilities, beyond a limit, or with a later expiry after a negative one, where `Verify` compares
nothing (`verify.go:98`). Blocks that are not linked are presented too (`Extensions`), but once, since no
chain with such a block is accepted, whatever follows. `built` is the history of that, TRUE while
the token is pkg/token's own; properties about the builder ask for it, those about the verifier do not.
`Verify(chain, at)` is a function of the chain
and the time that the code reads once; where its questions to the registry and the key resolver
interleave with revocations is what TokenService models. Capability lists are sets, since only
membership is asked. `PlusOne` is the addition of `act.go:152` with the width of an `int`.
Issuance at the API (status, policies, user tokens) is not part of this module, nor are signatures.

**PolicyEngine** (`internal/policy`). `policies[i]` is the list of instance `i` in the order of
evaluation, `policyRows` the table. `AddPolicy` is two steps, the row and then the list (`AddBegin`,
`AddFinish`); `RemovePolicy` holds the lock over both and is one. `LoadFromStore` and `LoadFails` are
a restart, since the code loads at no other time. One request to be decided is fixed, and a policy
is what its expression gives for it: a match, no match or an error. The compiled programs are a cache
that evaluation refills, so they decide nothing and are left out.

**AuditLog** (`internal/audit`). `entries` is the buffer, `writing` the goroutines with the attempts each
has had. An insert may be applied and reported as failed; the ID being the primary key, every
further attempt then fails. `List` only reads and is left out: it answers from the table, which has the
rows of every server, newest first (`postgres.go:61-92`), and from this server's buffer, oldest first,
when the table cannot be read.

**Approval** (`internal/approval`). A decision is one conditional update, so it is one step;
`DecideFails` is one that was applied and reported as failed, after which approvers try again. The
webhook goroutine starts after the insert and makes one attempt.

**UserBinding** (`internal/user`). `bind[p]` holds the local variables of a binding request: look up,
create, bind. The table has one user per identity, the memory store any number, which two first
bindings can reach. `ActingFor` is what `IssueToken` asks when it is given a user token.

**JwksCache** (`internal/user/oidc.go`). Fetching is not under the lock, so what is stored may be older
than what is there. Time is in ticks; a provider changes its keys at any time.

**RateLimiter** (`middleware.go`). Both limiters have the same rules, and the buckets of two callers
have nothing to do with each other: one bucket is modelled. The cleanup goroutine runs at any time
after its first tick, which includes all the times the code runs it.

**Vault** (`internal/vault`, `handlers_vault.go`). `credentials` is the table, a row being the sealed
value and the nonce in a column of its own; a sealed value is the secret with the key and the nonce it
was sealed under, which is what opening it depends on. `masterKey[i]` is `AGENTITY_VAULT_KEY` of
instance `i`, read at its start and `None` where it is not usable, when the routes do not exist. A
write seals first and stores later (`PutBegin`, `PutStore`), so writes overtake each other, and a
restart may come with another key. `key_version` is the same for every key and is left out.

**RootKey** (`pkg/crypto/keys.go`, `main.go`). The key file, which `os.WriteFile` first creates empty
and then writes, and the processes that read or create it. `signedWith` is the history of keys that
signed a token or an audit entry. Nothing calls `RootKeyStore.Rotate`, so it is no action; in dev mode
the key lives as long as the process, and so does the store.

**TokenUse** (`handlers_oauth.go`, `handlers_oidc.go`, `handlers_token.go`, `pkg/mcp`, `pkg/a2a`). One token
that is handed on, by `Delegate` or with a block of the holder's own (`HandOnOwn`), and revoked, and one use
of it at a time. The rules of blocks are those of `ActToken`,
instantiated with `held` and `second`. `use` is the request: what it needs (no capability for the
endpoints that read the claims, one for the call of a tool), the names it has still to ask the
registry about (`left`), the time `Verify` read (`at`), and the history `before`, what had been
acknowledged as revoked when it began. What is revoked is one set of names here, since the two places
of the registry, several instances and keys are in `TokenService`. A refused request changes nothing,
so `Refused`, `AskFails` and a revoked name all end in `NoUse`. The policies of `POST /tokens/verify` are
a verdict that may go either way; no other endpoint asks them with the action "verify". Nothing revokes
a JWT that was exchanged for a token: `ClaimsNeverOutliveToken` is what bounds it, but for a chain in which
a negative expiry hides an earlier one (`OutlivesBlock`): its JWT does outlive it. The token's ID is taken
as fixed, as in TokenService.

Definitions under a "Seeded fault" comment are mutated forms of the definition after them. No
specification uses them; they are there to confirm that each property fails when the code is wrong.

## 3. What TLC checks

| run | instance | shows |
|---|---|---|
| `mc_cascade` | 3 agents, 2 concurrent revocations, memory | `AckedIsInForce`, `AckedIsRevokedInStore`, `StoreTopDown`, the refinement `KeepsPromise` |
| `mc_requests` | 2 agents, 2 requests of any kind, 2 keys each, memory store, Redis, 1 failure or restart | `TypeOK`, `KeyIndexIsInverse`, the refinement `KeepsPromise` |
| `mc_faults` | 3 agents, Postgres with `ChildLimit` 1, Redis, depth limit 2, 1 failure or restart anywhere | `RegistryTopDown`, `StoreTopDown`, and under `FairSpec` the liveness property `EveryCallAnswered` |
| `tok_accept` | 2 agents, 2 instances, Postgres and Redis, chains of 2 blocks, 1 failure or restart | `TokenTypeOK`, `NoStaleAccept`, `NoIssueAfterRevoke`, `MemoryTrailsRedis` |
| `tok_rotate` | 1 agent, caches of 1 entry, Postgres and Redis, 1 failed write or restart; 2 rotations or suspensions at once on 2 instances and a verification, with 3 keys, or 1 of the former and 2 verifications on one instance, with 2 keys | `CacheWellFormed`, `RotatedKeyIsRefusedUnlessRaced` |
| `act_rules` | 2 agents, 2 capabilities, chains of 3 blocks by `Delegate` or by clients, expiries that are negative, zero, passed during the run and later, 3 seconds | `ActTypeOK`, `BuiltIsAccepted`, `AnsweredExpiryIsExact`, `DelegateAndVerifyAgree`, `AcceptedExtensionsAttenuate`, `RootLimitHolds` |
| `services` | each component beside the lifecycle, Postgres: 2 instances with 3 policies, 5 audit entries, 2 approvals, 2 people binding at once, 2 key sets in a cache of 1, 1 bucket over 18 ticks, 2 writers of one credential with 2 master keys, a key file shared by 2 instances, a token of up to 3 blocks, by `Delegate` or by its holders, for 2 agents over 3 seconds | `ServicesTypeOK`, `DecisionFollowsTable`, `AnsweredPoliciesInForce`, `RemovedStaysRemoved`, `UnpersistedAreCounted`, `BufferKeepsNewest`, `AnswersMatchRecord`, `NotifiedIsOnRecord`, `UnboundStaysUnbound`, `AnsweredBindingInForce`, `WithdrawnKeysExpire`, `AtMostTwiceTheRate`, `ThrottledOnlyAtRate`, `LastAnswerIsRead`, `SignaturesSurviveRestarts`, `AnsweredUseIsGranted`, `ClaimsNeverOutliveToken` |

In `services` one component moves in each behaviour and the others rest (`focus`). They share no
state, so nothing is lost by that: a property of one holds in an interleaving of all of them if it
holds in the behaviours of that one.

*Bounds and why they are enough.* Three agents are the least number with a child and a grandchild,
and with two siblings, so with every shape on which the order of a breadth-first walk shows;
registrations may add any of them at any time, so walks over trees that grow are included. Two
requests are enough for one stale read and one write in between. Two keys per agent are one
rotation, three two of them, in turn or at once. A cache of one entry evicts at the second key.
In `tok_rotate` one request of four rests at any time (`OneRests`): while there is one for agents, two
verifications miss on one key of one instance at once, each finds it in the store, and the second to
insert finds it in the list; the agent then has a key and at most one that replaces it. One failure in a behaviour is enough for
every property here, each being about what one interrupted loop leaves behind. `ChildLimit` 1 in
`mc_faults` makes the row limit bite; in `mc_cascade` the store is the unlimited one.
In `act_rules` three blocks are the least with a rule about a block that is neither the root nor the
last, and the theorems of `ActTokenProofs` hold for any number; two of the expiries lie on either
side of the end of the clock, so tokens expire during the run and can still be issued at its end.
In `services` three policies are a pair that compete for a name or a priority and one that is removed
meanwhile; five entries evict twice from a buffer of three; the clocks run past the lifetime of an
entry plus a fetch (2 and 1 of 4 ticks) and past the cleanup of a bucket (6 of 18).
The rows of different credentials have nothing in common, so one is enough; three nonces are those of
its row and of two writes under way. Three root keys are one that signs and two that were generated and
lost: a generated key that signed nothing can be generated again, so starts need no bound.
Three blocks are the least in which a negative expiry hides an earlier one from a later one, and `MaxUse`
says that there are three only while no name is revoked, two with one revoked, one with two: the two
kinds of hazard, expiries and revocations, meet with two blocks. Of the expiries, 2 passes during the three seconds, 3 comes at their end, and -1 is a delegated block that by
itself never expires; `read` is a tool that asks for the capability
of its name, `run` one that is mapped, and a skill that is missing asks for one that nobody has.
`MaxKeys`, `MaxFaults` and the other `Max...Faults`, `MaxChain`, `MaxBlocks`, `MaxUse`, `OneRests`, `MaxEntries`, `MaxTime`,
`MaxClock` and `MaxTicks` are the only bounds not in the code; `MaxRevokeDepth`, `ChildLimit`,
`CacheSize`, `BufferCap`, `EvictCount`, `Rate`, `Interval` and the like are constants of the
code made small. Runs check
deadlock too, except `mc_requests`: a restart there loses the memory store, and when all of the few IDs of
`Agent` had been given out before, nobody can be registered or named in a request any more.

*Symmetry* is used for agents, in `services` for instances and token holders, and, where the
processes share a host, for processes, in runs of safety properties only; `mc_faults`, which checks liveness, has none.

*Fairness.* `FairSpec` has weak fairness of `Continue(p)`, the next step of a request under way. The
Go scheduler runs every goroutine and each call returns: store calls have a context with a
5-second timeout, Redis calls the timeout of the client, and the mutexes are held over map and
list operations only. Nothing is assumed about clients, failures or restarts. That a traversal
ends although its tree grows is due to the finite `Agent`: each agent is queued at most once, which
is proved (`NobodyIsListedTwice`).

### What the code does not do

Five runs end in a violation, each of something the repository says:

- `mc_v_race` (`StoreRevokedIsInForce`). An agent registered between the walk that collects the IDs
  for the registry and the walk that revokes in the store is revoked in the store and accepted by
  verification for good. `handlers_identity.go:153` says every revoked agent ID is written.
- `mc_v_final` (`RevokedIsFinal`). `SuspendAgent` and `RotateKey` write back the record they read; a
  revocation in between is undone in the store (`service.go:99`, "cannot suspend a revoked agent").
  The registry still rejects the agent's tokens.
- `mc_v_swallow` (`AckedIsInForce`). When `ListDescendants` fails the handler drops the error, and the
  cascade answers 200 with only the named agent in the registry (README.md:35). This is why
  `mc_requests` checks `KeepsPromise` with Redis failures on the memory store, where listing cannot
  fail, and why the theorems exclude it.
- `tok_v_cache` (`RotatedKeyIsRefused`). A verification that found the old key in the store before the
  rotation wrote inserts it after the rotation invalidated it. `RotatedKeyIsRefusedUnlessRaced`
  says which keys can be affected at all: those in a lookup under way when the rotation answered, or in
  the cache of another instance, which the handler does not reach; those in a record that another
  request had read before and writes back whole; and those of overlapping rotations of one agent, where
  the handler invalidates the key ID it had read and not the one the service replaced. No other key
  comes back, which is proved (`RotatedKeysAreRefused`).

- `act_v_limit` (`LimitsHold`). `Delegate` compares `max_deleg` with the length of the whole token, and
  looks at the last block and the root only. A limit set in between holds for one block; and one that
  is not above the depth it is set at forbids every delegation, though by the API schema it is the
  "Maximum delegation depth from this block" (`handlers_openapi.go:90`). `Verify` does not look at
  limits at all. `RootLimitHolds` is what is left: the root's limit, for tokens built by `Delegate`.

Three more limits were met and bound the properties above: with more children than `ChildLimit` a
cascade misses the oldest ones and still answers 200; with two rotations of one agent at once the
handler may invalidate a key other than the one replaced; and a stale write of a rotation that
re-activates a revoked agent lets it be issued tokens again (which verification rejects).
`NoIssueAfterRevoke` is therefore checked with no rotations. `ARCHITECTURE.md:265` lets a tree be as deep as the limit; `service.go:144` refuses a cascade
over one that is, after it wrote the store.

The other components have limits too, which bound what their properties say:

- A policy is in force on the instance that answered and on no other until that one restarts, and it
  can be removed only where it is in memory; `ARCHITECTURE.md:324` has both "take effect immediately,
  no restart needed". A load that failed is never repeated (`main.go:169`: "until store recovers").
- A deletion or an insertion of a policy that was applied and reported as failed leaves memory and
  table apart until a restart: the first cannot be repeated ("not found"), the second not either
  (the name is taken).
- `PersistFailures` may count entries that are in the table (`logger.go:66`, "could not be persisted").
- The fallback of `List` begins with the oldest entry of its own server, the table with the newest of all.
- `Verify` compares no expiry with one that is negative (`verify.go:98`), though its comment has "expiry
  monotonicity". A holder whose own block has expiry -1 and the next one any later than the root's has a chain
  that is accepted and for which the later expiry is answered, by introspection too, and put in a JWT;
  the token itself is refused once the root's has passed. `AnsweredExpiryIsExact`, `DelegateAndVerifyAgree`
  and `ClaimsNeverOutliveToken` have this as their one exception.
- Without Redis a restart forgets all revocations (`registry.go:34`, "memory-only mode"). With Postgres the
  agents are still revoked in the store and get no new tokens, but those they have are accepted again,
  and so are revoked tokens.
- With Postgres a second decision is answered 404, because the error text has "not found" in it; the
  409 of `handlers_approval.go:79` comes from the memory store only.
- With the memory store two first bindings of one person leave two users, and revoking the binding of
  one leaves that of the other; `UnboundStaysUnbound` is about Postgres.
- A key set that was read earlier and is stored later replaces a newer one, and an unknown key is not
  a reason to fetch again: a new key may be refused for the lifetime of an entry.
- Twice the rate can be allowed within any interval, however short (`middleware.go:184` has "up to
  `rate` requests per `interval`").
- `GetCredential` is the answer when the database answers. When it does not, Postgres' `Get` words that
  too as "credential not found" (`vault/postgres.go:56`), and the handler answers 404 for a credential
  that may be there: "isVaultNotFound returns true if the error message indicates a not-found
  condition" (`handlers_vault.go:126`). So no property says that 404 means absence.
- Two instances that share a key file and start for the first time at once may both find none; one of
  them then signs with a key that is lost when it stops. `Starting` assumes that they start one after
  another. A first start that is cut off leaves an empty file, which every later start refuses until
  somebody removes it.

## 4. What is proved

The theorems hold for every set of agents, processes and instances, either store, any failures and any
limits, with or without Redis; where restarts make a difference between the two, the table has a
hypothesis. They use only the assumptions the modules state about their
constants (`DeploymentAssumption`, `StoreAssumption`, `CacheAssumption`, `LifecycleAssumption`,
`TokenAssumption`, `ActAssumption`, `PolicyAssumption`, `AuditAssumption`, `ApprovalAssumption`,
`UserAssumption`, `JwksAssumption`, `RateAssumption`, `VaultAssumption`, `RootKeyAssumption` and
`UseAssumption`), which TLC evaluates in the runs, and where the table says so a hypothesis:

- *listings do not fail*: `"list" \notin Failures`. The handler drops that error (`mc_v_swallow`).
- *listings are complete*: `ListsAreComplete`, which is the memory store, or no more agents than
  `ChildLimit`. The query returns the newest `ChildLimit` children and no sign that there are more.
- *the registry survives*: `RegistrySurvives`, which is Redis, or that no instance restarts. Without Redis
  the registry is a map of the process, and a restart forgets what was answered.
- *only revocations*: `OnlyRevokes`. Requests register and revoke. A suspension or a rotation writes
  back the whole record it read, and so undoes a revocation in the store (`mc_v_final`).

| theorem | statement |
|---|---|
| `AgentLifecycleProofs!TypeCorrectness` | `Spec => []TypeOK` |
| `AgentLifecycleProofs!KeyIndexCorrectness` | `Spec => []KeyIndexIsInverse` |
| `AgentLifecycleProofs!MemoryNeverAhead` | `Spec => []MemoryTrailsRedis` |
| `RevocationProofs!AnsweredRevocationIsInForce` | `Spec => []AckedIsInForce`, if listings do not fail and are complete and the registry survives |
| `SharedStateProofs!CacheOperationsKeepWellFormed` | every operation keeps `CacheWellFormed` |
| `RefinementProofs!RegistryIsTopDown` | `Spec => []RegistryTopDown` |
| `RefinementProofs!LifecycleKeepsPromise` | `Spec => KeepsPromise`, if listings do not fail and are complete and the registry survives |
| `TokenServiceProofs!TokenTypeCorrectness` | `TokenSpec => []TokenTypeOK` |
| `TokenServiceProofs!CacheCorrectness` | `TokenSpec => []CacheWellFormed` |
| `TokenServiceProofs!NoStaleAcceptance` | `TokenSpec => []NoStaleAccept`, if listings do not fail and are complete and the registry survives |
| `TokenServiceProofs!RevokedTokensAreRefused` | `TokenSpec => [](...)`: no accepted token has an ID that was answered as revoked before, if the registry survives |
| `TokenServiceProofs!RevocationsStayInForce` | `TokenSpec => [][Everywhere \subseteq Everywhere']_allVars`, if the registry survives |
| `TokenServiceProofs!TokenRegistryNeverAhead` | `TokenSpec => []MemoryTrailsRedis` |
| `TokenServiceProofs!RotatedKeysAreRefused` | `TokenSpec => []RotatedKeyIsRefusedUnlessRaced` |
| `RefinementProofs!PromiseSuffices` | `KeepsPromise => [](AckedIsInForce /\ RegistryTopDown)`, and nothing is taken back |
| `RefinementProofs!NamedAgentIsRevoked` | `Spec => AnswerRevokesNamed`, an action property |
| `RefinementProofs!ParentsFormAForest` | `Spec => []Forest` |
| `RefinementProofs!NobodyIsListedTwice` | `Spec => []ListedOnce` |
| `RefinementProofs!OnlyDeepTreesAreRefused` | `Spec => RefusedOnlyTooDeep`, an action property |
| `StoreRevocationProofs!TokenServiceKeepsPromise` | `TokenSpec => KeepsPromise`, if listings do not fail and are complete and the registry survives |
| `StoreRevocationProofs!AnsweredIsInForceWithTokens` | `TokenSpec => []AckedIsInForce`, if listings do not fail and are complete and the registry survives |
| `StoreRevocationProofs!TokensDisturbNothing` | `TokenSpec => [](RegistryTopDown /\ KeyIndexIsInverse)` |
| `StoreRevocationProofs!OnlyOwnWritesUndoARevocation` | `Spec => UndoneByOwnWrite`, an action property |
| `StoreRevocationProofs!RevocationIsFinal` | `Spec => RevokedIsFinal`, with only revocations |
| `StoreRevocationProofs!AnsweredRevocationIsInStore` | `Spec => []AckedIsRevokedInStore`, with only revocations and complete listings |
| `StoreRevocationProofs!StoreIsTopDown` | `Spec => []StoreTopDown`, with only revocations |
| `StoreRevocationProofs!NoIssuanceAfterRevocation` | `TokenSpec => []NoIssueAfterRevoke`, with only revocations and complete listings |

*The inductive invariant.* None of the properties is inductive by itself. `AgentLifecycleProofs!Inv`
adds what the requests under way rely on (`CallOK`): a request has the agent it names in the store,
so its writes hit an existing record; a record in hand carries a key generated for its own agent
(`HasOwnKey`), which is why a stale write cannot take the index entry of another agent; the loops
never take the head of an empty list; and a request about to write an instance's map has its name
in Redis already. The last one needs that names never leave Redis, and all of them that agents are
never unregistered: so the lemma `GoKeepsCalls` asks for both of every step. There is one lemma per
action, `NextInv` puts them together, and `SpecInv` is `Spec => []Inv`.

*The cascade.* `AckedIsInForce` has three hypotheses, one for each way the code is known to miss a
descendant and one for what a restart forgets. They are premises inside the invariant (`Complete`), so that the rest of it also serves
theorems that do without them. `RevocationInv` adds to
`Inv` what carries the promise from the request to the answer (`Owes`). No request moves an agent
in the tree, stale records included (`KeepsParents`), so what was below the agent when the request
began stays reachable from it (`ReachedFrom`). While `ListDescendants` runs, a child of a listed
agent is listed too, or its parent is still in the queue (`Listed`); when the queue is empty the
list is closed under children and so has everything reachable. From then on every agent of the
promise is still in the list or in force, until the list is empty and the request answers. New
agents may be added below any of them at any time: they are not part of the promise.

*The refinement.* That a step of the handlers is a step of `Revocation` needs to know, when a name is
written, that the agent above it is refused already or was asked for itself. `TreeInv` adds to
`RevocationInv` that the list of every request is in that order (`InOrder`), that an agent whose children
are being listed is in the list before them (`QueueIsListed`), and `RegistryTopDown`. One lemma per
action shows that it is a `Register`, an `Ask`, a `Work` (which includes the answer) or a stutter of
`Revocation`, and that it keeps the order. The order survives failures, since a loop that stops leaves
a prefix; `RegistryIsTopDown` therefore has no hypothesis. `TokenServiceKeepsPromise` extends the refinement
to the token requests: of what `Revocation` sees they change nothing, though they write to the same
registry, since an agent's name and a token's ID are never the same. `PromiseSuffices` is a theorem about
`Revocation` itself, that it is not satisfied by a system that answers and does not revoke.

*Without complete listings.* Two things remain true of a cascade whose listing failed or missed somebody.
The registry is filled from the top; and the agent that the request names is in force when it answers
(`NamedAgentIsRevoked`): it is the first of the list from the beginning, the failed listing leaves it
there, and it is taken off only once it is in Redis and in the map (`NamedIsListed`).

*The walks down the tree.* `ListDescendants` has no visited set and no depth limit, and `revokeChildren` has
only the limit; both read a tree that grows. `WalkInv` adds to `RevocationInv` that the agents are a
forest (`Forest`: in every set of agents somebody's parent is outside), and of each walk that its list
has nobody twice and that who is in the queue with depth `d` is `d` levels below the agent named
(`Below`). A child that is listed next is new: were it in the list it would have been found under its one
parent, which was taken from the queue before and only once (`ListTree`, `ChildrenAreNew`), or it would
be the agent named and the list a set of agents that has all their parents. `OnlyDeepTreesAreRefused`
follows from `Below`: the depth a cascade is refused for is there in the tree.

*Token requests.* `TokenInv` adds to `RevocationInv` where a verification stands (`Checked`) and that no
name it has already asked about was answered as revoked when it began (`NotStale`). That is kept
because what is in force only grows, on every instance (`Everywhere`: Redis, or without it the one
map), which is where the several instances and `MemoryTrailsRedis` come in. What a request was told of is
limited to token IDs where listings are not complete (`Told`), so the same invariant gives
`RevokedTokensAreRefused` without a hypothesis about them. The actions of the
lifecycle are those of `RevocationProofs`, since they leave `serve` alone (`TokenStepOfLifecycle`), and
those of token requests disturb of the lifecycle only the registry, which they add token IDs to, and
the cache.

*Rotated keys.* `RotationInv` says of every key that was retired and not raced that it is gone (`Gone`): no
record in the store and none in the hand of any request has it, and it is in no cache; and of every
verification that it has not resolved such a key (`Refuses`), not even one on its way into the cache. A key
that is gone stays gone, because the records with a key change only by keys newly made (`KeysMove`) and a
cache is filled only from the store. Why a key that is not raced is gone when its rotation answers is the
converse of the five cases of `raced`.

*Revocation in the store.* `StoreRevocationInv` is about the second walk. Every record it writes is revoked
after the one above it (`WritesTopDown`). What the answer is about is found again although this walk
reads the tree anew: there is a set of agents it has come to (`Traverses`, `V`), each revoked or about to
be, which contains every child of its members unless the member is still in the queue; when the
queue is empty the set is closed, and what is reachable from the agent is in it. `IssueInv` joins it
with `TokenInv`: an agent that is revoked stays so under `OnlyRevokes`, and issuance reads the status.
That a revocation is undone is possible otherwise, but by one kind of step only: a write of a suspension or
rotation of the same agent. `OnlyOwnWritesUndoARevocation` needs of the records in hand that those of a
cascade are all revoked ones and those of the others are the named agent's (`InHand`).

| theorem | statement |
|---|---|
| `ActTokenProofs!ActTypeCorrectness` | `ActSpec => []ActTypeOK` |
| `ActTokenProofs!BuiltTokensAreAccepted` | `ActSpec => []BuiltIsAccepted` |
| `ActTokenProofs!AnsweredExpiry` | `ActSpec => []AnsweredExpiryIsExact` |
| `ActTokenProofs!DelegateAndVerify` | `ActSpec => []DelegateAndVerifyAgree` |
| `ActTokenProofs!AcceptedChainsAttenuate` | of every chain that `Verify` accepts, without a specification |
| `ActTokenProofs!ExtensionsAttenuate` | `ActSpec => []AcceptedExtensionsAttenuate` |
| `ActTokenProofs!RootLimit` | `ActSpec => []RootLimitHolds` |

*Tokens.* These hold for tokens of any length. The recursion over blocks is avoided by an invariant of
extending a chain: `ActInv` says that every block is linked to the ones before it as `Verify` asks,
and expires no earlier than the *last* one (not only than the next one, which would need an
induction) unless there is a negative expiry between the two; of the chains of `Delegate`, without the
exception. `LinkedBlockKeeps` is the step to a longer chain that a block of `Delegate` and a client's own have
in common. `VerifyAppend` reduces the verification of an extended chain to the chain and the new
block, and `AppendLink` to what `Delegate` compares. `AcceptedChainsAttenuate` needs no invariant:
each block is compared with all the ones above it.

| theorem of `ServicesProofs` | statement | what the invariant adds |
|---|---|---|
| `SignaturesOutliveRestarts` | `RootSpec => []SignaturesSurviveRestarts` | `RootInv`: whoever is up has the key of the file, one at a time writes it, and what has signed is in the file |
| `DecidedOnce`, `NotifiedOnce` | `ApprovalSpec => []AnswersMatchRecord`, `[]NotifiedIsOnRecord` | `ApprovalInv`: a webhook under way has told nobody yet, and who was refused asked about a request on record |
| `NewestAreKept`, `LostEntriesAreCounted` | `AuditSpec => []BufferKeepsNewest`, `[]UnpersistedAreCounted` | `AuditInv`: goroutines write entries made since the start; the rest is the two properties, with cardinalities |
| `ServicesTypeCorrectness` | `ServicesSpec => []ServicesTypeOK` | `TypesInv`: the invariants of the components, and that an audit entry is being written or given up at most once, that the names of policies are unique in the table, and that only agents issue the later blocks of a token |
| `LastAnswerIsKept` | `VaultSpec => []LastAnswerIsRead` | `VaultInv`: the nonce next to a sealed value is the one it was sealed under, for rows stored and about to be |
| `NeverMoreThanTwiceTheRate`, `BelowTheRateIsAllowed` | `RateSpec => []AtMostTwiceTheRate`, `[]ThrottledOnlyAtRate` | `RateInv`: the requests of the last period are split by the last refill; those after it took the tokens that are gone, those before it are at most one bucket full |
| `WithdrawnKeysAreDropped` | `JwksSpec => []WithdrawnKeysExpire` | `JwksInv`: no fetch is older than the timeout, and a key in the cache was published at most that long before it was stored |
| `UnboundUntilAsked`, `BindingsAreFound` | `UserSpec => []UnboundStaysUnbound`, `[]AnsweredBindingInForce` | `UserInv`: with Postgres one user per identity, so that any record found is the one bound, and nothing is known of a pair while it is being bound |
| `DecisionIsTheTables` | `PolicySpec => []DecisionFollowsTable` | `PolicyInv`: lists are sorted and without duplicates, and have the policies of the table after a load |
| `AddedPoliciesApply`, `RemovedForGood` | `PolicySpec => []AnsweredPoliciesInForce`, `[]RemovedStaysRemoved` | `PolicyInv`: a promised policy has a row and no withdrawn one has, and one that is being added is new to the memory (`KnowsPolicies`, `AddsNew`) |
| `UsesAreGranted`, `ClaimsEndWithToken` | `UseSpec => []AnsweredUseIsGranted`, `[]ClaimsNeverOutliveToken` | `UseInv`: no block expires after one before it unless there is a negative expiry from the one to the other (`Chain`), and a name revoked before the request is still among those to ask for (`left`) |

*The other components.* Each has an invariant of its own, with one lemma per action; the theorems do not
depend on `focus`, which only `MCServices` has. Two need an argument about data. For the decision of a
policy engine, `WalkFollowsTable` relates the walk over the list, which stops at the first policy that
decides, to the table, which is about the set of policies: the first of a sorted list that matches
has the highest priority of those that do. It needs that sorting gives each policy once
(`SortingKeepsAll`) and that a removal drops no other (`DroppingKeepsOthers`). For the rate, the requests
of one period are counted by position in a sequence that only grows at its end and is cut at its
beginning, so no sum over time is needed.

*Only model-checked.* Every invariant and action property of the passing runs is stated by a theorem.
Left to TLC are `EveryCallAnswered` (liveness is out of reach of the prover's backends;
`NobodyIsListedTwice` is the part of it that is a safety property); `KeepsPromise`, `AckedIsRevokedInStore`,
`StoreTopDown` and `NoIssueAfterRevoke` in instances that the hypotheses above exclude; and what the five
violation runs show.

## 5. What is not modelled, and the plan

The plan this project began with is carried out but for these, in this order:

1. Shutdown (`internal/server`): requests that are cut off, and audit entries not yet persisted. Its effect
   on each component is that of `Crash` and of the restarts, which are modelled; what is not is the
   order in which the server stops them.
2. Two first starts on one key file at once, and a token exchange concurrent with the lifecycle of
   `TokenService` rather than with a set of revoked names.

Not planned: CEL evaluation, signatures, encryption and HTTP routing, which are libraries or keep
no state; the clients and the OAuth client of `pkg/mcp` (PKCE, authorization URLs), which are stateless
callers of this or a foreign server; the request bodies that the MCP middleware reads; metrics and
the admin page; `List` of the audit log, which reads. A token's ID is fixed and its blocks are signed by whom they
name, which is stronger than what `Verify` asks (see TokenService). `DeleteAgent` has no caller. Token fingerprints are not modelled because no operation
changes an agent's fingerprint after registration.
