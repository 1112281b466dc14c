------------------------------ MODULE TokenUse ------------------------------
(***************************************************************************)
(* What tokens are used for: the OAuth and OIDC endpoints                  *)
(* (handlers_oauth.go, handlers_oidc.go), POST /tokens/verify and          *)
(* /tokens/delegate (handlers_token.go), and the adapters that let a call  *)
(* of a tool (pkg/mcp) or of a skill (pkg/a2a) pass.                       *)
(*                                                                         *)
(* One token and one use of it at a time, while the token is extended, by  *)
(* pkg/token or by a holder's own code, and revoked, and time passes.      *)
(* Signatures are valid and keys are found; the token keeps its ID, though *)
(* no signature covers it (act.go:240). What is revoked is a set of names; *)
(* the two places they are kept in are RevocationRegistry's matter.        *)
(***************************************************************************)
EXTENDS Deployment

CONSTANTS
    Holder,       \* the agents that hold the token in turn
    Server,       \* the issuer of the root block
    Capability,
    MaxInt,
    Expiry,
    MaxBlocks,
    MaxTime,      \* as in ActToken
    Tool,         \* the tools and skills that are called
    ToolMap       \* the tools with an explicit mapping, and the capability each requires

ASSUME UseAssumption ==
    /\ Holder \cap TokenId = {} /\ Server \notin Holder \cup TokenId
    /\ DOMAIN ToolMap \subseteq Tool /\ Range(ToolMap) \subseteq Capability
    /\ None \notin Capability \cup Tool
    /\ Expiry \subseteq Int

VARIABLES
    held,          \* the blocks of the token, <<>> before it is issued
    heldId,        \* its ID
    second,        \* the clock
    revoked,       \* the names the registry answers as revoked
    acknowledged,  \* history: those a revocation answered success for
    use            \* the request under way, or the last one that succeeded

useVars == <<held, heldId, second, revoked, acknowledged, use>>
tokenInHand == <<held, heldId, second>>

Act == INSTANCE ActToken WITH
    Agent <- Holder, tok <- held, now <- second, built <- TRUE,
    NotBefore <- {0}, Limit <- {0}

Name == Holder \cup TokenId

\* Nobody uses the token.
NoUse == [pc |-> "idle"]

UseTypeOK ==
    /\ Act!ActTypeOK
    /\ heldId \in TokenId \cup {None}
    /\ acknowledged \subseteq revoked /\ revoked \subseteq Name
    /\ use = NoUse \/
         /\ use.pc \in {"asking", "answered"}
         /\ use.kind \in {"claims", "verify", "call"}
         /\ use.need \in SUBSET (Capability \cup Tool \cup {None})
         /\ use.id \in TokenId /\ use.chain \in Seq(Act!Block) /\ use.chain # <<>>
         /\ use.left \in Seq(Name) /\ use.at \in 0..second
         /\ use.before \subseteq acknowledged

UseInit ==
    /\ Act!ActInit
    /\ heldId = None
    /\ revoked = {} /\ acknowledged = {}
    /\ use = NoUse

-----------------------------------------------------------------------------
(* Meanwhile                                                                 *)

Issue(holder, caps, exp) ==
    /\ held = <<>>
    /\ Act!IssueRootToken(holder, caps, [exp |-> exp, nbf |-> 0, max |-> 0])
    /\ heldId' \in TokenId
    /\ UNCHANGED <<revoked, acknowledged, use>>

HandOn(child, caps, exp) ==
    /\ Act!Delegate(child, caps, [exp |-> exp, nbf |-> 0, max |-> 0])
    /\ UNCHANGED <<heldId, revoked, acknowledged, use>>

\* A block that a holder signs without Delegate.
HandOnOwn(b) ==
    /\ Act!AppendOwnBlock(b)
    /\ UNCHANGED <<heldId, revoked, acknowledged, use>>

UseTick == Act!Tick /\ UNCHANGED <<heldId, revoked, acknowledged, use>>

\* An agent is revoked by the handlers of AgentLifecycle.
RevokeHolder(a) ==
    /\ revoked' = revoked \cup {a}
    /\ acknowledged' = acknowledged \cup {a}
    /\ UNCHANGED <<tokenInHand, use>>

\* Seeded fault: the endpoint answers 200 and discards the token.
RevokeEndpointDiscards ==
    /\ held # <<>>
    /\ acknowledged' = acknowledged \cup {heldId}
    /\ UNCHANGED <<tokenInHand, revoked, use>>

\* POST /oauth/revoke. The token is decoded and not verified: whatever part of
\* the chain is presented, expired or not, its ID is revoked.
RevokeEndpoint ==
    /\ held # <<>>
    /\ revoked' = revoked \cup {heldId}
    /\ acknowledged' = acknowledged \cup {heldId}
    /\ UNCHANGED <<tokenInHand, use>>

\* 500 after a write that was applied. One that was not changes nothing.
RevokeEndpointFails ==
    /\ held # <<>> /\ RedisEnabled
    /\ revoked' = revoked \cup {heldId}
    /\ UNCHANGED <<tokenInHand, acknowledged, use>>

-----------------------------------------------------------------------------
(* Requests that present the first n blocks                                  *)

\* History: the names a token consists of.
Named(chain) ==
    {heldId} \cup UNION {{chain[n].subject, chain[n].issuer} : n \in DOMAIN chain}

\* The questions of token.Verify to the registry, in their order.
\* Two of each block: the token ID and the subject of the first, the subject
\* and the issuer of every other one.
Questions(chain) ==
    [q \in 1..2 * Len(chain) |->
        LET block == chain[(q + 1) \div 2] IN
        IF q = 1 THEN heldId ELSE IF q = 2 \/ q % 2 = 1 THEN block.subject ELSE block.issuer]

Begin(kind, need, n) ==
    /\ use.pc # "asking"
    /\ n \in DOMAIN held
    /\ LET chain == SubSeq(held, 1, n) IN
       use' = [pc |-> "asking", kind |-> kind, need |-> need, id |-> heldId, chain |-> chain,
               left |-> Questions(chain), at |-> 0,
               before |-> acknowledged \cap Named(chain)]
    /\ UNCHANGED <<tokenInHand, revoked, acknowledged>>

\* Four endpoints need no capability and answer what Verify answers, as the claims
\* of a JWT or as fields; they differ in the status of a refusal.
ExchangeToken(n)        == Begin("claims", {}, n)   \* POST /oauth/token
Introspect(n)           == Begin("claims", {}, n)   \* POST /oauth/introspect
UserInfo(n)             == Begin("claims", {}, n)   \* GET /oidc/userinfo
SubmitDelegatedToken(n) == Begin("claims", {}, n)   \* POST /tokens/delegate

\* POST /tokens/verify, which asks the policies as well.
VerifyToken(n) == Begin("verify", {}, n)

\* The capability for a tool: by default, the one with its name.
Required(tool) == IF tool \in DOMAIN ToolMap THEN ToolMap[tool] ELSE tool

\* What the headers of an MCP call, or its body in JSON, say: how many blocks of
\* the token are there, 0 without a token, and the tool.
Part == [token : 0..MaxBlocks, tool : Tool \cup {None}]

\* The token of the header is preferred, and so is the tool of the body.
Calls ==
    {[token |-> IF header.token # 0 THEN header.token ELSE body.token,
      tool |-> IF body.tool # None THEN body.tool ELSE header.tool] : header, body \in Part}

\* The MCP adapter. A call without a tool is refused before its token is looked
\* at, one without a token before it is verified.
CallTool(c) ==
    /\ c.tool # None /\ c.token # 0
    /\ Begin("call", {Required(c.tool)}, c.token)

\* The A2A adapter: without a skill it asks for the capability "", which is that
\* of no token here.
CallSkill(n, skill) == Begin("call", {Required(skill)}, n)

-----------------------------------------------------------------------------
(* The answer                                                                *)

\* token.Verify asks for the token ID, reads the clock, and asks for the
\* subject and the issuer of one block after the other.
AskRegistry ==
    /\ use.pc = "asking" /\ use.left # <<>>
    /\ use' = IF Head(use.left) \in revoked THEN NoUse
              ELSE [use EXCEPT !.left = Tail(@), !.at = IF @ = 0 THEN second ELSE @]
    /\ UNCHANGED <<tokenInHand, revoked, acknowledged>>

\* An error of the registry, or of the store in the check of the fingerprint.
AskFails ==
    /\ use.pc = "asking"
    /\ RedisEnabled \/ Postgres
    /\ use' = NoUse
    /\ UNCHANGED <<tokenInHand, revoked, acknowledged>>

\* Seeded fault: the expiry is that of the root block.
VerifiedRootExpiry(chain) ==
    [caps |-> Act!EffectiveCapabilities(chain, Len(chain)), exp |-> chain[1].cond.exp]

\* VerifiedACT, which becomes the claims of the JWT, of the introspection or of
\* the user info.
Verified(chain) ==
    [caps |-> Act!EffectiveCapabilities(chain, Len(chain)), exp |-> Act!ExpiresAt(chain)]

Acceptable ==
    Act!Verify(use.chain, use.at) /\ use.need \subseteq Verified(use.chain).caps

\* The claims are answered, or the call is passed on.
Answered ==
    /\ use.pc = "asking" /\ use.left = <<>>
    /\ Acceptable
    /\ use' = [use EXCEPT !.pc = "answered"]
    /\ UNCHANGED <<tokenInHand, revoked, acknowledged>>

\* Refused by Verify, for want of a capability, or by a policy.
Refused ==
    /\ use.pc = "asking" /\ use.left = <<>>
    /\ ~Acceptable \/ use.kind = "verify"
    /\ use' = NoUse
    /\ UNCHANGED <<tokenInHand, revoked, acknowledged>>

UseNext ==
    \/ \E holder \in Holder, caps \in SUBSET Capability, exp \in Expiry :
         Issue(holder, caps, exp) \/ HandOn(holder, caps, exp)
    \/ \E b \in Act!Extensions : HandOnOwn(b)
    \/ UseTick
    \/ \E a \in Holder : RevokeHolder(a)
    \/ RevokeEndpoint \/ RevokeEndpointFails
    \/ \E n \in 1..MaxBlocks :
         \/ ExchangeToken(n) \/ Introspect(n) \/ UserInfo(n) \/ SubmitDelegatedToken(n)
         \/ VerifyToken(n)
         \/ \E skill \in Tool \cup {None} : CallSkill(n, skill)
    \/ \E c \in Calls : CallTool(c)
    \/ AskRegistry \/ AskFails \/ Answered \/ Refused

UseSpec == UseInit /\ [][UseNext]_useVars

-----------------------------------------------------------------------------
(* Properties                                                                *)

\* A positive answer, or a call that is passed on, is about a token no part of
\* which was reported as revoked when the request began, whichever endpoint
\* revoked it and whichever part of its chain was presented there; and every
\* block granted what the call needs, and had not expired when the clock was
\* read (RevokeEndpoint of handlers_oauth.go, VerifyToolCall of mcp.go). A block
\* with a negative expiry never expires, and then the root's is what is left.
AnsweredUseIsGranted ==
    use.pc = "answered" =>
        /\ use.id \notin use.before
        /\ use.at <= use.chain[1].cond.exp
        /\ \A n \in DOMAIN use.chain :
             LET block == use.chain[n] IN
             /\ {block.subject, block.issuer} \cap use.before = {}
             /\ use.need \subseteq block.caps
             /\ block.cond.exp > 0 => use.at <= block.cond.exp

\* What is answered does not outlive the token: as long as the expiry passed on
\* to a JWT or to an introspecting service has not come, the token itself would
\* still be accepted, and no block of it lacks a capability that was answered
\* (handleTokenExchange of handlers_oauth.go). Only a later revocation makes the
\* two differ, and one kind of chain: a block has expired, and one after it has
\* a negative expiry, with which Verify compares nothing (verify.go:98).
ClaimsNeverOutliveToken ==
    use.pc = "answered" =>
        LET claims == Verified(use.chain) IN
        /\ second <= claims.exp =>
             Act!Verify(use.chain, second) \/ Act!OutlivesBlock(use.chain, second)
        /\ \A n \in DOMAIN use.chain : claims.caps \subseteq use.chain[n].caps
=============================================================================
