------------------------------ MODULE ActToken ------------------------------
(***************************************************************************)
(* Agent capability tokens (pkg/token): a token is a chain of signed       *)
(* blocks. The server issues the first one, every other one is appended    *)
(* off line by the agent that holds the token, and any server verifies the *)
(* chain later. The rules are written twice, in Delegate for the agent and *)
(* in Verify for the server; an agent that signs a block without Delegate  *)
(* is held by those of Verify only.                                        *)
(*                                                                         *)
(* Signatures are valid here, and who is revoked is TokenService's matter. *)
(***************************************************************************)
EXTENDS Integers, SequencesExt

CONSTANTS
    Agent,        \* the agents a block can name
    Server,       \* the issuer of root blocks, "agentity://server"
    Capability,   \* the capabilities that can be asked for
    MaxInt,       \* the largest int of the platform
    Expiry,       \* input: the exp of a request
    NotBefore,    \* input: the nbf
    Limit,        \* input: the max_deleg
    MaxBlocks,    \* bound: the blocks of a token
    MaxTime       \* bound: the last second of the clock

Integer == (-MaxInt - 1)..MaxInt

ASSUME ActAssumption ==
    /\ Server \notin Agent
    /\ MaxInt \in Nat
    /\ Expiry \subseteq Integer /\ NotBefore \subseteq Integer /\ Limit \subseteq Integer
    /\ MaxBlocks \in Nat /\ MaxTime \in Nat

VARIABLES
    tok,   \* the blocks of the token a client holds, <<>> before the first
    now,   \* the clock, in seconds
    built  \* history: all blocks of the token were made by pkg/token's builders

actVars == <<tok, now, built>>

Conditions == [exp : Expiry, nbf : NotBefore, max : Limit]

Block ==
    [index : Nat,
     issuer : Agent \cup {Server},
     subject : Agent,
     caps : SUBSET Capability,
     cond : Conditions]

ActTypeOK == tok \in Seq(Block) /\ now \in Nat \ {0} /\ built \in BOOLEAN

ActInit == tok = <<>> /\ now = 1 /\ built = TRUE

\* What the first n blocks of a chain all grant.
EffectiveCapabilities(chain, n) ==
    {c \in chain[1].caps : \A i \in 1..n : c \in chain[i].caps}

-----------------------------------------------------------------------------
(* Building a token                                                          *)

Requestable(caps, cond) == caps # {} /\ cond.exp # 0

\* IssueRootToken and IssueRootTokenWithOptions: the token a client holds is
\* replaced by a new one.
IssueRootToken(agent, caps, cond) ==
    /\ Requestable(caps, cond)
    /\ cond.exp > now
    /\ tok' = <<[index |-> 0, issuer |-> Server, subject |-> agent, caps |-> caps, cond |-> cond]>>
    /\ UNCHANGED now

\* int addition: the successor of the largest int is the smallest.
PlusOne(m) == IF m = MaxInt THEN -MaxInt - 1 ELSE m + 1

\* Seeded fault: off by one.
WithinLimitInclusive(block, n) == block.cond.max > 0 => n <= PlusOne(block.cond.max)

\* The limit set in a block lets a chain of n blocks be extended.
WithinLimit(block, n) == block.cond.max > 0 => n < PlusOne(block.cond.max)

\* Seeded fault: the expiry is compared with that of the root block.
AttenuatesRootExpiry(chain, caps, cond) ==
    /\ Requestable(caps, cond)
    /\ caps \subseteq EffectiveCapabilities(chain, Len(chain))
    /\ cond.exp <= chain[1].cond.exp

\* What Delegate asks of a new block, apart from the limits.
Attenuates(chain, caps, cond) ==
    /\ Requestable(caps, cond)
    /\ caps \subseteq EffectiveCapabilities(chain, Len(chain))
    /\ cond.exp <= Last(chain).cond.exp

\* Seeded fault: the index of the block before is used again.
DelegatedSameIndex(chain, child, caps, cond) ==
    [index |-> Len(chain) - 1, issuer |-> Last(chain).subject, subject |-> child,
     caps |-> caps, cond |-> cond]

\* Seeded fault: the limit is decremented, 0 ("no limit") included.
DelegatedDecrementsLimit(chain, child, caps, cond) ==
    [index |-> Len(chain), issuer |-> Last(chain).subject, subject |-> child,
     caps |-> caps, cond |-> [cond EXCEPT !.max = @ - 1]]

\* The new block: who held the token is its issuer.
Delegated(chain, child, caps, cond) ==
    [index |-> Len(chain), issuer |-> Last(chain).subject, subject |-> child,
     caps |-> caps, cond |-> cond]

\* Delegate does not look at the clock: a token that expired can be extended.
Delegate(child, caps, cond) ==
    /\ tok # <<>> /\ Len(tok) < MaxBlocks
    /\ Attenuates(tok, caps, cond)
    /\ WithinLimit(Last(tok), Len(tok)) /\ WithinLimit(tok[1], Len(tok))
    /\ tok' = Append(tok, Delegated(tok, child, caps, cond))
    /\ UNCHANGED now

Tick ==
    /\ now < MaxTime
    /\ now' = now + 1
    /\ UNCHANGED tok

-----------------------------------------------------------------------------
(* Verifying a token                                                         *)

\* Seeded fault: the second of the expiry is too late.
InTimeStrictly(block, at) ==
    /\ block.cond.exp > 0 => at < block.cond.exp
    /\ block.cond.nbf > 0 => block.cond.nbf <= at

\* An exp or nbf that is not positive never refuses a block.
InTime(block, at) ==
    /\ block.cond.exp > 0 => at <= block.cond.exp
    /\ block.cond.nbf > 0 => block.cond.nbf <= at

\* Seeded fault: the capabilities are not compared.
LinkedAnyCaps(chain, i) ==
    /\ chain[i].issuer = chain[i - 1].subject
    /\ chain[i - 1].cond.exp > 0 => chain[i].cond.exp <= chain[i - 1].cond.exp

\* How a block has to follow from the ones before it.
Linked(chain, i) ==
    /\ chain[i].issuer = chain[i - 1].subject
    /\ chain[i].caps \subseteq EffectiveCapabilities(chain, i - 1)
    /\ chain[i - 1].cond.exp > 0 => chain[i].cond.exp <= chain[i - 1].cond.exp

\* Verify, at being the time it reads once at its beginning.
Verify(chain, at) ==
    /\ chain # <<>>
    /\ \A i \in DOMAIN chain :
         /\ chain[i].index = i - 1
         /\ chain[i].cond.exp # 0
         /\ InTime(chain[i], at)
         /\ i > 1 => Linked(chain, i)

\* ExpiresAt of the answer, which introspection and token exchange pass on.
ExpiresAt(chain) == Last(chain).cond.exp

-----------------------------------------------------------------------------
(* Clients that sign a block of their own, and the specification             *)

\* The blocks that any client may present after those of the token.
Extensions ==
    {b \in [index : {Len(tok)}, issuer : Agent, subject : Agent, caps : SUBSET Capability,
            cond : Conditions] : tok # <<>> /\ Len(tok) < MaxBlocks}

\* The holder appends a block without Delegate: with no capabilities, beyond a
\* limit, or with a later expiry where Verify compares none. A block that does
\* not follow from the ones before is never accepted, whatever comes after it:
\* such chains are left out.
AppendOwnBlock(b) ==
    /\ b.cond.exp # 0
    /\ Linked(Append(tok, b), Len(tok) + 1)
    /\ tok' = Append(tok, b)
    /\ UNCHANGED now

ActNext ==
    \/ \E agent \in Agent, caps \in SUBSET Capability, cond \in Conditions :
         \/ IssueRootToken(agent, caps, cond) /\ built' = TRUE
         \/ Delegate(agent, caps, cond) /\ UNCHANGED built
    \/ \E b \in Extensions : AppendOwnBlock(b) /\ built' = FALSE
    \/ Tick /\ UNCHANGED built

ActSpec == ActInit /\ [][ActNext]_actVars

-----------------------------------------------------------------------------
(* Properties                                                                *)

\* A token made by IssueRootToken and Delegate is accepted by Verify exactly
\* while every block of it is in time: no rule of Verify refuses what Delegate
\* let an agent build (pkg/token, act.go against verify.go).
BuiltIsAccepted ==
    (built /\ tok # <<>>) => (Verify(tok, now) <=> \A i \in DOMAIN tok : InTime(tok[i], now))

\* A block expired before that second, and one after it has a negative expiry,
\* with which Verify compares nothing (verify.go:98).
OutlivesBlock(chain, at) ==
    \E i, j \in DOMAIN chain :
        /\ i < j /\ chain[j].cond.exp < 0
        /\ 0 < chain[i].cond.exp /\ chain[i].cond.exp < at

\* The expiry that Verify answers, the last block's, is the one of the token:
\* from when it is accepted it is so up to and including that second, and not
\* after (introspection and token exchange pass it on). The one exception is a
\* chain that Delegate did not build, in which a negative expiry is followed by
\* one that is later than that of a block above: it is refused earlier.
AnsweredExpiryIsExact ==
    (Verify(tok, now) /\ ExpiresAt(tok) > 0) =>
        \A t \in now..(MaxTime + 1) :
            /\ Verify(tok, t) => t <= ExpiresAt(tok)
            /\ t <= ExpiresAt(tok) => Verify(tok, t) \/ (~built /\ OutlivesBlock(tok, t))

\* Delegate and Verify agree on every block that grants something, whoever
\* built it: Verify accepts it after an accepted token if and only if it is what
\* Delegate builds, is in time, and Delegate's rules other than the limits let
\* it. There is one block more that Verify accepts: after an expiry that is
\* negative, one that only expires later than Delegate would let it
\* (verify.go:98 against act.go, "expiry monotonicity").
DelegateAndVerifyAgree ==
    \A b \in Extensions :
        (Verify(tok, now) /\ b.caps # {}) =>
            (Verify(Append(tok, b), now) <=>
               /\ b = Delegated(tok, b.subject, b.caps, b.cond)
               /\ InTime(b, now)
               /\ \/ Attenuates(tok, b.caps, b.cond)
                  \/ /\ ExpiresAt(tok) < 0 /\ b.cond.exp # 0
                     /\ Attenuates(tok, b.caps, Last(tok).cond))

\* Whatever block a client presents, what Verify then grants is what that block
\* grants, no block above it grants less, and no block above has expired ("Each
\* block can only reduce capabilities", README.md).
AcceptedExtensionsAttenuate ==
    \A b \in Extensions :
        LET chain == Append(tok, b) IN
        Verify(chain, now) =>
            /\ EffectiveCapabilities(chain, Len(chain)) = b.caps
            /\ \A i \in DOMAIN tok :
                 /\ b.caps \subseteq tok[i].caps
                 /\ tok[i].cond.exp > 0 => now <= tok[i].cond.exp

\* A limit set at the root holds for the whole chain that Delegate builds, the
\* largest int included (act.go, "root limit"); Verify reads no limit.
RootLimitHolds ==
    (built /\ tok # <<>> /\ tok[1].cond.max > 0) => Len(tok) - 1 <= tok[1].cond.max

\* "Maximum delegation depth from this block" (max_deleg of the API schema,
\* handlers_openapi.go).
LimitsHold ==
    built => \A i \in DOMAIN tok : tok[i].cond.max > 0 => Len(tok) - i <= tok[i].cond.max
=============================================================================
