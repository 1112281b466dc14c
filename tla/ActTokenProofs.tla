--------------------------- MODULE ActTokenProofs ---------------------------
(***************************************************************************)
(* Tokens of any length, any capabilities and conditions: what Delegate    *)
(* builds Verify accepts, and what Verify accepts attenuates.              *)
(***************************************************************************)
EXTENDS ActToken, TLAPS

\* What holds of every block of a token, whoever signed it: a positive expiry is
\* no earlier than the last one unless a negative one comes between.
BlockInv(chain, i) ==
    /\ chain[i].index = i - 1
    /\ chain[i].cond.exp # 0
    /\ chain[i].cond.exp > 0 =>
         \/ chain[i].cond.exp >= Last(chain).cond.exp
         \/ \E k \in DOMAIN chain : i < k /\ chain[k].cond.exp < 0
    /\ i > 1 => Linked(chain, i)

\* Not only each block below the one before it: every block of a token that
\* Delegate built expires no earlier than the last one, and the root's limit
\* counts all blocks.
ActInv ==
    /\ ActTypeOK
    /\ \A i \in DOMAIN tok : BlockInv(tok, i)
    /\ built => \A i \in DOMAIN tok : tok[i].cond.exp >= Last(tok).cond.exp
    /\ RootLimitHolds

-----------------------------------------------------------------------------
(* Lemmas about chains                                                       *)

LEMMA ConditionsAreIntegers ==
    \A cond \in Conditions : cond.exp \in Int /\ cond.nbf \in Int /\ cond.max \in Int
<1>1. MaxInt \in Nat /\ Integer \subseteq Int
  BY ActAssumption DEF Integer
<1>2. Expiry \subseteq Int /\ NotBefore \subseteq Int /\ Limit \subseteq Int
  BY <1>1, ActAssumption
<1> QED
  BY <1>2 DEF Conditions

LEMMA BlocksHaveIntegers ==
    \A b \in Block : b.cond.exp \in Int /\ b.cond.nbf \in Int /\ b.cond.max \in Int
BY ConditionsAreIntegers DEF Block

LEMMA LastBlock ==
    ASSUME NEW chain \in Seq(Block), chain # <<>>
    PROVE  /\ Len(chain) \in DOMAIN chain /\ 1 \in DOMAIN chain
           /\ Last(chain) = chain[Len(chain)]
           /\ Last(chain) \in Block /\ chain[1] \in Block
BY DEF Last

\* Appending leaves the blocks before in place and their prefixes' capabilities.
LEMMA AppendBlock ==
    ASSUME NEW chain \in Seq(Block), NEW b \in Block
    PROVE  /\ Append(chain, b) \in Seq(Block)
           /\ Append(chain, b) # <<>>
           /\ DOMAIN Append(chain, b) = DOMAIN chain \cup {Len(chain) + 1}
           /\ Len(Append(chain, b)) = Len(chain) + 1
           /\ \A i \in DOMAIN chain : Append(chain, b)[i] = chain[i]
           /\ Append(chain, b)[Len(chain) + 1] = b
           /\ Last(Append(chain, b)) = b
BY DEF Last

LEMMA AppendKeepsCapabilities ==
    ASSUME NEW chain \in Seq(Block), NEW b \in Block, NEW n \in 1..Len(chain)
    PROVE  EffectiveCapabilities(Append(chain, b), n) = EffectiveCapabilities(chain, n)
<1>1. \A i \in 1..n : Append(chain, b)[i] = chain[i]
  BY AppendBlock
<1>2. Append(chain, b)[1] = chain[1]
  BY <1>1
<1> QED
  BY <1>1, <1>2 DEF EffectiveCapabilities

LEMMA AppendKeepsLinks ==
    ASSUME NEW chain \in Seq(Block), NEW b \in Block, NEW i \in DOMAIN chain, i > 1
    PROVE  Linked(Append(chain, b), i) <=> Linked(chain, i)
<1>1. i - 1 \in 1..Len(chain) /\ i - 1 \in DOMAIN chain
  OBVIOUS
<1>2. Append(chain, b)[i] = chain[i] /\ Append(chain, b)[i - 1] = chain[i - 1]
  BY <1>1, AppendBlock
<1>3. EffectiveCapabilities(Append(chain, b), i - 1) = EffectiveCapabilities(chain, i - 1)
  BY <1>1, AppendKeepsCapabilities
<1> QED
  BY <1>2, <1>3 DEF Linked

\* The link of the block that is appended.
LEMMA AppendLink ==
    ASSUME NEW chain \in Seq(Block), chain # <<>>, NEW b \in Block
    PROVE  Linked(Append(chain, b), Len(chain) + 1) <=>
             /\ b.issuer = Last(chain).subject
             /\ b.caps \subseteq EffectiveCapabilities(chain, Len(chain))
             /\ Last(chain).cond.exp > 0 => b.cond.exp <= Last(chain).cond.exp
<1>1. Len(chain) \in 1..Len(chain) /\ (Len(chain) + 1) - 1 = Len(chain)
  BY LastBlock
<1>2. /\ Append(chain, b)[Len(chain) + 1] = b
      /\ Append(chain, b)[Len(chain)] = Last(chain)
  BY AppendBlock, LastBlock
<1>3. EffectiveCapabilities(Append(chain, b), Len(chain)) = EffectiveCapabilities(chain, Len(chain))
  BY <1>1, AppendKeepsCapabilities
<1> QED
  BY <1>1, <1>2, <1>3 DEF Linked

\* Verify goes from block to block: it accepts an extension if and only if it
\* accepts the chain and the block that was appended.
LEMMA VerifyAppend ==
    ASSUME NEW chain \in Seq(Block), chain # <<>>, NEW b \in Block, NEW at \in Int
    PROVE  Verify(Append(chain, b), at) <=>
             /\ Verify(chain, at)
             /\ b.index = Len(chain)
             /\ b.cond.exp # 0
             /\ InTime(b, at)
             /\ Linked(Append(chain, b), Len(chain) + 1)
<1> DEFINE ext == Append(chain, b)
           ok(c, i) == /\ c[i].index = i - 1
                       /\ c[i].cond.exp # 0
                       /\ InTime(c[i], at)
                       /\ i > 1 => Linked(c, i)
<1>1. \A i \in DOMAIN chain : ok(ext, i) <=> ok(chain, i)
  BY AppendBlock, AppendKeepsLinks
<1>2. ok(ext, Len(chain) + 1) <=> /\ b.index = Len(chain)
                                  /\ b.cond.exp # 0
                                  /\ InTime(b, at)
                                  /\ Linked(ext, Len(chain) + 1)
  <2>1. Len(chain) + 1 > 1 /\ (Len(chain) + 1) - 1 = Len(chain)
    BY LastBlock
  <2> QED
    BY <2>1, AppendBlock
<1>3. DOMAIN ext = DOMAIN chain \cup {Len(chain) + 1} /\ ext # <<>>
  BY AppendBlock
<1>4. Verify(ext, at) <=> \A i \in DOMAIN ext : ok(ext, i)
  BY <1>3 DEF Verify
<1>5. Verify(chain, at) <=> \A i \in DOMAIN chain : ok(chain, i)
  BY DEF Verify
<1> HIDE DEF ok, ext
<1>6. (\A i \in DOMAIN ext : ok(ext, i)) <=>
        (\A i \in DOMAIN chain : ok(chain, i)) /\ ok(ext, Len(chain) + 1)
  BY <1>1, <1>3
<1>7. Verify(ext, at) <=> Verify(chain, at) /\ ok(ext, Len(chain) + 1)
  BY <1>4, <1>5, <1>6
<1> QED
  BY <1>2, <1>7 DEF ext

-----------------------------------------------------------------------------
(* The inductive invariant                                                   *)

LEMMA ActInitInv == ActInit => ActInv
BY DEF ActInit, ActInv, ActTypeOK, RootLimitHolds

LEMMA IssueKeeps ==
    ASSUME ActInv, NEW agent \in Agent, NEW caps \in SUBSET Capability, NEW cond \in Conditions,
           IssueRootToken(agent, caps, cond), built' = TRUE
    PROVE  ActInv'
<1> DEFINE b == [index |-> 0, issuer |-> Server, subject |-> agent, caps |-> caps, cond |-> cond]
<1>1. tok' = <<b>> /\ now' = now /\ b \in Block /\ cond.exp # 0
  BY DEF IssueRootToken, Requestable, Block
<1>2. cond.exp \in Int /\ cond.max \in Int
  BY ConditionsAreIntegers
<1>3. ActTypeOK'
  BY <1>1 DEF ActInv, ActTypeOK
<1>4. DOMAIN tok' = {1} /\ Len(tok') = 1 /\ tok'[1] = b /\ Last(tok') = b
  BY <1>1 DEF Last
<1>5. \A i \in DOMAIN tok' : BlockInv(tok', i)
  BY <1>1, <1>2, <1>4 DEF BlockInv
<1>6. RootLimitHolds'
  BY <1>2, <1>4 DEF RootLimitHolds
<1>7. \A i \in DOMAIN tok' : tok'[i].cond.exp >= Last(tok').cond.exp
  BY <1>1, <1>2, <1>4
<1> QED
  BY <1>3, <1>5, <1>6, <1>7 DEF ActInv

\* A block that Verify links keeps what holds of every block: where its expiry is
\* later than one above, the block it follows has a negative one.
LEMMA LinkedBlockKeeps ==
    ASSUME ActInv, tok # <<>>, NEW b \in Block, b.index = Len(tok), b.cond.exp # 0,
           Linked(Append(tok, b), Len(tok) + 1)
    PROVE  /\ Append(tok, b) \in Seq(Block)
           /\ \A i \in DOMAIN Append(tok, b) : BlockInv(Append(tok, b), i)
<1>1. tok \in Seq(Block) /\ Len(tok) \in DOMAIN tok /\ Last(tok) = tok[Len(tok)]
  BY LastBlock DEF ActInv, ActTypeOK
<1>2. PICK c : c = Append(tok, b)
  OBVIOUS
<1>3. /\ c \in Seq(Block) /\ DOMAIN c = DOMAIN tok \cup {Len(tok) + 1} /\ Last(c) = b
      /\ \A i \in DOMAIN tok : c[i] = tok[i]
      /\ c[Len(tok) + 1] = b
  BY <1>1, <1>2, AppendBlock
<1>4. /\ b.cond.exp \in Int /\ Len(tok) \in Nat
      /\ \A i \in DOMAIN tok : tok[i].cond.exp \in Int /\ i \in Int /\ i <= Len(tok)
  BY <1>1, BlocksHaveIntegers
<1>5. tok[Len(tok)].cond.exp > 0 => b.cond.exp <= tok[Len(tok)].cond.exp
  BY <1>1, AppendLink
<1>6. ASSUME NEW i \in DOMAIN tok PROVE BlockInv(c, i)
  <2>1. BlockInv(tok, i) /\ c[i] = tok[i] /\ tok[Len(tok)].cond.exp # 0
    BY <1>1, <1>3 DEF ActInv, BlockInv
  <2>2. i > 1 => Linked(c, i)
    BY <1>1, <1>2, <2>1, AppendKeepsLinks DEF BlockInv
  <2>3. ASSUME tok[i].cond.exp > 0
        PROVE  \/ c[i].cond.exp >= Last(c).cond.exp
               \/ \E k \in DOMAIN c : i < k /\ c[k].cond.exp < 0
    <3>1. CASE \E k \in DOMAIN tok : i < k /\ tok[k].cond.exp < 0
      BY <1>3, <3>1
    <3>2. CASE tok[i].cond.exp >= tok[Len(tok)].cond.exp /\ tok[Len(tok)].cond.exp > 0
      BY <1>1, <1>3, <1>4, <1>5, <2>1, <3>2
    <3>3. CASE tok[Len(tok)].cond.exp < 0
      <4>1. i < Len(tok)
        <5>1. i # Len(tok)
          BY <1>1, <1>4, <2>3, <3>3
        <5> QED
          BY <1>4, <5>1
      <4> QED
        BY <1>1, <1>3, <3>3, <4>1
    <3> QED
      BY <1>1, <1>4, <2>1, <2>3, <3>1, <3>2, <3>3 DEF BlockInv
  <2> QED
    BY <2>1, <2>2, <2>3 DEF BlockInv
<1>7. BlockInv(c, Len(tok) + 1)
  <2>1. (Len(tok) + 1) - 1 = Len(tok)
    BY <1>4
  <2>2. c[Len(tok) + 1].cond.exp >= Last(c).cond.exp
    BY <1>3, <1>4
  <2> QED
    BY <1>2, <1>3, <2>1, <2>2 DEF BlockInv
<1> QED
  BY <1>2, <1>3, <1>6, <1>7

LEMMA DelegateKeeps ==
    ASSUME ActInv, NEW child \in Agent, NEW caps \in SUBSET Capability, NEW cond \in Conditions,
           Delegate(child, caps, cond), UNCHANGED built
    PROVE  ActInv'
<1> DEFINE b == Delegated(tok, child, caps, cond)
<1>1. /\ tok # <<>> /\ tok \in Seq(Block) /\ tok' = Append(tok, b) /\ now' = now
      /\ Attenuates(tok, caps, cond) /\ WithinLimit(tok[1], Len(tok))
  BY DEF Delegate, ActInv, ActTypeOK
<1>2. Last(tok) \in Block /\ tok[1] \in Block
  BY <1>1, LastBlock
<1>3. /\ b \in Block
      /\ b.index = Len(tok) /\ b.issuer = Last(tok).subject /\ b.caps = caps /\ b.cond = cond
  BY <1>1, <1>2 DEF Delegated, Block
<1>4. /\ cond.exp \in Int /\ Last(tok).cond.exp \in Int /\ tok[1].cond.max \in Int
      /\ \A i \in DOMAIN tok : tok[i].cond.exp \in Int
  BY <1>1, <1>2, ConditionsAreIntegers, BlocksHaveIntegers
<1>5. cond.exp # 0 /\ cond.exp <= Last(tok).cond.exp
  BY <1>1 DEF Attenuates, Requestable
<1>6. /\ tok' \in Seq(Block)
      /\ \A i \in DOMAIN tok' : BlockInv(tok', i)
  <2>1. Linked(Append(tok, b), Len(tok) + 1)
    BY <1>1, <1>3, <1>5, AppendLink DEF Attenuates
  <2> QED
    BY <1>1, <1>3, <1>5, <2>1, LinkedBlockKeeps
<1>7. built' => \A i \in DOMAIN tok' : tok'[i].cond.exp >= Last(tok').cond.exp
  <2>1. /\ DOMAIN tok' = DOMAIN tok \cup {Len(tok) + 1} /\ Last(tok') = b
        /\ tok'[Len(tok) + 1] = b
        /\ \A i \in DOMAIN tok : tok'[i] = tok[i]
    BY <1>1, <1>3, AppendBlock
  <2> QED
    BY <1>3, <1>4, <1>5, <2>1 DEF ActInv
<1>8. RootLimitHolds'
  <2> SUFFICES ASSUME tok[1].cond.max > 0
               PROVE  Len(tok) <= tok[1].cond.max
    BY <1>1, <1>3, AppendBlock, LastBlock DEF RootLimitHolds
  <2>1. Len(tok) < PlusOne(tok[1].cond.max) /\ Len(tok) \in Nat
    BY <1>1 DEF WithinLimit
  <2>2. tok[1].cond.max # MaxInt
    BY <2>1, ActAssumption DEF PlusOne
  <2> QED
    BY <1>4, <2>1, <2>2 DEF PlusOne
<1> QED
  BY <1>1, <1>6, <1>7, <1>8 DEF ActInv, ActTypeOK

\* A block that the holder signs without Delegate: only Verify's rules hold.
LEMMA OwnBlockKeeps ==
    ASSUME ActInv, NEW b \in Extensions, AppendOwnBlock(b), built' = FALSE
    PROVE  ActInv'
<1>1. b \in Block /\ tok # <<>> /\ b.index = Len(tok)
  BY DEF Extensions, Block
<1>2. /\ tok' = Append(tok, b) /\ now' = now /\ b.cond.exp # 0
      /\ Linked(Append(tok, b), Len(tok) + 1)
  BY DEF AppendOwnBlock
<1>3. tok' \in Seq(Block) /\ \A i \in DOMAIN tok' : BlockInv(tok', i)
  BY <1>1, <1>2, LinkedBlockKeeps
<1> QED
  BY <1>2, <1>3 DEF ActInv, ActTypeOK, RootLimitHolds

LEMMA TickKeeps == ActInv /\ Tick /\ UNCHANGED built => ActInv'
<1> SUFFICES ASSUME ActInv, Tick, UNCHANGED built PROVE ActInv'
  OBVIOUS
<1>1. tok' = tok /\ now' \in Nat \ {0}
  BY DEF Tick, ActInv, ActTypeOK
<1> QED
  BY <1>1 DEF ActInv, ActTypeOK, RootLimitHolds

LEMMA ActNextInv == ActInv /\ [ActNext]_actVars => ActInv'
<1>1. ActInv /\ UNCHANGED actVars => ActInv'
  BY DEF actVars, ActInv, ActTypeOK, RootLimitHolds
<1> QED
  BY <1>1, IssueKeeps, DelegateKeeps, OwnBlockKeeps, TickKeeps DEF ActNext

LEMMA ActSpecInv == ActSpec => []ActInv
BY ActInitInv, ActNextInv, PTL DEF ActSpec

-----------------------------------------------------------------------------
(* Theorems                                                                  *)

\* Every token that clients build is a sequence of well-typed blocks, whatever
\* the requests of IssueRootToken and Delegate ask for.
THEOREM ActTypeCorrectness == ActSpec => []ActTypeOK
<1>1. ActInv => ActTypeOK
  BY DEF ActInv
<1> QED
  BY <1>1, ActSpecInv, PTL

\* Delegate never builds a token that Verify refuses for anything but time: the
\* two sets of rules (act.go, verify.go) fit for tokens of every length.
THEOREM BuiltTokensAreAccepted == ActSpec => []BuiltIsAccepted
<1>1. ActInv => BuiltIsAccepted
  BY DEF ActInv, BlockInv, BuiltIsAccepted, Verify
<1> QED
  BY <1>1, ActSpecInv, PTL

\* Verify answers the expiry of the last block only, and that is the expiry of
\* the whole chain: of every chain that Delegate builds, and of one with blocks
\* of its holder's own unless a negative expiry hides that of a block above.
THEOREM AnsweredExpiry == ActSpec => []AnsweredExpiryIsExact
<1>1. ASSUME ActInv, Verify(tok, now), ExpiresAt(tok) > 0, NEW t \in now..(MaxTime + 1)
      PROVE  /\ Verify(tok, t) => t <= ExpiresAt(tok)
             /\ t <= ExpiresAt(tok) => Verify(tok, t) \/ (~built /\ OutlivesBlock(tok, t))
  <2>1. tok \in Seq(Block) /\ tok # <<>> /\ now \in Nat /\ t \in Int /\ t >= now
    BY <1>1, ActAssumption DEF ActInv, ActTypeOK, Verify
  <2>2. /\ Len(tok) \in DOMAIN tok /\ ExpiresAt(tok) = tok[Len(tok)].cond.exp
        /\ ExpiresAt(tok) = Last(tok).cond.exp
    BY <2>1, LastBlock DEF ExpiresAt
  <2>3. /\ \A i \in DOMAIN tok : tok[i].cond.exp \in Int /\ tok[i].cond.nbf \in Int
        /\ ExpiresAt(tok) \in Int
    <3>1. \A i \in DOMAIN tok : tok[i] \in Block
      BY <2>1
    <3>2. \A i \in DOMAIN tok : tok[i].cond.exp \in Int /\ tok[i].cond.nbf \in Int
      BY <3>1, BlocksHaveIntegers
    <3> QED
      BY <2>2, <3>2
  <2>4. ASSUME t <= ExpiresAt(tok), NEW i \in DOMAIN tok, ~InTime(tok[i], t)
        PROVE  ~built /\ OutlivesBlock(tok, t)
    <3>1. InTime(tok[i], now) /\ BlockInv(tok, i)
      BY <1>1 DEF ActInv, Verify
    <3>2. tok[i].cond.exp > 0 /\ tok[i].cond.exp < t
      BY <2>1, <2>3, <2>4, <3>1 DEF InTime
    <3>3. ~(tok[i].cond.exp >= Last(tok).cond.exp)
      BY <2>1, <2>2, <2>3, <2>4, <3>2
    <3>4. \E k \in DOMAIN tok : i < k /\ tok[k].cond.exp < 0
      BY <3>1, <3>2, <3>3 DEF BlockInv
    <3>5. ~built
      BY <1>1, <3>3 DEF ActInv
    <3> QED
      BY <3>2, <3>4, <3>5 DEF OutlivesBlock
  <2>5. t <= ExpiresAt(tok) => Verify(tok, t) \/ (~built /\ OutlivesBlock(tok, t))
    BY <1>1, <2>4 DEF Verify
  <2>6. Verify(tok, t) => t <= ExpiresAt(tok)
    BY <1>1, <2>2 DEF Verify, InTime
  <2> QED
    BY <2>5, <2>6
<1>2. ActInv => AnsweredExpiryIsExact
  BY <1>1 DEF AnsweredExpiryIsExact
<1> QED
  BY <1>2, ActSpecInv, PTL

LEMMA ExtensionIsBlock ==
    ASSUME ActTypeOK, NEW b \in Extensions
    PROVE  b \in Block /\ tok # <<>> /\ tok \in Seq(Block) /\ b.index = Len(tok)
BY DEF ActTypeOK, Extensions, Block

\* Verify accepts of a block that grants something exactly what Delegate would
\* have built, apart from the limits, which Verify never reads, and, after a
\* negative expiry, from the comparison of the two, which Verify leaves out.
THEOREM DelegateAndVerify == ActSpec => []DelegateAndVerifyAgree
<1>1. ASSUME ActInv, NEW b \in Extensions, Verify(tok, now), b.caps # {}
      PROVE  Verify(Append(tok, b), now) <=>
               /\ b = Delegated(tok, b.subject, b.caps, b.cond)
               /\ InTime(b, now)
               /\ \/ Attenuates(tok, b.caps, b.cond)
                  \/ /\ ExpiresAt(tok) < 0 /\ b.cond.exp # 0
                     /\ Attenuates(tok, b.caps, Last(tok).cond)
  <2>1. b \in Block /\ tok # <<>> /\ tok \in Seq(Block) /\ b.index = Len(tok) /\ now \in Int
    BY <1>1, ExtensionIsBlock DEF ActInv, ActTypeOK
  <2>2. /\ ExpiresAt(tok) = Last(tok).cond.exp /\ Last(tok).cond.exp \in Int
        /\ b.cond.exp \in Int /\ Last(tok).cond.exp # 0
    BY <1>1, <2>1, LastBlock, BlocksHaveIntegers DEF ExpiresAt, Verify
  <2>3. Verify(Append(tok, b), now) <=>
          /\ b.cond.exp # 0
          /\ InTime(b, now)
          /\ b.issuer = Last(tok).subject
          /\ b.caps \subseteq EffectiveCapabilities(tok, Len(tok))
          /\ Last(tok).cond.exp > 0 => b.cond.exp <= Last(tok).cond.exp
    BY <1>1, <2>1, VerifyAppend, AppendLink
  <2>4. b = Delegated(tok, b.subject, b.caps, b.cond) <=> b.issuer = Last(tok).subject
    BY <2>1 DEF Block, Delegated
  <2>5. /\ Attenuates(tok, b.caps, b.cond) <=>
             /\ b.cond.exp # 0
             /\ b.caps \subseteq EffectiveCapabilities(tok, Len(tok))
             /\ b.cond.exp <= Last(tok).cond.exp
        /\ Attenuates(tok, b.caps, Last(tok).cond) <=>
             b.caps \subseteq EffectiveCapabilities(tok, Len(tok))
    BY <1>1, <2>2 DEF Attenuates, Requestable
  <2> QED
    BY <2>2, <2>3, <2>4, <2>5
<1>2. ActInv => DelegateAndVerifyAgree
  BY <1>1 DEF DelegateAndVerifyAgree
<1> QED
  BY <1>2, ActSpecInv, PTL

\* What Verify accepts attenuates, for every chain of blocks whoever built it:
\* the capabilities answered are those of the last block, no block has one that
\* a block above it has not, and no block above has expired.
THEOREM AcceptedChainsAttenuate ==
    ASSUME NEW chain \in Seq(Block), NEW at \in Int, Verify(chain, at)
    PROVE  /\ EffectiveCapabilities(chain, Len(chain)) = Last(chain).caps
           /\ \A i, j \in DOMAIN chain : i < j => chain[j].caps \subseteq chain[i].caps
           /\ \A i \in DOMAIN chain : chain[i].cond.exp > 0 => at <= chain[i].cond.exp
<1>1. chain # <<>>
  BY DEF Verify
<1>2. \A i, j \in DOMAIN chain : i < j => chain[j].caps \subseteq chain[i].caps
  <2> TAKE i, j \in DOMAIN chain
  <2> HAVE i < j
  <2>1. chain[j].caps \subseteq EffectiveCapabilities(chain, j - 1)
    BY DEF Verify, Linked
  <2>2. i \in 1..(j - 1)
    OBVIOUS
  <2> QED
    BY <2>1, <2>2 DEF EffectiveCapabilities
<1>3. EffectiveCapabilities(chain, Len(chain)) = Last(chain).caps
  <2>1. /\ Len(chain) \in DOMAIN chain /\ Last(chain) = chain[Len(chain)]
        /\ 1 \in DOMAIN chain /\ DOMAIN chain = 1..Len(chain)
    BY <1>1, LastBlock
  <2>2. \A i \in DOMAIN chain : Last(chain).caps \subseteq chain[i].caps
    <3> TAKE i \in DOMAIN chain
    <3>1. i = Len(chain) \/ i < Len(chain)
      BY <2>1
    <3> QED
      BY <1>2, <2>1, <3>1
  <2> QED
    BY <2>1, <2>2 DEF EffectiveCapabilities
<1>4. \A i \in DOMAIN chain : chain[i].cond.exp > 0 => at <= chain[i].cond.exp
  BY DEF Verify, InTime
<1> QED
  BY <1>2, <1>3, <1>4

\* The property of the run: whatever block is presented after those of a token.
THEOREM ExtensionsAttenuate == ActSpec => []AcceptedExtensionsAttenuate
<1>1. ASSUME ActInv, NEW b \in Extensions, Verify(Append(tok, b), now)
      PROVE  /\ EffectiveCapabilities(Append(tok, b), Len(Append(tok, b))) = b.caps
             /\ \A i \in DOMAIN tok :
                  /\ b.caps \subseteq tok[i].caps
                  /\ tok[i].cond.exp > 0 => now <= tok[i].cond.exp
  <2> DEFINE ext == Append(tok, b)
  <2>1. b \in Block /\ tok \in Seq(Block) /\ now \in Int
    BY <1>1, ExtensionIsBlock DEF ActInv, ActTypeOK
  <2>2. /\ ext \in Seq(Block) /\ Last(ext) = b /\ ext[Len(tok) + 1] = b
        /\ DOMAIN ext = DOMAIN tok \cup {Len(tok) + 1}
        /\ \A i \in DOMAIN tok : ext[i] = tok[i]
    BY <2>1, AppendBlock
  <2>3. \A i \in DOMAIN tok : i < Len(tok) + 1
    BY <2>1
  <2> HIDE DEF ext
  <2>4. /\ EffectiveCapabilities(ext, Len(ext)) = Last(ext).caps
        /\ \A i, j \in DOMAIN ext : i < j => ext[j].caps \subseteq ext[i].caps
        /\ \A i \in DOMAIN ext : ext[i].cond.exp > 0 => now <= ext[i].cond.exp
    BY <1>1, <2>1, <2>2, AcceptedChainsAttenuate DEF ext
  <2> QED
    BY <2>2, <2>3, <2>4 DEF ext
<1>2. ActInv => AcceptedExtensionsAttenuate
  BY <1>1 DEF AcceptedExtensionsAttenuate
<1> QED
  BY <1>2, ActSpecInv, PTL

\* The limit of the root block bounds every chain Delegate builds, for every limit an int
\* can hold: the overflow of limit + 1 refuses delegations, it permits none.
THEOREM RootLimit == ActSpec => []RootLimitHolds
<1>1. ActInv => RootLimitHolds
  BY DEF ActInv
<1> QED
  BY <1>1, ActSpecInv, PTL
=============================================================================
