--------------------------- MODULE MCTokenService ---------------------------
(* TokenService on small instances.                                          *)
EXTENDS TokenService

CONSTANTS a1, a2, t1, p1, p2, v1, v2, i1, i2

OneProc   == (p1 :> i1)
TwoHosts  == (p1 :> i1) @@ (p2 :> i2)
OneToken  == (v1 :> i1)
OtherHost == (v1 :> i2)
SameHost  == (v1 :> i1) @@ (v2 :> i1)

Tokens       == {"issue", "delegate", "verify", "revokeToken"}
Revocations  == {"register", "revoke"} \cup Tokens
Rotations    == {"register", "rotate"} \cup (Tokens \ {"revokeToken"})
Overlaps     == Rotations \cup {"suspend"}

\* Bound: of two requests for agents and two for tokens one rests, so that two
\* rotations overlap, or two verifications on one instance, with an agent that has
\* a key and one that replaces it.
OneRests ==
    \/ \E v \in TokenProc : serve[v] = IdleServe
    \/ \E p \in Proc : call[p] = Idle /\ \A a \in Agent : keysMade[a] <= 2

AgentSymmetry == Permutations(Agent)
TokenProcSymmetry == Permutations(TokenProc)
NoFailures  == {}
Interrupted == {"write", "crash"}
\* All but the dropped error of ListDescendants, which has a run of its own.
Reported    == {"read", "write", "redis", "crash"}
=============================================================================
