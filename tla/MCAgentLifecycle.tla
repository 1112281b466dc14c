-------------------------- MODULE MCAgentLifecycle --------------------------
(* AgentLifecycle on small instances.                                        *)
EXTENDS AgentLifecycle

CONSTANTS a1, a2, a3, p1, p2, i1, i2

OneProc  == (p1 :> i1)
OneHost  == (p1 :> i1 @@ p2 :> i1)

RevokeAndRegister == {"register", "revoke"}
AllRequests       == {"register", "suspend", "rotate", "revoke"}

\* Agents are only compared; so are processes when they share a host.
AgentSymmetry  == Permutations(Agent)
OneHostSymmetry == Permutations(Agent) \cup Permutations(Proc)
NoFailures  == {}
AllFailures == {"list", "read", "write", "redis", "crash"}

=============================================================================
