----------------------------- MODULE Revocation -----------------------------
(***************************************************************************)
(* What POST /agents/{id}/revoke promises (RevokeAgent of                  *)
(* internal/api/handlers_identity.go), without the means by which it is    *)
(* kept: no store, no Redis, no maps, no lists of descendants, no keys.    *)
(*                                                                         *)
(* A request is about the agent it names and, with cascade, about every    *)
(* agent below it at that moment. A 200 answer says that all of them are   *)
(* revoked from now on; a request that fails says nothing, and may have    *)
(* revoked a part that begins at the top.                                  *)
(***************************************************************************)

CONSTANTS
    Agent,   \* the agents that can be registered
    None,    \* "no parent"
    Proc     \* who serves requests

VARIABLES
    parent,    \* the registered agents: agent -> the one it was registered under
    open,      \* open[p]: the agents the request at p is about, {} without one
    asked,     \* the agents some request has named
    inForce,   \* the agents whose tokens are refused everywhere
    promised   \* the agents a 200 answer was about

serviceVars == <<parent, open, asked, inForce, promised>>

ServiceInit ==
    /\ parent = [a \in {} |-> None]
    /\ open = [p \in Proc |-> {}]
    /\ asked = {}
    /\ inForce = {}
    /\ promised = {}

\* The least set that has a and the agents registered under its members.
Tree(a) ==
    {d \in DOMAIN parent :
        \A S \in SUBSET DOMAIN parent :
            /\ a \in S
            /\ \A x \in DOMAIN parent : parent[x] \in S => x \in S
            => d \in S}

\* IDs are not used again, not even those of agents that were lost.
Register(a, above) ==
    /\ a \notin DOMAIN parent \cup inForce
    /\ above \in DOMAIN parent \cup {None}
    /\ parent' = [x \in DOMAIN parent \cup {a} |-> IF x = a THEN above ELSE parent[x]]
    /\ UNCHANGED <<open, asked, inForce, promised>>

Ask(p, a) ==
    /\ open[p] = {}
    /\ a \in DOMAIN parent
    /\ asked' = asked \cup {a}
    /\ \E about \in {{a}, {a} \cup Tree(a)} : open' = [open EXCEPT ![p] = about]
    /\ UNCHANGED <<parent, inForce, promised>>

\* One agent more is refused: one that a request names, or one below an agent
\* that is refused already.
Enforce ==
    \E a \in DOMAIN parent :
        /\ a \in asked \/ parent[a] \in inForce
        /\ inForce' = inForce \cup {a}

\* The requests at P end without a 200 answer.
Abandon(P) ==
    /\ open' = [p \in Proc |-> IF p \in P THEN {} ELSE open[p]]
    /\ UNCHANGED promised

Answer(p) ==
    /\ open[p] \subseteq inForce'
    /\ open' = [open EXCEPT ![p] = {}]
    /\ promised' = promised \cup open[p]

\* A write to the registry may coincide with the end of the request it is for.
Work ==
    /\ UNCHANGED inForce \/ Enforce
    /\ (\E P \in SUBSET Proc : Abandon(P)) \/ (\E p \in Proc : Answer(p))
    /\ UNCHANGED <<parent, asked>>

\* A restart of the only server of a deployment that keeps the agents in memory:
\* nobody is registered any more, no request is answered, and what was refused
\* stays refused.
Restart ==
    /\ parent' = [a \in {} |-> None]
    /\ open' = [p \in Proc |-> {}]
    /\ UNCHANGED <<asked, inForce, promised>>

ServiceNext ==
    \/ \E a \in Agent, above \in Agent \cup {None} : Register(a, above)
    \/ \E p \in Proc, a \in Agent : Ask(p, a)
    \/ Work
    \/ Restart

ServiceSpec == ServiceInit /\ [][ServiceNext]_serviceVars
=============================================================================
