----------------------------- MODULE MCServices -----------------------------
(***************************************************************************)
(* The components beside the agent lifecycle on small instances. They      *)
(* share no state, so a behaviour of all of them is an interleaving of     *)
(* behaviours of each: one is chosen at the start, and the others rest.    *)
(***************************************************************************)
EXTENDS PolicyEngine, AuditLog, Approval, UserBinding, JwksCache, RateLimiter, Vault, RootKey,
        TokenUse

CONSTANT MaxUse   \* bound: the blocks of the token in use and the names revoked, together

VARIABLE focus    \* the component of this behaviour

servicesVars ==
    <<focus, policyVars, auditVars, approvalVars, userVars, jwksVars, rateVars,
      vaultVars, rootVars, useVars>>

ServicesInit ==
    /\ focus \in {"policies", "audit", "approvals", "users", "key sets", "rate limit",
                 "vault", "root key", "token use"}
    /\ PolicyInit /\ AuditInit /\ ApprovalInit /\ UserInit /\ JwksInit /\ RateInit
    /\ VaultInit /\ RootInit /\ UseInit

Rest(component, vars) == focus # component => UNCHANGED vars

ServicesNext ==
    /\ UNCHANGED focus
    /\ Rest("policies", policyVars) /\ Rest("audit", auditVars)
    /\ Rest("approvals", approvalVars) /\ Rest("users", userVars)
    /\ Rest("key sets", jwksVars) /\ Rest("rate limit", rateVars)
    /\ Rest("vault", vaultVars) /\ Rest("root key", rootVars)
    /\ Rest("token use", useVars)
    /\ \/ focus = "policies" /\ PolicyNext
       \/ focus = "audit" /\ AuditNext
       \/ focus = "approvals" /\ ApprovalNext
       \/ focus = "users" /\ UserNext
       \/ focus = "key sets" /\ JwksNext
       \/ focus = "rate limit" /\ RateNext
       \/ focus = "vault" /\ VaultNext
       \/ focus = "root key" /\ RootNext
       \/ focus = "token use" /\ UseNext /\ Len(held') + Cardinality(revoked') <= MaxUse

ServicesSpec == ServicesInit /\ [][ServicesNext]_servicesVars

\* The types of all components.
ServicesTypeOK ==
    PolicyTypeOK /\ AuditTypeOK /\ ApprovalTypeOK /\ UserTypeOK /\ JwksTypeOK /\ RateTypeOK
    /\ VaultTypeOK /\ RootTypeOK /\ UseTypeOK

ServicesSymmetry == Permutations(Instance) \cup Permutations(Holder)

Drafts ==
    {[name |-> "agents", action |-> "deny", priority |-> 1, outcome |-> "match"],
     [name |-> "models", action |-> "allow", priority |-> 1, outcome |-> "match"],
     [name |-> "agents", action |-> "allow", priority |-> 2, outcome |-> "error"],
     [name |-> "models", action |-> "allow", priority |-> 3, outcome |-> "no match"]}

Expiries == {-1, 2, 3}

Tools == [run |-> "write"]
=============================================================================
