---------------------------- MODULE PolicyEngine ----------------------------
(***************************************************************************)
(* The policy engine (internal/policy): every instance keeps its policies  *)
(* in memory, sorted, and writes them through to one table. The table is   *)
(* read once, when an instance starts.                                     *)
(*                                                                         *)
(* One request to be decided is fixed: outcome is what the expression of a *)
(* policy gives for it. The compiled programs are a cache of expressions   *)
(* that evaluation fills by itself, so they are not part of the state.     *)
(***************************************************************************)
EXTENDS Deployment

CONSTANTS
    PolicyId,          \* the IDs (fresh UUIDs) that policies can get
    Draft,             \* input: the policies administrators ask for
    MaxPolicyFaults    \* bound: failures of the policy store

ASSUME PolicyAssumption ==
    /\ \A d \in Draft :
         /\ DOMAIN d = {"name", "action", "priority", "outcome"}
         /\ d.action \in {"allow", "deny"}
         /\ d.priority \in Int
         /\ d.outcome \in {"match", "no match", "error"}
    /\ MaxPolicyFaults \in Nat

VARIABLES
    policyRows,    \* the policies table
    policies,      \* per instance the policies in memory, in the order of evaluation
    storeFailed,   \* per instance: the policies could not be loaded
    adding,        \* the AddPolicy calls, with their instance, between table and memory
    policyFaults,  \* failures so far
    promised,      \* history: per instance the policies it must apply
    withdrawn,     \* history: policies somebody asked to remove
    removed        \* history: per instance the removals it has answered

policyVars == <<policyRows, policies, storeFailed, adding, policyFaults,
                promised, withdrawn, removed>>

Policy == [id : PolicyId, of : Draft]

Sorted(s) == \A m, n \in DOMAIN s : m < n => s[m].of.priority >= s[n].of.priority

PolicyTypeOK ==
    /\ policyRows \subseteq Policy
    /\ \A p, q \in policyRows : p.of.name = q.of.name => p = q
    /\ policies \in [Instance -> Seq(Policy)]
    /\ \A i \in Instance : Sorted(policies[i]) /\ IsInjective(policies[i])
    /\ storeFailed \in [Instance -> BOOLEAN]
    /\ adding \subseteq Instance \X Policy
    /\ policyFaults \in 0..MaxPolicyFaults
    /\ promised \in [Instance -> SUBSET Policy]
    /\ withdrawn \subseteq Policy
    /\ removed \in [Instance -> SUBSET Policy]

PolicyInit ==
    /\ policyRows = {} /\ adding = {} /\ withdrawn = {} /\ policyFaults = 0
    /\ policies = [i \in Instance |-> <<>>]
    /\ storeFailed = [i \in Instance |-> FALSE]
    /\ promised = [i \in Instance |-> {}]
    /\ removed = [i \in Instance |-> {}]

PolicyFault == policyFaults < MaxPolicyFaults /\ policyFaults' = policyFaults + 1

\* What sorting by descending priority may give, equal ones in any order.
SortedLists(S) == {s \in SetToSeqs(S) : Sorted(s)}

-----------------------------------------------------------------------------
(* Evaluation                                                                *)

\* Seeded fault: an allow policy that matches wins over a deny policy.
PermitsAllowFirst(s) ==
    LET Of(action) == {n \in DOMAIN s : s[n].of.action = action} IN
    \/ \E n \in Of("allow") :
         /\ s[n].of.outcome = "match"
         /\ \A m \in Of("allow") : m < n => s[m].of.outcome = "no match"
    \/ Of("allow") = {} /\ \A n \in Of("deny") : s[n].of.outcome = "no match"

\* Deny policies first, then allow policies, each up to the first that
\* matches or cannot be evaluated.
Permits(s) ==
    LET Of(action) == {n \in DOMAIN s : s[n].of.action = action} IN
    /\ \A n \in Of("deny") : s[n].of.outcome = "no match"
    /\ \/ Of("allow") = {}
       \/ \E n \in Of("allow") :
            /\ s[n].of.outcome = "match"
            /\ \A m \in Of("allow") : m < n => s[m].of.outcome = "no match"

\* Evaluate, on instance i.
Allowed(i) == ~storeFailed[i] /\ Permits(policies[i])

-----------------------------------------------------------------------------
(* AddPolicy: the row first, then under the lock the list in memory          *)

Known == policyRows \cup withdrawn \cup (UNION Range(promised))
           \cup {a[2] : a \in adding} \cup (UNION {Range(policies[i]) : i \in Instance})

UsedIds == {p.id : p \in Known}

\* A fresh ID: which one it is does not matter.
NewPolicy(draft) ==
    [id |-> CHOOSE id \in PolicyId : id \notin UsedIds, of |-> draft]

\* The table accepts the row: names are unique in it.
RowAccepted(p) == Postgres => \A q \in policyRows : q.of.name # p.of.name

InsertRow(p) == policyRows' = IF Postgres THEN policyRows \cup {p} ELSE policyRows

AddBegin(i, draft) ==
    /\ ~(PolicyId \subseteq UsedIds)
    /\ RowAccepted(NewPolicy(draft))
    /\ InsertRow(NewPolicy(draft))
    /\ adding' = adding \cup {<<i, NewPolicy(draft)>>}
    /\ UNCHANGED <<policies, storeFailed, policyFaults, promised, withdrawn, removed>>

\* The insert was applied and reported as failed: nothing but the row is left.
AddFails(draft) ==
    /\ PolicyFault /\ Postgres
    /\ ~(PolicyId \subseteq UsedIds)
    /\ RowAccepted(NewPolicy(draft))
    /\ InsertRow(NewPolicy(draft))
    /\ UNCHANGED <<policies, storeFailed, adding, promised, withdrawn, removed>>

AddFinish(i, p) ==
    /\ <<i, p>> \in adding
    /\ adding' = adding \ {<<i, p>>}
    /\ \E s \in SortedLists(Range(policies[i]) \cup {p}) : policies' = [policies EXCEPT ![i] = s]
    /\ promised' = [promised EXCEPT ![i] = @ \cup ({p} \ withdrawn)]
    /\ UNCHANGED <<policyRows, storeFailed, policyFaults, withdrawn, removed>>

-----------------------------------------------------------------------------
(* RemovePolicy: the lock is held from the search to the end                 *)

Withdraw(p) ==
    /\ withdrawn' = withdrawn \cup {p}
    /\ promised' = [i \in Instance |-> promised[i] \ {p}]

\* The list without p.
Dropped(s, p) == RemoveAt(s, CHOOSE n \in DOMAIN s : s[n] = p)

\* Seeded fault: the policy is removed from memory only.
RemoveFromMemory(i, p) ==
    /\ p \in Range(policies[i])
    /\ policies' = [policies EXCEPT ![i] = Dropped(@, p)]
    /\ Withdraw(p)
    /\ removed' = [removed EXCEPT ![i] = @ \cup {p}]
    /\ UNCHANGED <<policyRows, storeFailed, adding, policyFaults>>

\* A policy without a row ("not found") stays in memory.
RemovePolicy(i, p) ==
    /\ p \in Range(policies[i])
    /\ Postgres => p \in policyRows
    /\ policyRows' = policyRows \ {p}
    /\ policies' = [policies EXCEPT ![i] = Dropped(@, p)]
    /\ Withdraw(p)
    /\ removed' = [removed EXCEPT ![i] = @ \cup {p}]
    /\ UNCHANGED <<storeFailed, adding, policyFaults>>

\* The deletion was applied and reported as failed.
RemovePolicyFails(i, p) ==
    /\ PolicyFault
    /\ p \in Range(policies[i]) \cap policyRows
    /\ policyRows' = policyRows \ {p}
    /\ Withdraw(p)
    /\ UNCHANGED <<policies, storeFailed, adding, removed>>

-----------------------------------------------------------------------------
(* The instance starts again: LoadFromStore                                  *)

Restarting(i) ==
    /\ adding' = {a \in adding : a[1] # i}
    /\ promised' = [promised EXCEPT ![i] = IF Postgres THEN UNION Range(promised) ELSE {}]
    /\ UNCHANGED <<policyRows, withdrawn, removed>>

\* Seeded fault: a policy that does not load is skipped.
LoadFromStoreSkipping(i) ==
    /\ Restarting(i)
    /\ \E S \in SUBSET policyRows : \E s \in SortedLists(S) : policies' = [policies EXCEPT ![i] = s]
    /\ storeFailed' = [storeFailed EXCEPT ![i] = FALSE]
    /\ UNCHANGED policyFaults

LoadFromStore(i) ==
    /\ Restarting(i)
    /\ \E s \in SortedLists(policyRows) : policies' = [policies EXCEPT ![i] = s]
    /\ storeFailed' = [storeFailed EXCEPT ![i] = FALSE]
    /\ UNCHANGED policyFaults

LoadFails(i) ==
    /\ PolicyFault /\ Postgres
    /\ Restarting(i)
    /\ policies' = [policies EXCEPT ![i] = <<>>]
    /\ storeFailed' = [storeFailed EXCEPT ![i] = TRUE]

PolicyNext ==
    \E i \in Instance :
      \/ \E draft \in Draft : AddBegin(i, draft) \/ AddFails(draft)
      \/ \E a \in adding : AddFinish(i, a[2])
      \/ \E p \in Range(policies[i]) : RemovePolicy(i, p) \/ RemovePolicyFails(i, p)
      \/ LoadFromStore(i) \/ LoadFails(i)

PolicySpec == PolicyInit /\ [][PolicyNext]_policyVars

-----------------------------------------------------------------------------
(* Properties                                                                *)

\* The decision table of ARCHITECTURE.md, for a set of policies: it knows no
\* order. A deny policy that cannot be evaluated denies.
TableAllows(P) ==
    /\ \A p \in P : p.of.action = "deny" => p.of.outcome = "no match"
    /\ (\E p \in P : p.of.action = "allow") =>
         \E p \in P : p.of.action = "allow" /\ p.of.outcome = "match"

\* Evaluate, which walks a list that loads and additions in any order have
\* built, decides as the table does for the set of the policies: whatever the
\* priorities are when every policy can be evaluated, and never more than it
\* allows when some cannot. An allow policy then decides only if no allow policy
\* of a higher priority failed to evaluate.
DecisionFollowsTable ==
    \A i \in Instance :
        LET P == Range(policies[i])
            Failing == {p \in P : p.of.outcome = "error"}
        IN  /\ Allowed(i) => TableAllows(P)
            /\ Failing = {} /\ ~storeFailed[i] => Allowed(i) = TableAllows(P)
            /\ Allowed(i) /\ (\E p \in P : p.of.action = "allow") =>
                 \E p \in P :
                   /\ p.of.action = "allow" /\ p.of.outcome = "match"
                   /\ \A q \in Failing : q.of.priority <= p.of.priority

\* A policy whose creation was answered, and that nobody asked to remove, is
\* applied by the instance that answered, and from its next start on by every
\* other one, however often instances restart, calls overlap and the store
\* fails: an instance that could not load applies nothing else either.
AnsweredPoliciesInForce ==
    \A i \in Instance : ~storeFailed[i] => promised[i] \subseteq Range(policies[i])

\* A policy whose removal an instance has answered is never applied by that
\* instance again, over restarts, additions under way and failed loads.
RemovedStaysRemoved ==
    \A i \in Instance : removed[i] \cap Range(policies[i]) = {}
=============================================================================
