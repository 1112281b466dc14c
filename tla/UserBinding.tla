----------------------------- MODULE UserBinding ----------------------------
(***************************************************************************)
(* Users and their agents (internal/user): a person who shows an OIDC      *)
(* token is looked up by identity (external ID and issuer), created if     *)
(* not found, and bound to an agent. With a binding, tokens are issued to  *)
(* the agent on the person's behalf.                                       *)
(***************************************************************************)
EXTENDS Deployment

CONSTANTS
    Identity,    \* the people, as OIDC tokens name them
    UserId,      \* the IDs (fresh UUIDs) users can get
    Scope,       \* input: the scopes of a binding
    Binder,      \* the goroutines serving POST /users/bind
    MaxUserFaults

ASSUME UserAssumption == None \notin UserId /\ MaxUserFaults \in Nat

VARIABLES
    users,       \* the users on record: the identity of each user ID
    bindings,    \* the bindings on record, per user and agent
    bind,        \* what each goroutine is doing
    userFaults,  \* failures so far
    unbound,     \* history: answered revocations that no binding request may have undone
    granted      \* history: the scopes of answered bindings that nothing has changed since

userVars == <<users, bindings, bind, userFaults, unbound, granted>>

\* A goroutine that serves nobody.
NoBind == [pc |-> "idle", who |-> None, agent |-> None, scope |-> None, user |-> None]

UserTypeOK ==
    /\ DOMAIN users \subseteq UserId /\ Range(users) \subseteq Identity
    /\ DOMAIN bindings \subseteq (DOMAIN users) \X Agent
    /\ \A b \in DOMAIN bindings : bindings[b] \in [scope : Scope, active : BOOLEAN]
    /\ \A p \in Binder :
         \/ bind[p] = NoBind
         \/ /\ bind[p] \in [pc : {"lookup", "create", "bind"}, who : Identity, agent : Agent,
                            scope : Scope, user : UserId \cup {None}]
            /\ bind[p].pc = "bind" =>
                 bind[p].user \in DOMAIN users /\ users[bind[p].user] = bind[p].who
    /\ userFaults \in 0..MaxUserFaults
    /\ unbound \subseteq Identity \X Agent
    /\ DOMAIN granted \subseteq Identity \X Agent /\ Range(granted) \subseteq Scope

UserInit ==
    /\ users = <<>> /\ bindings = <<>> /\ userFaults = 0
    /\ bind = [p \in Binder |-> NoBind]
    /\ unbound = {} /\ granted = <<>>

\* f with g in front of it where g is defined.
Override(g, f) == [x \in DOMAIN g \cup DOMAIN f |-> IF x \in DOMAIN g THEN g[x] ELSE f[x]]

\* f without x.
Forget(f, x) == [y \in DOMAIN f \ {x} |-> f[y]]

Binding(pair) == {p \in Binder : <<bind[p].who, bind[p].agent>> = pair}

UserFault == userFaults < MaxUserFaults /\ userFaults' = userFaults + 1

-----------------------------------------------------------------------------
(* BindUserToAgent                                                           *)

\* The OIDC token is good.
BindBegin(p, who, agent, scope) ==
    /\ bind[p] = NoBind
    /\ bind' = [bind EXCEPT ![p] = [pc |-> "lookup", who |-> who, agent |-> agent,
                                    scope |-> scope, user |-> None]]
    /\ unbound' = unbound \ {<<who, agent>>}
    /\ granted' = Forget(granted, <<who, agent>>)
    /\ UNCHANGED <<users, bindings, userFaults>>

\* GetUserByExternalID finds one of these.
UsersOf(who) == {u \in DOMAIN users : users[u] = who}

BindLookup(p) ==
    /\ bind[p].pc = "lookup"
    /\ \/ \E u \in UsersOf(bind[p].who) :
            bind' = [bind EXCEPT ![p].pc = "bind", ![p].user = u]
       \/ /\ UsersOf(bind[p].who) = {}
          /\ bind' = [bind EXCEPT ![p].pc = "create"]
    /\ UNCHANGED <<users, bindings, userFaults, unbound, granted>>

\* The table accepts one user per identity; the memory store any number.
UserAccepted(who) == Postgres => UsersOf(who) = {}

\* A fresh ID: which one it is does not matter.
NewId == CHOOSE u \in UserId : u \notin DOMAIN users

InsertUser(who) ==
    /\ UserAccepted(who)
    /\ ~(UserId \subseteq DOMAIN users)
    /\ users' = Override([x \in {NewId} |-> who], users)

CreateUser(p) ==
    /\ bind[p].pc = "create"
    /\ InsertUser(bind[p].who)
    /\ bind' = [bind EXCEPT ![p].pc = "bind", ![p].user = NewId]
    /\ UNCHANGED <<bindings, userFaults, unbound, granted>>

\* Another request was faster: the caller gets an error and may try again.
CreateUserRefused(p) ==
    /\ bind[p].pc = "create"
    /\ ~UserAccepted(bind[p].who)
    /\ bind' = [bind EXCEPT ![p] = NoBind]
    /\ UNCHANGED <<users, bindings, userFaults, unbound, granted>>

\* Seeded fault: a binding that was revoked stays so.
UpsertKeepsRevocation(pair, scope) ==
    Override([x \in {pair} |->
        [scope |-> scope, active |-> pair \in DOMAIN bindings => bindings[pair].active]], bindings)

\* Inserted, or updated and no longer revoked.
Upsert(pair, scope) ==
    Override([x \in {pair} |-> [scope |-> scope, active |-> TRUE]], bindings)

\* The last write, and the answer. What it grants is known if no other request
\* for the same pair is under way.
CreateBinding(p) ==
    LET pair == <<bind[p].who, bind[p].agent>> IN
    /\ bind[p].pc = "bind"
    /\ bindings' = Upsert(<<bind[p].user, bind[p].agent>>, bind[p].scope)
    /\ bind' = [bind EXCEPT ![p] = NoBind]
    /\ granted' = IF Binding(pair) = {p}
                  THEN Override([x \in {pair} |-> bind[p].scope], granted)
                  ELSE Forget(granted, pair)
    /\ UNCHANGED <<users, userFaults, unbound>>

\* The request ends at its next write, applied or not: a failed call or a crash.
BindFails(p) ==
    /\ UserFault
    /\ bind[p].pc \in {"create", "bind"}
    /\ \/ UNCHANGED <<users, bindings>>
       \/ bind[p].pc = "create" /\ InsertUser(bind[p].who) /\ UNCHANGED bindings
       \/ /\ bind[p].pc = "bind"
          /\ bindings' = Upsert(<<bind[p].user, bind[p].agent>>, bind[p].scope)
          /\ UNCHANGED users
    /\ bind' = [bind EXCEPT ![p] = NoBind]
    /\ granted' = Forget(granted, <<bind[p].who, bind[p].agent>>)
    /\ UNCHANGED unbound

-----------------------------------------------------------------------------
(* RevokeBinding, answered only if there was an active binding               *)

RevokeBinding(user, agent) ==
    LET pair == <<users[user], agent>> IN
    /\ <<user, agent>> \in DOMAIN bindings /\ bindings[<<user, agent>>].active
    /\ bindings' = [bindings EXCEPT ![<<user, agent>>].active = FALSE]
    /\ unbound' = IF Binding(pair) = {} THEN unbound \cup {pair} ELSE unbound
    /\ granted' = Forget(granted, pair)
    /\ UNCHANGED <<users, bind, userFaults>>

UserNext ==
    \/ \E p \in Binder :
         \/ \E who \in Identity, agent \in Agent, scope \in Scope : BindBegin(p, who, agent, scope)
         \/ BindLookup(p) \/ CreateUser(p) \/ CreateUserRefused(p)
         \/ CreateBinding(p) \/ BindFails(p)
    \/ \E user \in DOMAIN users, agent \in Agent : RevokeBinding(user, agent)

UserSpec == UserInit /\ [][UserNext]_userVars

-----------------------------------------------------------------------------
(* Properties                                                                *)

\* Seeded fault: the active bindings of whoever is bound to the agent.
ActingForAnyone(who, agent) ==
    {b \in DOMAIN bindings : b[2] = agent /\ bindings[b].active}

\* The active bindings IssueToken may find for the person: the user is looked
\* up by identity, then the binding. Users never change, so the two reads see
\* what one would.
ActingFor(who, agent) ==
    {b \in DOMAIN bindings : b[1] \in UsersOf(who) /\ b[2] = agent /\ bindings[b].active}

\* Once a revocation is answered, and until somebody asks for a new binding, no
\* token is issued to the agent for that person, through whatever user record:
\* first bindings that race must not leave two of them (with Postgres, where
\* the constraint refuses the second one).
UnboundStaysUnbound ==
    Postgres => \A pair \in unbound : ActingFor(pair[1], pair[2]) = {}

\* An answered binding, also one that replaces a revoked one, is what IssueToken
\* finds, with the scopes of the answer, until the next request for the pair:
\* whichever user record the identity leads it to (with Postgres, where racing
\* first bindings leave one record; the memory store may have several, of which
\* one has the binding).
AnsweredBindingInForce ==
    Postgres =>
        \A pair \in DOMAIN granted :
            /\ UsersOf(pair[1]) # {}
            /\ \A user \in UsersOf(pair[1]) :
                 LET b == <<user, pair[2]>> IN
                 b \in ActingFor(pair[1], pair[2]) /\ bindings[b].scope = granted[pair]
=============================================================================
