------------------------------- MODULE Vault --------------------------------
(***************************************************************************)
(* The credentials of agents (internal/vault): sealed with the master key  *)
(* of the instance that serves the request (AGENTITY_VAULT_KEY, read at    *)
(* its start) and kept in one row per agent and name.                      *)
(***************************************************************************)
EXTENDS Deployment

CONSTANTS
    Credential,   \* the pairs of an agent and a credential name
    Secret,       \* the values clients store
    MasterKey,    \* what AGENTITY_VAULT_KEY can be; None if it is not set
    Nonce,        \* the random nonces of Seal
    Sealer,       \* the goroutines serving POST /agents/{id}/credentials
    MaxVaultFaults

ASSUME VaultAssumption == None \notin MasterKey /\ MaxVaultFaults \in Nat

VARIABLES
    masterKey,    \* the master key of each instance, None if the vault is off
    credentials,  \* the rows
    sealing,      \* per goroutine, the write it is about to make
    vaultFaults,  \* failures so far
    answered      \* history: what the last answered call left, where no call failed since

vaultVars == <<masterKey, credentials, sealing, vaultFaults, answered>>

Sealed == [under : MasterKey, nonce : Nonce, secret : Secret]
Row    == [value : Sealed, iv : Nonce]

\* A goroutine that serves nobody.
NoWrite == [at |-> None, name |-> None, row |-> {}]

VaultTypeOK ==
    /\ masterKey \in [Instance -> MasterKey \cup {None}]
    /\ DOMAIN credentials \subseteq Credential /\ Range(credentials) \subseteq Row
    /\ \A g \in Sealer :
         sealing[g] \in {NoWrite} \cup [at : Instance, name : Credential, row : {{r} : r \in Row}]
    /\ vaultFaults \in 0..MaxVaultFaults
    /\ DOMAIN answered \subseteq Credential
    /\ \A c \in DOMAIN answered : answered[c] \in {{}} \cup {{s} : s \in [under : MasterKey, secret : Secret]}

\* Before the instances start.
VaultInit ==
    /\ masterKey = [i \in Instance |-> None]
    /\ credentials = <<>> /\ vaultFaults = 0
    /\ sealing = [g \in Sealer |-> NoWrite]
    /\ answered = [c \in Credential |-> {}]

VaultFault == vaultFaults < MaxVaultFaults /\ vaultFaults' = vaultFaults + 1

\* f with c bound to x, and f without c.
With(f, c, x)   == [y \in DOMAIN f \cup {c} |-> IF y = c THEN x ELSE f[y]]
Without(f, c)   == [y \in DOMAIN f \ {c} |-> f[y]]

-----------------------------------------------------------------------------
(* Put                                                                       *)

\* Random, so not used before. Which one it is does not matter.
FreshNonces ==
    Nonce \ ({credentials[c].iv : c \in DOMAIN credentials}
        \cup {credentials[c].value.nonce : c \in DOMAIN credentials}
        \cup {r.iv : r \in UNION {sealing[g].row : g \in Sealer}})

\* Encrypt: GCM binds the ciphertext to the key and the nonce.
Encrypt(i, secret) ==
    LET nonce == CHOOSE n \in FreshNonces : TRUE
    IN  [value |-> [under |-> masterKey[i], nonce |-> nonce, secret |-> secret], iv |-> nonce]

PutBegin(g, i, c, secret) ==
    /\ sealing[g] = NoWrite
    /\ masterKey[i] # None /\ FreshNonces # {}
    /\ sealing' = [sealing EXCEPT ![g] = [at |-> i, name |-> c, row |-> {Encrypt(i, secret)}]]
    /\ UNCHANGED <<masterKey, credentials, vaultFaults, answered>>

\* Seeded fault: an update leaves the column iv as it was.
UpsertKeepsIv(c, row) ==
    With(credentials, c,
         IF c \in DOMAIN credentials THEN [row EXCEPT !.iv = credentials[c].iv] ELSE row)

\* Inserted, or all columns updated.
UpsertCredential(c, row) == With(credentials, c, row)

PutStore(g) == \E row \in sealing[g].row :
    LET c == sealing[g].name IN
    /\ credentials' = UpsertCredential(c, row)
    /\ answered' = With(answered, c, {[under |-> row.value.under, secret |-> row.value.secret]})
    /\ sealing' = [sealing EXCEPT ![g] = NoWrite]
    /\ UNCHANGED <<masterKey, vaultFaults>>

\* An error, written or not.
PutFails(g) == \E row \in sealing[g].row :
    /\ Postgres /\ VaultFault
    /\ \/ UNCHANGED credentials
       \/ credentials' = UpsertCredential(sealing[g].name, row)
    /\ answered' = Without(answered, sealing[g].name)
    /\ sealing' = [sealing EXCEPT ![g] = NoWrite]
    /\ UNCHANGED masterKey

-----------------------------------------------------------------------------
(* Delete and Get                                                            *)

\* Answered 204 if there was a row, by any instance whose vault is on.
DeleteCredential(i, c) ==
    /\ masterKey[i] # None
    /\ c \in DOMAIN credentials
    /\ credentials' = Without(credentials, c)
    /\ answered' = With(answered, c, {})
    /\ UNCHANGED <<masterKey, sealing, vaultFaults>>

\* An error, deleted or not.
DeleteFails(i, c) ==
    /\ Postgres /\ VaultFault
    /\ masterKey[i] # None
    /\ \/ UNCHANGED credentials
       \/ credentials' = Without(credentials, c)
    /\ answered' = Without(answered, c)
    /\ UNCHANGED <<masterKey, sealing>>

\* Decrypt: with another key or another nonce Open reports an error. All keys
\* have the version "local-v1", so it does not tell them apart.
Opens(i, row) == row.value.under = masterKey[i] /\ row.value.nonce = row.iv

\* The answer of an instance whose vault is on, if the database answers.
GetCredential(i, c) ==
    IF c \notin DOMAIN credentials THEN <<404>>
    ELSE IF Opens(i, credentials[c]) THEN <<200, credentials[c].value.secret>>
    ELSE <<500>>

-----------------------------------------------------------------------------
\* The instance stops, with what it was doing, and starts, with a master key
\* that may be another one. Rows in memory are lost with it. A write that was
\* under way is not made: PutFails is the case in which it is.
VaultRestart(i, key) ==
    /\ masterKey' = [masterKey EXCEPT ![i] = key]
    /\ sealing' = [g \in Sealer |-> IF sealing[g].at = i THEN NoWrite ELSE sealing[g]]
    /\ credentials' = IF Postgres THEN credentials ELSE <<>>
    /\ answered' = IF Postgres THEN answered ELSE [c \in Credential |-> {}]
    /\ UNCHANGED vaultFaults

VaultNext ==
    \/ \E g \in Sealer :
         \/ PutStore(g) \/ PutFails(g)
         \/ \E i \in Instance, c \in Credential, secret \in Secret : PutBegin(g, i, c, secret)
    \/ \E i \in Instance :
         \/ \E c \in Credential : DeleteCredential(i, c) \/ DeleteFails(i, c)
         \/ \E key \in MasterKey \cup {None} : VaultRestart(i, key)

VaultSpec == VaultInit /\ [][VaultNext]_vaultVars

-----------------------------------------------------------------------------
(* Properties                                                                *)

\* What the last answered call left is what every instance answers, whichever
\* instances and master keys wrote the row before: the secret with the key
\* under which it was sealed, an error and never another value with any other
\* key, and "not found" after a deletion. Changing AGENTITY_VAULT_KEY and
\* changing it back loses nothing.
LastAnswerIsRead ==
    \A c \in DOMAIN answered : \A i \in {j \in Instance : masterKey[j] # None} :
        GetCredential(i, c) =
            IF answered[c] = {} THEN <<404>>
            ELSE LET kept == CHOOSE s \in answered[c] : TRUE
                 IN  IF kept.under = masterKey[i] THEN <<200, kept.secret>> ELSE <<500>>
=============================================================================
