------------------------------ MODULE RootKey -------------------------------
(***************************************************************************)
(* The root key of an installation (pkg/crypto/keys.go, main.go): read     *)
(* from a file when a process starts, or generated and written to it. It   *)
(* signs the first block of every token and every audit entry.             *)
(***************************************************************************)
EXTENDS Deployment

CONSTANTS
    RootKeyPair    \* the key pairs that can be generated

ASSUME RootKeyAssumption == None \notin RootKeyPair

VARIABLES
    keyFile,    \* {} if there is none, {None} if it holds no key, {k} if it holds k
    process,    \* what each instance is doing, and the key it holds
    signedWith  \* history: the keys that have signed something

rootVars == <<keyFile, process, signedWith>>

Stopped == [pc |-> "down", key |-> None]

RootTypeOK ==
    /\ keyFile \in {{}, {None}} \cup {{k} : k \in RootKeyPair}
    /\ \A i \in Instance :
         process[i] \in {Stopped} \cup [pc : {"writing", "up"}, key : RootKeyPair]
    /\ signedWith \subseteq RootKeyPair

RootInit ==
    /\ keyFile = {} /\ signedWith = {}
    /\ process = [i \in Instance |-> Stopped]

\* Instances that share the file are started one after another: the code has no
\* lock on the file.
Starting(i) ==
    /\ process[i] = Stopped
    /\ \A j \in Instance : process[j].pc # "writing"

\* The file holds a key. (With one that cannot be parsed the process stops.)
LoadRootKey(i) == \E k \in RootKeyPair :
    /\ Starting(i)
    /\ keyFile = {k}
    /\ process' = [process EXCEPT ![i] = [pc |-> "up", key |-> k]]
    /\ UNCHANGED <<keyFile, signedWith>>

\* Which fresh key pair it is does not matter.
GenerateKeyPair ==
    CHOOSE k \in RootKeyPair : k \notin signedWith \cup {process[i].key : i \in Instance}

\* There is none: WriteFile creates it empty, then writes.
CreateRootKey(i) ==
    /\ Starting(i)
    /\ keyFile = {}
    /\ ~(RootKeyPair \subseteq signedWith \cup {process[j].key : j \in Instance})
    /\ keyFile' = {None}
    /\ process' = [process EXCEPT ![i] = [pc |-> "writing", key |-> GenerateKeyPair]]
    /\ UNCHANGED signedWith

RootKeyWritten(i) ==
    /\ process[i].pc = "writing"
    /\ keyFile' = {process[i].key}
    /\ process' = [process EXCEPT ![i].pc = "up"]
    /\ UNCHANGED signedWith

\* Seeded fault: the error of WriteFile is dropped.
WriteFailsSilently(i) ==
    /\ process[i].pc = "writing"
    /\ process' = [process EXCEPT ![i].pc = "up"]
    /\ UNCHANGED <<keyFile, signedWith>>

\* The process stops without having served, the key written or not.
WriteFails(i) ==
    /\ process[i].pc = "writing"
    /\ keyFile' \in {keyFile, {process[i].key}}
    /\ process' = [process EXCEPT ![i] = Stopped]
    /\ UNCHANGED signedWith

\* Tokens and audit entries.
SignWithRootKey(i) ==
    /\ process[i].pc = "up"
    /\ signedWith' = signedWith \cup {process[i].key}
    /\ UNCHANGED <<keyFile, process>>

\* Stopped, or crashed: during the start this is WriteFails.
StopServer(i) ==
    /\ process[i].pc = "up"
    /\ process' = [process EXCEPT ![i] = Stopped]
    /\ UNCHANGED <<keyFile, signedWith>>

\* The operator removes a file that no start accepts.
RemoveKeyFile ==
    /\ keyFile = {None}
    /\ \A i \in Instance : process[i].pc # "writing"
    /\ keyFile' = {}
    /\ UNCHANGED <<process, signedWith>>

RootNext ==
    \/ \E i \in Instance :
         \/ LoadRootKey(i) \/ CreateRootKey(i) \/ RootKeyWritten(i) \/ WriteFails(i)
         \/ SignWithRootKey(i) \/ StopServer(i)
    \/ RemoveKeyFile

RootSpec == RootInit /\ [][RootNext]_rootVars

-----------------------------------------------------------------------------
(* Properties                                                                *)

\* Every signature made so far verifies with the key of every running instance,
\* after any number of stops, crashes during the first start and removed files:
\* "This ensures token signatures survive server restarts" (keys.go:153).
SignaturesSurviveRestarts ==
    \A i \in Instance : process[i].pc = "up" => signedWith \subseteq {process[i].key}
=============================================================================
