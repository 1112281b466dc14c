--------------------------- MODULE ServicesProofs ---------------------------
(***************************************************************************)
(* The components beside the agent lifecycle: for each one an inductive    *)
(* invariant, and the properties of the component for any number of        *)
(* instances, goroutines, records and failures. The last section puts the  *)
(* types of all of them together, as the interleaving of MCServices does.  *)
(***************************************************************************)
EXTENDS MCServices, FiniteSetTheorems, SequenceTheorems, WellFoundedInduction, TLAPS

-----------------------------------------------------------------------------
(* The root key                                                              *)

\* Whoever signs has the key of the file, so the file is not touched once a key
\* has signed something.
RootInv ==
    /\ RootTypeOK /\ DOMAIN process = Instance
    /\ \A i \in Instance :
         /\ process[i].pc = "up" => keyFile = {process[i].key}
         /\ process[i].pc = "writing" => keyFile = {None}
    /\ \A i, j \in Instance : process[i].pc = "writing" /\ process[j].pc = "writing" => i = j
    /\ signedWith \subseteq keyFile

LEMMA RootInitInv == RootInit => RootInv
BY DEF RootInit, RootInv, RootTypeOK, Stopped

LEMMA RootNextInv == RootInv /\ [RootNext]_rootVars => RootInv'
<1> SUFFICES ASSUME RootInv, [RootNext]_rootVars PROVE RootInv'
  OBVIOUS
<1>1. ASSUME NEW i \in Instance, LoadRootKey(i) PROVE RootInv'
  BY <1>1, RootKeyAssumption DEF RootInv, RootTypeOK, LoadRootKey, Starting, Stopped
<1>2. ASSUME NEW i \in Instance, CreateRootKey(i) PROVE RootInv'
  <2>1. GenerateKeyPair \in RootKeyPair
    BY <1>2 DEF CreateRootKey, GenerateKeyPair
  <2> QED
    BY <1>2, <2>1 DEF RootInv, RootTypeOK, CreateRootKey, Starting, Stopped
<1>3. ASSUME NEW i \in Instance, RootKeyWritten(i) PROVE RootInv'
  BY <1>3, RootKeyAssumption DEF RootInv, RootTypeOK, RootKeyWritten, Stopped
<1>4. ASSUME NEW i \in Instance, WriteFails(i) PROVE RootInv'
  BY <1>4, RootKeyAssumption DEF RootInv, RootTypeOK, WriteFails, Stopped
<1>5. ASSUME NEW i \in Instance, SignWithRootKey(i) PROVE RootInv'
  BY <1>5 DEF RootInv, RootTypeOK, SignWithRootKey, Stopped
<1>6. ASSUME NEW i \in Instance, StopServer(i) PROVE RootInv'
  BY <1>6 DEF RootInv, RootTypeOK, StopServer, Stopped
<1>7. CASE RemoveKeyFile
  BY <1>7, RootKeyAssumption DEF RootInv, RootTypeOK, RemoveKeyFile, Stopped
<1>8. CASE UNCHANGED rootVars
  BY <1>8 DEF RootInv, RootTypeOK, rootVars
<1> QED
  BY <1>1, <1>2, <1>3, <1>4, <1>5, <1>6, <1>7, <1>8 DEF RootNext

\* The key of the installation never changes once it has signed something,
\* whatever instances start, stop and crash, one first start at a time
\* (LoadOrGenerateRootKey, keys.go).
THEOREM SignaturesOutliveRestarts == RootSpec => []SignaturesSurviveRestarts
<1>1. RootInv => SignaturesSurviveRestarts
  BY DEF RootInv, SignaturesSurviveRestarts
<1> QED
  BY <1>1, RootInitInv, RootNextInv, PTL DEF RootSpec

-----------------------------------------------------------------------------
(* Approvals                                                                 *)

\* A webhook under way has not been delivered; what was answered is on record.
ApprovalInv ==
    /\ ApprovalTypeOK
    /\ AnswersMatchRecord /\ NotifiedIsOnRecord
    /\ \A id \in notifying : notified[id] = 0
    /\ refused \subseteq DOMAIN approvals

LEMMA ApprovalInitInv == ApprovalInit => ApprovalInv
<1> SUFFICES ASSUME ApprovalInit PROVE ApprovalInv
  OBVIOUS
<1>1. DOMAIN approvals = {}
  BY DEF ApprovalInit
<1>2. ApprovalTypeOK
  BY <1>1, ApprovalAssumption DEF ApprovalInit, ApprovalTypeOK
<1> QED
  BY <1>1, <1>2 DEF ApprovalInit, ApprovalInv, AnswersMatchRecord, NotifiedIsOnRecord

\* A verdict is not "pending".
LEMMA DecisionIsVerdict == \A d \in Decision : d.status \in Verdict /\ d # Pending
BY DEF Decision, Verdict, Pending

\* What can still be decided has not been.
LEMMA OpenIsUndecided ==
    ASSUME ApprovalInv, NEW id \in ApprovalId, Open(id)
    PROVE  decided[id] = <<>> /\ id \notin refused /\ id \in DOMAIN approvals
<1>1. id \in DOMAIN approvals /\ approvals[id].status \notin Verdict
  BY DEF Open, Verdict
<1>2. ASSUME decided[id] # <<>> PROVE FALSE
  <2>1. decided[id] \in Seq(Decision) /\ approvals[id] = decided[id][1]
    BY <1>2 DEF ApprovalInv, ApprovalTypeOK, AnswersMatchRecord
  <2>2. decided[id][1] \in Decision
    BY <1>2, <2>1
  <2> QED
    BY <1>1, <2>1, <2>2, DecisionIsVerdict
<1> QED
  BY <1>1, <1>2 DEF ApprovalInv, AnswersMatchRecord

LEMMA ApprovalNextInv == ApprovalInv /\ [ApprovalNext]_approvalVars => ApprovalInv'
<1> SUFFICES ASSUME ApprovalInv, [ApprovalNext]_approvalVars PROVE ApprovalInv'
  OBVIOUS
<1> USE ApprovalAssumption DEF ApprovalInv, ApprovalTypeOK, AnswersMatchRecord, NotifiedIsOnRecord
<1>1. ASSUME NEW id \in ApprovalId, NEW webhook \in BOOLEAN, RequestApproval(id, webhook)
      PROVE  ApprovalInv'
  BY <1>1 DEF RequestApproval, Fresh, Put
<1>2. ASSUME NEW id \in ApprovalId, RequestFails(id) PROVE ApprovalInv'
  BY <1>2 DEF RequestFails, Fresh, Put, ApprovalFault
<1>3. ASSUME NEW id \in ApprovalId, FireWebhook(id) PROVE ApprovalInv'
  BY <1>3 DEF FireWebhook
<1>4. ASSUME NEW id \in ApprovalId, NEW decision \in Decision, Decide(id, decision)
      PROVE  ApprovalInv'
  <2>1. decided[id] = <<>> /\ id \notin refused /\ id \in DOMAIN approvals
    BY <1>4, OpenIsUndecided DEF Decide
  <2>2. decided'[id] = <<decision>>
    BY <1>4, <2>1 DEF Decide
  <2>3. /\ DOMAIN approvals' = DOMAIN approvals /\ approvals'[id] = decision
        /\ \A x \in DOMAIN approvals \ {id} : approvals'[x] = approvals[x]
    BY <1>4 DEF Decide, Open, Put
  <2>4. /\ \A x \in ApprovalId \ {id} : decided'[x] = decided[x]
        /\ decided' \in [ApprovalId -> Seq(Decision)]
    BY <1>4 DEF Decide
  <2>5. ApprovalTypeOK'
    BY <1>4, <2>3, <2>4 DEF Decide
  <2>6. \A x \in ApprovalId \ {id} : x \in refused => x \in DOMAIN approvals \ {id}
    OBVIOUS
  <2>7. AnswersMatchRecord'
    <3>1. refused' = refused
      BY <1>4 DEF Decide
    <3>2. Len(decided'[id]) = 1 /\ decided'[id][1] = decision
      BY <2>2
    <3> SUFFICES ASSUME NEW x \in ApprovalId
                 PROVE  /\ Len(decided'[x]) <= 1
                        /\ decided'[x] # <<>> =>
                             x \in DOMAIN approvals' /\ approvals'[x] = decided'[x][1]
                        /\ x \in refused' => approvals'[x].status \in Verdict
      BY DEF AnswersMatchRecord
    <3>3. CASE x = id
      <4>1. decided'[x] # <<>> =>
              x \in DOMAIN approvals' /\ approvals'[x] = decided'[x][1]
        BY <2>1, <2>3, <3>2, <3>3
      <4>2. Len(decided'[x]) = 1
        BY <3>2, <3>3
      <4>3. x \notin refused'
        BY <2>1, <3>1, <3>3
      <4> QED
        BY <4>1, <4>2, <4>3
    <3>4. CASE x # id
      <4>1. decided'[x] = decided[x]
        BY <2>4, <3>4
      <4>2. x \in DOMAIN approvals => x \in DOMAIN approvals' /\ approvals'[x] = approvals[x]
        BY <2>3, <3>4
      <4>3. /\ Len(decided[x]) <= 1
            /\ decided[x] # <<>> => x \in DOMAIN approvals /\ approvals[x] = decided[x][1]
            /\ x \in refused => x \in DOMAIN approvals /\ approvals[x].status \in Verdict
        OBVIOUS
      <4> QED
        BY <3>1, <4>1, <4>2, <4>3
    <3> QED
      BY <3>3, <3>4
  <2>8. NotifiedIsOnRecord'
    BY <1>4, <2>3 DEF Decide
  <2>9. (\A x \in notifying : notified[x] = 0)' /\ refused' \subseteq DOMAIN approvals'
    BY <1>4, <2>3 DEF Decide
  <2> QED
    BY <2>5, <2>7, <2>8, <2>9
<1>5. ASSUME NEW id \in ApprovalId, NEW decision \in Decision, DecideFails(id, decision)
      PROVE  ApprovalInv'
  BY <1>5, OpenIsUndecided DEF DecideFails, Put, ApprovalFault
<1>6. ASSUME NEW id \in ApprovalId, DecideRefused(id) PROVE ApprovalInv'
  <2>1. approvals[id].status \in Verdict
    BY <1>6, DecisionIsVerdict DEF DecideRefused, Open, Pending
  <2>2. ApprovalTypeOK'
    BY <1>6 DEF DecideRefused
  <2>3. AnswersMatchRecord'
    BY <1>6, <2>1 DEF DecideRefused
  <2>4. NotifiedIsOnRecord'
    BY <1>6 DEF DecideRefused
  <2>5. (\A x \in notifying : notified[x] = 0)' /\ refused' \subseteq DOMAIN approvals'
    BY <1>6 DEF DecideRefused
  <2> QED
    BY <2>2, <2>3, <2>4, <2>5
<1>7. CASE ApprovalRestart
  <2>1. CASE Postgres
    BY <1>7, <2>1 DEF ApprovalRestart
  <2>2. CASE ~Postgres
    <3>1. DOMAIN approvals' = {}
      BY <1>7, <2>2 DEF ApprovalRestart
    <3>2. ApprovalTypeOK'
      <4>1. <<>> \in Seq(Decision)
        OBVIOUS
      <4>2. decided' \in [ApprovalId -> Seq(Decision)]
        BY <1>7, <2>2, <4>1 DEF ApprovalRestart
      <4>3. notified' \in [ApprovalId -> Nat]
        BY <1>7, <2>2 DEF ApprovalRestart
      <4> QED
        BY <1>7, <2>2, <3>1, <4>2, <4>3 DEF ApprovalRestart
    <3>3. AnswersMatchRecord'
      <4>1. /\ decided' = [id \in ApprovalId |-> <<>>]
            /\ refused' = {}
        BY <1>7, <2>2 DEF ApprovalRestart
      <4>2. Len(<<>>) = 0
        OBVIOUS
      <4> SUFFICES ASSUME NEW id \in ApprovalId
                   PROVE  /\ Len(decided'[id]) <= 1
                          /\ decided'[id] = <<>> /\ id \notin refused'
        OBVIOUS
      <4>3. decided'[id] = <<>> /\ id \notin refused'
        BY <4>1
      <4> QED
        BY <4>2, <4>3
    <3>4. NotifiedIsOnRecord'
      BY <1>7, <2>2, <3>1 DEF ApprovalRestart
    <3>5. (\A x \in notifying : notified[x] = 0)' /\ refused' \subseteq DOMAIN approvals'
      BY <1>7, <2>2, <3>1 DEF ApprovalRestart
    <3> QED
      BY <3>2, <3>3, <3>4, <3>5
  <2> QED
    BY <2>1, <2>2
<1>8. CASE UNCHANGED approvalVars
  BY <1>8 DEF approvalVars
<1> QED
  BY <1>1, <1>2, <1>3, <1>4, <1>5, <1>6, <1>7, <1>8 DEF ApprovalNext

\* A request is decided at most once and for good, and who asks again is told so
\* only then, for any number of approvers, failures and restarts (Approve and
\* Deny, internal/approval).
THEOREM DecidedOnce == ApprovalSpec => []AnswersMatchRecord
<1>1. ApprovalInv => AnswersMatchRecord
  BY DEF ApprovalInv
<1> QED
  BY <1>1, ApprovalInitInv, ApprovalNextInv, PTL DEF ApprovalSpec

\* Nobody is told of a request that is not on record, or twice.
THEOREM NotifiedOnce == ApprovalSpec => []NotifiedIsOnRecord
<1>1. ApprovalInv => NotifiedIsOnRecord
  BY DEF ApprovalInv
<1> QED
  BY <1>1, ApprovalInitInv, ApprovalNextInv, PTL DEF ApprovalSpec

-----------------------------------------------------------------------------
(* The audit log                                                             *)

AuditInv ==
    /\ latest \in Nat /\ started \in 0..latest /\ persistFailures \in Nat
    /\ entries \in Seq(Nat) /\ Len(entries) <= latest - started
    /\ DOMAIN writing \subseteq (started + 1)..latest
    /\ BufferKeepsNewest
    /\ UnpersistedAreCounted

\* The entries UnpersistedAreCounted is about.
Unpersisted == ((started + 1)..latest) \ (auditRows \cup DOMAIN writing)

LEMMA UnpersistedIsFinite ==
    ASSUME AuditInv
    PROVE  IsFiniteSet(Unpersisted) /\ Cardinality(Unpersisted) \in Nat
           /\ Cardinality(Unpersisted) <= persistFailures
<1>1. IsFiniteSet((started + 1)..latest)
  BY FS_Interval DEF AuditInv
<1> QED
  BY <1>1, FS_Subset, FS_CardinalityType DEF AuditInv, Unpersisted, UnpersistedAreCounted

LEMMA AuditInitInv == AuditInit => AuditInv
<1> SUFFICES ASSUME AuditInit PROVE AuditInv
  OBVIOUS
<1>1. /\ entries = <<>> /\ Len(entries) = 0 /\ entries \in Seq(Nat) /\ DOMAIN writing = {}
      /\ latest = 0 /\ started = 0 /\ persistFailures = 0
  BY DEF AuditInit
<1>2. Cardinality(((started + 1)..latest) \ (auditRows \cup DOMAIN writing)) = 0
  <2>1. ((started + 1)..latest) \ (auditRows \cup DOMAIN writing) = {}
    BY <1>1
  <2> QED
    BY <2>1, FS_EmptySet
<1>3. UnpersistedAreCounted
  BY <1>1, <1>2 DEF UnpersistedAreCounted
<1>4. BufferKeepsNewest
  BY <1>1, AuditAssumption DEF BufferKeepsNewest
<1> QED
  BY <1>1, <1>3, <1>4 DEF AuditInv

\* A step that leaves the buffer and the numbers alone.
LEMMA BufferUntouched ==
    ASSUME AuditInv, UNCHANGED <<entries, latest, started>>
    PROVE  BufferKeepsNewest'
BY DEF AuditInv, BufferKeepsNewest

LEMMA LogInv ==
    ASSUME AuditInv, Log
    PROVE  AuditInv'
<1> USE AuditAssumption
<1> DEFINE kept == Evict(entries)
           logged == latest - started
<1>1. /\ latest' = latest + 1 /\ entries' = Append(kept, latest + 1) /\ started' = started
      /\ persistFailures' = persistFailures /\ auditRows' = auditRows
      /\ DOMAIN writing' = DOMAIN writing \cup {latest + 1}
  BY DEF Log
<1>2. /\ latest \in Nat /\ started \in 0..latest /\ entries \in Seq(Nat) /\ Len(entries) \in Nat
      /\ persistFailures \in Nat
      /\ logged \in Nat /\ BufferCap \in Nat /\ EvictCount \in 1..BufferCap
  BY DEF AuditInv
<1>3. /\ Len(entries) <= BufferCap /\ Len(entries) <= logged
      /\ Len(entries) >= IF logged <= BufferCap THEN logged ELSE (BufferCap - EvictCount) + 1
      /\ \A n \in 1..Len(entries) : entries[n] = (latest - Len(entries)) + n
  BY <1>2 DEF AuditInv, BufferKeepsNewest
<1>4. /\ kept \in Seq(Nat)
      /\ Len(kept) = IF Len(entries) >= BufferCap THEN Len(entries) - EvictCount ELSE Len(entries)
      /\ \A n \in 1..Len(kept) : kept[n] = (latest - Len(kept)) + n
  <2>1. CASE Len(entries) >= BufferCap
    <3>1. kept = SubSeq(entries, EvictCount + 1, Len(entries))
      BY <2>1 DEF Evict
    <3>2. /\ kept \in Seq(Nat) /\ Len(kept) = Len(entries) - EvictCount
          /\ \A n \in 1..Len(kept) : kept[n] = entries[n + EvictCount]
      BY <1>2, <1>3, <2>1, <3>1, SubSeqProperties
    <3> HIDE DEF kept
    <3>3. \A n \in 1..Len(kept) : kept[n] = (latest - Len(kept)) + n
      <4> SUFFICES ASSUME NEW n \in 1..Len(kept) PROVE kept[n] = (latest - Len(kept)) + n
        OBVIOUS
      <4>1. n + EvictCount \in 1..Len(entries)
        BY <1>2, <3>2
      <4>2. entries[n + EvictCount] = (latest - Len(entries)) + (n + EvictCount)
        BY <1>3, <4>1
      <4> QED
        BY <1>2, <3>2, <4>2
    <3> QED
      BY <2>1, <3>2, <3>3
  <2>2. CASE ~(Len(entries) >= BufferCap)
    <3>1. kept = entries
      BY <2>2 DEF Evict
    <3> HIDE DEF kept
    <3> QED
      BY <1>2, <1>3, <2>2, <3>1
  <2> QED
    BY <2>1, <2>2
<1> HIDE DEF kept
<1>5. /\ entries' \in Seq(Nat) /\ Len(entries') = Len(kept) + 1 /\ Len(kept) \in Nat
      /\ \A n \in 1..Len(kept) : entries'[n] = kept[n]
      /\ entries'[Len(kept) + 1] = latest + 1
  BY <1>1, <1>2, <1>4
<1>6. \A n \in 1..Len(entries') : entries'[n] = (latest' - Len(entries')) + n
  <2> SUFFICES ASSUME NEW n \in 1..Len(entries') PROVE entries'[n] = (latest' - Len(entries')) + n
    OBVIOUS
  <2>1. CASE n = Len(kept) + 1
    BY <1>1, <1>2, <1>5, <2>1
  <2>2. CASE n # Len(kept) + 1
    <3>1. n \in 1..Len(kept)
      BY <1>5, <2>2
    <3>2. n \in Nat /\ entries'[n] = (latest - Len(kept)) + n
      BY <1>4, <1>5, <3>1
    <3>3. latest' - Len(entries') = latest - Len(kept)
      BY <1>1, <1>2, <1>5
    <3> QED
      BY <3>2, <3>3
  <2> QED
    BY <2>1, <2>2
<1>7. /\ Len(entries') <= BufferCap /\ Len(entries') <= latest' - started'
      /\ Len(entries') >= IF latest' - started' <= BufferCap THEN latest' - started'
                          ELSE (BufferCap - EvictCount) + 1
  <2>1. CASE Len(entries) >= BufferCap
    BY <1>1, <1>2, <1>3, <1>4, <1>5, <2>1
  <2>2. CASE ~(Len(entries) >= BufferCap)
    BY <1>1, <1>2, <1>3, <1>4, <1>5, <2>2
  <2> QED
    BY <2>1, <2>2
<1>8. BufferKeepsNewest'
  BY <1>1, <1>2, <1>5, <1>6, <1>7 DEF BufferKeepsNewest
<1>9. UnpersistedAreCounted'
  <2>1. Unpersisted' = Unpersisted
    BY <1>1, <1>2 DEF Unpersisted
  <2> QED
    BY <1>1, <2>1, UnpersistedIsFinite DEF UnpersistedAreCounted, Unpersisted
<1> QED
  BY <1>1, <1>2, <1>5, <1>7, <1>8, <1>9 DEF AuditInv

\* A step after which at most one more entry is unpersisted than was, and counted
\* then.
LEMMA StillCounted ==
    ASSUME AuditInv, NEW e,
           \/ Unpersisted' \subseteq Unpersisted /\ persistFailures' = persistFailures
           \/ /\ Unpersisted' \subseteq Unpersisted \cup {e}
              /\ persistFailures' = persistFailures + 1
    PROVE  UnpersistedAreCounted'
<1>1. /\ IsFiniteSet(Unpersisted) /\ Cardinality(Unpersisted) \in Nat /\ persistFailures \in Nat
      /\ Cardinality(Unpersisted) <= persistFailures
  BY UnpersistedIsFinite DEF AuditInv
<1>2. CASE Unpersisted' \subseteq Unpersisted /\ persistFailures' = persistFailures
  <2>1. Cardinality(Unpersisted') <= Cardinality(Unpersisted) /\ Cardinality(Unpersisted') \in Nat
    BY <1>1, <1>2, FS_Subset, FS_CardinalityType
  <2>2. Cardinality(Unpersisted') <= persistFailures'
    BY <1>1, <1>2, <2>1
  <2> QED
    BY <2>2 DEF UnpersistedAreCounted, Unpersisted
<1>3. CASE Unpersisted' \subseteq Unpersisted \cup {e} /\ persistFailures' = persistFailures + 1
  <2>1. /\ IsFiniteSet(Unpersisted \cup {e})
        /\ Cardinality(Unpersisted \cup {e}) \in Nat
        /\ Cardinality(Unpersisted \cup {e}) <= Cardinality(Unpersisted) + 1
    <3>1. IsFiniteSet(Unpersisted \cup {e})
      BY <1>1, FS_AddElement
    <3>2. Cardinality(Unpersisted \cup {e}) \in {Cardinality(Unpersisted), Cardinality(Unpersisted) + 1}
      BY <1>1, FS_AddElement
    <3> HIDE DEF Unpersisted
    <3> QED
      BY <1>1, <3>1, <3>2
  <2>2. /\ Cardinality(Unpersisted') <= Cardinality(Unpersisted \cup {e})
        /\ Cardinality(Unpersisted') \in Nat
    BY <1>3, <2>1, FS_Subset, FS_CardinalityType
  <2>3. Cardinality(Unpersisted') <= persistFailures'
    BY <1>1, <1>3, <2>1, <2>2
  <2> QED
    BY <2>3 DEF UnpersistedAreCounted, Unpersisted
<1> QED
  BY <1>2, <1>3

LEMMA AuditNextInv == AuditInv /\ [AuditNext]_auditVars => AuditInv'
<1> SUFFICES ASSUME AuditInv, [AuditNext]_auditVars PROVE AuditInv'
  OBVIOUS
<1>1. CASE Log
  BY <1>1, LogInv
<1>2. CASE AuditRestart
  <2>1. /\ entries' = <<>> /\ Len(entries') = 0 /\ entries' \in Seq(Nat) /\ DOMAIN writing' = {}
        /\ latest' = latest /\ started' = latest /\ persistFailures' = 0 /\ latest \in Nat
    BY <1>2 DEF AuditRestart, AuditInv
  <2>2. Unpersisted' = {}
    BY <2>1 DEF Unpersisted
  <2>3. Cardinality(Unpersisted') = 0
    BY <2>2, FS_EmptySet
  <2>4. UnpersistedAreCounted'
    BY <2>1, <2>3 DEF UnpersistedAreCounted, Unpersisted
  <2>5. BufferKeepsNewest'
    BY <2>1, AuditAssumption DEF BufferKeepsNewest
  <2> QED
    BY <2>1, <2>4, <2>5 DEF AuditInv
<1>3. ASSUME NEW e \in 1..latest, Persisted(e) PROVE AuditInv'
  <2>1. /\ auditRows' = auditRows \cup {e} /\ DOMAIN writing' = DOMAIN writing \ {e}
        /\ UNCHANGED <<entries, persistFailures, latest, started>>
    BY <1>3 DEF Persisted, Ended
  <2>2. Unpersisted' \subseteq Unpersisted
    BY <2>1 DEF Unpersisted
  <2> QED
    BY <2>1, <2>2, StillCounted, BufferUntouched DEF AuditInv
<1>4. ASSUME NEW e \in 1..latest, AttemptFails(e) PROVE AuditInv'
  <2>1. auditRows \subseteq auditRows' /\ UNCHANGED <<entries, latest, started>>
    BY <1>4 DEF AttemptFails
  <2>2. CASE TryAgain(e)
    <3>1. DOMAIN writing' = DOMAIN writing /\ persistFailures' = persistFailures
      BY <2>2 DEF TryAgain
    <3>2. Unpersisted' \subseteq Unpersisted
      BY <2>1, <3>1 DEF Unpersisted
    <3> QED
      BY <2>1, <3>1, <3>2, StillCounted, BufferUntouched DEF AuditInv
  <2>3. CASE GiveUp(e)
    <3>1. DOMAIN writing' = DOMAIN writing \ {e} /\ persistFailures' = persistFailures + 1
      BY <2>3 DEF GiveUp, Ended
    <3>2. Unpersisted' \subseteq Unpersisted \cup {e}
      BY <2>1, <3>1 DEF Unpersisted
    <3>3. UnpersistedAreCounted'
      BY <3>1, <3>2, StillCounted
    <3>4. BufferKeepsNewest'
      BY <2>1, BufferUntouched
    <3>5. persistFailures' \in Nat /\ DOMAIN writing' \subseteq DOMAIN writing
      BY <3>1 DEF AuditInv
    <3> QED
      BY <2>1, <3>3, <3>4, <3>5 DEF AuditInv
  <2> QED
    BY <1>4, <2>2, <2>3 DEF AttemptFails
<1>5. CASE UNCHANGED auditVars
  BY <1>5 DEF auditVars, AuditInv, BufferKeepsNewest, UnpersistedAreCounted
<1> QED
  BY <1>1, <1>2, <1>3, <1>4, <1>5 DEF AuditNext

\* The buffer has the newest entries without a gap, for every size of the buffer
\* and of an eviction (append, logger.go).
THEOREM NewestAreKept == AuditSpec => []BufferKeepsNewest
<1>1. AuditInv => BufferKeepsNewest
  BY DEF AuditInv
<1> QED
  BY <1>1, AuditInitInv, AuditNextInv, PTL DEF AuditSpec

\* No entry is lost without being counted, however many goroutines write, fail
\* and try again, and however often (persistWithRetry, logger.go).
THEOREM LostEntriesAreCounted == AuditSpec => []UnpersistedAreCounted
<1>1. AuditInv => UnpersistedAreCounted
  BY DEF AuditInv
<1> QED
  BY <1>1, AuditInitInv, AuditNextInv, PTL DEF AuditSpec

(* The audit log: types and pages                                            *)

\* An entry has one goroutine at most, and each is given up at most once.
AuditTypes ==
    /\ AuditTypeOK
    /\ persistFailures + Cardinality(DOMAIN writing) <= latest - started

LEMMA AuditInitTypes == AuditInit => AuditTypes
<1> SUFFICES ASSUME AuditInit PROVE AuditTypes
  OBVIOUS
<1>1. /\ entries = <<>> /\ auditRows = {} /\ DOMAIN writing = {}
      /\ persistFailures = 0 /\ latest = 0 /\ started = 0
  BY DEF AuditInit
<1> QED
  BY <1>1, AuditAssumption, FS_EmptySet DEF AuditTypes, AuditTypeOK

LEMMA WritingIsFinite ==
    ASSUME AuditTypes
    PROVE  IsFiniteSet(DOMAIN writing) /\ Cardinality(DOMAIN writing) \in Nat
<1>1. IsFiniteSet((started + 1)..latest)
  BY AuditAssumption, FS_Interval DEF AuditTypes, AuditTypeOK
<1> QED
  BY <1>1, FS_Subset, FS_CardinalityType DEF AuditTypes, AuditTypeOK

LEMMA LogTypes ==
    ASSUME AuditTypes, Log
    PROVE  AuditTypes'
<1> USE AuditAssumption
<1>1. /\ latest < MaxEntries /\ latest' = latest + 1 /\ entries' = Append(Evict(entries), latest + 1)
      /\ DOMAIN writing' = DOMAIN writing \cup {latest + 1}
      /\ \A e \in DOMAIN writing' : writing'[e] = IF e \in DOMAIN writing THEN writing[e] ELSE 0
      /\ UNCHANGED <<auditRows, persistFailures, started>>
  BY DEF Log
<1>2. /\ latest \in 0..MaxEntries /\ started \in 0..latest /\ entries \in Seq(1..latest)
      /\ auditRows \subseteq 1..latest /\ DOMAIN writing \subseteq started+1..latest
      /\ \A e \in DOMAIN writing : writing[e] \in 0..MaxAttempts-1
      /\ persistFailures \in 0..latest-started
      /\ persistFailures + Cardinality(DOMAIN writing) <= latest - started
  BY DEF AuditTypes, AuditTypeOK
<1>3. Evict(entries) \in Seq(1..latest)
  <2>1. SubSeq(entries, EvictCount + 1, Len(entries)) \in Seq(1..latest)
    BY <1>2, SubSeqProperties
  <2> QED
    BY <1>2, <2>1 DEF Evict
<1>4. entries' \in Seq(1..latest')
  <2>1. Evict(entries) \in Seq(1..latest')
    <3>1. 1..latest \subseteq 1..latest'
      BY <1>1, <1>2
    <3> QED
      BY <1>3, <3>1, SeqMonotonic
  <2>2. latest + 1 \in 1..latest'
    BY <1>1, <1>2
  <2> QED
    BY <1>1, <2>1, <2>2
<1>5. Cardinality(DOMAIN writing') = Cardinality(DOMAIN writing) + 1
  <2>1. latest + 1 \notin DOMAIN writing
    BY <1>2
  <2> QED
    BY <1>1, <2>1, WritingIsFinite, FS_AddElement
<1>6. persistFailures' + Cardinality(DOMAIN writing') <= latest' - started'
  BY <1>1, <1>2, <1>5, WritingIsFinite
<1>7. \A e \in DOMAIN writing' : writing'[e] \in 0..MaxAttempts-1
  BY <1>1, <1>2
<1>8. DOMAIN writing' \subseteq started'+1..latest'
  BY <1>1, <1>2
<1> QED
  BY <1>1, <1>2, <1>4, <1>6, <1>7, <1>8 DEF AuditTypes, AuditTypeOK

\* A goroutine ends.
LEMMA EndedTypes ==
    ASSUME AuditTypes, NEW e \in DOMAIN writing, Ended(e),
           persistFailures' \in {persistFailures, persistFailures + 1},
           auditRows' \subseteq auditRows \cup {e}, UNCHANGED <<entries, latest, started>>
    PROVE  AuditTypes'
<1> USE AuditAssumption
<1>1. /\ DOMAIN writing' = DOMAIN writing \ {e}
      /\ \A x \in DOMAIN writing' : writing'[x] = writing[x]
  BY DEF Ended
<1>2. /\ latest \in 0..MaxEntries /\ started \in 0..latest /\ entries \in Seq(1..latest)
      /\ auditRows \subseteq 1..latest /\ DOMAIN writing \subseteq started+1..latest
      /\ \A x \in DOMAIN writing : writing[x] \in 0..MaxAttempts-1
      /\ persistFailures \in 0..latest-started
      /\ persistFailures + Cardinality(DOMAIN writing) <= latest - started
  BY DEF AuditTypes, AuditTypeOK
<1>3. Cardinality(DOMAIN writing') = Cardinality(DOMAIN writing) - 1
  BY <1>1, WritingIsFinite, FS_RemoveElement
<1>4. Cardinality(DOMAIN writing') \in Nat
  BY <1>1, WritingIsFinite, FS_RemoveElement, FS_CardinalityType
<1>5. /\ persistFailures' + Cardinality(DOMAIN writing') <= latest' - started'
      /\ persistFailures' \in 0..latest'-started'
  BY <1>2, <1>3, <1>4, WritingIsFinite
<1>6. auditRows' \subseteq 1..latest'
  BY <1>2
<1> QED
  BY <1>1, <1>2, <1>5, <1>6 DEF AuditTypes, AuditTypeOK

LEMMA AuditNextTypes == AuditTypes /\ [AuditNext]_auditVars => AuditTypes'
<1> SUFFICES ASSUME AuditTypes, [AuditNext]_auditVars PROVE AuditTypes'
  OBVIOUS
<1>1. CASE Log
  BY <1>1, LogTypes
<1>2. CASE AuditRestart
  <2>1. /\ entries' = <<>> /\ DOMAIN writing' = {} /\ persistFailures' = 0 /\ started' = latest
        /\ UNCHANGED <<auditRows, latest>>
    BY <1>2 DEF AuditRestart
  <2>2. Cardinality(DOMAIN writing') = 0
    BY <2>1, FS_EmptySet
  <2> QED
    BY <2>1, <2>2, AuditAssumption DEF AuditTypes, AuditTypeOK
<1>3. ASSUME NEW e \in 1..latest, Persisted(e) PROVE AuditTypes'
  BY <1>3, EndedTypes DEF Persisted
<1>4. ASSUME NEW e \in 1..latest, AttemptFails(e) PROVE AuditTypes'
  <2>1. /\ e \in DOMAIN writing /\ auditRows' \subseteq auditRows \cup {e}
        /\ UNCHANGED <<entries, latest, started>>
    BY <1>4 DEF AttemptFails
  <2>2. CASE GiveUp(e)
    BY <2>1, <2>2, EndedTypes DEF GiveUp
  <2>3. CASE writing[e] + 1 < MaxAttempts /\ TryAgain(e)
    <3>1. /\ DOMAIN writing' = DOMAIN writing /\ persistFailures' = persistFailures
          /\ \A x \in DOMAIN writing' : writing'[x] = IF x = e THEN writing[e] + 1 ELSE writing[x]
      BY <2>3 DEF TryAgain
    <3>2. \A x \in DOMAIN writing : writing[x] \in 0..MaxAttempts-1
      BY DEF AuditTypes, AuditTypeOK
    <3>3. writing[e] + 1 \in 0..MaxAttempts-1
      BY <2>1, <2>3, <3>2, AuditAssumption
    <3>4. \A x \in DOMAIN writing' : writing'[x] \in 0..MaxAttempts-1
      BY <3>1, <3>2, <3>3
    <3>5. auditRows' \subseteq 1..latest'
      BY <2>1 DEF AuditTypes, AuditTypeOK
    <3> QED
      BY <2>1, <3>1, <3>4, <3>5 DEF AuditTypes, AuditTypeOK
  <2> QED
    BY <1>4, <2>2, <2>3 DEF AttemptFails
<1>5. CASE UNCHANGED auditVars
  BY <1>5 DEF auditVars, AuditTypes, AuditTypeOK
<1> QED
  BY <1>1, <1>2, <1>3, <1>4, <1>5 DEF AuditNext

-----------------------------------------------------------------------------
(* The vault                                                                 *)

\* Whatever is stored or about to be stored was sealed under the nonce next to
\* it, and what the last answered call left is there.
VaultInv ==
    /\ DOMAIN sealing = Sealer
    /\ \A g \in Sealer : sealing[g].row = {} \/
         \E row : sealing[g].row = {row} /\ row.value.nonce = row.iv
    /\ \A c \in DOMAIN answered :
         \/ answered[c] = {} /\ c \notin DOMAIN credentials
         \/ /\ c \in DOMAIN credentials
            /\ credentials[c].value.nonce = credentials[c].iv
            /\ answered[c] = {[under |-> credentials[c].value.under,
                               secret |-> credentials[c].value.secret]}

LEMMA VaultInitInv == VaultInit => VaultInv
<1> SUFFICES ASSUME VaultInit PROVE VaultInv
  OBVIOUS
<1>1. DOMAIN credentials = {}
  BY DEF VaultInit
<1> QED
  BY <1>1 DEF VaultInit, VaultInv, NoWrite

LEMMA VaultNextInv == VaultInv /\ [VaultNext]_vaultVars => VaultInv'
<1> SUFFICES ASSUME VaultInv, [VaultNext]_vaultVars PROVE VaultInv'
  OBVIOUS
<1>1. ASSUME NEW g \in Sealer, NEW i \in Instance, NEW c \in Credential, NEW secret \in Secret,
             PutBegin(g, i, c, secret)
      PROVE  VaultInv'
  <2>1. sealing'[g].row = {Encrypt(i, secret)}
    BY <1>1 DEF PutBegin, VaultInv
  <2>2. Encrypt(i, secret).value.nonce = Encrypt(i, secret).iv
    BY DEF Encrypt
  <2> QED
    BY <1>1, <2>1, <2>2 DEF PutBegin, VaultInv
<1>2. ASSUME NEW g \in Sealer, PutStore(g) PROVE VaultInv'
  <2>1. PICK row \in sealing[g].row :
          LET c == sealing[g].name IN
          /\ credentials' = UpsertCredential(c, row)
          /\ answered' = With(answered, c, {[under |-> row.value.under, secret |-> row.value.secret]})
          /\ sealing' = [sealing EXCEPT ![g] = NoWrite]
    BY <1>2 DEF PutStore
  <2>2. row.value.nonce = row.iv
    BY DEF VaultInv
  <2> QED
    BY <2>1, <2>2 DEF UpsertCredential, With, VaultInv, NoWrite
<1>3. ASSUME NEW g \in Sealer, PutFails(g) PROVE VaultInv'
  <2>1. PICK row \in sealing[g].row :
          /\ UNCHANGED credentials \/ credentials' = UpsertCredential(sealing[g].name, row)
          /\ answered' = Without(answered, sealing[g].name)
          /\ sealing' = [sealing EXCEPT ![g] = NoWrite]
    BY <1>3 DEF PutFails
  <2> QED
    BY <2>1 DEF UpsertCredential, With, Without, VaultInv, NoWrite
<1>4. ASSUME NEW i \in Instance, NEW c \in Credential, DeleteCredential(i, c) PROVE VaultInv'
  BY <1>4 DEF DeleteCredential, With, Without, VaultInv
<1>5. ASSUME NEW i \in Instance, NEW c \in Credential, DeleteFails(i, c) PROVE VaultInv'
  BY <1>5 DEF DeleteFails, Without, VaultInv
<1>6. ASSUME NEW i \in Instance, NEW key, VaultRestart(i, key) PROVE VaultInv'
  BY <1>6 DEF VaultRestart, VaultInv, NoWrite
<1>7. CASE UNCHANGED vaultVars
  BY <1>7 DEF vaultVars, VaultInv
<1> QED
  BY <1>1, <1>2, <1>3, <1>4, <1>5, <1>6, <1>7 DEF VaultNext

\* Whatever instances with whatever master keys wrote and deleted a credential,
\* interleaved, failing and restarting: the last answered call is what is read
\* (handlers_vault.go over vault.go).
THEOREM LastAnswerIsKept == VaultSpec => []LastAnswerIsRead
<1>1. VaultInv => LastAnswerIsRead
  <2> SUFFICES ASSUME VaultInv, NEW c \in DOMAIN answered, NEW i \in Instance, masterKey[i] # None
               PROVE  GetCredential(i, c) =
                        IF answered[c] = {} THEN <<404>>
                        ELSE LET kept == CHOOSE s \in answered[c] : TRUE
                             IN  IF kept.under = masterKey[i] THEN <<200, kept.secret>> ELSE <<500>>
    BY DEF LastAnswerIsRead
  <2>1. CASE answered[c] = {}
    <3>1. c \notin DOMAIN credentials
      BY <2>1 DEF VaultInv
    <3> QED
      BY <2>1, <3>1 DEF GetCredential
  <2>2. CASE answered[c] # {}
    <3> DEFINE row  == credentials[c]
               kept == [under |-> row.value.under, secret |-> row.value.secret]
    <3>1. c \in DOMAIN credentials /\ row.value.nonce = row.iv /\ answered[c] = {kept}
      BY <2>2 DEF VaultInv
    <3>2. (CHOOSE s \in answered[c] : TRUE) = kept
      BY <3>1
    <3> QED
      BY <2>2, <3>1, <3>2 DEF GetCredential, Opens
  <2> QED
    BY <2>1, <2>2
<1> QED
  BY <1>1, VaultInitInv, VaultNextInv, PTL DEF VaultSpec

-----------------------------------------------------------------------------
(* Rate limits                                                               *)

\* The first k requests of s were allowed before the last refill of b, the
\* others took their tokens since.
SplitAt(b, s, t, k) ==
    /\ \A m \in 1..k : s[m] < b.lastRefill
    /\ \A m \in (k + 1)..Len(s) : s[m] >= b.lastRefill
    /\ k <= Rate /\ Len(s) - k <= Rate - b.tokens
    /\ t < b.lastRefill + Interval => Len(s) - k = Rate - b.tokens

\* The bucket b accounts for the requests s allowed in the interval before t.
Accounts(b, s, t) ==
    /\ b.tokens \in 0..Rate /\ b.lastRefill \in Nat /\ b.lastSeen \in Nat
    /\ b.lastRefill <= b.lastSeen /\ b.lastSeen < b.lastRefill + Interval
    /\ b.lastSeen <= t
    /\ \A m \in 1..Len(s) : t - Interval < s[m] /\ s[m] <= b.lastSeen
    /\ \E k \in 0..Len(s) : SplitAt(b, s, t, k)

RateInv ==
    /\ ticks \in Nat /\ allowed \in Seq(Nat)
    /\ \/ bucket = {} /\ allowed = <<>>
       \/ \E b : bucket = {b} /\ Accounts(b, allowed, ticks)

LEMMA RateInitInv == RateInit => RateInv
BY DEF RateInit, RateInv

LEMMA Division ==
    ASSUME NEW n \in Nat, NEW d \in Nat \ {0}
    PROVE  /\ n \div d \in Nat
           /\ (n \div d) * d \in Nat
           /\ (n \div d) * d <= n /\ n < (n \div d) * d + d
OBVIOUS

LEMMA AtLeastOnce ==
    ASSUME NEW n \in Nat \ {0}, NEW d \in Nat
    PROVE  n * d \in Nat /\ n * d >= d
OBVIOUS

\* A request finds a bucket that accounts for what was allowed, within the period
\* since its last refill.
LEMMA FoundAccounts ==
    ASSUME RateInv
    PROVE  /\ Accounts(Found, allowed, ticks) /\ ticks < Found.lastRefill + Interval
           /\ Found = [tokens |-> Found.tokens, lastRefill |-> Found.lastRefill, lastSeen |-> ticks]
<1> USE RateAssumption
<1>1. CASE bucket = {}
  <2>1. /\ Found = [tokens |-> Rate, lastRefill |-> ticks, lastSeen |-> ticks]
        /\ allowed = <<>> /\ ticks \in Nat
    BY <1>1 DEF Found, RateInv
  <2>2. SplitAt(Found, allowed, ticks, 0)
    BY <2>1 DEF SplitAt
  <2> QED
    BY <2>1, <2>2 DEF Accounts
<1>2. CASE bucket # {}
  <2>1. PICK b : bucket = {b} /\ Accounts(b, allowed, ticks)
    BY <1>2 DEF RateInv
  <2>2. PICK k \in 0..Len(allowed) : SplitAt(b, allowed, ticks, k)
    BY <2>1 DEF Accounts
  <2>3. ticks \in Nat /\ allowed \in Seq(Nat) /\ Len(allowed) \in Nat
    BY DEF RateInv
  <2>4. Found = Refilled(b)
    BY <2>1 DEF Found
  <2> DEFINE periods == (ticks - b.lastRefill) \div Interval
  <2>5. /\ periods \in Nat /\ periods * Interval \in Nat
        /\ periods * Interval <= ticks - b.lastRefill
        /\ ticks - b.lastRefill < periods * Interval + Interval
    <3>1. ticks - b.lastRefill \in Nat
      BY <2>1, <2>3 DEF Accounts
    <3> QED
      BY <3>1, Division
  <2>a. LET sum == b.tokens + periods * Rate IN
        Refilled(b) = [tokens |-> IF sum > Rate THEN Rate ELSE sum,
                       lastRefill |-> b.lastRefill + periods * Interval,
                       lastSeen |-> ticks]
    BY DEF Refilled
  <2>b. /\ b.tokens \in 0..Rate /\ b.lastRefill \in Nat /\ b.lastRefill <= ticks
        /\ b.lastSeen \in Nat /\ b.lastSeen < b.lastRefill + Interval
        /\ \A m \in 1..Len(allowed) : ticks - Interval < allowed[m] /\ allowed[m] <= b.lastSeen
    BY <2>1, <2>3 DEF Accounts
  <2> HIDE DEF periods
  <2>6. CASE periods = 0
    <3>1. /\ Refilled(b).tokens = b.tokens /\ Refilled(b).lastRefill = b.lastRefill
          /\ Refilled(b).lastSeen = ticks
      BY <2>6, <2>a, <2>b
    <3>2. ticks < b.lastRefill + Interval
      BY <2>3, <2>5, <2>6, <2>b
    <3>3. SplitAt(Refilled(b), allowed, ticks, k)
      BY <2>2, <3>1 DEF SplitAt
    <3>4. Accounts(Refilled(b), allowed, ticks)
      BY <2>1, <2>2, <2>3, <3>1, <3>2, <3>3 DEF Accounts
    <3> QED
      BY <2>4, <2>a, <3>1, <3>2, <3>4
  <2>7. CASE periods # 0
    <3>1. periods * Interval >= Interval /\ periods * Rate \in Nat /\ periods * Rate >= Rate
      BY <2>5, <2>7, AtLeastOnce
    <3>2. /\ Refilled(b).tokens = Rate
          /\ Refilled(b).lastRefill = b.lastRefill + periods * Interval
          /\ Refilled(b).lastSeen = ticks
      <4>1. b.tokens + periods * Rate >= Rate /\ b.tokens + periods * Rate \in Nat
        BY <2>b, <3>1
      <4>2. b.tokens + periods * Rate > Rate \/ b.tokens + periods * Rate = Rate
        BY <4>1
      <4> QED
        BY <2>a, <4>2
    <3> DEFINE span == periods * Interval
    <3>s. /\ span \in Nat /\ span >= Interval /\ span <= ticks - b.lastRefill
          /\ ticks - b.lastRefill < span + Interval
          /\ Refilled(b).lastRefill = b.lastRefill + span
      BY <2>5, <3>1, <3>2
    <3> HIDE DEF span
    <3>3. k = 0
      <4> SUFFICES ASSUME k # 0 PROVE FALSE
        OBVIOUS
      <4>1. 1 \in 1..k /\ 1 \in 1..Len(allowed)
        BY <2>2, <2>3
      <4>2. allowed[1] < b.lastRefill /\ ticks - Interval < allowed[1] /\ allowed[1] \in Nat
        BY <2>1, <2>2, <2>3, <4>1 DEF SplitAt, Accounts
      <4>3. b.lastRefill \in Nat /\ ticks >= b.lastRefill + Interval
        BY <2>3, <2>b, <3>s
      <4> QED
        BY <2>3, <4>2, <4>3
    <3>4. Len(allowed) <= Rate
      BY <2>2, <2>3, <2>b, <3>3 DEF SplitAt
    <3>5. \A m \in 1..Len(allowed) : allowed[m] < Refilled(b).lastRefill
      <4> SUFFICES ASSUME NEW m \in 1..Len(allowed) PROVE allowed[m] < b.lastRefill + span
        BY <3>s
      <4>1. allowed[m] \in Nat /\ allowed[m] <= b.lastSeen /\ b.lastSeen < b.lastRefill + Interval
        BY <2>3, <2>b
      <4> QED
        BY <2>b, <3>s, <4>1
    <3>6. SplitAt(Refilled(b), allowed, ticks, Len(allowed))
      BY <2>3, <3>2, <3>4, <3>5 DEF SplitAt
    <3>7. /\ Refilled(b).lastRefill \in Nat /\ Refilled(b).lastRefill <= ticks
          /\ ticks < Refilled(b).lastRefill + Interval
      BY <2>3, <2>b, <3>s
    <3>8. \A m \in 1..Len(allowed) : ticks - Interval < allowed[m] /\ allowed[m] <= ticks
      BY <2>1, <2>3 DEF Accounts
    <3>9. Accounts(Refilled(b), allowed, ticks)
      BY <2>3, <3>2, <3>6, <3>7, <3>8 DEF Accounts
    <3> QED
      BY <2>4, <2>a, <3>2, <3>7, <3>9
  <2> QED
    BY <2>6, <2>7
<1> QED
  BY <1>1, <1>2

LEMMA RateNextInv == RateInv /\ [RateNext]_rateVars => RateInv'
<1> SUFFICES ASSUME RateInv, [RateNext]_rateVars PROVE RateInv'
  OBVIOUS
<1> USE RateAssumption
<1>0. ticks \in Nat /\ allowed \in Seq(Nat) /\ Len(allowed) \in Nat
  BY DEF RateInv
<1>1. CASE Allow
  <2> DEFINE b == [Found EXCEPT !.tokens = @ - 1]
  <2>1. /\ bucket' = {b} /\ allowed' = Append(allowed, ticks) /\ ticks' = ticks
        /\ Found.tokens > 0
    BY <1>1 DEF Allow
  <2>2. /\ b.tokens = Found.tokens - 1 /\ b.lastRefill = Found.lastRefill
        /\ b.lastSeen = ticks
    BY FoundAccounts
  <2>3. /\ Found.tokens \in 0..Rate /\ Found.lastRefill \in Nat
        /\ Found.lastRefill <= ticks /\ ticks < Found.lastRefill + Interval
        /\ \A m \in 1..Len(allowed) : ticks - Interval < allowed[m] /\ allowed[m] <= ticks
    BY FoundAccounts DEF Accounts
  <2>4. PICK k \in 0..Len(allowed) : SplitAt(Found, allowed, ticks, k)
    BY FoundAccounts DEF Accounts
  <2> HIDE DEF b
  <2>5. /\ allowed' \in Seq(Nat) /\ Len(allowed') = Len(allowed) + 1
        /\ \A m \in 1..Len(allowed) : allowed'[m] = allowed[m]
        /\ allowed'[Len(allowed) + 1] = ticks
    BY <1>0, <2>1
  <2>6. SplitAt(b, allowed', ticks, k)
    <3>1. \A m \in 1..k : allowed'[m] < b.lastRefill
      <4> SUFFICES ASSUME NEW m \in 1..k PROVE allowed'[m] < b.lastRefill
        OBVIOUS
      <4>1. m \in 1..Len(allowed) /\ allowed[m] < Found.lastRefill
        BY <1>0, <2>4 DEF SplitAt
      <4> QED
        BY <2>2, <2>5, <4>1
    <3>2. \A m \in (k + 1)..Len(allowed') : allowed'[m] >= b.lastRefill
      <4> SUFFICES ASSUME NEW m \in (k + 1)..Len(allowed') PROVE allowed'[m] >= b.lastRefill
        OBVIOUS
      <4>1. CASE m = Len(allowed) + 1
        BY <1>0, <2>2, <2>3, <2>5, <4>1
      <4>2. CASE m # Len(allowed) + 1
        <5>1. m \in (k + 1)..Len(allowed) /\ m \in 1..Len(allowed)
          BY <1>0, <2>5, <4>2
        <5> QED
          BY <2>2, <2>4, <2>5, <5>1 DEF SplitAt
      <4> QED
        BY <4>1, <4>2
    <3>3. Len(allowed) - k = Rate - Found.tokens /\ k <= Rate
      BY <2>3, <2>4 DEF SplitAt
    <3>4. Len(allowed') - k = Rate - b.tokens
      BY <1>0, <2>2, <2>3, <2>5, <3>3
    <3> QED
      BY <1>0, <2>2, <2>3, <2>5, <3>1, <3>2, <3>3, <3>4 DEF SplitAt
  <2>7. \A m \in 1..Len(allowed') : ticks - Interval < allowed'[m] /\ allowed'[m] <= b.lastSeen
    <3> SUFFICES ASSUME NEW m \in 1..Len(allowed')
                 PROVE  ticks - Interval < allowed'[m] /\ allowed'[m] <= ticks
      BY <2>2
    <3>1. CASE m = Len(allowed) + 1
      BY <1>0, <2>5, <3>1
    <3>2. CASE m # Len(allowed) + 1
      <4>1. m \in 1..Len(allowed)
        BY <1>0, <2>5, <3>2
      <4> QED
        BY <2>3, <2>5, <4>1
    <3> QED
      BY <3>1, <3>2
  <2>8. b.tokens \in 0..Rate
    BY <2>1, <2>2, <2>3
  <2>9. k \in 0..Len(allowed')
    BY <1>0, <2>5
  <2>10. Accounts(b, allowed', ticks)
    BY <1>0, <2>2, <2>3, <2>6, <2>7, <2>8, <2>9 DEF Accounts
  <2> QED
    BY <1>0, <2>1, <2>5, <2>10 DEF RateInv
<1>2. CASE Throttle
  BY <1>2, FoundAccounts DEF Throttle, RateInv
<1>3. CASE Cleanup
  <2>1. PICK b : bucket = {b} /\ Accounts(b, allowed, ticks) /\ IsIdle(b)
    BY <1>3 DEF Cleanup, RateInv
  <2>2. IdleIntervals * Interval \in Nat /\ IdleIntervals * Interval >= Interval
    BY AtLeastOnce
  <2>3. b.lastSeen \in Nat /\ b.lastSeen < ticks - Interval
    <3>1. b.lastSeen < ticks - IdleIntervals * Interval /\ b.lastSeen \in Nat
      BY <2>1 DEF IsIdle, Accounts
    <3> DEFINE idle == IdleIntervals * Interval
    <3>2. idle \in Nat /\ idle >= Interval /\ b.lastSeen < ticks - idle
      BY <2>2, <3>1
    <3> HIDE DEF idle
    <3> QED
      BY <1>0, <3>1, <3>2
  <2>4. Len(allowed) = 0
    <3> SUFFICES ASSUME Len(allowed) # 0 PROVE FALSE
      OBVIOUS
    <3>1. 1 \in 1..Len(allowed) /\ allowed[1] \in Nat
      BY <1>0
    <3>2. ticks - Interval < allowed[1] /\ allowed[1] <= b.lastSeen
      BY <2>1, <3>1 DEF Accounts
    <3> QED
      BY <1>0, <2>3, <3>1, <3>2
  <2>5. allowed = <<>>
    BY <1>0, <2>4, EmptySeq
  <2> QED
    BY <1>0, <1>3, <2>5 DEF Cleanup, RateInv
<1>4. CASE RateTick
  <2>1. PICK n \in 0..Len(allowed) :
          /\ \A m \in DOMAIN allowed : allowed[m] > (ticks + 1) - Interval <=> m > n
          /\ allowed' = SubSeq(allowed, n + 1, Len(allowed))
    BY <1>4, Zenon DEF RateTick, Outdated
  <2>2. ticks' = ticks + 1 /\ bucket' = bucket
    BY <1>4 DEF RateTick
  <2>3. /\ allowed' \in Seq(Nat) /\ Len(allowed') = Len(allowed) - n
        /\ \A m \in 1..Len(allowed) - n : allowed'[m] = allowed[m + n]
    BY <1>0, <2>1, SubSeqProperties
  <2>4. CASE bucket = {}
    <3>1. Len(allowed') = 0
      BY <1>0, <2>1, <2>3, <2>4 DEF RateInv
    <3>2. allowed' = <<>>
      BY <2>3, <3>1, EmptySeq
    <3> QED
      BY <1>0, <2>2, <2>3, <2>4, <3>2 DEF RateInv
  <2>5. CASE bucket # {}
    <3>1. PICK b : bucket = {b} /\ Accounts(b, allowed, ticks)
      BY <2>5 DEF RateInv
    <3>2. PICK k \in 0..Len(allowed) : SplitAt(b, allowed, ticks, k)
      BY <3>1 DEF Accounts
    <3> DEFINE left == IF n <= k THEN k - n ELSE 0
    <3>3. left \in 0..Len(allowed')
      BY <1>0, <2>1, <2>3
    <3>4. SplitAt(b, allowed', ticks + 1, left)
      <4>1. \A m \in 1..left : allowed'[m] < b.lastRefill
        <5> SUFFICES ASSUME NEW m \in 1..left PROVE allowed'[m] < b.lastRefill
          OBVIOUS
        <5>1. m \in 1..Len(allowed) - n /\ m + n \in 1..k
          BY <1>0, <2>1, <3>2
        <5> QED
          BY <2>3, <3>2, <5>1 DEF SplitAt
      <4>2. \A m \in (left + 1)..Len(allowed') : allowed'[m] >= b.lastRefill
        <5> SUFFICES ASSUME NEW m \in (left + 1)..Len(allowed') PROVE allowed'[m] >= b.lastRefill
          OBVIOUS
        <5>1. m \in 1..Len(allowed) - n /\ m + n \in (k + 1)..Len(allowed)
          BY <1>0, <2>1, <2>3, <3>2
        <5> QED
          BY <2>3, <3>2, <5>1 DEF SplitAt
      <4>3. left <= Rate /\ Len(allowed') - left <= Rate - b.tokens
        <5>1. b.tokens \in 0..Rate /\ k <= Rate /\ Len(allowed) - k <= Rate - b.tokens
          BY <3>1, <3>2 DEF SplitAt, Accounts
        <5>2. CASE n <= k
          BY <1>0, <2>1, <2>3, <3>2, <5>1, <5>2
        <5>3. CASE n > k
          <6>1. left = 0 /\ n \in Nat /\ k \in Nat
            BY <1>0, <2>1, <3>2, <5>3
          <6> HIDE DEF left
          <6> QED
            BY <1>0, <2>3, <5>1, <5>3, <6>1
        <5> QED
          BY <1>0, <5>2, <5>3
      <4>4. ASSUME ticks + 1 < b.lastRefill + Interval
            PROVE  Len(allowed') - left = Rate - b.tokens
        <5>1. n <= k
          <6> SUFFICES ASSUME n > k PROVE FALSE
            BY <1>0
          <6>1. n \in DOMAIN allowed /\ n \in (k + 1)..Len(allowed) /\ allowed[n] \in Nat
            BY <1>0
          <6>2. ~(allowed[n] > (ticks + 1) - Interval) /\ allowed[n] >= b.lastRefill
            BY <2>1, <3>2, <6>1 DEF SplitAt
          <6> QED
            BY <1>0, <3>1, <4>4, <6>1, <6>2 DEF Accounts
        <5>2. ticks < b.lastRefill + Interval
          BY <1>0, <3>1, <4>4 DEF Accounts
        <5>3. Len(allowed) - k = Rate - b.tokens
          BY <3>2, <5>2 DEF SplitAt
        <5> QED
          BY <1>0, <2>1, <2>3, <3>2, <5>1, <5>3
      <4> QED
        BY <4>1, <4>2, <4>3, <4>4 DEF SplitAt
    <3>5. \A m \in 1..Len(allowed') : (ticks + 1) - Interval < allowed'[m] /\ allowed'[m] <= b.lastSeen
      <4> SUFFICES ASSUME NEW m \in 1..Len(allowed')
                   PROVE  (ticks + 1) - Interval < allowed'[m] /\ allowed'[m] <= b.lastSeen
        OBVIOUS
      <4>1. m \in 1..Len(allowed) - n /\ m + n \in 1..Len(allowed) /\ m + n > n
        BY <1>0, <2>1, <2>3
      <4>2. m + n \in DOMAIN allowed /\ allowed[m + n] \in Nat
        BY <1>0, <4>1
      <4>3. allowed[m + n] > (ticks + 1) - Interval
        BY <2>1, <4>1, <4>2
      <4>4. allowed[m + n] <= b.lastSeen
        BY <3>1, <4>1 DEF Accounts
      <4> QED
        BY <1>0, <2>3, <4>1, <4>2, <4>3, <4>4
    <3> HIDE DEF left
    <3>6. Accounts(b, allowed', ticks + 1)
      BY <1>0, <3>1, <3>3, <3>4, <3>5 DEF Accounts
    <3> QED
      BY <1>0, <2>2, <2>3, <3>1, <3>6 DEF RateInv
  <2> QED
    BY <2>4, <2>5
<1>5. CASE UNCHANGED rateVars
  BY <1>5 DEF rateVars, RateInv
<1> QED
  BY <1>1, <1>2, <1>3, <1>4, <1>5 DEF RateNext

\* No interval sees more than twice the rate, for every rate and interval, refills
\* and dropped buckets included (rateLimiter, middleware.go).
THEOREM NeverMoreThanTwiceTheRate == RateSpec => []AtMostTwiceTheRate
<1>1. RateInv => AtMostTwiceTheRate
  <2> SUFFICES ASSUME RateInv PROVE Len(allowed) <= 2 * Rate
    BY DEF AtMostTwiceTheRate
  <2>1. PICK k \in 0..Len(allowed) : SplitAt(Found, allowed, ticks, k)
    BY FoundAccounts DEF Accounts
  <2>2. k <= Rate /\ Len(allowed) - k <= Rate - Found.tokens /\ Found.tokens \in 0..Rate
    BY <2>1, FoundAccounts DEF SplitAt, Accounts
  <2> QED
    BY <2>2, RateAssumption DEF RateInv
<1> QED
  BY <1>1, RateInitInv, RateNextInv, PTL DEF RateSpec

\* A caller below the rate is never refused, whatever it did not use before and
\* whenever its bucket was dropped.
THEOREM BelowTheRateIsAllowed == RateSpec => []ThrottledOnlyAtRate
<1>1. RateInv => ThrottledOnlyAtRate
  <2> SUFFICES ASSUME RateInv, Found.tokens <= 0 PROVE Len(allowed) >= Rate
    BY DEF ThrottledOnlyAtRate
  <2>1. PICK k \in 0..Len(allowed) : SplitAt(Found, allowed, ticks, k)
    BY FoundAccounts DEF Accounts
  <2>2. Len(allowed) - k = Rate - Found.tokens /\ Found.tokens \in 0..Rate
    BY <2>1, FoundAccounts DEF SplitAt, Accounts
  <2> QED
    BY <2>2, RateAssumption DEF RateInv
<1> QED
  BY <1>1, RateInitInv, RateNextInv, PTL DEF RateSpec
-----------------------------------------------------------------------------
(* Key sets                                                                  *)

JwksTypes ==
    /\ clock \in Nat
    /\ published \in [Url -> SUBSET SigningKey]
    /\ DOMAIN keySets \subseteq Url
    /\ \A u \in DOMAIN keySets : keySets[u].keys \subseteq SigningKey /\ keySets[u].at \in Nat
    /\ DOMAIN fetching = Fetcher
    /\ \A f \in Fetcher :
         /\ fetching[f].since \in Nat
         /\ UNION fetching[f].read \subseteq SigningKey
         /\ fetching[f] = Idle \/ fetching[f].url \in {{u} : u \in Url}
    /\ lastSeen \in [Url -> [SigningKey -> Int]]

\* A fetch is no older than its timeout, what it has read was published since it
\* began, and what is in the cache at most that long before it was stored.
JwksInv ==
    /\ JwksTypes
    /\ \A u \in Url : \A k \in SigningKey :
         lastSeen[u][k] <= clock /\ (k \in published[u] => lastSeen[u][k] = clock)
    /\ \A f \in Fetcher : fetching[f] # Idle =>
         /\ fetching[f].since <= clock /\ clock <= fetching[f].since + FetchTimeout
         /\ \A u \in Url : fetching[f].url = {u} =>
              \A k \in UNION fetching[f].read : lastSeen[u][k] >= fetching[f].since
    /\ \A u \in DOMAIN keySets : \A k \in keySets[u].keys :
         lastSeen[u][k] >= keySets[u].at - FetchTimeout

LEMMA JwksInitInv == JwksInit => JwksInv
<1> SUFFICES ASSUME JwksInit PROVE JwksInv
  OBVIOUS
<1>1. DOMAIN keySets = {}
  BY DEF JwksInit
<1> QED
  BY <1>1 DEF JwksInit, JwksInv, JwksTypes, Idle

\* Eviction only drops entries.
LEMMA EvictOldestDrops ==
    ASSUME NEW cached, NEW rest \in EvictOldest(cached)
    PROVE  DOMAIN rest \subseteq DOMAIN cached /\ \A u \in DOMAIN rest : rest[u] = cached[u]
BY DEF EvictOldest

LEMMA JwksNextInv == JwksInv /\ [JwksNext]_jwksVars => JwksInv'
<1> SUFFICES ASSUME JwksInv, [JwksNext]_jwksVars PROVE JwksInv'
  OBVIOUS
<1> USE JwksAssumption
<1>1. ASSUME NEW f \in Fetcher, FetchFails(f) PROVE JwksInv'
  BY <1>1 DEF JwksInv, JwksTypes, FetchFails, Idle
<1>2. ASSUME NEW f \in Fetcher, NEW u \in Url, FetchBegin(f, u) PROVE JwksInv'
  <2>1. /\ fetching'[f].url = {u} /\ fetching'[f].since = clock
        /\ UNION fetching'[f].read = {}
        /\ \A g \in Fetcher \ {f} : fetching'[g] = fetching[g]
        /\ DOMAIN fetching' = Fetcher
    BY <1>2 DEF FetchBegin, JwksInv, JwksTypes
  <2>2. UNCHANGED <<clock, published, keySets, lastSeen>>
    BY <1>2 DEF FetchBegin
  <2>3. JwksTypes'
    BY <2>1, <2>2 DEF JwksInv, JwksTypes
  <2>4. \A g \in Fetcher : fetching'[g] # Idle =>
          /\ fetching'[g].since <= clock /\ clock <= fetching'[g].since + FetchTimeout
          /\ \A v \in Url : fetching'[g].url = {v} =>
               \A k \in UNION fetching'[g].read : lastSeen[v][k] >= fetching'[g].since
    BY <2>1 DEF JwksInv, JwksTypes
  <2> QED
    BY <2>2, <2>3, <2>4 DEF JwksInv
<1>3. ASSUME NEW f \in Fetcher, NEW u \in Url, FetchRead(f, u) PROVE JwksInv'
  <2>1. fetching[f] # Idle
    BY <1>3 DEF FetchRead, Idle
  <2>2. /\ fetching'[f].url = {u} /\ fetching'[f].since = fetching[f].since
        /\ UNION fetching'[f].read = published[u]
        /\ \A g \in Fetcher \ {f} : fetching'[g] = fetching[g]
        /\ DOMAIN fetching' = Fetcher
    BY <1>3, <2>1 DEF FetchRead, JwksInv, JwksTypes
  <2>3. UNCHANGED <<clock, published, keySets, lastSeen>>
    BY <1>3 DEF FetchRead
  <2>4. JwksTypes'
    <3>1. \A g \in Fetcher :
            /\ fetching'[g].since \in Nat
            /\ UNION fetching'[g].read \subseteq SigningKey
            /\ fetching'[g] = Idle \/ fetching'[g].url \in {{v} : v \in Url}
      BY <2>2 DEF JwksInv, JwksTypes
    <3> QED
      BY <2>2, <2>3, <3>1 DEF JwksInv, JwksTypes
  <2>5. \A k \in published[u] : lastSeen[u][k] >= fetching[f].since
    BY <2>1 DEF JwksInv, JwksTypes
  <2>6. \A g \in Fetcher : fetching'[g] # Idle =>
          /\ fetching'[g].since <= clock /\ clock <= fetching'[g].since + FetchTimeout
          /\ \A v \in Url : fetching'[g].url = {v} =>
               \A k \in UNION fetching'[g].read : lastSeen[v][k] >= fetching'[g].since
    BY <2>1, <2>2, <2>5 DEF JwksInv, JwksTypes
  <2> QED
    BY <2>3, <2>4, <2>6 DEF JwksInv
<1>4. ASSUME NEW f \in Fetcher, NEW u \in Url, FetchStore(f, u) PROVE JwksInv'
  <2> DEFINE entry  == [keys |-> UNION fetching[f].read, at |-> clock]
             cached == [v \in DOMAIN keySets \cup {u} |-> IF v = u THEN entry ELSE keySets[v]]
  <2>1. fetching[f] # Idle /\ fetching[f].url = {u}
    BY <1>4 DEF FetchStore, Idle
  <2>2. /\ DOMAIN keySets' \subseteq DOMAIN cached
        /\ \A v \in DOMAIN keySets' : keySets'[v] = cached[v]
    BY <1>4, EvictOldestDrops DEF FetchStore
  <2>3. \A v \in DOMAIN keySets' :
          \/ keySets'[v] = entry /\ v = u
          \/ v \in DOMAIN keySets /\ keySets'[v] = keySets[v]
    <3> SUFFICES ASSUME NEW v \in DOMAIN keySets'
                 PROVE  \/ keySets'[v] = entry /\ v = u
                        \/ v \in DOMAIN keySets /\ keySets'[v] = keySets[v]
      OBVIOUS
    <3>1. v \in DOMAIN cached /\ keySets'[v] = cached[v]
      BY <2>2
    <3>2. CASE v = u
      BY <3>1, <3>2
    <3>3. CASE v # u
      BY <3>1, <3>3
    <3> QED
      BY <3>2, <3>3
  <2>4. UNCHANGED <<clock, published, lastSeen>> /\ fetching' = [fetching EXCEPT ![f] = Idle]
    BY <1>4 DEF FetchStore
  <2>5. JwksTypes'
    <3>1. DOMAIN keySets' \subseteq Url
      BY <2>3 DEF JwksInv, JwksTypes
    <3>2. entry.keys \subseteq SigningKey /\ entry.at \in Nat
      BY DEF JwksInv, JwksTypes
    <3>3. \A v \in DOMAIN keySets' : keySets'[v].keys \subseteq SigningKey /\ keySets'[v].at \in Nat
      BY <2>3, <3>2 DEF JwksInv, JwksTypes
    <3> QED
      BY <2>4, <3>1, <3>3 DEF JwksInv, JwksTypes, Idle
  <2>6. \A k \in entry.keys : lastSeen[u][k] >= entry.at - FetchTimeout
    BY <2>1 DEF JwksInv, JwksTypes
  <2>7. \A v \in DOMAIN keySets' : \A k \in keySets'[v].keys :
          lastSeen'[v][k] >= keySets'[v].at - FetchTimeout
    BY <2>3, <2>4, <2>6 DEF JwksInv
  <2> HIDE DEF entry, cached
  <2> QED
    BY <2>4, <2>5, <2>7 DEF JwksInv, JwksTypes, Idle
<1>5. ASSUME NEW u \in Url, NEW keys \in SUBSET SigningKey, Publish(u, keys) PROVE JwksInv'
  <2>1. \A v \in Url : \A k \in SigningKey :
          /\ lastSeen'[v][k] \in Int /\ lastSeen'[v][k] >= lastSeen[v][k]
          /\ lastSeen'[v][k] <= clock /\ (k \in published'[v] => lastSeen'[v][k] = clock)
    BY <1>5 DEF Publish, JwksInv, JwksTypes
  <2>2. lastSeen' \in [Url -> [SigningKey -> Int]] /\ published' \in [Url -> SUBSET SigningKey]
    BY <1>5 DEF Publish, JwksInv, JwksTypes
  <2>3. UNCHANGED <<clock, keySets, fetching>>
    BY <1>5 DEF Publish
  <2>4. JwksTypes'
    BY <2>2, <2>3 DEF JwksInv, JwksTypes
  <2>5. \A f \in Fetcher : fetching[f] # Idle =>
          \A v \in Url : fetching[f].url = {v} =>
            \A k \in UNION fetching[f].read : lastSeen'[v][k] >= fetching[f].since
    BY <2>1 DEF JwksInv, JwksTypes
  <2>6. \A v \in DOMAIN keySets : \A k \in keySets[v].keys :
          lastSeen'[v][k] >= keySets[v].at - FetchTimeout
    BY <2>1 DEF JwksInv, JwksTypes
  <2> QED
    BY <2>1, <2>3, <2>4, <2>5, <2>6 DEF JwksInv
<1>6. CASE JwksTick
  <2>1. \A v \in Url : \A k \in SigningKey :
          /\ lastSeen'[v][k] \in Int /\ lastSeen'[v][k] >= lastSeen[v][k]
          /\ lastSeen'[v][k] <= clock' /\ (k \in published[v] => lastSeen'[v][k] = clock')
    BY <1>6 DEF JwksTick, JwksInv, JwksTypes
  <2>2. lastSeen' \in [Url -> [SigningKey -> Int]]
    BY <1>6 DEF JwksTick, JwksInv, JwksTypes
  <2>3. UNCHANGED <<published, keySets, fetching>> /\ clock' = clock + 1
    BY <1>6 DEF JwksTick
  <2>4. JwksTypes'
    BY <2>2, <2>3 DEF JwksInv, JwksTypes
  <2>5. \A f \in Fetcher : fetching[f] # Idle => clock - fetching[f].since < FetchTimeout
    BY <1>6 DEF JwksTick
  <2>6. \A f \in Fetcher : fetching[f] # Idle =>
          /\ fetching[f].since <= clock' /\ clock' <= fetching[f].since + FetchTimeout
          /\ \A v \in Url : fetching[f].url = {v} =>
               \A k \in UNION fetching[f].read : lastSeen'[v][k] >= fetching[f].since
    <3> SUFFICES ASSUME NEW f \in Fetcher, fetching[f] # Idle
                 PROVE  /\ fetching[f].since <= clock' /\ clock' <= fetching[f].since + FetchTimeout
                        /\ \A v \in Url : fetching[f].url = {v} =>
                             \A k \in UNION fetching[f].read : lastSeen'[v][k] >= fetching[f].since
      BY Zenon
    <3>1. fetching[f].since \in Nat /\ clock \in Nat /\ fetching[f].since <= clock
      BY DEF JwksInv, JwksTypes
    <3>2. fetching[f].since <= clock' /\ clock' <= fetching[f].since + FetchTimeout
      BY <2>3, <2>5, <3>1
    <3>3. ASSUME NEW v \in Url, fetching[f].url = {v}, NEW k \in UNION fetching[f].read
          PROVE  lastSeen'[v][k] >= fetching[f].since
      <4>1. k \in SigningKey /\ lastSeen[v][k] >= fetching[f].since /\ lastSeen[v][k] \in Int
        BY <3>3 DEF JwksInv, JwksTypes
      <4> QED
        BY <2>1, <3>1, <4>1
    <3> QED
      BY <3>2, <3>3
  <2>7. \A v \in DOMAIN keySets : \A k \in keySets[v].keys :
          lastSeen'[v][k] >= keySets[v].at - FetchTimeout
    BY <2>1 DEF JwksInv, JwksTypes
  <2> QED
    BY <2>1, <2>3, <2>4, <2>6, <2>7 DEF JwksInv
<1>7. CASE UNCHANGED jwksVars
  BY <1>7 DEF jwksVars, JwksInv, JwksTypes
<1> QED
  BY <1>1, <1>2, <1>3, <1>4, <1>5, <1>6, <1>7 DEF JwksNext

\* A key that verifies tokens was published at most the lifetime of an entry and
\* the timeout of a fetch ago, for any number of providers and verifying
\* goroutines, in whatever order they store what they read (oidc.go).
THEOREM WithdrawnKeysAreDropped == JwksSpec => []WithdrawnKeysExpire
<1>1. JwksInv => WithdrawnKeysExpire
  <2> SUFFICES ASSUME JwksInv, NEW f \in Fetcher, NEW u \in Url, NEW k \in VerifyingKeys(f, u)
               PROVE  lastSeen[u][k] > clock - CacheTTL - FetchTimeout
    BY DEF WithdrawnKeysExpire
  <2>1. CASE Usable(u) /\ k \in keySets[u].keys
    <3>1. lastSeen[u][k] >= keySets[u].at - FetchTimeout
      BY <2>1 DEF JwksInv, Usable
    <3>2. clock - keySets[u].at < CacheTTL /\ keySets[u].at \in Nat /\ lastSeen[u][k] \in Int
      BY <2>1 DEF JwksInv, JwksTypes, Usable
    <3> QED
      BY <3>1, <3>2, JwksAssumption DEF JwksInv, JwksTypes
  <2>2. CASE fetching[f].url = {u} /\ k \in UNION fetching[f].read
    <3>1. fetching[f] # Idle /\ k \in SigningKey
      BY <2>2 DEF Idle, JwksInv, JwksTypes
    <3>2. lastSeen[u][k] >= fetching[f].since /\ clock <= fetching[f].since + FetchTimeout
      BY <2>2, <3>1 DEF JwksInv
    <3> QED
      BY <3>1, <3>2, JwksAssumption DEF JwksInv, JwksTypes
  <2> QED
    BY <2>1, <2>2 DEF VerifyingKeys
<1> QED
  BY <1>1, JwksInitInv, JwksNextInv, PTL DEF JwksSpec

-----------------------------------------------------------------------------
(* Users and their agents                                                    *)

\* With Postgres a person has one user record, so that a revocation reaches all
\* that IssueToken could find; nothing is known of a pair that is being bound.
UserInv ==
    /\ UserTypeOK /\ DOMAIN bind = Binder
    /\ Postgres => \A u, v \in DOMAIN users : users[u] = users[v] => u = v
    /\ \A pair \in unbound :
         Binding(pair) = {} /\ (Postgres => ActingFor(pair[1], pair[2]) = {})
    /\ \A pair \in DOMAIN granted :
         /\ Binding(pair) = {}
         /\ \E b \in ActingFor(pair[1], pair[2]) : bindings[b].scope = granted[pair]

LEMMA UserInitInv == UserInit => UserInv
<1> SUFFICES ASSUME UserInit PROVE UserInv
  OBVIOUS
<1>1. /\ DOMAIN users = {} /\ DOMAIN bindings = {} /\ DOMAIN granted = {} /\ unbound = {}
      /\ Range(users) = {} /\ Range(granted) = {} /\ userFaults = 0
      /\ DOMAIN bind = Binder /\ \A p \in Binder : bind[p] = NoBind
  BY DEF UserInit, Range
<1> QED
  BY <1>1, UserAssumption DEF UserInv, UserTypeOK

\* A goroutine that ends serves no pair any more; the others serve what they did.
LEMMA EndOfBind ==
    ASSUME UserInv, NEW p \in Binder, bind' = [bind EXCEPT ![p] = NoBind],
           NEW pair \in Identity \X Agent
    PROVE  Binding(pair)' = Binding(pair) \ {p}
<1>1. pair[2] # None /\ pair = <<pair[1], pair[2]>>
  BY DeploymentAssumption
<1>2. bind'[p] = NoBind /\ \A q \in Binder \ {p} : bind'[q] = bind[q]
  BY DEF UserInv
<1>3. <<bind'[p].who, bind'[p].agent>> # pair
  BY <1>1, <1>2 DEF NoBind
<1> QED
  BY <1>2, <1>3 DEF Binding

\* A new user record acts for nobody: it has no binding yet.
LEMMA NewUserActsForNobody ==
    ASSUME UserInv, NEW who \in Identity, InsertUser(who), bindings' = bindings,
           NEW pair \in Identity \X Agent
    PROVE  ActingFor(pair[1], pair[2])' = ActingFor(pair[1], pair[2])
<1>1. NewId \in UserId \ DOMAIN users
  BY DEF InsertUser, NewId
<1>2. \A u \in DOMAIN users : u \in DOMAIN users' /\ users'[u] = users[u]
  BY <1>1 DEF InsertUser, Override
<1>3. \A b \in DOMAIN bindings : b[1] \in DOMAIN users
  BY DEF UserInv, UserTypeOK
<1> QED
  BY <1>2, <1>3 DEF ActingFor, UsersOf

LEMMA NewUserTypes ==
    ASSUME UserInv, NEW who \in Identity, InsertUser(who)
    PROVE  /\ NewId \in UserId \ DOMAIN users
           /\ DOMAIN users' = DOMAIN users \cup {NewId}
           /\ users'[NewId] = who /\ \A u \in DOMAIN users : users'[u] = users[u]
           /\ DOMAIN users' \subseteq UserId /\ Range(users') \subseteq Identity
           /\ Postgres => \A u, v \in DOMAIN users' : users'[u] = users'[v] => u = v
<1>1. NewId \in UserId \ DOMAIN users
  BY DEF InsertUser, NewId
<1>2. /\ DOMAIN users' = DOMAIN users \cup {NewId}
      /\ users'[NewId] = who /\ \A u \in DOMAIN users : users'[u] = users[u]
  BY <1>1 DEF InsertUser, Override
<1>3. DOMAIN users' \subseteq UserId /\ Range(users') \subseteq Identity
  BY <1>1, <1>2 DEF UserInv, UserTypeOK, Range
<1>4. Postgres => \A u \in DOMAIN users : users[u] # who
  BY DEF InsertUser, UserAccepted, UsersOf
<1>5. Postgres => \A u, v \in DOMAIN users' : users'[u] = users'[v] => u = v
  BY <1>2, <1>4 DEF UserInv
<1> QED
  BY <1>1, <1>2, <1>3, <1>5

\* A write to the binding of one user and agent concerns no other person or agent.
LEMMA OtherPairsKeepBindings ==
    ASSUME UserInv, NEW u \in DOMAIN users, NEW a \in Agent, users' = users,
           DOMAIN bindings' = DOMAIN bindings \cup {<<u, a>>},
           \A b \in DOMAIN bindings \ {<<u, a>>} : bindings'[b] = bindings[b],
           NEW pair \in Identity \X Agent, pair # <<users[u], a>>
    PROVE  /\ ActingFor(pair[1], pair[2])' = ActingFor(pair[1], pair[2])
           /\ \A b \in ActingFor(pair[1], pair[2]) : bindings'[b] = bindings[b]
<1>1. pair = <<pair[1], pair[2]>>
  OBVIOUS
<1>2. \A b \in DOMAIN bindings' : b = <<b[1], b[2]>>
  BY DEF UserInv, UserTypeOK
<1>3. \A b \in DOMAIN bindings' : b[1] \in UsersOf(pair[1]) /\ b[2] = pair[2] => b # <<u, a>>
  BY <1>1, <1>2 DEF UsersOf
<1>4. UsersOf(pair[1])' = UsersOf(pair[1])
  BY DEF UsersOf
<1> QED
  BY <1>3, <1>4 DEF ActingFor

LEMMA UpsertWrites ==
    ASSUME NEW pair, NEW scope, bindings' = Upsert(pair, scope)
    PROVE  /\ DOMAIN bindings' = DOMAIN bindings \cup {pair}
           /\ bindings'[pair] = [scope |-> scope, active |-> TRUE]
           /\ \A b \in DOMAIN bindings \ {pair} : bindings'[b] = bindings[b]
BY DEF Upsert, Override

LEMMA UserNextInv == UserInv /\ [UserNext]_userVars => UserInv'
<1> SUFFICES ASSUME UserInv, [UserNext]_userVars PROVE UserInv'
  OBVIOUS
<1>0. /\ unbound \subseteq Identity \X Agent /\ DOMAIN granted \subseteq Identity \X Agent
      /\ DOMAIN bindings \subseteq (DOMAIN users) \X Agent /\ Range(granted) \subseteq Scope
      /\ DOMAIN bind = Binder
  BY DEF UserInv, UserTypeOK
<1>1. ASSUME NEW p \in Binder, NEW who \in Identity, NEW agent \in Agent, NEW scope \in Scope,
             BindBegin(p, who, agent, scope)
      PROVE  UserInv'
  <2>1. /\ unbound' = unbound \ {<<who, agent>>}
        /\ DOMAIN granted' = DOMAIN granted \ {<<who, agent>>}
        /\ \A pair \in DOMAIN granted' : granted'[pair] = granted[pair]
        /\ UNCHANGED <<users, bindings, userFaults>>
    BY <1>1 DEF BindBegin, Forget
  <2>2. /\ bind'[p] = [pc |-> "lookup", who |-> who, agent |-> agent, scope |-> scope, user |-> None]
        /\ \A q \in Binder \ {p} : bind'[q] = bind[q]
        /\ DOMAIN bind' = Binder
    BY <1>0, <1>1 DEF BindBegin
  <2>3. \A pair \in (Identity \X Agent) \ {<<who, agent>>} : Binding(pair) = {} => Binding(pair)' = {}
    BY <2>2 DEF Binding
  <2>4. \A pair : ActingFor(pair[1], pair[2])' = ActingFor(pair[1], pair[2])
    BY <2>1 DEF ActingFor, UsersOf
  <2>5. Range(granted') \subseteq Scope
    BY <1>0, <2>1 DEF Range
  <2>6. UserTypeOK'
    BY <2>1, <2>2, <2>5 DEF UserInv, UserTypeOK
  <2>7. \A pair \in unbound' : pair \in unbound /\ pair \in (Identity \X Agent) \ {<<who, agent>>}
    BY <1>0, <2>1
  <2>8. \A pair \in DOMAIN granted' :
          pair \in DOMAIN granted /\ pair \in (Identity \X Agent) \ {<<who, agent>>}
    BY <1>0, <2>1
  <2> QED
    BY <2>1, <2>2, <2>3, <2>4, <2>6, <2>7, <2>8 DEF UserInv
<1>2. ASSUME NEW p \in Binder, BindLookup(p) PROVE UserInv'
  <2>1. UNCHANGED <<users, bindings, userFaults, unbound, granted>> /\ bind[p].pc = "lookup"
    BY <1>2 DEF BindLookup
  <2>2. bind[p] # NoBind
    BY <2>1 DEF NoBind
  <2>3. /\ DOMAIN bind' = Binder /\ \A q \in Binder \ {p} : bind'[q] = bind[q]
        /\ bind'[p].who = bind[p].who /\ bind'[p].agent = bind[p].agent
    BY <1>0, <1>2, <2>2 DEF BindLookup, UserInv, UserTypeOK
  <2>4. \A pair : Binding(pair)' = Binding(pair)
    BY <2>3 DEF Binding
  <2>5. \A pair : ActingFor(pair[1], pair[2])' = ActingFor(pair[1], pair[2])
    BY <2>1 DEF ActingFor, UsersOf
  <2>6. UserTypeOK'
    <3>1. /\ bind'[p] \in [pc : {"lookup", "create", "bind"}, who : Identity, agent : Agent,
                           scope : Scope, user : UserId \cup {None}]
          /\ bind'[p].pc = "bind" =>
               bind'[p].user \in DOMAIN users /\ users[bind'[p].user] = bind'[p].who
      BY <1>2, <2>2 DEF BindLookup, UsersOf, UserInv, UserTypeOK
    <3> QED
      BY <2>1, <2>3, <3>1 DEF UserInv, UserTypeOK
  <2> QED
    BY <2>1, <2>3, <2>4, <2>5, <2>6 DEF UserInv
<1>3. ASSUME NEW p \in Binder, CreateUser(p) PROVE UserInv'
  <2>1. bind[p] # NoBind /\ bind[p].who \in Identity /\ InsertUser(bind[p].who)
        /\ UNCHANGED <<bindings, userFaults, unbound, granted>>
    BY <1>3 DEF CreateUser, NoBind, UserInv, UserTypeOK
  <2>2. /\ NewId \in UserId \ DOMAIN users /\ DOMAIN users' = DOMAIN users \cup {NewId}
        /\ users'[NewId] = bind[p].who /\ \A u \in DOMAIN users : users'[u] = users[u]
        /\ DOMAIN users' \subseteq UserId /\ Range(users') \subseteq Identity
        /\ Postgres => \A u, v \in DOMAIN users' : users'[u] = users'[v] => u = v
    BY <2>1, NewUserTypes
  <2>3. /\ DOMAIN bind' = Binder /\ \A q \in Binder \ {p} : bind'[q] = bind[q]
        /\ bind'[p].who = bind[p].who /\ bind'[p].agent = bind[p].agent
    BY <1>0, <1>3, <2>1 DEF CreateUser, UserInv, UserTypeOK
  <2>4. \A pair : Binding(pair)' = Binding(pair)
    BY <2>3 DEF Binding
  <2>5. \A pair \in Identity \X Agent : ActingFor(pair[1], pair[2])' = ActingFor(pair[1], pair[2])
    BY <2>1, NewUserActsForNobody
  <2>6. UserTypeOK'
    <3>1. /\ bind'[p] \in [pc : {"lookup", "create", "bind"}, who : Identity, agent : Agent,
                           scope : Scope, user : UserId \cup {None}]
          /\ bind'[p].user = NewId
      <4>1. bind' = [bind EXCEPT ![p].pc = "bind", ![p].user = NewId]
        BY <1>3 DEF CreateUser
      <4>2. bind[p] \in [pc : {"lookup", "create", "bind"}, who : Identity, agent : Agent,
                        scope : Scope, user : UserId \cup {None}]
        BY <2>1 DEF UserInv, UserTypeOK
      <4>3. bind'[p] = [bind[p] EXCEPT !.pc = "bind", !.user = NewId]
        BY <1>0, <4>1, <4>2
      <4> QED
        BY <2>2, <4>2, <4>3
    <3> QED
      BY <2>1, <2>2, <2>3, <3>1 DEF UserInv, UserTypeOK
  <2> QED
    BY <1>0, <2>1, <2>2, <2>3, <2>4, <2>5, <2>6 DEF UserInv
<1>4. ASSUME NEW p \in Binder, CreateUserRefused(p) PROVE UserInv'
  <2>1. bind' = [bind EXCEPT ![p] = NoBind]
        /\ UNCHANGED <<users, bindings, userFaults, unbound, granted>>
    BY <1>4 DEF CreateUserRefused
  <2>2. \A pair \in Identity \X Agent : Binding(pair)' = Binding(pair) \ {p}
    BY <2>1, EndOfBind
  <2>3. \A pair : ActingFor(pair[1], pair[2])' = ActingFor(pair[1], pair[2])
    BY <2>1 DEF ActingFor, UsersOf
  <2>4. UserTypeOK' /\ DOMAIN bind' = Binder
    BY <1>0, <2>1 DEF UserInv, UserTypeOK
  <2> QED
    BY <1>0, <2>1, <2>2, <2>3, <2>4 DEF UserInv
<1>5. ASSUME NEW p \in Binder, CreateBinding(p) PROVE UserInv'
  <2> DEFINE served == <<bind[p].who, bind[p].agent>>
             at     == <<bind[p].user, bind[p].agent>>
  <2>1. /\ bind[p].user \in DOMAIN users /\ users[bind[p].user] = bind[p].who
        /\ bind[p].agent \in Agent /\ bind[p].who \in Identity /\ bind[p].scope \in Scope
    BY <1>5 DEF CreateBinding, NoBind, UserInv, UserTypeOK
  <2>2. /\ bindings' = Upsert(at, bind[p].scope) /\ bind' = [bind EXCEPT ![p] = NoBind]
        /\ granted' = IF Binding(served) = {p}
                      THEN Override([x \in {served} |-> bind[p].scope], granted)
                      ELSE Forget(granted, served)
        /\ UNCHANGED <<users, userFaults, unbound>>
    BY <1>5 DEF CreateBinding
  <2>3. /\ DOMAIN bindings' = DOMAIN bindings \cup {at}
        /\ bindings'[at] = [scope |-> bind[p].scope, active |-> TRUE]
        /\ \A b \in DOMAIN bindings \ {at} : bindings'[b] = bindings[b]
    BY <2>2, UpsertWrites
  <2>4. served \in Identity \X Agent /\ p \in Binding(served)
    BY <2>1 DEF Binding
  <2>5. \A pair \in (Identity \X Agent) \ {served} :
          /\ ActingFor(pair[1], pair[2])' = ActingFor(pair[1], pair[2])
          /\ \A b \in ActingFor(pair[1], pair[2]) : bindings'[b] = bindings[b]
    BY <2>1, <2>2, <2>3, OtherPairsKeepBindings
  <2>6. \A pair \in Identity \X Agent : Binding(pair)' = Binding(pair) \ {p}
    BY <2>2, EndOfBind
  <2>7. served \notin unbound /\ served \notin DOMAIN granted
    BY <2>4 DEF UserInv
  <2>8. /\ DOMAIN granted' \subseteq DOMAIN granted \cup {served}
        /\ \A pair \in DOMAIN granted' \ {served} :
             pair \in DOMAIN granted /\ granted'[pair] = granted[pair]
        /\ served \in DOMAIN granted' => Binding(served) = {p} /\ granted'[served] = bind[p].scope
    <3>1. CASE Binding(served) = {p}
      <4>1. granted' = Override([x \in {served} |-> bind[p].scope], granted)
        BY <2>2, <3>1
      <4> QED
        BY <3>1, <4>1 DEF Override
    <3>2. CASE Binding(served) # {p}
      <4>1. granted' = Forget(granted, served)
        BY <2>2, <3>2
      <4> QED
        BY <4>1 DEF Forget
    <3> QED
      BY <3>1, <3>2
  <2>9. ASSUME NEW pair, pair = served
        PROVE  at \in ActingFor(pair[1], pair[2])' /\ bindings'[at].scope = bind[p].scope
    <3>1. /\ at[1] = bind[p].user /\ at[2] = bind[p].agent
          /\ pair[1] = bind[p].who /\ pair[2] = bind[p].agent
      BY <2>9
    <3>2. at \in DOMAIN bindings' /\ bindings'[at].active /\ bindings'[at].scope = bind[p].scope
      BY <2>3
    <3> HIDE DEF at, served
    <3> QED
      BY <2>1, <2>2, <3>1, <3>2 DEF ActingFor, UsersOf
  <2>10. UserTypeOK' /\ DOMAIN bind' = Binder
    <3>1. DOMAIN granted' \subseteq Identity \X Agent /\ Range(granted') \subseteq Scope
      BY <1>0, <2>1, <2>4, <2>8 DEF Range
    <3>2. /\ DOMAIN bindings' \subseteq (DOMAIN users') \X Agent
          /\ \A b \in DOMAIN bindings' : bindings'[b] \in [scope : Scope, active : BOOLEAN]
      <4>1. at \in (DOMAIN users) \X Agent
        BY <2>1
      <4>3. bindings'[at] \in [scope : Scope, active : BOOLEAN]
        <5> HIDE DEF at
        <5> QED
          BY <2>1, <2>3
      <4>2. \A b \in DOMAIN bindings : bindings[b] \in [scope : Scope, active : BOOLEAN]
        BY DEF UserInv, UserTypeOK
      <4> HIDE DEF at
      <4> QED
        BY <1>0, <2>1, <2>2, <2>3, <4>1, <4>2, <4>3
    <3>3. DOMAIN bind' = Binder /\ \A q \in Binder : bind'[q] = NoBind \/ bind'[q] = bind[q]
      BY <1>0, <2>2
    <3> QED
      BY <2>2, <3>1, <3>2, <3>3 DEF UserInv, UserTypeOK
  <2> HIDE DEF served, at
  <2>11. \A pair \in unbound' : Binding(pair)' = {} /\ (Postgres => ActingFor(pair[1], pair[2])' = {})
    <3> SUFFICES ASSUME NEW pair \in unbound'
                 PROVE  Binding(pair)' = {} /\ (Postgres => ActingFor(pair[1], pair[2])' = {})
      BY Zenon
    <3>1. pair \in unbound /\ pair # served /\ pair \in Identity \X Agent
      BY <1>0, <2>2, <2>7
    <3>2. Binding(pair) = {} /\ (Postgres => ActingFor(pair[1], pair[2]) = {})
      BY <3>1 DEF UserInv
    <3> QED
      BY <2>5, <2>6, <3>1, <3>2
  <2>12. ASSUME NEW pair \in DOMAIN granted'
         PROVE  /\ Binding(pair)' = {}
                /\ \E b \in ActingFor(pair[1], pair[2])' : bindings'[b].scope = granted'[pair]
    <3>1. CASE pair = served
      <4>1. Binding(pair)' = Binding(pair) \ {p} /\ Binding(pair) = {p}
        BY <2>4, <2>6, <2>8, <2>12, <3>1
      <4>2. Binding(pair)' = {} /\ granted'[pair] = bind[p].scope
        BY <2>8, <2>12, <3>1, <4>1
      <4>3. at \in ActingFor(pair[1], pair[2])' /\ bindings'[at].scope = bind[p].scope
        BY <2>9, <3>1
      <4> QED
        BY <4>2, <4>3
    <3>2. CASE pair # served
      <4>1. pair \in DOMAIN granted /\ granted'[pair] = granted[pair] /\ pair \in Identity \X Agent
        BY <1>0, <2>8, <2>12, <3>2
      <4>2. /\ Binding(pair) = {}
            /\ \E b \in ActingFor(pair[1], pair[2]) : bindings[b].scope = granted[pair]
        BY <4>1 DEF UserInv
      <4> QED
        BY <2>5, <2>6, <3>2, <4>1, <4>2
    <3> QED
      BY <3>1, <3>2
  <2> QED
    <3>1. Postgres => \A u, v \in DOMAIN users' : users'[u] = users'[v] => u = v
      BY <2>2 DEF UserInv
    <3>2. \A pair \in DOMAIN granted' :
            /\ Binding(pair)' = {}
            /\ \E b \in ActingFor(pair[1], pair[2])' : bindings'[b].scope = granted'[pair]
      BY <2>12, Zenon
    <3> QED
      BY <2>10, <2>11, <3>1, <3>2, Zenon DEF UserInv
<1>6. ASSUME NEW p \in Binder, BindFails(p) PROVE UserInv'
  <2> DEFINE served == <<bind[p].who, bind[p].agent>>
  <2>1. /\ bind[p].who \in Identity /\ bind[p].agent \in Agent /\ bind[p].scope \in Scope
        /\ bind' = [bind EXCEPT ![p] = NoBind] /\ unbound' = unbound
        /\ granted' = Forget(granted, served) /\ userFaults' \in 0..MaxUserFaults
    BY <1>6, UserAssumption DEF BindFails, UserFault, NoBind, UserInv, UserTypeOK
  <2>2. /\ DOMAIN granted' = DOMAIN granted \ {served}
        /\ \A pair \in DOMAIN granted' : granted'[pair] = granted[pair]
        /\ DOMAIN bind' = Binder /\ \A q \in Binder : bind'[q] \in {NoBind, bind[q]}
    BY <1>0, <2>1 DEF Forget
  <2>3. \A pair \in Identity \X Agent : Binding(pair)' = Binding(pair) \ {p}
    BY <2>1, EndOfBind
  <2>4. served \in Identity \X Agent /\ p \in Binding(served) /\ served \notin unbound
    BY <2>1 DEF Binding, UserInv
  <2>5. DOMAIN granted' \subseteq Identity \X Agent /\ Range(granted') \subseteq Scope
    BY <1>0, <2>2 DEF Range
  <2>6. /\ \A pair \in (Identity \X Agent) \ {served} :
             /\ ActingFor(pair[1], pair[2])' = ActingFor(pair[1], pair[2])
             /\ \A b \in ActingFor(pair[1], pair[2]) : bindings'[b] = bindings[b]
        /\ UserTypeOK'
        /\ Postgres => \A u, v \in DOMAIN users' : users'[u] = users'[v] => u = v
    <3>1. CASE UNCHANGED <<users, bindings>>
      <4>1. \A pair : ActingFor(pair[1], pair[2])' = ActingFor(pair[1], pair[2])
        BY <3>1 DEF ActingFor, UsersOf
      <4>2. UserTypeOK'
        BY <2>1, <2>2, <2>5, <3>1 DEF UserInv, UserTypeOK
      <4> QED
        BY <3>1, <4>1, <4>2 DEF UserInv
    <3>2. CASE InsertUser(bind[p].who) /\ UNCHANGED bindings
      <4>1. /\ DOMAIN users' = DOMAIN users \cup {NewId}
            /\ \A u \in DOMAIN users : users'[u] = users[u]
            /\ DOMAIN users' \subseteq UserId /\ Range(users') \subseteq Identity
            /\ Postgres => \A u, v \in DOMAIN users' : users'[u] = users'[v] => u = v
        BY <2>1, <3>2, NewUserTypes
      <4>2. \A pair \in Identity \X Agent :
              ActingFor(pair[1], pair[2])' = ActingFor(pair[1], pair[2])
        BY <2>1, <3>2, NewUserActsForNobody
      <4>3. UserTypeOK'
        BY <2>1, <2>2, <2>5, <3>2, <4>1 DEF UserInv, UserTypeOK
      <4> QED
        BY <3>2, <4>1, <4>2, <4>3
    <3>3. CASE /\ bind[p].pc = "bind" /\ UNCHANGED users
               /\ bindings' = Upsert(<<bind[p].user, bind[p].agent>>, bind[p].scope)
      <4> DEFINE at == <<bind[p].user, bind[p].agent>>
      <4>1. bind[p].user \in DOMAIN users /\ users[bind[p].user] = bind[p].who
        BY <3>3 DEF NoBind, UserInv, UserTypeOK
      <4>2. /\ DOMAIN bindings' = DOMAIN bindings \cup {at}
            /\ bindings'[at] = [scope |-> bind[p].scope, active |-> TRUE]
            /\ \A b \in DOMAIN bindings \ {at} : bindings'[b] = bindings[b]
        BY <3>3, UpsertWrites
      <4>3. \A pair \in (Identity \X Agent) \ {served} :
              /\ ActingFor(pair[1], pair[2])' = ActingFor(pair[1], pair[2])
              /\ \A b \in ActingFor(pair[1], pair[2]) : bindings'[b] = bindings[b]
        BY <2>1, <3>3, <4>1, <4>2, OtherPairsKeepBindings
      <4>4. /\ DOMAIN bindings' \subseteq (DOMAIN users') \X Agent
            /\ \A b \in DOMAIN bindings' : bindings'[b] \in [scope : Scope, active : BOOLEAN]
        <5>1. at \in (DOMAIN users) \X Agent
          BY <2>1, <4>1
        <5>3. bindings'[at] \in [scope : Scope, active : BOOLEAN]
          <6> HIDE DEF at
          <6> QED
            BY <2>1, <4>2
        <5>2. \A b \in DOMAIN bindings : bindings[b] \in [scope : Scope, active : BOOLEAN]
          BY DEF UserInv, UserTypeOK
        <5> HIDE DEF at
        <5> QED
          BY <1>0, <2>1, <3>3, <4>1, <4>2, <5>1, <5>2, <5>3
      <4>5. UserTypeOK'
        BY <2>1, <2>2, <2>5, <3>3, <4>4 DEF UserInv, UserTypeOK
      <4> QED
        BY <3>3, <4>3, <4>5 DEF UserInv
    <3> QED
      BY <1>6, <3>1, <3>2, <3>3 DEF BindFails
  <2> HIDE DEF served
  <2>7. \A pair \in unbound' : Binding(pair)' = {} /\ (Postgres => ActingFor(pair[1], pair[2])' = {})
    BY <1>0, <2>1, <2>3, <2>4, <2>6 DEF UserInv
  <2>8. \A pair \in DOMAIN granted' :
          /\ Binding(pair)' = {}
          /\ \E b \in ActingFor(pair[1], pair[2])' : bindings'[b].scope = granted'[pair]
    BY <1>0, <2>2, <2>3, <2>6 DEF UserInv
  <2> QED
    BY <2>2, <2>6, <2>7, <2>8, Zenon DEF UserInv
<1>7. ASSUME NEW user \in DOMAIN users, NEW agent \in Agent, RevokeBinding(user, agent)
      PROVE  UserInv'
  <2> DEFINE served == <<users[user], agent>>
             at     == <<user, agent>>
  <2>1. /\ at \in DOMAIN bindings /\ bindings' = [bindings EXCEPT ![at].active = FALSE]
        /\ unbound' = IF Binding(served) = {} THEN unbound \cup {served} ELSE unbound
        /\ granted' = Forget(granted, served) /\ UNCHANGED <<users, bind, userFaults>>
    BY <1>7 DEF RevokeBinding
  <2>2. /\ DOMAIN bindings' = DOMAIN bindings /\ DOMAIN bindings' = DOMAIN bindings \cup {at}
        /\ bindings'[at] = [bindings[at] EXCEPT !.active = FALSE]
        /\ \A b \in DOMAIN bindings \ {at} : bindings'[b] = bindings[b]
    BY <2>1
  <2>3. bindings[at] \in [scope : Scope, active : BOOLEAN] /\ served \in Identity \X Agent
    BY <2>1 DEF UserInv, UserTypeOK, Range
  <2>4. ~bindings'[at].active /\ bindings'[at] \in [scope : Scope, active : BOOLEAN]
    BY <2>2, <2>3
  <2>5. /\ DOMAIN granted' = DOMAIN granted \ {served}
        /\ \A pair \in DOMAIN granted' : granted'[pair] = granted[pair]
    BY <2>1 DEF Forget
  <2>6. \A pair \in (Identity \X Agent) \ {served} :
          /\ ActingFor(pair[1], pair[2])' = ActingFor(pair[1], pair[2])
          /\ \A b \in ActingFor(pair[1], pair[2]) : bindings'[b] = bindings[b]
    <3>1. /\ users' = users /\ DOMAIN bindings' = DOMAIN bindings \cup {<<user, agent>>}
          /\ \A b \in DOMAIN bindings \ {<<user, agent>>} : bindings'[b] = bindings[b]
      BY <2>1, <2>2
    <3> SUFFICES ASSUME NEW pair \in Identity \X Agent, pair # <<users[user], agent>>
                 PROVE  /\ ActingFor(pair[1], pair[2])' = ActingFor(pair[1], pair[2])
                        /\ \A b \in ActingFor(pair[1], pair[2]) : bindings'[b] = bindings[b]
      BY Zenon
    <3> QED
      BY <3>1, OtherPairsKeepBindings, Zenon
  <2>7. ASSUME NEW pair, pair = served, Postgres
        PROVE  ActingFor(pair[1], pair[2])' = {}
    <3>1. \A b \in DOMAIN bindings' : b = <<b[1], b[2]>> /\ b[1] \in DOMAIN users
      BY <1>0, <2>2
    <3>2. \A u \in DOMAIN users' : Postgres /\ users'[u] = users[user] => u = user
      BY <2>1 DEF UserInv
    <3> QED
      BY <2>1, <2>4, <2>7, <3>1, <3>2 DEF ActingFor, UsersOf
  <2>8. \A pair : Binding(pair)' = Binding(pair)
    BY <2>1 DEF Binding
  <2>9. UserTypeOK'
    <3>1. /\ DOMAIN granted' \subseteq Identity \X Agent /\ Range(granted') \subseteq Scope
          /\ unbound' \subseteq Identity \X Agent
      BY <1>0, <2>1, <2>3, <2>5 DEF Range
    <3>2. /\ DOMAIN bindings' \subseteq (DOMAIN users') \X Agent
          /\ \A b \in DOMAIN bindings' : bindings'[b] \in [scope : Scope, active : BOOLEAN]
      BY <1>0, <2>1, <2>2, <2>4 DEF UserInv, UserTypeOK
    <3> QED
      BY <2>1, <3>1, <3>2 DEF UserInv, UserTypeOK
  <2> HIDE DEF served, at
  <2>10. \A pair \in unbound' : Binding(pair)' = {} /\ (Postgres => ActingFor(pair[1], pair[2])' = {})
    <3> SUFFICES ASSUME NEW pair \in unbound'
                 PROVE  Binding(pair)' = {} /\ (Postgres => ActingFor(pair[1], pair[2])' = {})
      BY Zenon
    <3>1. CASE pair = served /\ Binding(served) = {}
      BY <2>7, <2>8, <3>1
    <3>2. CASE pair \in unbound
      <4>1. Binding(pair) = {} /\ (Postgres => ActingFor(pair[1], pair[2]) = {})
        BY <3>2 DEF UserInv
      <4>2. CASE pair = served
        BY <2>7, <2>8, <4>1, <4>2
      <4>3. CASE pair # served
        BY <1>0, <2>6, <2>8, <3>2, <4>1, <4>3
      <4> QED
        BY <4>2, <4>3
    <3> QED
      BY <2>1, <3>1, <3>2
  <2>11. \A pair \in DOMAIN granted' :
          /\ Binding(pair)' = {}
          /\ \E b \in ActingFor(pair[1], pair[2])' : bindings'[b].scope = granted'[pair]
    BY <1>0, <2>5, <2>6, <2>8 DEF UserInv
  <2>12. /\ DOMAIN bind' = Binder
         /\ Postgres => \A u, v \in DOMAIN users' : users'[u] = users'[v] => u = v
    BY <1>0, <2>1 DEF UserInv
  <2> QED
    BY <2>9, <2>10, <2>11, <2>12, Zenon DEF UserInv
<1>8. CASE UNCHANGED userVars
  <2>1. \A pair : /\ ActingFor(pair[1], pair[2])' = ActingFor(pair[1], pair[2])
                  /\ Binding(pair)' = Binding(pair)
    BY <1>8 DEF userVars, ActingFor, UsersOf, Binding
  <2>2. UserTypeOK'
    BY <1>8 DEF userVars, UserInv, UserTypeOK
  <2> QED
    BY <1>8, <2>1, <2>2 DEF userVars, UserInv
<1> QED
  BY <1>1, <1>2, <1>3, <1>4, <1>5, <1>6, <1>7, <1>8 DEF UserNext

\* A revoked binding lets no token be issued for the person until a new one is
\* asked for, for any number of first bindings that race (user/store.go and the
\* constraint of its table).
THEOREM UnboundUntilAsked == UserSpec => []UnboundStaysUnbound
<1>1. UserInv => UnboundStaysUnbound
  BY DEF UserInv, UnboundStaysUnbound
<1> QED
  BY <1>1, UserInitInv, UserNextInv, PTL DEF UserSpec

\* An answered binding is what IssueToken finds, with its scopes, whichever user
\* record the identity leads it to, for any number of other people, agents,
\* requests and failures: with Postgres, whose constraint leaves one record.
THEOREM BindingsAreFound == UserSpec => []AnsweredBindingInForce
<1>1. ASSUME UserInv, Postgres, NEW pair \in DOMAIN granted
      PROVE  /\ UsersOf(pair[1]) # {}
             /\ \A user \in UsersOf(pair[1]) :
                  /\ <<user, pair[2]>> \in ActingFor(pair[1], pair[2])
                  /\ bindings[<<user, pair[2]>>].scope = granted[pair]
  <2>1. PICK b \in ActingFor(pair[1], pair[2]) : bindings[b].scope = granted[pair]
    BY <1>1 DEF UserInv
  <2>2. /\ b \in DOMAIN bindings /\ b[1] \in UsersOf(pair[1]) /\ b[2] = pair[2]
        /\ DOMAIN bindings \subseteq (DOMAIN users) \X Agent
    BY <1>1, <2>1 DEF ActingFor, UserInv, UserTypeOK
  <2>3. b = <<b[1], pair[2]>>
    BY <2>2
  <2>4. \A user \in UsersOf(pair[1]) : user = b[1]
    BY <1>1, <2>2 DEF UserInv, UsersOf
  <2> QED
    BY <2>1, <2>2, <2>3, <2>4
<1>2. UserInv => AnsweredBindingInForce
  BY <1>1 DEF AnsweredBindingInForce
<1> QED
  BY <1>2, UserInitInv, UserNextInv, PTL DEF UserSpec

-----------------------------------------------------------------------------
(* The policy engine                                                         *)

PolicyTypes ==
    /\ policies \in [Instance -> Seq(Policy)]
    /\ \A i \in Instance : Sorted(policies[i]) /\ IsInjective(policies[i])
    /\ policyRows \subseteq Policy /\ IsFiniteSet(policyRows)
    /\ storeFailed \in [Instance -> BOOLEAN]
    /\ promised \in [Instance -> SUBSET Policy]
    /\ removed \in [Instance -> SUBSET Policy]
    /\ adding \subseteq Instance \X Policy

\* What an instance has removed is withdrawn everywhere; what it must apply is
\* not, and with Postgres has a row, so that the next load finds it.
KnowsPolicies(i) ==
    /\ removed[i] \subseteq withdrawn
    /\ removed[i] \cap Range(policies[i]) = {}
    /\ promised[i] \cap withdrawn = {}
    /\ Postgres => promised[i] \subseteq policyRows
    /\ ~storeFailed[i] => promised[i] \subseteq Range(policies[i])

\* A policy that an instance is adding is new to its memory, and has its row
\* unless another instance has removed it meanwhile.
AddsNew(a) ==
    /\ a[2] \notin Range(policies[a[1]]) /\ a[2] \notin removed[a[1]]
    /\ Postgres /\ a[2] \notin withdrawn => a[2] \in policyRows

PolicyInv ==
    /\ PolicyTypes /\ withdrawn \cap policyRows = {}
    /\ \A i \in Instance : KnowsPolicies(i)
    /\ \A a \in adding : AddsNew(a)

\* What sorting gives: every policy of the set, once, by descending priority.
LEMMA SortingKeepsAll ==
    ASSUME NEW S \in SUBSET Policy, IsFiniteSet(S), NEW s \in SortedLists(S)
    PROVE  s \in Seq(Policy) /\ Range(s) = S /\ Sorted(s) /\ IsInjective(s)
<1> DEFINE D == 1..Cardinality(S)
<1>1. /\ Cardinality(S) \in Nat /\ IsFiniteSet(D) /\ Cardinality(D) = Cardinality(S)
  BY FS_CardinalityType, FS_Interval
<1>2. s \in [D -> S] /\ (\A m, n \in D : m # n => s[m] # s[n]) /\ Sorted(s)
  BY DEF SortedLists, SetToSeqs
<1>3. IsInjective(s)
  BY <1>2 DEF IsInjective
<1>4. s \in Injection(D, S)
  BY <1>2, <1>3 DEF Injection
<1>5. s \in Surjection(D, S)
  BY <1>1, <1>4, FS_Injection
<1>6. Range(s) = S
  BY <1>2, <1>5 DEF Surjection, Range
<1>7. s \in Seq(Policy)
  BY <1>1, <1>2
<1> QED
  BY <1>2, <1>3, <1>6, <1>7

\* The policies of a list are finitely many.
LEMMA ListIsFinite ==
    ASSUME NEW s \in Seq(Policy), IsInjective(s)
    PROVE  IsFiniteSet(Range(s)) /\ Range(s) \in SUBSET Policy
<1>1. Len(s) \in Nat /\ DOMAIN s = 1..Len(s) /\ IsFiniteSet(1..Len(s))
  BY FS_Interval
<1>2. s \in Surjection(1..Len(s), Range(s))
  BY <1>1 DEF Surjection, Range
<1>3. IsFiniteSet(Range(s))
  BY <1>1, <1>2, FS_Surjection
<1> QED
  BY <1>1, <1>3 DEF Range

\* RemovePolicy takes the policy out and keeps the others as they are.
LEMMA DroppingKeepsOthers ==
    ASSUME NEW s \in Seq(Policy), Sorted(s), IsInjective(s), NEW p \in Range(s)
    PROVE  /\ Dropped(s, p) \in Seq(Policy) /\ Range(Dropped(s, p)) = Range(s) \ {p}
           /\ Sorted(Dropped(s, p)) /\ IsInjective(Dropped(s, p))
<1> DEFINE at == CHOOSE n \in DOMAIN s : s[n] = p
           rest == Dropped(s, p)
<1>1. Len(s) \in Nat /\ DOMAIN s = 1..Len(s) /\ \A n \in 1..Len(s) : s[n] \in Policy
  OBVIOUS
<1>2. at \in 1..Len(s) /\ s[at] = p
  BY <1>1 DEF Range
<1>3. rest = SubSeq(s, 1, at - 1) \o SubSeq(s, at + 1, Len(s))
  BY DEF Dropped, RemoveAt
<1> HIDE DEF at, rest
<1>4. /\ SubSeq(s, 1, at - 1) \in Seq(Policy) /\ Len(SubSeq(s, 1, at - 1)) = at - 1
      /\ \A n \in 1..at - 1 : SubSeq(s, 1, at - 1)[n] = s[n]
  BY <1>1, <1>2, SubSeqProperties
<1>5. /\ SubSeq(s, at + 1, Len(s)) \in Seq(Policy) /\ Len(SubSeq(s, at + 1, Len(s))) = Len(s) - at
      /\ \A n \in 1..Len(s) - at : SubSeq(s, at + 1, Len(s))[n] = s[at + n]
  <2>1. /\ at + 1 \in Int /\ Len(s) \in Int /\ \A n \in at + 1..Len(s) : s[n] \in Policy
    BY <1>1, <1>2
  <2>2. /\ SubSeq(s, at + 1, Len(s)) \in Seq(Policy)
        /\ Len(SubSeq(s, at + 1, Len(s))) = IF at + 1 <= Len(s) THEN Len(s) - (at + 1) + 1 ELSE 0
        /\ \A n \in 1..Len(s) - (at + 1) + 1 : SubSeq(s, at + 1, Len(s))[n] = s[(at + 1) + n - 1]
    BY <2>1, SubSeqProperties
  <2>3. Len(SubSeq(s, at + 1, Len(s))) = Len(s) - at
    <3>1. CASE at + 1 <= Len(s)
      BY <1>1, <1>2, <2>2, <3>1
    <3>2. CASE at = Len(s)
      BY <1>1, <1>2, <2>2, <3>2
    <3>3. at + 1 <= Len(s) \/ at = Len(s)
      <4>1. Len(s) \in Nat /\ at \in 1..Len(s)
        BY <1>1, <1>2
      <4> HIDE DEF at
      <4>2. \A m, n \in Nat : m \in 1..n => m + 1 <= n \/ m = n
        OBVIOUS
      <4> QED
        BY <4>1, <4>2
    <3> QED
      BY <3>1, <3>2, <3>3, Zenon
  <2>4. ASSUME NEW n \in 1..Len(s) - at
        PROVE  SubSeq(s, at + 1, Len(s))[n] = s[at + n]
    <3>1. n \in 1..Len(s) - (at + 1) + 1 /\ (at + 1) + n - 1 = at + n
      BY <1>1, <1>2
    <3> QED
      BY <2>2, <3>1
  <2> QED
    BY <2>2, <2>3, <2>4
<1>6. /\ rest \in Seq(Policy) /\ Len(rest) = Len(s) - 1
      /\ \A n \in 1..Len(s) - 1 : rest[n] = IF n < at THEN s[n] ELSE s[n + 1]
  <2>1. /\ rest \in Seq(Policy)
        /\ Len(rest) = (at - 1) + (Len(s) - at)
        /\ \A n \in 1..(at - 1) + (Len(s) - at) :
             rest[n] = IF n <= at - 1 THEN SubSeq(s, 1, at - 1)[n]
                       ELSE SubSeq(s, at + 1, Len(s))[n - (at - 1)]
    BY <1>3, <1>4, <1>5, ConcatProperties
  <2>2. Len(rest) = Len(s) - 1
    BY <1>1, <1>2, <2>1
  <2>3. ASSUME NEW n \in 1..Len(s) - 1
        PROVE  rest[n] = IF n < at THEN s[n] ELSE s[n + 1]
    <3>1. CASE n < at
      BY <1>1, <1>2, <1>4, <2>1, <3>1
    <3>2. CASE ~(n < at)
      <4>1. n - (at - 1) \in 1..Len(s) - at /\ at + (n - (at - 1)) = n + 1
        BY <1>1, <1>2, <3>2
      <4>2. rest[n] = SubSeq(s, at + 1, Len(s))[n - (at - 1)]
        BY <1>1, <1>2, <2>1, <3>2
      <4> QED
        BY <1>5, <3>2, <4>1, <4>2
    <3> QED
      BY <3>1, <3>2
  <2> QED
    BY <2>1, <2>2, <2>3
<1> DEFINE from(n) == IF n < at THEN n ELSE n + 1
<1>7. /\ DOMAIN rest = 1..Len(s) - 1
      /\ \A n \in 1..Len(s) - 1 : rest[n] = s[from(n)] /\ from(n) \in (1..Len(s)) \ {at}
      /\ \A m, n \in 1..Len(s) - 1 : (m < n => from(m) < from(n)) /\ (from(m) = from(n) => m = n)
  BY <1>1, <1>2, <1>6
<1>8. \A k \in (1..Len(s)) \ {at} : \E n \in 1..Len(s) - 1 : from(n) = k
  <2> SUFFICES ASSUME NEW k \in (1..Len(s)) \ {at}
               PROVE  \E n \in 1..Len(s) - 1 : from(n) = k
    OBVIOUS
  <2>1. CASE k < at
    BY <1>1, <1>2, <2>1
  <2>2. CASE ~(k < at)
    <3>1. k - 1 \in 1..Len(s) - 1 /\ from(k - 1) = k
      BY <1>1, <1>2, <2>2
    <3> HIDE DEF from
    <3> QED
      BY <3>1
  <2> QED
    BY <2>1, <2>2
<1> HIDE DEF from
<1>9. \A k \in 1..Len(s) : s[k] = p => k = at
  BY <1>1, <1>2 DEF IsInjective
<1>10. Range(rest) = Range(s) \ {p}
  <2>1. ASSUME NEW q \in Range(rest) PROVE q \in Range(s) \ {p}
    <3>1. PICK n \in 1..Len(s) - 1 : q = s[from(n)]
      BY <1>7 DEF Range
    <3>2. from(n) \in (1..Len(s)) \ {at}
      BY <1>7
    <3> QED
      BY <1>1, <1>9, <3>1, <3>2 DEF Range
  <2>2. ASSUME NEW q \in Range(s) \ {p} PROVE q \in Range(rest)
    <3>1. PICK k \in 1..Len(s) : q = s[k]
      BY <1>1 DEF Range
    <3>2. k \in (1..Len(s)) \ {at}
      BY <1>2, <2>2, <3>1
    <3>3. PICK n \in 1..Len(s) - 1 : from(n) = k
      BY <1>8, <3>2
    <3>4. rest[n] = q /\ n \in DOMAIN rest
      BY <1>7, <3>1, <3>3
    <3> QED
      BY <3>4 DEF Range
  <2> QED
    BY <2>1, <2>2
<1>11. Sorted(rest)
  BY <1>1, <1>7 DEF Sorted
<1>12. IsInjective(rest)
  BY <1>1, <1>7 DEF IsInjective
<1> QED
  BY <1>6, <1>10, <1>11, <1>12 DEF rest

LEMMA PolicyInitInv == PolicyInit => PolicyInv
<1> SUFFICES ASSUME PolicyInit PROVE PolicyInv
  OBVIOUS
<1>1. /\ \A i \in Instance : policies[i] = <<>> /\ promised[i] = {} /\ removed[i] = {}
      /\ policies \in [Instance -> Seq(Policy)] /\ storeFailed \in [Instance -> BOOLEAN]
      /\ promised \in [Instance -> SUBSET Policy] /\ removed \in [Instance -> SUBSET Policy]
      /\ policyRows = {} /\ adding = {} /\ withdrawn = {}
  BY DEF PolicyInit
<1>2. \A i \in Instance : Sorted(policies[i]) /\ IsInjective(policies[i])
  BY <1>1 DEF Sorted, IsInjective
<1> QED
  BY <1>1, <1>2, FS_EmptySet DEF PolicyInv, PolicyTypes, KnowsPolicies

\* A fresh ID makes a policy that nothing in the system knows.
LEMMA NewPolicyIsNew ==
    ASSUME PolicyInv, NEW draft \in Draft, ~(PolicyId \subseteq UsedIds)
    PROVE  /\ NewPolicy(draft) \in Policy
           /\ NewPolicy(draft) \notin withdrawn
           /\ \A i \in Instance : NewPolicy(draft) \notin Range(policies[i])
<1> DEFINE id == CHOOSE i \in PolicyId : i \notin UsedIds
<1>1. id \in PolicyId /\ id \notin UsedIds
  OBVIOUS
<1> HIDE DEF id
<1>2. NewPolicy(draft) = [id |-> id, of |-> draft]
  BY DEF NewPolicy, id
<1>3. NewPolicy(draft) \in Policy /\ NewPolicy(draft).id = id
  BY <1>1, <1>2 DEF Policy
<1>4. \A p \in withdrawn : p \in Known
  BY DEF Known
<1>5. \A i \in Instance : \A p \in Range(policies[i]) : p \in Known
  BY DEF Known
<1>6. \A p \in Known : p.id \in UsedIds
  BY DEF UsedIds
<1> QED
  BY <1>1, <1>3, <1>4, <1>5, <1>6

\* A row for a policy that nothing knows harms nobody.
LEMMA NewRowInv ==
    ASSUME PolicyInv, NEW p \in Policy, InsertRow(p), p \notin withdrawn,
           UNCHANGED <<policies, storeFailed, promised, withdrawn, removed>>,
           adding' \subseteq Instance \X Policy
    PROVE  /\ PolicyTypes' /\ withdrawn' \cap policyRows' = {}
           /\ \A i \in Instance : KnowsPolicies(i)'
           /\ \A a \in adding : AddsNew(a)'
           /\ Postgres => p \in policyRows'
<1>1. policyRows' = policyRows \/ policyRows' = policyRows \cup {p}
  BY DEF InsertRow
<1>2. IsFiniteSet(policyRows')
  <2>1. IsFiniteSet(policyRows)
    BY DEF PolicyInv, PolicyTypes
  <2>2. IsFiniteSet(policyRows \cup {p})
    BY <2>1, FS_AddElement
  <2> QED
    BY <1>1, <2>1, <2>2
<1>3. PolicyTypes'
  BY <1>1, <1>2 DEF PolicyInv, PolicyTypes
<1>4. policyRows \subseteq policyRows' /\ withdrawn' \cap policyRows' = {}
  BY <1>1 DEF PolicyInv
<1>5. ASSUME NEW i \in Instance PROVE KnowsPolicies(i)'
  BY <1>4 DEF PolicyInv, KnowsPolicies
<1>6. ASSUME NEW a \in adding PROVE AddsNew(a)'
  BY <1>4 DEF PolicyInv, AddsNew
<1> QED
  BY <1>3, <1>4, <1>5, <1>6 DEF InsertRow

\* What an instance has in memory, and what of it is promised, changes at one
\* instance only: i gets the list s.
LEMMA NewListTypes ==
    ASSUME PolicyInv, NEW i \in Instance, NEW s \in Seq(Policy), Sorted(s), IsInjective(s),
           policies' = [policies EXCEPT ![i] = s]
    PROVE  /\ policies' \in [Instance -> Seq(Policy)] /\ policies'[i] = s
           /\ \A j \in Instance \ {i} : policies'[j] = policies[j]
           /\ \A j \in Instance : Sorted(policies'[j]) /\ IsInjective(policies'[j])
BY DEF PolicyInv, PolicyTypes

\* An instance starts again with the list s.
LEMMA RestartingInv ==
    ASSUME PolicyInv, NEW i \in Instance, Restarting(i), NEW s \in Seq(Policy),
           Sorted(s), IsInjective(s), policies' = [policies EXCEPT ![i] = s],
           Range(s) \subseteq policyRows, storeFailed' \in [Instance -> BOOLEAN],
           \A j \in Instance \ {i} : storeFailed'[j] = storeFailed[j],
           storeFailed'[i] \/ Range(s) = policyRows
    PROVE  PolicyInv'
<1>1. /\ policies' \in [Instance -> Seq(Policy)] /\ policies'[i] = s
      /\ \A j \in Instance \ {i} : policies'[j] = policies[j]
      /\ \A j \in Instance : Sorted(policies'[j]) /\ IsInjective(policies'[j])
  BY NewListTypes
<1>2. /\ adding' = {a \in adding : a[1] # i} /\ UNCHANGED <<policyRows, withdrawn, removed>>
      /\ promised' = [promised EXCEPT ![i] = IF Postgres THEN UNION Range(promised) ELSE {}]
  BY DEF Restarting
<1>3. \A p \in UNION Range(promised) :
        p \in Policy /\ p \notin withdrawn /\ (Postgres => p \in policyRows)
  <2> SUFFICES ASSUME NEW j \in Instance, NEW p \in promised[j]
               PROVE  p \in Policy /\ p \notin withdrawn /\ (Postgres => p \in policyRows)
    BY DEF Range, PolicyInv, PolicyTypes
  <2> QED
    BY DEF PolicyInv, PolicyTypes, KnowsPolicies
<1>4. /\ promised' \in [Instance -> SUBSET Policy]
      /\ promised'[i] \subseteq UNION Range(promised) /\ (Postgres \/ promised'[i] = {})
      /\ \A j \in Instance \ {i} : promised'[j] = promised[j]
  BY <1>2, <1>3 DEF PolicyInv, PolicyTypes
<1>5. PolicyTypes'
  BY <1>1, <1>2, <1>4 DEF PolicyInv, PolicyTypes
<1>6. ASSUME NEW j \in Instance PROVE KnowsPolicies(j)'
  <2>1. CASE j = i
    BY <1>1, <1>2, <1>3, <1>4, <2>1 DEF PolicyInv, KnowsPolicies
  <2>2. CASE j # i
    BY <1>1, <1>2, <1>4, <2>2 DEF PolicyInv, KnowsPolicies
  <2> QED
    BY <2>1, <2>2
<1>7. ASSUME NEW a \in adding' PROVE AddsNew(a)'
  <2>1. a \in adding /\ a[1] # i /\ a[1] \in Instance
    BY <1>2 DEF PolicyInv, PolicyTypes
  <2> QED
    BY <1>1, <1>2, <2>1 DEF PolicyInv, AddsNew
<1> QED
  BY <1>2, <1>5, <1>6, <1>7 DEF PolicyInv

\* A policy is withdrawn, and an instance that has answered so has dropped it.
LEMMA WithdrawnInv ==
    ASSUME PolicyInv, NEW i \in Instance, NEW p \in Range(policies[i]), Withdraw(p),
           policyRows' = policyRows \ {p}, UNCHANGED <<storeFailed, adding>>,
           \/ UNCHANGED <<policies, removed>>
           \/ /\ policies' = [policies EXCEPT ![i] = Dropped(@, p)]
              /\ removed' = [removed EXCEPT ![i] = @ \cup {p}]
    PROVE  PolicyInv'
<1>1. p \in Policy
  BY ListIsFinite DEF PolicyInv, PolicyTypes
<1>2. /\ withdrawn' = withdrawn \cup {p} /\ promised' \in [Instance -> SUBSET Policy]
      /\ \A j \in Instance : promised'[j] = promised[j] \ {p}
  BY DEF Withdraw, PolicyInv, PolicyTypes
<1>3. policyRows' \subseteq Policy /\ IsFiniteSet(policyRows') /\ withdrawn' \cap policyRows' = {}
  BY <1>2, FS_Subset DEF PolicyInv, PolicyTypes
<1>4. /\ policies' \in [Instance -> Seq(Policy)] /\ removed' \in [Instance -> SUBSET Policy]
      /\ \A j \in Instance : Sorted(policies'[j]) /\ IsInjective(policies'[j])
      /\ \A j \in Instance :
           \/ policies'[j] = policies[j] /\ removed'[j] = removed[j]
           \/ /\ Range(policies'[j]) = Range(policies[j]) \ {p} /\ p \in Range(policies[j])
              /\ removed'[j] = removed[j] \cup {p}
  <2>1. CASE UNCHANGED <<policies, removed>>
    BY <2>1 DEF PolicyInv, PolicyTypes
  <2>2. CASE /\ policies' = [policies EXCEPT ![i] = Dropped(@, p)]
             /\ removed' = [removed EXCEPT ![i] = @ \cup {p}]
    <3>1. policies[i] \in Seq(Policy) /\ Sorted(policies[i]) /\ IsInjective(policies[i])
      BY DEF PolicyInv, PolicyTypes
    <3>2. /\ Dropped(policies[i], p) \in Seq(Policy)
          /\ Range(Dropped(policies[i], p)) = Range(policies[i]) \ {p}
          /\ Sorted(Dropped(policies[i], p)) /\ IsInjective(Dropped(policies[i], p))
      BY <3>1, DroppingKeepsOthers
    <3>3. policies' = [policies EXCEPT ![i] = Dropped(policies[i], p)]
      BY <2>2
    <3>4. /\ policies' \in [Instance -> Seq(Policy)] /\ policies'[i] = Dropped(policies[i], p)
          /\ \A j \in Instance \ {i} : policies'[j] = policies[j]
          /\ \A j \in Instance : Sorted(policies'[j]) /\ IsInjective(policies'[j])
      BY <3>2, <3>3, NewListTypes
    <3>5. /\ removed' \in [Instance -> SUBSET Policy] /\ removed'[i] = removed[i] \cup {p}
          /\ \A j \in Instance \ {i} : removed'[j] = removed[j]
      BY <1>1, <2>2 DEF PolicyInv, PolicyTypes
    <3> QED
      BY <3>2, <3>4, <3>5
  <2> QED
    BY <2>1, <2>2
<1>5. PolicyTypes'
  BY <1>2, <1>3, <1>4 DEF PolicyInv, PolicyTypes
<1>6. ASSUME NEW j \in Instance PROVE KnowsPolicies(j)'
  BY <1>2, <1>4 DEF PolicyInv, KnowsPolicies
<1>7. ASSUME NEW a \in adding' PROVE AddsNew(a)'
  <2>1. a \in adding /\ a[1] \in Instance /\ AddsNew(a)
    BY DEF PolicyInv, PolicyTypes
  <2> QED
    BY <1>2, <1>4, <2>1 DEF AddsNew
<1> QED
  BY <1>3, <1>5, <1>6, <1>7 DEF PolicyInv

LEMMA AddFinishInv ==
    ASSUME PolicyInv, NEW i \in Instance, NEW p, AddFinish(i, p)
    PROVE  PolicyInv'
<1>1. /\ <<i, p>> \in adding /\ adding' = adding \ {<<i, p>>}
      /\ promised' = [promised EXCEPT ![i] = @ \cup ({p} \ withdrawn)]
      /\ UNCHANGED <<policyRows, storeFailed, policyFaults, withdrawn, removed>>
  BY DEF AddFinish
<1>2. PICK s \in SortedLists(Range(policies[i]) \cup {p}) : policies' = [policies EXCEPT ![i] = s]
  BY DEF AddFinish
<1>3. /\ p \in Policy /\ p \notin Range(policies[i]) /\ p \notin removed[i]
      /\ Postgres /\ p \notin withdrawn => p \in policyRows
  <2>1. AddsNew(<<i, p>>) /\ <<i, p>> \in Instance \X Policy
    BY <1>1 DEF PolicyInv, PolicyTypes
  <2> QED
    BY <2>1 DEF AddsNew
<1>4. /\ s \in Seq(Policy) /\ Range(s) = Range(policies[i]) \cup {p}
      /\ Sorted(s) /\ IsInjective(s)
  <2>1. IsFiniteSet(Range(policies[i])) /\ Range(policies[i]) \in SUBSET Policy
    BY ListIsFinite DEF PolicyInv, PolicyTypes
  <2>2. IsFiniteSet(Range(policies[i]) \cup {p})
    BY <2>1, FS_AddElement
  <2> QED
    BY <1>2, <1>3, <2>1, <2>2, SortingKeepsAll
<1>5. /\ policies' \in [Instance -> Seq(Policy)] /\ policies'[i] = s
      /\ \A j \in Instance \ {i} : policies'[j] = policies[j]
      /\ \A j \in Instance : Sorted(policies'[j]) /\ IsInjective(policies'[j])
  BY <1>2, <1>4, NewListTypes
<1>6. /\ promised' \in [Instance -> SUBSET Policy]
      /\ promised'[i] = promised[i] \cup ({p} \ withdrawn)
      /\ \A j \in Instance \ {i} : promised'[j] = promised[j]
  BY <1>1, <1>3 DEF PolicyInv, PolicyTypes
<1>7. PolicyTypes'
  BY <1>1, <1>5, <1>6 DEF PolicyInv, PolicyTypes
<1>8. ASSUME NEW j \in Instance PROVE KnowsPolicies(j)'
  <2>1. CASE j = i
    BY <1>1, <1>3, <1>4, <1>5, <1>6, <2>1 DEF PolicyInv, KnowsPolicies
  <2>2. CASE j # i
    BY <1>1, <1>5, <1>6, <2>2 DEF PolicyInv, KnowsPolicies
  <2> QED
    BY <2>1, <2>2
<1>9. ASSUME NEW a \in adding' PROVE AddsNew(a)'
  <2>1. a \in adding /\ a # <<i, p>> /\ a = <<a[1], a[2]>> /\ a[1] \in Instance /\ AddsNew(a)
    BY <1>1 DEF PolicyInv, PolicyTypes
  <2>2. a[1] = i => a[2] # p
    BY <2>1
  <2> QED
    BY <1>1, <1>4, <1>5, <2>1, <2>2 DEF AddsNew
<1> QED
  BY <1>1, <1>7, <1>8, <1>9 DEF PolicyInv

LEMMA PolicyNextInv == PolicyInv /\ [PolicyNext]_policyVars => PolicyInv'
<1> SUFFICES ASSUME PolicyInv, [PolicyNext]_policyVars PROVE PolicyInv'
  OBVIOUS
<1>1. ASSUME NEW i \in Instance, NEW draft \in Draft, AddBegin(i, draft) PROVE PolicyInv'
  <2> DEFINE p == NewPolicy(draft)
  <2>1. /\ ~(PolicyId \subseteq UsedIds) /\ InsertRow(p) /\ adding' = adding \cup {<<i, p>>}
        /\ UNCHANGED <<policies, storeFailed, policyFaults, promised, withdrawn, removed>>
    BY <1>1 DEF AddBegin
  <2>2. p \in Policy /\ p \notin withdrawn /\ \A j \in Instance : p \notin Range(policies[j])
    BY <2>1, NewPolicyIsNew
  <2>3. PICK q : q = p
    OBVIOUS
  <2> HIDE DEF p
  <2>4. adding' \subseteq Instance \X Policy
    BY <2>1, <2>2 DEF PolicyInv, PolicyTypes
  <2>5. /\ PolicyTypes' /\ withdrawn' \cap policyRows' = {}
        /\ \A j \in Instance : KnowsPolicies(j)'
        /\ \A a \in adding : AddsNew(a)'
        /\ Postgres => p \in policyRows'
    BY <2>1, <2>2, <2>4, NewRowInv
  <2>6. AddsNew(<<i, q>>)'
    BY <2>1, <2>2, <2>3, <2>5 DEF AddsNew, PolicyInv, KnowsPolicies
  <2> QED
    BY <2>1, <2>3, <2>5, <2>6 DEF PolicyInv
<1>2. ASSUME NEW draft \in Draft, AddFails(draft) PROVE PolicyInv'
  <2> DEFINE p == NewPolicy(draft)
  <2>1. /\ ~(PolicyId \subseteq UsedIds) /\ InsertRow(p)
        /\ UNCHANGED <<policies, storeFailed, adding, promised, withdrawn, removed>>
    BY <1>2 DEF AddFails
  <2>2. p \in Policy /\ p \notin withdrawn
    BY <2>1, NewPolicyIsNew
  <2> HIDE DEF p
  <2>3. adding' \subseteq Instance \X Policy
    BY <2>1 DEF PolicyInv, PolicyTypes
  <2> QED
    BY <2>1, <2>2, <2>3, NewRowInv DEF PolicyInv
<1>3. ASSUME NEW i \in Instance, NEW a \in adding, AddFinish(i, a[2]) PROVE PolicyInv'
  BY <1>3, AddFinishInv
<1>4. ASSUME NEW i \in Instance, NEW p \in Range(policies[i]),
             RemovePolicy(i, p) \/ RemovePolicyFails(i, p)
      PROVE  PolicyInv'
  BY <1>4, WithdrawnInv DEF RemovePolicy, RemovePolicyFails
<1>5. ASSUME NEW i \in Instance, LoadFromStore(i) PROVE PolicyInv'
  <2>1. PICK s \in SortedLists(policyRows) : policies' = [policies EXCEPT ![i] = s]
    BY <1>5 DEF LoadFromStore
  <2>2. s \in Seq(Policy) /\ Range(s) = policyRows /\ Sorted(s) /\ IsInjective(s)
    BY SortingKeepsAll DEF PolicyInv, PolicyTypes
  <2>3. /\ storeFailed' \in [Instance -> BOOLEAN]
        /\ \A j \in Instance \ {i} : storeFailed'[j] = storeFailed[j]
    BY <1>5 DEF LoadFromStore, PolicyInv, PolicyTypes
  <2> QED
    BY <1>5, <2>1, <2>2, <2>3, RestartingInv DEF LoadFromStore
<1>6. ASSUME NEW i \in Instance, LoadFails(i) PROVE PolicyInv'
  <2> DEFINE s == <<>>
  <2>1. s \in Seq(Policy) /\ Range(s) = {} /\ Sorted(s) /\ IsInjective(s)
    BY DEF Range, Sorted, IsInjective
  <2>2. /\ storeFailed' \in [Instance -> BOOLEAN] /\ storeFailed'[i]
        /\ \A j \in Instance \ {i} : storeFailed'[j] = storeFailed[j]
        /\ policies' = [policies EXCEPT ![i] = s] /\ Restarting(i)
    BY <1>6 DEF LoadFails, PolicyInv, PolicyTypes
  <2> HIDE DEF s
  <2> QED
    BY <2>1, <2>2, RestartingInv
<1>7. CASE UNCHANGED policyVars
  BY <1>7 DEF policyVars, PolicyInv, PolicyTypes, KnowsPolicies, AddsNew
<1> QED
  BY <1>1, <1>2, <1>3, <1>4, <1>5, <1>6, <1>7 DEF PolicyNext

\* The first of several positions.
LEMMA FirstOf ==
    ASSUME NEW T \in SUBSET Nat, T # {}
    PROVE  \E n \in T : \A m \in T : ~(m < n)
<1>1. \E n \in T : \A m \in T : ~(<<m, n>> \in OpToRel(<, Nat))
  BY NatLessThanWellFounded, WFMin
<1> QED
  BY <1>1 DEF OpToRel

\* The walk over a sorted list decides as the table, which knows no order.
LEMMA WalkFollowsTable ==
    ASSUME NEW s \in Seq(Policy), Sorted(s)
    PROVE  LET P       == Range(s)
               Failing == {p \in P : p.of.outcome = "error"}
           IN  /\ Permits(s) => TableAllows(P)
               /\ Failing = {} => (Permits(s) <=> TableAllows(P))
               /\ Permits(s) /\ (\E p \in P : p.of.action = "allow") =>
                    \E p \in P :
                      /\ p.of.action = "allow" /\ p.of.outcome = "match"
                      /\ \A q \in Failing : q.of.priority <= p.of.priority
<1> DEFINE P       == Range(s)
           Failing == {p \in P : p.of.outcome = "error"}
           denies  == {n \in DOMAIN s : s[n].of.action = "deny"}
           allows  == {n \in DOMAIN s : s[n].of.action = "allow"}
<1>1. /\ Len(s) \in Nat /\ DOMAIN s = 1..Len(s)
      /\ \A n \in DOMAIN s : /\ s[n].of.action \in {"allow", "deny"} /\ s[n].of.priority \in Int
                             /\ s[n].of.outcome \in {"match", "no match", "error"}
  <2>1. Len(s) \in Nat /\ DOMAIN s = 1..Len(s) /\ \A n \in 1..Len(s) : s[n] \in Policy
    OBVIOUS
  <2>2. \A n \in 1..Len(s) : s[n].of \in Draft
    BY <2>1 DEF Policy
  <2> QED
    BY <2>1, <2>2, PolicyAssumption
<1>2. \A p : p \in P <=> \E n \in DOMAIN s : p = s[n]
  BY DEF Range
<1>3. Permits(s) <=>
        /\ \A n \in denies : s[n].of.outcome = "no match"
        /\ \/ allows = {}
           \/ \E n \in allows : /\ s[n].of.outcome = "match"
                                /\ \A m \in allows : m < n => s[m].of.outcome = "no match"
  BY DEF Permits
<1>4. TableAllows(P) <=>
        /\ \A n \in denies : s[n].of.outcome = "no match"
        /\ allows # {} => \E n \in allows : s[n].of.outcome = "match"
  <2>1. (\A p \in P : p.of.action = "deny" => p.of.outcome = "no match")
        <=> \A n \in denies : s[n].of.outcome = "no match"
    <3>1. ASSUME \A p \in P : p.of.action = "deny" => p.of.outcome = "no match", NEW n \in denies
          PROVE  s[n].of.outcome = "no match"
      <4>1. s[n] \in P /\ s[n].of.action = "deny"
        BY <1>2
      <4> QED
        BY <3>1, <4>1
    <3>2. ASSUME \A n \in denies : s[n].of.outcome = "no match", NEW p \in P, p.of.action = "deny"
          PROVE  p.of.outcome = "no match"
      <4>1. PICK n \in DOMAIN s : p = s[n]
        BY <1>2
      <4>2. n \in denies
        BY <3>2, <4>1
      <4> QED
        BY <3>2, <4>1, <4>2
    <3> QED
      BY <3>1, <3>2, Zenon
  <2>2. (\E p \in P : p.of.action = "allow") <=> allows # {}
    BY <1>2
  <2>3. (\E p \in P : p.of.action = "allow" /\ p.of.outcome = "match")
        <=> \E n \in allows : s[n].of.outcome = "match"
    BY <1>2
  <2> HIDE DEF denies, allows, P
  <2> QED
    BY <2>1, <2>2, <2>3 DEF TableAllows
<1>5. Permits(s) => TableAllows(P)
  BY <1>3, <1>4
<1>6. ASSUME Failing = {}, TableAllows(P), allows # {} PROVE Permits(s)
  <2> DEFINE good == {n \in allows : s[n].of.outcome = "match"}
  <2>1. good # {}
    BY <1>4, <1>6
  <2>2. good \in SUBSET Nat
    <3>1. good \subseteq 1..Len(s) /\ Len(s) \in Nat
      BY <1>1, Zenon
    <3> HIDE DEF good
    <3> QED
      BY <3>1
  <2> HIDE DEF good
  <2>5. PICK n \in good : \A m \in good : ~(m < n)
    BY <2>1, <2>2, FirstOf
  <2>3. \A m \in allows : m < n => s[m].of.outcome = "no match"
    <3> SUFFICES ASSUME NEW m \in allows, m < n PROVE s[m].of.outcome = "no match"
      OBVIOUS
    <3>1. s[m].of.outcome # "match"
      BY <2>5 DEF good
    <3>2. s[m].of.outcome # "error"
      BY <1>2, <1>6
    <3> QED
      BY <1>1, <3>1, <3>2
  <2>4. n \in allows /\ s[n].of.outcome = "match"
    BY DEF good
  <2> QED
    BY <1>3, <1>4, <1>6, <2>3, <2>4
<1>7. Failing = {} => (Permits(s) <=> TableAllows(P))
  BY <1>3, <1>4, <1>5, <1>6
<1>8. ASSUME Permits(s), allows # {}
      PROVE  \E p \in P : /\ p.of.action = "allow" /\ p.of.outcome = "match"
                          /\ \A q \in Failing : q.of.priority <= p.of.priority
  <2>1. PICK n \in allows : /\ s[n].of.outcome = "match"
                            /\ \A m \in allows : m < n => s[m].of.outcome = "no match"
    BY <1>3, <1>8
  <2>2. ASSUME NEW q \in Failing PROVE q.of.priority <= s[n].of.priority
    <3>1. PICK m \in DOMAIN s : q = s[m]
      BY <1>2
    <3>2. s[m].of.outcome = "error"
      BY <3>1
    <3>3. m \in allows
      BY <1>1, <1>3, <1>8, <3>2
    <3>4. ~(m < n) /\ m # n
      BY <2>1, <3>2, <3>3
    <3>5. n < m
      <4>1. m \in Nat /\ n \in Nat
        <5>1. m \in 1..Len(s) /\ n \in 1..Len(s) /\ Len(s) \in Nat
          BY <1>1, Zenon
        <5> QED
          BY <5>1
      <4> QED
        BY <3>4, <4>1
    <3> QED
      BY <1>1, <3>1, <3>5 DEF Sorted
  <2>3. s[n] \in P /\ s[n].of.action = "allow"
    BY <1>2
  <2> QED
    BY <2>1, <2>2, <2>3
<1>9. (\E p \in P : p.of.action = "allow") => allows # {}
  BY <1>2
<1> QED
  BY <1>5, <1>7, <1>8, <1>9

\* What the engine decides does not depend on the order in which policies of one
\* priority, loads and additions came, for any number of policies (Evaluate,
\* engine.go).
THEOREM DecisionIsTheTables == PolicySpec => []DecisionFollowsTable
<1>1. PolicyInv => DecisionFollowsTable
  <2> SUFFICES ASSUME PolicyInv PROVE DecisionFollowsTable
    OBVIOUS
  <2>1. \A i \in Instance : /\ policies[i] \in Seq(Policy) /\ Sorted(policies[i])
                            /\ storeFailed[i] \in BOOLEAN
    BY DEF PolicyInv, PolicyTypes
  <2> SUFFICES ASSUME NEW i \in Instance
               PROVE  LET P       == Range(policies[i])
                          Failing == {p \in P : p.of.outcome = "error"}
                      IN  /\ Allowed(i) => TableAllows(P)
                          /\ Failing = {} /\ ~storeFailed[i] => Allowed(i) = TableAllows(P)
                          /\ Allowed(i) /\ (\E p \in P : p.of.action = "allow") =>
                               \E p \in P :
                                 /\ p.of.action = "allow" /\ p.of.outcome = "match"
                                 /\ \A q \in Failing : q.of.priority <= p.of.priority
    BY DEF DecisionFollowsTable
  <2>2. Allowed(i) <=> ~storeFailed[i] /\ Permits(policies[i])
    BY DEF Allowed
  <2>3. Allowed(i) \in BOOLEAN /\ TableAllows(Range(policies[i])) \in BOOLEAN
    BY DEF Allowed, TableAllows
  <2> QED
    BY <2>1, <2>2, <2>3, WalkFollowsTable
<1> QED
  BY <1>1, PolicyInitInv, PolicyNextInv, PTL DEF PolicySpec

\* A policy whose creation was answered is applied until somebody asks to remove
\* it, for any number of instances, restarts, failures and overlapping calls.
THEOREM AddedPoliciesApply == PolicySpec => []AnsweredPoliciesInForce
<1>1. PolicyInv => AnsweredPoliciesInForce
  BY DEF PolicyInv, KnowsPolicies, AnsweredPoliciesInForce
<1> QED
  BY <1>1, PolicyInitInv, PolicyNextInv, PTL DEF PolicySpec

\* An instance that has answered a removal never applies the policy again.
THEOREM RemovedForGood == PolicySpec => []RemovedStaysRemoved
<1>1. PolicyInv => RemovedStaysRemoved
  BY DEF PolicyInv, KnowsPolicies, RemovedStaysRemoved
<1> QED
  BY <1>1, PolicyInitInv, PolicyNextInv, PTL DEF PolicySpec

-----------------------------------------------------------------------------
(* The use of a token                                                        *)

UseRecord ==
    [pc : {"asking", "answered"}, kind : {"claims", "verify", "call"},
     need : SUBSET (Capability \cup Tool \cup {None}), id : TokenId \cup {None},
     chain : Seq(Act!Block), left : Seq(Name \cup {Server, None}), at : Nat,
     before : SUBSET Name]

\* A token or a part of it: the server has issued the first block, and no block
\* expires after one before it unless one between has a negative expiry.
Chain(c) ==
    /\ c \in Seq(Act!Block)
    /\ c # <<>> => c[1].issuer = Server /\ c[1].cond.exp > 0
    /\ \A n \in 1..Len(c) : c[n].cond.exp # 0
    /\ \A m, n \in 1..Len(c) :
         m <= n /\ c[m].cond.exp > 0 =>
           c[n].cond.exp <= c[m].cond.exp \/ \E k \in m..n : c[k].cond.exp < 0

\* The names that the token of a request consists of.
NamesOf(u) == {u.id} \cup UNION {{u.chain[n].subject, u.chain[n].issuer} : n \in DOMAIN u.chain}

\* Until every name has been asked for, those that were revoked when the request
\* began are still to be asked for; an answer was given for a chain that Verify
\* accepts and that grants what is needed.
UseInv ==
    /\ acknowledged \subseteq revoked /\ revoked \subseteq Name
    /\ heldId \in TokenId \cup {None} /\ (held # <<>> => heldId \in TokenId) /\ second \in Nat
    /\ Chain(held)
    /\ use # NoUse =>
         /\ use \in UseRecord /\ Chain(use.chain) /\ use.chain # <<>>
         /\ use.before \subseteq acknowledged
         /\ use.pc = "asking" => use.before \cap NamesOf(use) \subseteq Range(use.left)
         /\ use.pc = "answered" =>
              /\ use.before \cap NamesOf(use) = {}
              /\ Act!Verify(use.chain, use.at)
              /\ use.need \subseteq Verified(use.chain).caps

LEMMA BlockFields ==
    ASSUME NEW b \in Act!Block
    PROVE  /\ b.cond.exp \in Int /\ b.cond.nbf = 0 /\ b.subject \in Holder
           /\ b.issuer \in Holder \cup {Server} /\ b.caps \in SUBSET Capability
BY UseAssumption DEF Act!Block, Act!Conditions

LEMMA ChainFields ==
    ASSUME NEW c, Chain(c), NEW n \in DOMAIN c
    PROVE  /\ Len(c) \in Nat /\ DOMAIN c = 1..Len(c) /\ c[n] \in Act!Block
           /\ c[n].cond.exp \in Int /\ c[n].cond.nbf = 0 /\ c[n].subject \in Holder
           /\ c[n].issuer \in Holder \cup {Server}
<1>1. c \in Seq(Act!Block)
  BY DEF Chain
<1>2. Len(c) \in Nat /\ DOMAIN c = 1..Len(c) /\ c[n] \in Act!Block
  BY <1>1
<1> QED
  BY <1>2, BlockFields

LEMMA UseInitInv == UseInit => UseInv
<1> SUFFICES ASSUME UseInit PROVE UseInv
  OBVIOUS
<1>1. held = <<>> /\ second = 1 /\ heldId = None /\ revoked = {} /\ acknowledged = {} /\ use = NoUse
  BY DEF UseInit, Act!ActInit
<1>2. Chain(held)
  BY <1>1 DEF Chain
<1> QED
  BY <1>1, <1>2 DEF UseInv

\* A part of a token from its beginning is one too.
LEMMA PartIsChain ==
    ASSUME NEW c, Chain(c), NEW n \in DOMAIN c
    PROVE  Chain(SubSeq(c, 1, n)) /\ SubSeq(c, 1, n) # <<>>
<1> DEFINE part == SubSeq(c, 1, n)
<1>1. c \in Seq(Act!Block) /\ Len(c) \in Nat /\ n \in 1..Len(c)
  BY DEF Chain
<1>2. part \in Seq(Act!Block) /\ Len(part) = n /\ \A m \in 1..n : part[m] = c[m]
  BY <1>1, SubSeqProperties
<1> HIDE DEF part
<1>3. part # <<>> /\ part[1] = c[1] /\ c # <<>>
  BY <1>1, <1>2
<1>4. ASSUME NEW m \in 1..Len(part), NEW k \in 1..Len(part), m <= k, part[m].cond.exp > 0
      PROVE  part[k].cond.exp <= part[m].cond.exp \/ \E j \in m..k : part[j].cond.exp < 0
  <2>1. m \in 1..Len(c) /\ k \in 1..Len(c) /\ part[m] = c[m] /\ part[k] = c[k]
    BY <1>1, <1>2
  <2>2. \A j \in m..k : part[j] = c[j]
    BY <1>1, <1>2
  <2>3. c[k].cond.exp <= c[m].cond.exp \/ \E j \in m..k : c[j].cond.exp < 0
    BY <1>4, <2>1 DEF Chain
  <2> QED
    BY <2>1, <2>2, <2>3
<1>5. Chain(part)
  <2>1. \A m \in 1..Len(part) : part[m].cond.exp # 0
    BY <1>1, <1>2 DEF Chain
  <2>2. c[1].issuer = Server /\ c[1].cond.exp > 0
    BY <1>3 DEF Chain
  <2> QED
    BY <1>2, <1>3, <1>4, <2>1, <2>2 DEF Chain
<1> QED
  BY <1>3, <1>5 DEF part

\* A block is appended that expires no later than the last one if that ever expires.
LEMMA ExtendedIsChain ==
    ASSUME NEW c, Chain(c), c # <<>>, NEW b \in Act!Block, b.cond.exp # 0,
           c[Len(c)].cond.exp > 0 => b.cond.exp <= c[Len(c)].cond.exp
    PROVE  Chain(Append(c, b))
<1> DEFINE longer == Append(c, b)
<1>1. c \in Seq(Act!Block) /\ Len(c) \in Nat /\ Len(c) >= 1
  BY DEF Chain
<1>2. /\ longer \in Seq(Act!Block) /\ Len(longer) = Len(c) + 1 /\ longer[Len(c) + 1] = b
      /\ \A n \in 1..Len(c) : longer[n] = c[n]
  BY <1>1
<1> HIDE DEF longer
<1>3. /\ b.cond.exp \in Int
      /\ \A n \in 1..Len(c) : c[n].cond.exp \in Int /\ c[n].cond.exp # 0 /\ n \in DOMAIN c
  BY <1>1, ChainFields, BlockFields DEF Chain
<1>4. ASSUME NEW n \in 1..Len(c), c[n].cond.exp > 0
      PROVE  b.cond.exp <= c[n].cond.exp \/ \E k \in n..Len(c) : c[k].cond.exp < 0
  <2>1. Len(c) \in 1..Len(c) /\ n <= Len(c)
    BY <1>1
  <2>2. c[Len(c)].cond.exp <= c[n].cond.exp \/ \E k \in n..Len(c) : c[k].cond.exp < 0
    BY <1>4, <2>1 DEF Chain
  <2>3. CASE c[Len(c)].cond.exp < 0
    BY <1>1, <2>1, <2>3
  <2>4. CASE c[Len(c)].cond.exp > 0
    BY <1>3, <2>1, <2>2, <2>4
  <2> QED
    BY <1>3, <2>1, <2>3, <2>4
<1>5. longer # <<>> /\ longer[1] = c[1] /\ c[1].issuer = Server /\ c[1].cond.exp > 0
  BY <1>1, <1>2 DEF Chain
<1>6. ASSUME NEW m \in 1..Len(longer), NEW n \in 1..Len(longer), m <= n, longer[m].cond.exp > 0
      PROVE  longer[n].cond.exp <= longer[m].cond.exp \/ \E k \in m..n : longer[k].cond.exp < 0
  <2>1. CASE n = Len(c) + 1 /\ m = Len(c) + 1
    BY <1>2, <1>3, <2>1
  <2>2. CASE n = Len(c) + 1 /\ m \in 1..Len(c)
    <3>1. b.cond.exp <= c[m].cond.exp \/ \E k \in m..Len(c) : c[k].cond.exp < 0
      BY <1>2, <1>4, <1>6, <2>2
    <3>2. \A k \in m..Len(c) : k \in m..n /\ longer[k] = c[k]
      BY <1>1, <1>2, <2>2
    <3> QED
      BY <1>2, <2>2, <3>1, <3>2
  <2>3. CASE n \in 1..Len(c)
    <3>1. m \in 1..Len(c) /\ longer[m] = c[m] /\ longer[n] = c[n]
      BY <1>2, <1>6, <2>3
    <3>2. \A k \in m..n : longer[k] = c[k]
      BY <1>1, <1>2, <2>3, <3>1
    <3>3. c[n].cond.exp <= c[m].cond.exp \/ \E k \in m..n : c[k].cond.exp < 0
      BY <1>6, <2>3, <3>1 DEF Chain
    <3> QED
      BY <3>1, <3>2, <3>3
  <2> QED
    BY <1>1, <1>2, <2>1, <2>2, <2>3
<1>7. \A n \in 1..Len(longer) : longer[n].cond.exp # 0
  BY <1>1, <1>2, <1>3
<1>8. Chain(longer)
  BY <1>2, <1>5, <1>6, <1>7 DEF Chain
<1> QED
  BY <1>8 DEF longer

\* token.Verify asks for the token ID and for the subject and the issuer of every
\* block, but for the issuer of the first one.
LEMMA EverythingIsAsked ==
    ASSUME NEW c, Chain(c), c # <<>>, heldId \in TokenId \cup {None}
    PROVE  /\ Questions(c) \in Seq(Name \cup {Server, None})
           /\ Named(c) \ {Server} \subseteq Range(Questions(c))
<1> DEFINE questions == Questions(c)
           subject(n) == IF n = 1 THEN 2 ELSE 2 * n - 1
<1>1. Len(c) \in Nat /\ Len(c) >= 1 /\ DOMAIN c = 1..Len(c)
  BY DEF Chain
<1>2. \A n \in 1..Len(c) : c[n].subject \in Holder /\ c[n].issuer \in Holder \cup {Server}
  BY <1>1, ChainFields
<1>3. DOMAIN questions = 1..2 * Len(c) /\ 2 * Len(c) \in Nat
  BY <1>1 DEF Questions
<1>4. \A q \in 1..2 * Len(c) :
        /\ (q + 1) \div 2 \in 1..Len(c)
        /\ questions[q] = IF q = 1 THEN heldId
                          ELSE IF q = 2 \/ q % 2 = 1 THEN c[(q + 1) \div 2].subject
                               ELSE c[(q + 1) \div 2].issuer
  BY <1>1 DEF Questions
<1>5. questions \in Seq(Name \cup {Server, None})
  <2>1. \A q \in 1..2 * Len(c) : questions[q] \in Name \cup {Server, None}
    BY <1>2, <1>4 DEF Name
  <2>2. questions = [q \in 1..2 * Len(c) |-> questions[q]]
    BY <1>3 DEF Questions
  <2> HIDE DEF questions
  <2>3. questions \in [1..2 * Len(c) -> Name \cup {Server, None}]
    BY <2>1, <2>2
  <2> QED
    BY <1>3, <2>3
<1> HIDE DEF questions
<1>6. heldId \in Range(questions)
  <2>1. 1 \in 1..2 * Len(c) /\ questions[1] = heldId
    BY <1>1, <1>4
  <2> QED
    BY <1>3, <2>1 DEF Range
<1>7. ASSUME NEW n \in 1..Len(c) PROVE c[n].subject \in Range(questions)
  <2>1. CASE n = 1
    <3>1. 2 \in 1..2 * Len(c) /\ questions[2] = c[1].subject
      BY <1>1, <1>4
    <3> QED
      BY <1>3, <2>1, <3>1 DEF Range
  <2>2. CASE n # 1
    <3>1. /\ 2 * n - 1 \in 1..2 * Len(c) /\ 2 * n - 1 # 1 /\ (2 * n - 1) % 2 = 1
          /\ ((2 * n - 1) + 1) \div 2 = n
      BY <1>1, <2>2
    <3>2. questions[2 * n - 1] = c[n].subject
      BY <1>4, <3>1
    <3> QED
      BY <1>3, <3>1, <3>2 DEF Range
  <2> QED
    BY <2>1, <2>2
<1>8. ASSUME NEW n \in 1..Len(c), c[n].issuer # Server PROVE c[n].issuer \in Range(questions)
  <2>1. n # 1
    BY <1>1, <1>8 DEF Chain
  <2>2. /\ 2 * n \in 1..2 * Len(c) /\ 2 * n # 1 /\ 2 * n # 2 /\ (2 * n) % 2 # 1
        /\ (2 * n + 1) \div 2 = n
    BY <1>1, <2>1
  <2>3. questions[2 * n] = c[n].issuer
    BY <1>4, <2>2
  <2> QED
    BY <1>3, <2>2, <2>3 DEF Range
<1>9. Named(c) \ {Server} \subseteq Range(questions)
  <2> SUFFICES ASSUME NEW x \in Named(c), x # Server PROVE x \in Range(questions)
    OBVIOUS
  <2>1. x = heldId \/ \E n \in 1..Len(c) : x = c[n].subject \/ x = c[n].issuer
    BY <1>1 DEF Named
  <2> QED
    BY <1>6, <1>7, <1>8, <2>1
<1> QED
  BY <1>5, <1>9 DEF questions

\* What the world does while a request is under way: the token may be extended and
\* names revoked, and the request keeps what it was presented.
LEMMA MeanwhileInv ==
    ASSUME UseInv, UNCHANGED use, Chain(held'), second' \in Nat,
           heldId' \in TokenId \cup {None}, held' # <<>> => heldId' \in TokenId,
           acknowledged \subseteq acknowledged', acknowledged' \subseteq revoked',
           revoked' \subseteq Name
    PROVE  UseInv'
<1>1. /\ use \in UseRecord => use' \in UseRecord
      /\ use # NoUse => use.before \subseteq acknowledged'
  BY DEF UseInv
<1>2. use # NoUse =>
         /\ use' \in UseRecord /\ Chain(use'.chain) /\ use'.chain # <<>>
         /\ use'.before \subseteq acknowledged'
         /\ use'.pc = "asking" => use'.before \cap NamesOf(use') \subseteq Range(use'.left)
         /\ use'.pc = "answered" =>
              /\ use'.before \cap NamesOf(use') = {}
              /\ Act!Verify(use'.chain, use'.at)
              /\ use'.need \subseteq Verified(use'.chain).caps
  BY <1>1 DEF UseInv
<1> QED
  BY <1>2 DEF UseInv

LEMMA IssueInv ==
    ASSUME UseInv, NEW holder \in Holder, NEW caps \in SUBSET Capability, NEW exp \in Expiry,
           Issue(holder, caps, exp)
    PROVE  UseInv'
<1> DEFINE b == [index |-> 0, issuer |-> Server, subject |-> holder, caps |-> caps,
                 cond |-> [exp |-> exp, nbf |-> 0, max |-> 0]]
<1>1. /\ exp > second /\ held' = <<b>> /\ second' = second
      /\ heldId' \in TokenId /\ UNCHANGED <<revoked, acknowledged, use>>
  BY DEF Issue, Act!IssueRootToken
<1>2. exp \in Int /\ exp > 0 /\ b \in Act!Block
  BY <1>1, UseAssumption DEF UseInv, Act!Block, Act!Conditions
<1>3. b.issuer = Server /\ b.cond.exp > 0 /\ b.cond.exp \in Int
  BY <1>2
<1> HIDE DEF b
<1>4. <<b>> \in Seq(Act!Block) /\ Len(<<b>>) = 1 /\ <<b>>[1] = b
  BY <1>2
<1>5. Chain(<<b>>)
  BY <1>3, <1>4 DEF Chain
<1>6. Chain(held')
  BY <1>1, <1>5
<1> QED
  BY <1>1, <1>6, MeanwhileInv DEF UseInv

LEMMA HandOnInv ==
    ASSUME UseInv, NEW child \in Holder, NEW caps \in SUBSET Capability, NEW exp \in Expiry,
           HandOn(child, caps, exp)
    PROVE  UseInv'
<1> DEFINE b == Act!Delegated(held, child, caps, [exp |-> exp, nbf |-> 0, max |-> 0])
<1>1. /\ held # <<>> /\ exp # 0 /\ exp <= Last(held).cond.exp
      /\ held' = Append(held, b) /\ second' = second
      /\ UNCHANGED <<heldId, revoked, acknowledged, use>>
  BY DEF HandOn, Act!Delegate, Act!Attenuates, Act!Requestable, Act!Last, Last
<1>2. Chain(held)
  BY DEF UseInv
<1>3. Len(held) \in DOMAIN held /\ Last(held) = held[Len(held)] /\ Len(held) \in Nat
  BY <1>1, <1>2 DEF Chain, Last
<1>4. Last(held).subject \in Holder
  BY <1>2, <1>3, ChainFields
<1>5. b \in Act!Block /\ b.cond.exp = exp
  BY <1>3, <1>4 DEF Act!Delegated, Act!Block, Act!Conditions, Act!Last, Last
<1> HIDE DEF b
<1>6. Chain(held')
  BY <1>1, <1>2, <1>3, <1>5, ExtendedIsChain
<1> QED
  BY <1>1, <1>6, MeanwhileInv DEF UseInv

LEMMA OwnBlockIsLinked ==
    ASSUME UseInv, NEW b \in Act!Extensions, HandOnOwn(b)
    PROVE  /\ b \in Act!Block /\ b.issuer \in Holder /\ b.cond.exp # 0 /\ held # <<>>
           /\ held' = Append(held, b) /\ second' = second
           /\ held[Len(held)].cond.exp > 0 => b.cond.exp <= held[Len(held)].cond.exp
           /\ UNCHANGED <<heldId, revoked, acknowledged, use>>
<1>1. b \in Act!Block /\ b.issuer \in Holder /\ held # <<>>
  <2>1. /\ b \in [index : {Len(held)}, issuer : Holder, subject : Holder,
                   caps : SUBSET Capability, cond : Act!Conditions]
        /\ held # <<>>
    BY DEF Act!Extensions
  <2>2. Len(held) \in Nat
    BY DEF UseInv, Chain
  <2> QED
    BY <2>1, <2>2 DEF Act!Block
<1>2. /\ b.cond.exp # 0 /\ held' = Append(held, b) /\ second' = second
      /\ UNCHANGED <<heldId, revoked, acknowledged, use>>
      /\ Act!Linked(Append(held, b), Len(held) + 1)
  BY DEF HandOnOwn, Act!AppendOwnBlock
<1>3. held \in Seq(Act!Block) /\ Len(held) \in Nat /\ Len(held) >= 1
  BY <1>1 DEF UseInv, Chain
<1>4. /\ Append(held, b)[Len(held) + 1] = b /\ (Len(held) + 1) - 1 = Len(held)
      /\ Append(held, b)[Len(held)] = held[Len(held)]
  BY <1>1, <1>3
<1>5. held[Len(held)].cond.exp > 0 => b.cond.exp <= held[Len(held)].cond.exp
  BY <1>2, <1>4 DEF Act!Linked
<1> QED
  BY <1>1, <1>2, <1>5

LEMMA HandOnOwnInv ==
    ASSUME UseInv, NEW b \in Act!Extensions, HandOnOwn(b)
    PROVE  UseInv'
<1>1. Chain(held)
  BY DEF UseInv
<1>2. Chain(held')
  BY <1>1, OwnBlockIsLinked, ExtendedIsChain
<1> QED
  BY <1>2, OwnBlockIsLinked, MeanwhileInv DEF UseInv

LEMMA BeginInv ==
    ASSUME UseInv, NEW kind \in {"claims", "verify", "call"},
           NEW need \in SUBSET (Capability \cup Tool \cup {None}), NEW n, Begin(kind, need, n)
    PROVE  UseInv'
<1> DEFINE chain == SubSeq(held, 1, n)
           asked == [pc |-> "asking", kind |-> kind, need |-> need, id |-> heldId, chain |-> chain,
                     left |-> Questions(chain), at |-> 0, before |-> acknowledged \cap Named(chain)]
<1>1. n \in DOMAIN held /\ use' = asked /\ UNCHANGED <<tokenInHand, revoked, acknowledged>>
  BY DEF Begin
<1>2. UNCHANGED <<held, heldId, second>>
  BY <1>1 DEF tokenInHand
<1>3. Chain(chain) /\ chain # <<>> /\ heldId \in TokenId \cup {None}
  BY <1>1, PartIsChain DEF UseInv
<1>4. PICK c : c = chain
  OBVIOUS
<1>5. PICK u : u = asked
  OBVIOUS
<1>6. /\ Questions(c) \in Seq(Name \cup {Server, None})
      /\ Named(c) \ {Server} \subseteq Range(Questions(c))
  BY <1>3, <1>4, EverythingIsAsked
<1>7. u = [pc |-> "asking", kind |-> kind, need |-> need, id |-> heldId, chain |-> c,
           left |-> Questions(c), at |-> 0, before |-> acknowledged \cap Named(c)]
  BY <1>4, <1>5
<1>8. u \in UseRecord /\ u # NoUse /\ use' = u
  <2>1. c \in Seq(Act!Block) /\ acknowledged \cap Named(c) \in SUBSET Name
    BY <1>3, <1>4 DEF Chain, UseInv
  <2>2. u \in UseRecord
    BY <1>3, <1>6, <1>7, <2>1 DEF UseRecord
  <2>3. u # NoUse
    BY <1>7 DEF NoUse
  <2> QED
    BY <1>1, <1>5, <2>2, <2>3
<1>9. NamesOf(u) = Named(c)
  BY <1>7 DEF NamesOf, Named
<1>10. Server \notin Name
  BY UseAssumption DEF Name
<1>11. u.before \cap NamesOf(u) \subseteq Range(u.left) /\ u.before \subseteq acknowledged
  BY <1>6, <1>7, <1>9, <1>10 DEF UseInv
<1>12. u.pc = "asking" /\ u.chain = c
  BY <1>7
<1> HIDE DEF chain, asked
<1>13. Chain(c) /\ c # <<>>
  BY <1>3, <1>4
<1> QED
  BY <1>1, <1>2, <1>8, <1>11, <1>12, <1>13 DEF UseInv

\* A request that ends, or that is none.
LEMMA NoUseInv ==
    ASSUME UseInv, use' = NoUse, UNCHANGED <<held, heldId, second, revoked, acknowledged>>
    PROVE  UseInv'
BY DEF UseInv

LEMMA AskInv ==
    ASSUME UseInv, AskRegistry
    PROVE  UseInv'
<1>1. /\ use.pc = "asking" /\ use.left # <<>>
      /\ use' = IF Head(use.left) \in revoked THEN NoUse
                ELSE [use EXCEPT !.left = Tail(@), !.at = IF @ = 0 THEN second ELSE @]
      /\ UNCHANGED <<held, heldId, second, revoked, acknowledged>>
  BY DEF AskRegistry, tokenInHand
<1>2. CASE Head(use.left) \in revoked
  BY <1>1, <1>2, NoUseInv
<1>3. CASE ~(Head(use.left) \in revoked)
  <2>1. use # NoUse
    BY <1>1 DEF NoUse
  <2>2. /\ use \in UseRecord /\ Chain(use.chain) /\ use.chain # <<>>
        /\ use.before \subseteq acknowledged
        /\ use.before \cap NamesOf(use) \subseteq Range(use.left)
        /\ second \in Nat /\ acknowledged \subseteq revoked
    BY <1>1, <2>1 DEF UseInv
  <2>3. PICK u : u = [use EXCEPT !.left = Tail(use.left), !.at = IF use.at = 0 THEN second ELSE use.at]
    OBVIOUS
  <2>4. use' = u
    BY <1>1, <1>3, <2>3
  <2>5. /\ Tail(use.left) \in Seq(Name \cup {Server, None})
        /\ Range(use.left) \subseteq {Head(use.left)} \cup Range(Tail(use.left))
    <3>1. use.left \in Seq(Name \cup {Server, None})
      BY <2>2 DEF UseRecord
    <3>2. PICK s \in Seq(Name \cup {Server, None}) : s = use.left
      BY <3>1
    <3>3. /\ Len(s) \in Nat /\ Len(s) >= 1 /\ Head(s) = s[1] /\ Tail(s) \in Seq(Name \cup {Server, None})
          /\ Len(Tail(s)) = Len(s) - 1 /\ \A k \in 1..Len(s) - 1 : Tail(s)[k] = s[k + 1]
          /\ DOMAIN s = 1..Len(s) /\ DOMAIN Tail(s) = 1..Len(Tail(s))
      BY <1>1, <3>2
    <3>4. ASSUME NEW x \in Range(s) PROVE x = Head(s) \/ x \in Range(Tail(s))
      <4>1. PICK k \in 1..Len(s) : x = s[k]
        BY <3>3 DEF Range
      <4>2. CASE k = 1
        BY <3>3, <4>1, <4>2
      <4>3. CASE k # 1
        <5>1. k - 1 \in 1..Len(s) - 1 /\ (k - 1) + 1 = k
          BY <3>3, <4>3
        <5>2. Tail(s)[k - 1] = x /\ k - 1 \in DOMAIN Tail(s)
          BY <3>3, <4>1, <5>1
        <5> QED
          BY <5>2 DEF Range
      <4> QED
        BY <4>2, <4>3
    <3> QED
      BY <3>2, <3>3, <3>4
  <2>6. /\ u \in UseRecord /\ u.pc = "asking" /\ u.chain = use.chain /\ u.id = use.id
        /\ u.before = use.before /\ u.left = Tail(use.left)
    BY <1>1, <2>2, <2>3, <2>5 DEF UseRecord
  <2>7. NamesOf(u) = NamesOf(use)
    BY <2>6 DEF NamesOf
  <2>8. u.before \cap NamesOf(u) \subseteq Range(u.left)
    BY <1>3, <2>2, <2>5, <2>6, <2>7
  <2> QED
    BY <1>1, <2>2, <2>4, <2>6, <2>8 DEF UseInv
<1> QED
  BY <1>2, <1>3

LEMMA AnsweredInv ==
    ASSUME UseInv, Answered
    PROVE  UseInv'
<1>1. /\ use.pc = "asking" /\ use.left = <<>> /\ use' = [use EXCEPT !.pc = "answered"]
      /\ Act!Verify(use.chain, use.at) /\ use.need \subseteq Verified(use.chain).caps
      /\ UNCHANGED <<held, heldId, second, revoked, acknowledged>>
  BY DEF Answered, Acceptable, tokenInHand
<1>2. use # NoUse
  BY <1>1 DEF NoUse
<1>3. /\ use \in UseRecord /\ Chain(use.chain) /\ use.chain # <<>>
      /\ use.before \subseteq acknowledged
      /\ use.before \cap NamesOf(use) \subseteq Range(use.left)
  BY <1>1, <1>2 DEF UseInv
<1>4. Range(use.left) = {}
  BY <1>1 DEF Range
<1>5. PICK u : u = [use EXCEPT !.pc = "answered"]
  OBVIOUS
<1>6. /\ u \in UseRecord /\ u.pc = "answered" /\ u.chain = use.chain /\ u.id = use.id
      /\ u.before = use.before /\ u.at = use.at /\ u.need = use.need
  BY <1>3, <1>5 DEF UseRecord
<1>7. NamesOf(u) = NamesOf(use)
  BY <1>6 DEF NamesOf
<1>8. /\ Act!Verify(u.chain, u.at) /\ u.need \subseteq Verified(u.chain).caps
      /\ u.before \cap NamesOf(u) = {} /\ use' = u
  BY <1>1, <1>3, <1>4, <1>5, <1>6, <1>7
<1> QED
  BY <1>1, <1>3, <1>6, <1>8 DEF UseInv

LEMMA UseNextInv == UseInv /\ [UseNext]_useVars => UseInv'
<1> SUFFICES ASSUME UseInv, [UseNext]_useVars PROVE UseInv'
  OBVIOUS
<1>1. ASSUME NEW holder \in Holder, NEW caps \in SUBSET Capability, NEW exp \in Expiry,
             Issue(holder, caps, exp) \/ HandOn(holder, caps, exp)
      PROVE  UseInv'
  BY <1>1, IssueInv, HandOnInv
<1>13. ASSUME NEW b \in Act!Extensions, HandOnOwn(b) PROVE UseInv'
  BY <1>13, HandOnOwnInv
<1>2. CASE UseTick
  <2>1. /\ held' = held /\ second' \in Nat
        /\ UNCHANGED <<heldId, revoked, acknowledged, use>>
    BY <1>2 DEF UseTick, Act!Tick, UseInv
  <2> QED
    BY <2>1, MeanwhileInv DEF UseInv
<1>3. ASSUME NEW a \in Holder, RevokeHolder(a) PROVE UseInv'
  <2>1. /\ revoked' = revoked \cup {a} /\ acknowledged' = acknowledged \cup {a} /\ a \in Name
        /\ UNCHANGED <<held, heldId, second, use>>
    BY <1>3 DEF RevokeHolder, tokenInHand, Name
  <2> QED
    BY <2>1, MeanwhileInv DEF UseInv
<1>4. CASE RevokeEndpoint \/ RevokeEndpointFails
  <2>1. /\ held # <<>> /\ revoked' = revoked \cup {heldId}
        /\ acknowledged' \in {acknowledged, acknowledged \cup {heldId}}
        /\ UNCHANGED <<held, heldId, second, use>>
    BY <1>4 DEF RevokeEndpoint, RevokeEndpointFails, tokenInHand
  <2>2. heldId \in Name
    BY <2>1 DEF UseInv, Name
  <2> QED
    BY <2>1, <2>2, MeanwhileInv DEF UseInv
<1>5. ASSUME NEW n \in 1..MaxBlocks,
             \/ ExchangeToken(n) \/ Introspect(n) \/ UserInfo(n) \/ SubmitDelegatedToken(n)
             \/ VerifyToken(n)
      PROVE  UseInv'
  BY <1>5, BeginInv
     DEF ExchangeToken, Introspect, UserInfo, SubmitDelegatedToken, VerifyToken
<1>6. \A tool \in Tool \cup {None} :
        Required(tool) \in Capability \cup Tool \cup {None}
  BY UseAssumption DEF Required, Range
<1>7. ASSUME NEW n \in 1..MaxBlocks, NEW skill \in Tool \cup {None}, CallSkill(n, skill)
      PROVE  UseInv'
  BY <1>6, <1>7, BeginInv DEF CallSkill
<1>8. ASSUME NEW c \in Calls, CallTool(c) PROVE UseInv'
  <2>1. c.tool \in Tool \cup {None}
    BY DEF Calls, Part
  <2> QED
    BY <1>6, <1>8, <2>1, BeginInv DEF CallTool
<1>9. CASE AskRegistry
  BY <1>9, AskInv
<1>10. CASE AskFails \/ Refused
  BY <1>10, NoUseInv DEF AskFails, Refused, tokenInHand
<1>11. CASE Answered
  BY <1>11, AnsweredInv
<1>12. CASE UNCHANGED useVars
  BY <1>12, MeanwhileInv DEF useVars, UseInv
<1> QED
  BY <1>1, <1>2, <1>3, <1>4, <1>5, <1>7, <1>8, <1>9, <1>10, <1>11, <1>12, <1>13 DEF UseNext

LEMMA AnsweredIsGranted ==
    ASSUME UseInv, use.pc = "answered"
    PROVE  AnsweredUseIsGranted /\ ClaimsNeverOutliveToken
<1>1. use # NoUse
  BY DEF NoUse
<1>2. /\ use \in UseRecord /\ Chain(use.chain) /\ use.chain # <<>> /\ second \in Nat
      /\ use.before \cap NamesOf(use) = {}
      /\ Act!Verify(use.chain, use.at) /\ use.need \subseteq Verified(use.chain).caps
  BY <1>1 DEF UseInv
<1>3. PICK c : c = use.chain
  OBVIOUS
<1>4. /\ Len(c) \in Nat /\ DOMAIN c = 1..Len(c) /\ 1 \in DOMAIN c /\ Len(c) \in DOMAIN c
      /\ c # <<>> /\ Chain(c) /\ c[1].cond.exp > 0
  BY <1>2, <1>3 DEF Chain
<1>5. use.at \in Nat
  BY <1>2 DEF UseRecord
<1>6. ASSUME NEW n \in DOMAIN c
      PROVE  /\ c[n].cond.exp \in Int /\ c[n].cond.nbf = 0
             /\ c[n].cond.exp > 0 => use.at <= c[n].cond.exp
             /\ Verified(c).caps \subseteq c[n].caps
             /\ c[n].cond.exp > 0 =>
                  \/ c[Len(c)].cond.exp <= c[n].cond.exp
                  \/ \E k \in DOMAIN c : n < k /\ c[k].cond.exp < 0
  <2>1. c[n].cond.exp \in Int /\ c[n].cond.nbf = 0
    BY <1>4, ChainFields
  <2>2. c[n].cond.exp > 0 => use.at <= c[n].cond.exp
    BY <1>2, <1>3 DEF Act!Verify, Act!InTime
  <2>3. Verified(c).caps \subseteq c[n].caps
    BY <1>4 DEF Verified, Act!EffectiveCapabilities
  <2>4. ASSUME c[n].cond.exp > 0
        PROVE  \/ c[Len(c)].cond.exp <= c[n].cond.exp
               \/ \E k \in DOMAIN c : n < k /\ c[k].cond.exp < 0
    <3>1. c[Len(c)].cond.exp <= c[n].cond.exp \/ \E k \in n..Len(c) : c[k].cond.exp < 0
      BY <1>4, <2>4 DEF Chain
    <3>2. \A k \in n..Len(c) : k \in DOMAIN c /\ (c[k].cond.exp < 0 => n < k)
      <4> SUFFICES ASSUME NEW k \in n..Len(c) PROVE k \in DOMAIN c /\ (c[k].cond.exp < 0 => n < k)
        OBVIOUS
      <4>1. k = n \/ n < k
        BY <1>4
      <4>2. c[n].cond.exp < 0 => FALSE
        BY <2>1, <2>4
      <4> QED
        BY <1>4, <4>1, <4>2
    <3> QED
      BY <3>1, <3>2
  <2> QED
    BY <2>1, <2>2, <2>3, <2>4
<1>7. AnsweredUseIsGranted
  <2>1. use.id \notin use.before
    BY <1>2 DEF NamesOf
  <2>2. ASSUME NEW n \in DOMAIN use.chain
        PROVE  {use.chain[n].subject, use.chain[n].issuer} \cap use.before = {}
    BY <1>2 DEF NamesOf
  <2>3. use.at <= use.chain[1].cond.exp
    BY <1>3, <1>4, <1>6
  <2>4. \A n \in DOMAIN use.chain :
          /\ use.need \subseteq use.chain[n].caps
          /\ use.chain[n].cond.exp > 0 => use.at <= use.chain[n].cond.exp
    BY <1>2, <1>3, <1>6
  <2> QED
    BY <2>1, <2>2, <2>3, <2>4 DEF AnsweredUseIsGranted
<1>8. ASSUME second <= Act!ExpiresAt(c)
      PROVE  Act!Verify(c, second) \/ Act!OutlivesBlock(c, second)
  <2>1. Act!ExpiresAt(c) = c[Len(c)].cond.exp
    BY <1>4 DEF Act!ExpiresAt, Act!Last
  <2>2. ASSUME NEW n \in DOMAIN c, ~Act!InTime(c[n], second)
        PROVE  Act!OutlivesBlock(c, second)
    <3>1. c[n].cond.exp > 0 /\ c[n].cond.exp < second
      BY <1>2, <1>6, <2>2 DEF Act!InTime
    <3>2. ~(c[Len(c)].cond.exp <= c[n].cond.exp)
      BY <1>2, <1>4, <1>6, <1>8, <2>1, <3>1
    <3>3. \E k \in DOMAIN c : n < k /\ c[k].cond.exp < 0
      BY <1>6, <3>1, <3>2
    <3> QED
      BY <3>1, <3>3 DEF Act!OutlivesBlock
  <2> QED
    BY <1>2, <1>3, <1>4, <2>2 DEF Act!Verify
<1>9. ClaimsNeverOutliveToken
  <2>1. Verified(c).exp = Act!ExpiresAt(c)
    BY DEF Verified
  <2> QED
    BY <1>3, <1>6, <1>8, <2>1 DEF ClaimsNeverOutliveToken
<1> QED
  BY <1>7, <1>9

\* No answer and no call for a token of which a part was reported as revoked
\* before, that had expired or that does not grant what is needed, for chains of
\* any length and any number of capabilities (Verify and its callers).
THEOREM UsesAreGranted == UseSpec => []AnsweredUseIsGranted
<1>1. UseInv => AnsweredUseIsGranted
  BY AnsweredIsGranted DEF AnsweredUseIsGranted
<1> QED
  BY <1>1, UseInitInv, UseNextInv, PTL DEF UseSpec

\* An expiry passed on to a JWT is one up to which the token itself is accepted,
\* for chains of any length, with blocks of Delegate or of the holders' own; the
\* one exception is a block whose expiry a negative one after it hides.
THEOREM ClaimsEndWithToken == UseSpec => []ClaimsNeverOutliveToken
<1>1. UseInv => ClaimsNeverOutliveToken
  BY AnsweredIsGranted DEF ClaimsNeverOutliveToken
<1> QED
  BY <1>1, UseInitInv, UseNextInv, PTL DEF UseSpec

-----------------------------------------------------------------------------
(* The types of the other components                                         *)

LEMMA VaultInitTypes == VaultInit => VaultTypeOK
<1> SUFFICES ASSUME VaultInit PROVE VaultTypeOK
  OBVIOUS
<1>1. DOMAIN credentials = {} /\ Range(credentials) = {}
  BY DEF VaultInit, Range
<1> QED
  BY <1>1, VaultAssumption DEF VaultInit, VaultTypeOK

\* What the vault keeps of a row about to be written.
LEMMA AnsweredRow ==
    ASSUME NEW row \in Row
    PROVE  [under |-> row.value.under, secret |-> row.value.secret] \in [under : MasterKey, secret : Secret]
BY DEF Row, Sealed

LEMMA VaultNextTypes == VaultTypeOK /\ VaultInv /\ [VaultNext]_vaultVars => VaultTypeOK'
<1> SUFFICES ASSUME VaultTypeOK, VaultInv, [VaultNext]_vaultVars PROVE VaultTypeOK'
  OBVIOUS
<1> DEFINE Write == [at : Instance, name : Credential, row : {{r} : r \in Row}]
           Kept  == {{}} \cup {{s} : s \in [under : MasterKey, secret : Secret]}
<1>0. /\ masterKey \in [Instance -> MasterKey \cup {None}]
      /\ DOMAIN credentials \subseteq Credential /\ Range(credentials) \subseteq Row
      /\ DOMAIN sealing = Sealer
      /\ \A g \in Sealer : sealing[g] \in {NoWrite} \cup Write
      /\ vaultFaults \in 0..MaxVaultFaults
      /\ DOMAIN answered \subseteq Credential /\ \A c \in DOMAIN answered : answered[c] \in Kept
  BY DEF VaultTypeOK, VaultInv
<1>1. ASSUME NEW g \in Sealer, NEW row \in sealing[g].row
      PROVE  sealing[g].name \in Credential /\ row \in Row
  BY <1>0, <1>1 DEF NoWrite
<1>2. ASSUME \A g \in Sealer : sealing'[g] \in {NoWrite} \cup Write,
             masterKey' \in [Instance -> MasterKey \cup {None}],
             DOMAIN credentials' \subseteq Credential, Range(credentials') \subseteq Row,
             vaultFaults' \in 0..MaxVaultFaults,
             DOMAIN answered' \subseteq Credential, \A c \in DOMAIN answered' : answered'[c] \in Kept
      PROVE  VaultTypeOK'
  BY <1>2 DEF VaultTypeOK
<1>3. ASSUME VaultFault PROVE vaultFaults' \in 0..MaxVaultFaults
  BY <1>0, <1>3, VaultAssumption DEF VaultFault
<1>4. ASSUME NEW c, NEW s, s \in Kept, c \in Credential
      PROVE  /\ DOMAIN With(answered, c, s) \subseteq Credential
             /\ \A d \in DOMAIN With(answered, c, s) : With(answered, c, s)[d] \in Kept
  <2> HIDE DEF Write, Kept
  <2> QED
    BY <1>0, <1>4 DEF With
<1>5. ASSUME NEW c
      PROVE  /\ DOMAIN Without(answered, c) \subseteq Credential
             /\ \A d \in DOMAIN Without(answered, c) : Without(answered, c)[d] \in Kept
             /\ DOMAIN Without(credentials, c) \subseteq Credential
             /\ Range(Without(credentials, c)) \subseteq Row
  <2> HIDE DEF Write, Kept
  <2> QED
    BY <1>0 DEF Without, Range
<1>6. ASSUME NEW c \in Credential, NEW row \in Row
      PROVE  /\ DOMAIN UpsertCredential(c, row) \subseteq Credential
             /\ Range(UpsertCredential(c, row)) \subseteq Row
  <2> HIDE DEF Write, Kept
  <2> QED
    BY <1>0 DEF UpsertCredential, With, Range
<1>7. ASSUME NEW g \in Sealer, NEW i \in Instance, NEW c \in Credential, NEW secret \in Secret,
             PutBegin(g, i, c, secret)
      PROVE  VaultTypeOK'
  <2> DEFINE w == [at |-> i, name |-> c, row |-> {Encrypt(i, secret)}]
  <2>1. /\ masterKey[i] # None /\ FreshNonces # {} /\ sealing' = [sealing EXCEPT ![g] = w]
        /\ UNCHANGED <<masterKey, credentials, vaultFaults, answered>>
    BY <1>7 DEF PutBegin
  <2>2. (CHOOSE n \in FreshNonces : TRUE) \in Nonce
    BY <2>1 DEF FreshNonces
  <2>3. Encrypt(i, secret) \in Row
    BY <1>0, <2>1, <2>2 DEF Encrypt, Row, Sealed
  <2>4. w \in Write
    BY <2>3
  <2> HIDE DEF w, Write, Kept
  <2>5. \A h \in Sealer : sealing'[h] \in {NoWrite} \cup Write
    BY <1>0, <2>1, <2>4
  <2> QED
    BY <1>0, <1>2, <2>1, <2>5
<1>8. ASSUME NEW g \in Sealer, NEW row \in sealing[g].row, sealing' = [sealing EXCEPT ![g] = NoWrite]
      PROVE  \A h \in Sealer : sealing'[h] \in {NoWrite} \cup Write
  BY <1>0, <1>8
<1>9. ASSUME NEW g \in Sealer, PutStore(g) PROVE VaultTypeOK'
  <2>1. PICK row \in sealing[g].row :
          /\ credentials' = UpsertCredential(sealing[g].name, row)
          /\ answered' = With(answered, sealing[g].name,
                              {[under |-> row.value.under, secret |-> row.value.secret]})
          /\ sealing' = [sealing EXCEPT ![g] = NoWrite]
          /\ UNCHANGED <<masterKey, vaultFaults>>
    BY <1>9 DEF PutStore
  <2>2. sealing[g].name \in Credential /\ row \in Row
    BY <1>1
  <2>3. {[under |-> row.value.under, secret |-> row.value.secret]} \in Kept
    BY <2>2, AnsweredRow
  <2> HIDE DEF Write, Kept
  <2> QED
    BY <1>0, <1>2, <1>4, <1>6, <1>8, <2>1, <2>2, <2>3
<1>10. ASSUME NEW g \in Sealer, PutFails(g) PROVE VaultTypeOK'
  <2>1. PICK row \in sealing[g].row :
          /\ VaultFault
          /\ credentials' = credentials \/ credentials' = UpsertCredential(sealing[g].name, row)
          /\ answered' = Without(answered, sealing[g].name)
          /\ sealing' = [sealing EXCEPT ![g] = NoWrite]
          /\ UNCHANGED masterKey
    BY <1>10 DEF PutFails
  <2>2. sealing[g].name \in Credential /\ row \in Row
    BY <1>1
  <2> HIDE DEF Write, Kept
  <2> QED
    BY <1>0, <1>2, <1>3, <1>5, <1>6, <1>8, <2>1, <2>2
<1>11. ASSUME NEW i \in Instance, NEW c \in Credential, DeleteCredential(i, c) PROVE VaultTypeOK'
  <2>1. {} \in Kept
    OBVIOUS
  <2> HIDE DEF Write, Kept
  <2> QED
    BY <1>0, <1>2, <1>4, <1>5, <1>11, <2>1 DEF DeleteCredential
<1>12. ASSUME NEW i \in Instance, NEW c \in Credential, DeleteFails(i, c) PROVE VaultTypeOK'
  <2> HIDE DEF Write, Kept
  <2> QED
    BY <1>0, <1>2, <1>3, <1>5, <1>12 DEF DeleteFails
<1>13. ASSUME NEW i \in Instance, NEW key \in MasterKey \cup {None}, VaultRestart(i, key)
       PROVE  VaultTypeOK'
  <2>1. /\ masterKey' = [masterKey EXCEPT ![i] = key]
        /\ sealing' = [g \in Sealer |-> IF sealing[g].at = i THEN NoWrite ELSE sealing[g]]
        /\ credentials' = IF Postgres THEN credentials ELSE <<>>
        /\ answered' = IF Postgres THEN answered ELSE [c \in Credential |-> {}]
        /\ UNCHANGED vaultFaults
    BY <1>13 DEF VaultRestart
  <2>2. DOMAIN credentials' \subseteq Credential /\ Range(credentials') \subseteq Row
    BY <1>0, <2>1 DEF Range
  <2>3. {} \in Kept
    OBVIOUS
  <2> HIDE DEF Write, Kept
  <2>4. DOMAIN answered' \subseteq Credential /\ \A c \in DOMAIN answered' : answered'[c] \in Kept
    BY <1>0, <2>1, <2>3
  <2>5. \A g \in Sealer : sealing'[g] \in {NoWrite} \cup Write
    BY <1>0, <2>1
  <2>6. masterKey' \in [Instance -> MasterKey \cup {None}]
    BY <1>0, <2>1
  <2> QED
    BY <1>0, <1>2, <2>1, <2>2, <2>4, <2>5, <2>6
<1>14. CASE UNCHANGED vaultVars
  BY <1>14 DEF vaultVars, VaultTypeOK
<1> QED
  BY <1>7, <1>9, <1>10, <1>11, <1>12, <1>13, <1>14 DEF VaultNext

LEMMA RateInitTypes == RateInit => RateTypeOK
<1> QED
  BY RateAssumption DEF RateInit, RateTypeOK

LEMMA RateNextTypes == RateTypeOK /\ RateInv /\ RateInv' /\ [RateNext]_rateVars => RateTypeOK'
<1> SUFFICES ASSUME RateTypeOK, RateInv, RateInv', [RateNext]_rateVars PROVE RateTypeOK'
  OBVIOUS
<1> DEFINE Buckets(t) == [tokens : 0..Rate, lastRefill : 0..t, lastSeen : 0..t]
<1>0. /\ ticks \in Nat /\ ticks' \in Nat /\ ticks' \in {ticks, ticks + 1}
      /\ allowed \in Seq(0..ticks) /\ Len(allowed) \in Nat
      /\ Rate \in Nat \ {0} /\ Interval \in Nat \ {0}
      /\ bucket = {} \/ \E b \in Buckets(ticks) : bucket = {b}
  BY RateAssumption
     DEF RateTypeOK, RateInv, Bucket, RateNext, rateVars, Allow, Throttle, Cleanup, RateTick
<1>1. ticks' \in 0..MaxTicks
  BY RateAssumption DEF RateTypeOK, RateNext, rateVars, Allow, Throttle, Cleanup, RateTick
<1>2. allowed' \in Seq(0..ticks')
  <2>1. CASE Allow
    BY <1>0, <2>1 DEF Allow
  <2>2. CASE Throttle \/ Cleanup \/ UNCHANGED rateVars
    BY <1>0, <2>2 DEF Throttle, Cleanup, rateVars
  <2>3. CASE RateTick
    <3>1. PICK n \in 0..Len(allowed) : allowed' = SubSeq(allowed, n + 1, Len(allowed))
      BY <2>3 DEF RateTick
    <3>2. \A m \in (n + 1)..Len(allowed) : allowed[m] \in 0..ticks
      BY <1>0
    <3>3. SubSeq(allowed, n + 1, Len(allowed)) \in Seq(0..ticks)
      BY <1>0, <3>2, SubSeqProperties
    <3>4. 0..ticks \subseteq 0..ticks'
      BY <1>0
    <3> QED
      BY <3>1, <3>3, <3>4, SeqMonotonic
  <2> QED
    BY <2>1, <2>2, <2>3 DEF RateNext
\* A bucket that accounts for the requests has its fields in their ranges.
<1>3. ASSUME NEW b, bucket' = {b}, DOMAIN b = {"tokens", "lastRefill", "lastSeen"},
             b = [tokens |-> b.tokens, lastRefill |-> b.lastRefill, lastSeen |-> b.lastSeen]
      PROVE  \E c \in Buckets(ticks') : bucket' = {c}
  <2>1. PICK c : bucket' = {c} /\ Accounts(c, allowed', ticks')
    BY <1>3 DEF RateInv
  <2>2. b = c
    BY <1>3, <2>1
  <2>3. b.tokens \in 0..Rate /\ b.lastRefill \in 0..ticks' /\ b.lastSeen \in 0..ticks'
    BY <1>0, <2>1, <2>2 DEF Accounts
  <2> QED
    BY <1>3, <2>3
<1>4. bucket' = {} \/ \E b \in Buckets(ticks') : bucket' = {b}
  <2>1. Found = [tokens |-> Found.tokens, lastRefill |-> Found.lastRefill, lastSeen |-> ticks]
    BY FoundAccounts
  <2>2. CASE Allow
    <3> DEFINE b == [Found EXCEPT !.tokens = @ - 1]
    <3>1. bucket' = {b}
      BY <2>2 DEF Allow
    <3>2. b = [tokens |-> Found.tokens - 1, lastRefill |-> Found.lastRefill, lastSeen |-> ticks]
      BY <2>1
    <3>3. PICK c : c = b
      OBVIOUS
    <3> HIDE DEF b
    <3> QED
      BY <1>3, <3>1, <3>2, <3>3
  <2>3. CASE Throttle
    <3>1. PICK c : c = Found
      OBVIOUS
    <3>2. bucket' = {c} /\ c = [tokens |-> c.tokens, lastRefill |-> c.lastRefill, lastSeen |-> c.lastSeen]
      BY <2>1, <2>3, <3>1 DEF Throttle
    <3> QED
      BY <1>3, <3>2
  <2>4. CASE Cleanup
    BY <2>4 DEF Cleanup
  <2>5. CASE RateTick \/ UNCHANGED rateVars
    <3>1. bucket' = bucket
      BY <2>5 DEF RateTick, rateVars
    <3>2. CASE bucket # {}
      <4>1. PICK b \in Buckets(ticks) : bucket = {b}
        BY <1>0, <3>2
      <4>2. bucket' = {b} /\ b = [tokens |-> b.tokens, lastRefill |-> b.lastRefill, lastSeen |-> b.lastSeen]
        BY <3>1, <4>1
      <4> QED
        BY <1>3, <4>2
    <3> QED
      BY <3>1, <3>2
  <2> QED
    BY <2>2, <2>3, <2>4, <2>5 DEF RateNext
<1> QED
  BY <1>1, <1>2, <1>4 DEF RateTypeOK, Bucket

-----------------------------------------------------------------------------
LEMMA JwksInitTypes == JwksInit => JwksTypeOK /\ IsFiniteSet(DOMAIN keySets)
<1> SUFFICES ASSUME JwksInit PROVE JwksTypeOK /\ IsFiniteSet(DOMAIN keySets)
  OBVIOUS
<1>1. DOMAIN keySets = {}
  BY DEF JwksInit
<1>2. IsFiniteSet(DOMAIN keySets) /\ Cardinality(DOMAIN keySets) = 0
  BY <1>1, FS_EmptySet
<1> QED
  BY <1>1, <1>2, JwksAssumption DEF JwksInit, JwksTypeOK

\* One entry more, and one dropped if there are too many.
LEMMA StoringKeepsLimit ==
    ASSUME IsFiniteSet(DOMAIN keySets), Cardinality(DOMAIN keySets) <= CacheSize,
           NEW u, NEW wide, DOMAIN wide = DOMAIN keySets \cup {u}, NEW s \in EvictOldest(wide)
    PROVE  /\ IsFiniteSet(DOMAIN s) /\ Cardinality(DOMAIN s) <= CacheSize
           /\ DOMAIN s \subseteq DOMAIN wide /\ \A v \in DOMAIN s : s[v] = wide[v]
<1>3. CacheSize \in Nat /\ Cardinality(DOMAIN keySets) \in Nat
  BY JwksAssumption, FS_CardinalityType
<1>4. IsFiniteSet(DOMAIN wide) /\ Cardinality(DOMAIN wide) \in Nat /\ Cardinality(DOMAIN wide) <= CacheSize + 1
  <2>1. /\ IsFiniteSet(DOMAIN keySets \cup {u})
        /\ Cardinality(DOMAIN keySets \cup {u}) \in {Cardinality(DOMAIN keySets), Cardinality(DOMAIN keySets) + 1}
    BY FS_AddElement
  <2> QED
    BY <1>3, <2>1
<1>5. CASE Cardinality(DOMAIN wide) <= CacheSize
  <2>1. s = wide
    BY <1>5 DEF EvictOldest
  <2> QED
    BY <1>4, <1>5, <2>1
<1>6. CASE ~(Cardinality(DOMAIN wide) <= CacheSize)
  <2>1. PICK old \in DOMAIN wide : s = [v \in DOMAIN wide \ {old} |-> wide[v]]
    BY <1>6 DEF EvictOldest
  <2>2. IsFiniteSet(DOMAIN wide \ {old}) /\ Cardinality(DOMAIN wide \ {old}) = Cardinality(DOMAIN wide) - 1
    BY <1>4, FS_RemoveElement
  <2>3. DOMAIN s = DOMAIN wide \ {old} /\ \A v \in DOMAIN s : s[v] = wide[v]
    BY <2>1
  <2>4. IsFiniteSet(DOMAIN s) /\ Cardinality(DOMAIN s) <= CacheSize
    BY <1>3, <1>4, <1>6, <2>2, <2>3
  <2> QED
    BY <2>3, <2>4
<1> QED
  BY <1>5, <1>6

LEMMA JwksNextTypes ==
    ASSUME JwksTypeOK, IsFiniteSet(DOMAIN keySets), JwksInv, JwksInv', [JwksNext]_jwksVars
    PROVE  JwksTypeOK' /\ IsFiniteSet(DOMAIN keySets')
<1> DEFINE Sets(t)    == [keys : SUBSET SigningKey, at : 0..t]
           Fetches(t) == [url : {{u} : u \in Url}, since : 0..t,
                          read : {{}} \cup {{S} : S \in SUBSET SigningKey}]
<1>0. /\ clock \in Nat /\ clock' \in Nat /\ clock' \in {clock, clock + 1}
      /\ published \in [Url -> SUBSET SigningKey] /\ published' \in [Url -> SUBSET SigningKey]
      /\ DOMAIN keySets \subseteq Url /\ Cardinality(DOMAIN keySets) <= CacheSize
      /\ \A u \in DOMAIN keySets : keySets[u] \in Sets(clock)
      /\ DOMAIN fetching = Fetcher
      /\ \A f \in Fetcher : fetching[f] \in {Idle} \cup Fetches(clock)
  <2>1. clock' \in {clock, clock + 1}
    BY DEF JwksNext, jwksVars, FetchFails, FetchBegin, FetchRead, FetchStore, Publish, JwksTick
  <2> QED
    BY <2>1 DEF JwksTypeOK, JwksInv, JwksTypes, Fetch
<1>1. clock' \in 0..MaxClock
  <2>1. clock' = clock \/ (clock < MaxClock /\ clock' = clock + 1)
    BY DEF JwksNext, jwksVars, FetchFails, FetchBegin, FetchRead, FetchStore, Publish, JwksTick
  <2> QED
    BY <2>1, JwksAssumption DEF JwksTypeOK
\* What has been stored or begun by now has been so at any later time.
<1>2. Sets(clock) \subseteq Sets(clock') /\ Fetches(clock) \subseteq Fetches(clock')
  <2>1. 0..clock \subseteq 0..clock'
    BY <1>0
  <2> QED
    BY <2>1
<1>3. lastSeen' \in [Url -> [SigningKey -> -1..clock']]
  <2>1. lastSeen \in [Url -> [SigningKey -> -1..clock]] /\ -1..clock \subseteq -1..clock' /\ clock' \in -1..clock'
    BY <1>0 DEF JwksTypeOK
  <2>2. CASE \E u \in Url, keys \in SUBSET SigningKey : Publish(u, keys)
    BY <1>0, <2>1, <2>2 DEF Publish
  <2>3. CASE JwksTick
    BY <1>0, <2>1, <2>3 DEF JwksTick
  <2>4. CASE UNCHANGED lastSeen
    BY <2>1, <2>4
  <2> QED
    BY <2>2, <2>3, <2>4 DEF JwksNext, jwksVars, FetchFails, FetchBegin, FetchRead, FetchStore
<1>4. \A f \in Fetcher : fetching'[f] \in {Idle} \cup Fetches(clock')
  <2>1. CASE UNCHANGED fetching
    BY <1>0, <1>2, <2>1
  <2>2. ASSUME NEW f \in Fetcher, NEW x \in {Idle} \cup Fetches(clock'),
               fetching' = [fetching EXCEPT ![f] = x]
        PROVE  \A g \in Fetcher : fetching'[g] \in {Idle} \cup Fetches(clock')
    <3> HIDE DEF Fetches
    <3> QED
      BY <1>0, <1>2, <2>2
  <2>3. ASSUME NEW f \in Fetcher, NEW u \in Url, FetchBegin(f, u)
        PROVE  \A g \in Fetcher : fetching'[g] \in {Idle} \cup Fetches(clock')
    <3>1. [url |-> {u}, since |-> clock, read |-> {}] \in Fetches(clock')
      BY <1>0
    <3> HIDE DEF Fetches
    <3> QED
      BY <2>2, <2>3, <3>1 DEF FetchBegin
  <2>4. ASSUME NEW f \in Fetcher, NEW u \in Url, FetchRead(f, u)
        PROVE  \A g \in Fetcher : fetching'[g] \in {Idle} \cup Fetches(clock')
    <3>1. fetching[f].url = {u} /\ fetching' = [fetching EXCEPT ![f] = [@ EXCEPT !.read = {published[u]}]]
      BY <2>4 DEF FetchRead
    <3>a. fetching[f] # Idle
      BY <3>1 DEF Idle
    <3>2. fetching[f] \in Fetches(clock)
      <4> HIDE DEF Fetches
      <4> QED
        BY <1>0, <3>a
    <3>3. published[u] \in SUBSET SigningKey
      BY <1>0
    <3>4. fetching[f] \in Fetches(clock')
      BY <1>2, <3>2
    <3>5. [fetching[f] EXCEPT !.read = {published[u]}] \in Fetches(clock')
      BY <3>3, <3>4
    <3> HIDE DEF Fetches
    <3> QED
      BY <2>2, <3>1, <3>5
  <2>5. ASSUME NEW f \in Fetcher, FetchFails(f) \/ \E u \in Url : FetchStore(f, u)
        PROVE  \A g \in Fetcher : fetching'[g] \in {Idle} \cup Fetches(clock')
    <3> HIDE DEF Fetches
    <3> QED
      BY <2>2, <2>5 DEF FetchFails, FetchStore
  <2> HIDE DEF Fetches
  <2> QED
    BY <2>1, <2>3, <2>4, <2>5 DEF JwksNext, jwksVars, Publish, JwksTick
<1>5. /\ IsFiniteSet(DOMAIN keySets') /\ Cardinality(DOMAIN keySets') <= CacheSize
      /\ DOMAIN keySets' \subseteq Url
      /\ \A u \in DOMAIN keySets' : keySets'[u] \in Sets(clock')
  <2>1. CASE UNCHANGED keySets
    BY <1>0, <1>2, <2>1
  <2>2. ASSUME NEW f \in Fetcher, NEW u \in Url, FetchStore(f, u)
        PROVE  /\ IsFiniteSet(DOMAIN keySets') /\ Cardinality(DOMAIN keySets') <= CacheSize
               /\ DOMAIN keySets' \subseteq Url
               /\ \A v \in DOMAIN keySets' : keySets'[v] \in Sets(clock')
    <3> DEFINE entry == [keys |-> UNION fetching[f].read, at |-> clock]
    <3>1. /\ fetching[f].url = {u}
          /\ keySets' \in EvictOldest([v \in DOMAIN keySets \cup {u} |-> IF v = u THEN entry ELSE keySets[v]])
      BY <2>2 DEF FetchStore
    <3>a. fetching[f] # Idle
      BY <3>1 DEF Idle
    <3>2. fetching[f] \in Fetches(clock)
      <4> HIDE DEF Fetches
      <4> QED
        BY <1>0, <3>a
    <3>3. entry \in Sets(clock)
      BY <1>0, <3>2
    <3>4. entry \in Sets(clock')
      BY <1>2, <3>3
    <3>5. PICK s, e : s = keySets' /\ e = entry
      OBVIOUS
    <3> HIDE DEF entry, Sets, Fetches
    <3>b. PICK wide : /\ DOMAIN wide = DOMAIN keySets \cup {u}
                      /\ \A v \in DOMAIN wide : wide[v] = IF v = u THEN e ELSE keySets[v]
                      /\ s \in EvictOldest(wide)
      BY <3>1, <3>5
    <3>c. Cardinality(DOMAIN keySets) <= CacheSize
      BY <1>0
    <3>6. /\ IsFiniteSet(DOMAIN s) /\ Cardinality(DOMAIN s) <= CacheSize
          /\ DOMAIN s \subseteq DOMAIN wide /\ \A v \in DOMAIN s : s[v] = wide[v]
      BY <3>b, <3>c, StoringKeepsLimit
    <3>7. \A v \in DOMAIN s : s[v] \in Sets(clock')
      BY <1>0, <1>2, <3>4, <3>5, <3>6, <3>b
    <3> QED
      BY <1>0, <3>5, <3>6, <3>7, <3>b
  <2> HIDE DEF Sets
  <2> QED
    BY <2>1, <2>2 DEF JwksNext, jwksVars, FetchFails, FetchBegin, FetchRead, Publish, JwksTick
<1> QED
  BY <1>0, <1>1, <1>3, <1>4, <1>5 DEF JwksTypeOK, Fetch

-----------------------------------------------------------------------------
\* Names are unique in the table, which is empty without Postgres.
PolicyRowsOK ==
    /\ \A p, q \in policyRows : p.of.name = q.of.name => p = q
    /\ ~Postgres => policyRows = {}
    /\ policyFaults \in 0..MaxPolicyFaults
    /\ withdrawn \subseteq Policy

LEMMA PolicyRowsNext == PolicyInv /\ PolicyRowsOK /\ [PolicyNext]_policyVars => PolicyRowsOK'
<1> SUFFICES ASSUME PolicyInv, PolicyRowsOK, [PolicyNext]_policyVars PROVE PolicyRowsOK'
  OBVIOUS
<1>1. policyFaults' \in 0..MaxPolicyFaults
  <2>1. policyFaults' = policyFaults \/ PolicyFault
    BY DEF PolicyNext, policyVars, AddBegin, AddFails, AddFinish, RemovePolicy, RemovePolicyFails,
           LoadFromStore, LoadFails
  <2>2. policyFaults \in 0..MaxPolicyFaults /\ MaxPolicyFaults \in Nat
    BY PolicyAssumption DEF PolicyRowsOK
  <2> QED
    BY <2>1, <2>2 DEF PolicyFault
<1>a. withdrawn' \subseteq Policy
  <2>1. \/ withdrawn' = withdrawn
        \/ \E i \in Instance : \E p \in Range(policies[i]) : withdrawn' = withdrawn \cup {p}
    BY DEF PolicyNext, policyVars, AddBegin, AddFails, AddFinish, RemovePolicy, RemovePolicyFails,
           LoadFromStore, LoadFails, Restarting, Withdraw
  <2>2. \A i \in Instance : Range(policies[i]) \subseteq Policy
    BY DEF PolicyInv, PolicyTypes, Range
  <2> QED
    BY <2>1, <2>2 DEF PolicyRowsOK
<1>2. \/ policyRows' \subseteq policyRows
      \/ \E p : RowAccepted(p) /\ InsertRow(p)
  BY DEF PolicyNext, policyVars, AddBegin, AddFails, AddFinish, RemovePolicy, RemovePolicyFails,
         LoadFromStore, LoadFails, Restarting
<1>3. CASE policyRows' \subseteq policyRows
  BY <1>1, <1>a, <1>3 DEF PolicyRowsOK
<1>4. ASSUME NEW p, RowAccepted(p), InsertRow(p) PROVE PolicyRowsOK'
  BY <1>1, <1>a, <1>4 DEF PolicyRowsOK, RowAccepted, InsertRow
<1> QED
  BY <1>2, <1>3, <1>4

LEMMA PolicyTypesHold ==
    ASSUME PolicyInv, PolicyRowsOK
    PROVE  PolicyTypeOK
<1>1. PolicyTypes
  BY DEF PolicyInv
<1> QED
  BY <1>1 DEF PolicyTypes, PolicyRowsOK, PolicyTypeOK

-----------------------------------------------------------------------------
\* Every block but the first was issued by an agent, so only names the registry
\* knows are asked for.
IssuedByAgents(c) == \A n \in 2..Len(c) : c[n].issuer \in Holder

UseTypes ==
    /\ second \in Nat \ {0}
    /\ IssuedByAgents(held)
    /\ use # NoUse => use.id \in TokenId /\ use.left \in Seq(Name) /\ use.at <= second

LEMMA UseInitTypes == UseInit => UseTypes
<1> SUFFICES ASSUME UseInit PROVE UseTypes
  OBVIOUS
<1>1. held = <<>> /\ Len(held) = 0 /\ second = 1 /\ use = NoUse
  BY DEF UseInit, Act!ActInit
<1> QED
  BY <1>1 DEF UseTypes, IssuedByAgents

LEMMA NamesAreAsked ==
    ASSUME NEW c, Chain(c), c # <<>>, IssuedByAgents(c), heldId \in TokenId
    PROVE  Questions(c) \in Seq(Name)
<1>1. Len(c) \in Nat /\ Len(c) >= 1 /\ DOMAIN c = 1..Len(c)
  BY DEF Chain
<1>2. \A n \in 1..Len(c) : c[n].subject \in Holder
  BY <1>1, ChainFields
<1> DEFINE questions == Questions(c)
<1>3. DOMAIN questions = 1..2 * Len(c) /\ 2 * Len(c) \in Nat
  BY <1>1 DEF Questions
<1>4. ASSUME NEW q \in 1..2 * Len(c) PROVE questions[q] \in Name
  <2>1. (q + 1) \div 2 \in 1..Len(c)
    BY <1>1
  <2>2. questions[q] = IF q = 1 THEN heldId
                       ELSE IF q = 2 \/ q % 2 = 1 THEN c[(q + 1) \div 2].subject
                            ELSE c[(q + 1) \div 2].issuer
    BY DEF Questions
  <2>3. q # 1 /\ q # 2 => (q + 1) \div 2 \in 2..Len(c)
    BY <1>1
  <2> HIDE DEF questions
  <2> QED
    BY <1>2, <2>1, <2>2, <2>3 DEF IssuedByAgents, Name
<1>5. questions = [q \in 1..2 * Len(c) |-> questions[q]]
  BY <1>3 DEF Questions
<1> HIDE DEF questions
<1>6. questions \in [1..2 * Len(c) -> Name]
  BY <1>4, <1>5
<1>7. questions \in Seq(Name)
  BY <1>3, <1>6
<1> QED
  BY <1>7 DEF questions

LEMMA HeldIssuedByAgents ==
    ASSUME UseInv, UseTypes, [UseNext]_useVars
    PROVE  IssuedByAgents(held')
<1>1. ASSUME NEW holder \in Holder, NEW caps \in SUBSET Capability, NEW exp \in Expiry,
             Issue(holder, caps, exp)
      PROVE  IssuedByAgents(held')
  <2>1. Len(held') = 1
    BY <1>1 DEF Issue, Act!IssueRootToken
  <2> QED
    BY <2>1 DEF IssuedByAgents
<1>2. ASSUME NEW child \in Holder, NEW caps \in SUBSET Capability, NEW exp \in Expiry,
             HandOn(child, caps, exp)
      PROVE  IssuedByAgents(held')
  <2>1. PICK b : /\ b = Act!Delegated(held, child, caps, [exp |-> exp, nbf |-> 0, max |-> 0])
                 /\ held # <<>> /\ held' = Append(held, b)
    BY <1>2 DEF HandOn, Act!Delegate
  <2>2. Chain(held) /\ held \in Seq(Act!Block) /\ Len(held) \in Nat /\ Len(held) \in DOMAIN held
    BY <2>1 DEF UseInv, Chain
  <2>3. b.issuer = held[Len(held)].subject
    BY <2>1 DEF Act!Delegated, Act!Last
  <2>4. b.issuer \in Holder
    BY <2>2, <2>3, ChainFields
  <2>5. Len(held') = Len(held) + 1 /\ \A n \in 1..Len(held') : held'[n] = IF n <= Len(held) THEN held[n] ELSE b
    BY <2>1, <2>2
  <2> QED
    BY <2>2, <2>4, <2>5 DEF IssuedByAgents, UseTypes
<1>4. ASSUME NEW b \in Act!Extensions, HandOnOwn(b)
      PROVE  IssuedByAgents(held')
  <2>1. held' = Append(held, b) /\ b.issuer \in Holder
    BY <1>4, OwnBlockIsLinked
  <2>2. held \in Seq(Act!Block) /\ Len(held) \in Nat
    BY DEF UseInv, Chain
  <2>3. Len(held') = Len(held) + 1 /\ \A n \in 1..Len(held') : held'[n] = IF n <= Len(held) THEN held[n] ELSE b
    BY <2>1, <2>2
  <2> QED
    BY <2>1, <2>2, <2>3 DEF IssuedByAgents, UseTypes
<1>3. ASSUME held' = held PROVE IssuedByAgents(held')
  BY <1>3 DEF UseTypes
<1> QED
  BY <1>1, <1>2, <1>3, <1>4
     DEF UseNext, useVars, UseTick, Act!Tick, RevokeHolder, RevokeEndpoint, RevokeEndpointFails,
         Begin, ExchangeToken, Introspect, UserInfo, SubmitDelegatedToken, VerifyToken, CallTool,
         CallSkill, AskRegistry, AskFails, Answered, Refused, tokenInHand

LEMMA UseNextTypes ==
    ASSUME UseInv, UseInv', UseTypes, [UseNext]_useVars
    PROVE  UseTypes'
<1>1. second' \in Nat \ {0} /\ second <= second'
  <2>1. second' = second \/ second' = second + 1
    BY DEF UseNext, useVars, UseTick, Act!Tick, RevokeHolder, RevokeEndpoint,
           RevokeEndpointFails, Begin, ExchangeToken, Introspect, UserInfo, SubmitDelegatedToken,
           VerifyToken, CallTool, CallSkill, AskRegistry, AskFails, Answered, Refused, tokenInHand,
           Issue, Act!IssueRootToken, HandOn, Act!Delegate, HandOnOwn, Act!AppendOwnBlock
  <2> QED
    BY <2>1 DEF UseTypes
<1>2. IssuedByAgents(held')
  BY HeldIssuedByAgents
<1>3. \/ use' = use \/ use' = NoUse \/ AskRegistry \/ Answered
      \/ \E kind, need, n : Begin(kind, need, n)
  BY DEF UseNext, useVars, UseTick, RevokeHolder, RevokeEndpoint, RevokeEndpointFails,
         ExchangeToken, Introspect, UserInfo, SubmitDelegatedToken, VerifyToken, CallTool,
         CallSkill, AskFails, Refused, Issue, HandOn, HandOnOwn
<1> DEFINE Typed(u) == u.id \in TokenId /\ u.left \in Seq(Name) /\ u.at <= second'
<1>4. CASE use' = use
  <2>1. use # NoUse => use.at \in Nat /\ use.at <= second
    BY DEF UseInv, UseRecord, UseTypes
  <2>2. use # NoUse => Typed(use)
    BY <1>1, <2>1 DEF UseTypes
  <2> QED
    BY <1>1, <1>2, <1>4, <2>2 DEF UseTypes, IssuedByAgents
<1>5. CASE use' = NoUse
  BY <1>1, <1>2, <1>5 DEF UseTypes, IssuedByAgents
<1>6. ASSUME NEW u, use' = u, Typed(u) PROVE UseTypes'
  BY <1>1, <1>2, <1>6 DEF UseTypes, IssuedByAgents
<1>7. CASE AskRegistry /\ use' # NoUse
  <2>1. /\ use.pc = "asking" /\ use.left # <<>> /\ second' = second
        /\ use' = [use EXCEPT !.left = Tail(@), !.at = IF @ = 0 THEN second ELSE @]
    BY <1>7 DEF AskRegistry, tokenInHand
  <2>2. use # NoUse
    BY <2>1 DEF NoUse
  <2>3. use \in UseRecord /\ use.id \in TokenId /\ use.left \in Seq(Name) /\ use.at <= second
    BY <2>2 DEF UseInv, UseTypes
  <2>4. PICK u : u = [use EXCEPT !.left = Tail(use.left), !.at = IF use.at = 0 THEN second ELSE use.at]
    OBVIOUS
  <2>5. u.id = use.id /\ u.left = Tail(use.left) /\ u.at \in {second, use.at}
    BY <2>3, <2>4 DEF UseRecord
  <2>6. Tail(use.left) \in Seq(Name)
    BY <2>1, <2>3
  <2>7. u.at <= second'
    BY <1>1, <2>1, <2>3, <2>5
  <2> QED
    BY <1>6, <2>1, <2>3, <2>4, <2>5, <2>6, <2>7
<1>8. CASE Answered
  <2>1. use.pc = "asking" /\ second' = second /\ use' = [use EXCEPT !.pc = "answered"]
    BY <1>8 DEF Answered, tokenInHand
  <2>2. use # NoUse
    BY <2>1 DEF NoUse
  <2>3. use \in UseRecord /\ use.id \in TokenId /\ use.left \in Seq(Name) /\ use.at <= second
    BY <2>2 DEF UseInv, UseTypes
  <2>4. PICK u : u = [use EXCEPT !.pc = "answered"]
    OBVIOUS
  <2>5. u.id = use.id /\ u.left = use.left /\ u.at = use.at
    BY <2>3, <2>4 DEF UseRecord
  <2> QED
    BY <1>6, <2>1, <2>3, <2>4, <2>5
<1>9. ASSUME NEW kind, NEW need, NEW n, Begin(kind, need, n) PROVE UseTypes'
  <2> DEFINE chain == SubSeq(held, 1, n)
             asked == [pc |-> "asking", kind |-> kind, need |-> need, id |-> heldId, chain |-> chain,
                       left |-> Questions(chain), at |-> 0, before |-> acknowledged \cap Named(chain)]
  <2>1. n \in DOMAIN held /\ use' = asked
    BY <1>9 DEF Begin
  <2>2. /\ Chain(held) /\ held \in Seq(Act!Block) /\ held # <<>> /\ n \in 1..Len(held) /\ Len(held) \in Nat
        /\ heldId \in TokenId
    <3>1. Chain(held) /\ held \in Seq(Act!Block)
      BY DEF UseInv, Chain
    <3>2. Len(held) \in Nat /\ n \in 1..Len(held) /\ held # <<>>
      BY <2>1, <3>1
    <3> QED
      BY <3>1, <3>2 DEF UseInv
  <2>3. Chain(chain) /\ chain # <<>>
    BY <2>1, <2>2, PartIsChain
  <2>4. Len(chain) = n /\ \A m \in 1..n : chain[m] = held[m]
    BY <2>2, SubSeqProperties
  <2>5. PICK c : c = chain
    OBVIOUS
  <2>6. PICK u : u = asked
    OBVIOUS
  <2>7. IssuedByAgents(c)
    <3> HIDE DEF chain, asked
    <3> QED
      BY <2>2, <2>4, <2>5 DEF UseTypes, IssuedByAgents
  <2>8. Questions(c) \in Seq(Name)
    BY <2>2, <2>3, <2>5, <2>7, NamesAreAsked
  <2>9. u.id = heldId /\ u.left = Questions(c) /\ u.at = 0
    BY <2>5, <2>6
  <2> HIDE DEF chain, asked
  <2> QED
    BY <1>1, <1>6, <2>1, <2>2, <2>6, <2>8, <2>9
<1> QED
  BY <1>3, <1>4, <1>5, <1>7, <1>8, <1>9

LEMMA UseTypesHold ==
    ASSUME UseInv, UseTypes
    PROVE  UseTypeOK
<1>1. Act!ActTypeOK
  BY DEF UseInv, UseTypes, Chain, Act!ActTypeOK
<1>2. CASE use = NoUse
  BY <1>1, <1>2 DEF UseInv, UseTypeOK
<1>3. CASE use # NoUse
  BY <1>1, <1>3 DEF UseInv, UseTypes, UseRecord, Chain, UseTypeOK
<1> QED
  BY <1>2, <1>3

-----------------------------------------------------------------------------
(* All components                                                            *)

TypesInv ==
    /\ PolicyInv /\ PolicyRowsOK
    /\ AuditTypes
    /\ ApprovalInv
    /\ UserInv
    /\ JwksInv /\ JwksTypeOK /\ IsFiniteSet(DOMAIN keySets)
    /\ RateInv /\ RateTypeOK
    /\ VaultInv /\ VaultTypeOK
    /\ RootInv
    /\ UseInv /\ UseTypes

LEMMA ServicesStep ==
    ASSUME [ServicesNext]_servicesVars
    PROVE  /\ [PolicyNext]_policyVars /\ [AuditNext]_auditVars /\ [ApprovalNext]_approvalVars
           /\ [UserNext]_userVars /\ [JwksNext]_jwksVars /\ [RateNext]_rateVars
           /\ [VaultNext]_vaultVars /\ [RootNext]_rootVars /\ [UseNext]_useVars
BY DEF ServicesNext, servicesVars, Rest

\* Whatever the components do at the same time, the state of each keeps its types
\* (and the caches and tables their limits and keys).
THEOREM ServicesTypeCorrectness == ServicesSpec => []ServicesTypeOK
<1>1. ServicesInit => TypesInv
  <2> SUFFICES ASSUME ServicesInit PROVE TypesInv
    OBVIOUS
  <2>1. PolicyRowsOK
    <3>1. MaxPolicyFaults \in Nat
      BY PolicyAssumption
    <3>2. policyRows = {} /\ withdrawn = {} /\ policyFaults = 0
      BY DEF ServicesInit, PolicyInit
    <3> QED
      BY <3>1, <3>2 DEF PolicyRowsOK
  <2> QED
    BY <2>1, PolicyInitInv, AuditInitTypes, ApprovalInitInv, UserInitInv, JwksInitInv, JwksInitTypes,
       RateInitInv, RateInitTypes, VaultInitInv, VaultInitTypes, RootInitInv, UseInitInv, UseInitTypes
       DEF ServicesInit, TypesInv
<1>2. TypesInv /\ [ServicesNext]_servicesVars => TypesInv'
  <2> SUFFICES ASSUME TypesInv, [ServicesNext]_servicesVars PROVE TypesInv'
    OBVIOUS
  <2>1. PolicyInv' /\ AuditTypes' /\ ApprovalInv' /\ UserInv' /\ JwksInv' /\ RateInv' /\ VaultInv'
        /\ RootInv' /\ UseInv'
    BY ServicesStep, PolicyNextInv, AuditNextTypes, ApprovalNextInv, UserNextInv, JwksNextInv,
       RateNextInv, VaultNextInv, RootNextInv, UseNextInv DEF TypesInv
  <2>2. PolicyRowsOK' /\ JwksTypeOK' /\ IsFiniteSet(DOMAIN keySets') /\ RateTypeOK' /\ VaultTypeOK' /\ UseTypes'
    BY <2>1, ServicesStep, PolicyRowsNext, JwksNextTypes, RateNextTypes, VaultNextTypes, UseNextTypes
       DEF TypesInv
  <2> QED
    BY <2>1, <2>2 DEF TypesInv
<1>3. TypesInv => ServicesTypeOK
  BY PolicyTypesHold, UseTypesHold DEF TypesInv, ServicesTypeOK, AuditTypes, ApprovalInv, UserInv, RootInv
<1> QED
  BY <1>1, <1>2, <1>3, PTL DEF ServicesSpec
=============================================================================
