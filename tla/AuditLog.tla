------------------------------ MODULE AuditLog ------------------------------
(***************************************************************************)
(* The audit log of one server (internal/audit): a bounded buffer, and a   *)
(* goroutine per entry that writes it to the table, trying three times.    *)
(* Servers share nothing but the table, where each has entries of its own. *)
(*                                                                         *)
(* Entries are numbered in the order in which they enter the buffer, which *)
(* is that of their timestamps but for calls that overlap.                 *)
(***************************************************************************)
EXTENDS Integers, SequencesExt

CONSTANTS
    BufferCap,      \* maxEntries of the source
    EvictCount,     \* maxEntries / 10
    MaxAttempts,    \* maxRetries
    MaxEntries      \* bound: the entries of a run

ASSUME AuditAssumption ==
    /\ EvictCount \in 1..BufferCap /\ BufferCap \in Nat
    /\ MaxAttempts \in Nat \ {0}
    /\ MaxEntries \in Nat

VARIABLES
    entries,          \* the buffer, oldest first
    auditRows,        \* the entries in the table
    writing,          \* the goroutines: the attempts each entry has had
    persistFailures,  \* the counter
    latest,           \* history: the number of the last entry
    started           \* history: that of the last entry before the last start

auditVars == <<entries, auditRows, writing, persistFailures, latest, started>>

AuditTypeOK ==
    /\ latest \in 0..MaxEntries /\ started \in 0..latest
    /\ entries \in Seq(1..latest)
    /\ auditRows \subseteq 1..latest
    /\ DOMAIN writing \subseteq started+1..latest
    /\ \A e \in DOMAIN writing : writing[e] \in 0..MaxAttempts-1
    /\ persistFailures \in 0..latest-started

AuditInit ==
    /\ entries = <<>> /\ auditRows = {} /\ writing = <<>>
    /\ persistFailures = 0 /\ latest = 0 /\ started = 0

-----------------------------------------------------------------------------
(* append                                                                    *)

\* Seeded fault: the newest entries are dropped.
EvictNewest(s) == IF Len(s) >= BufferCap THEN SubSeq(s, 1, Len(s) - EvictCount) ELSE s

Evict(s) == IF Len(s) >= BufferCap THEN SubSeq(s, EvictCount + 1, Len(s)) ELSE s

Log ==
    /\ latest < MaxEntries
    /\ latest' = latest + 1
    /\ entries' = Append(Evict(entries), latest + 1)
    /\ writing' = [e \in DOMAIN writing \cup {latest + 1} |->
                     IF e \in DOMAIN writing THEN writing[e] ELSE 0]
    /\ UNCHANGED <<auditRows, persistFailures, started>>

Ended(e) == writing' = [x \in DOMAIN writing \ {e} |-> writing[x]]

Persisted(e) ==
    /\ e \in DOMAIN writing \ auditRows
    /\ auditRows' = auditRows \cup {e}
    /\ Ended(e)
    /\ UNCHANGED <<entries, persistFailures, latest, started>>

\* Seeded fault: an entry that is given up is not counted.
GiveUpUncounted(e) == Ended(e) /\ UNCHANGED persistFailures

GiveUp(e) == Ended(e) /\ persistFailures' = persistFailures + 1

TryAgain(e) ==
    /\ writing' = [writing EXCEPT ![e] = @ + 1]
    /\ UNCHANGED persistFailures

\* The insert failed, or was applied and reported as failed. The ID is the
\* primary key: once an entry is in the table no further attempt succeeds.
AttemptFails(e) ==
    /\ e \in DOMAIN writing
    /\ auditRows' \in {auditRows, auditRows \cup {e}}
    /\ \/ writing[e] + 1 < MaxAttempts /\ TryAgain(e)
       \/ writing[e] + 1 >= MaxAttempts /\ GiveUp(e)
    /\ UNCHANGED <<entries, latest, started>>

AuditRestart ==
    /\ entries' = <<>> /\ writing' = <<>> /\ persistFailures' = 0
    /\ started' = latest
    /\ UNCHANGED <<auditRows, latest>>

AuditNext ==
    \/ Log \/ AuditRestart
    \/ \E e \in 1..latest : Persisted(e) \/ AttemptFails(e)

AuditSpec == AuditInit /\ [][AuditNext]_auditVars

-----------------------------------------------------------------------------
(* Properties                                                                *)

\* The entries since the start that are neither in the table nor on their way
\* there are counted: PersistFailures may count entries that are in the table
\* after all, and never misses one that is not.
UnpersistedAreCounted ==
    Cardinality(((started+1)..latest) \ (auditRows \cup DOMAIN writing)) <= persistFailures

\* The buffer holds the newest entries since the start without a gap, and an
\* eviction leaves all but EvictCount of them.
BufferKeepsNewest ==
    LET logged == latest - started IN
    /\ Len(entries) <= BufferCap
    /\ Len(entries) >= IF logged <= BufferCap THEN logged ELSE BufferCap - EvictCount + 1
    /\ \A n \in DOMAIN entries : entries[n] = latest - Len(entries) + n
=============================================================================
