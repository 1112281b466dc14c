------------------------------ MODULE Approval ------------------------------
(***************************************************************************)
(* Human approval gates (internal/approval): an agent's request is put on  *)
(* record as pending, a webhook may tell somebody, and anybody who holds   *)
(* the ID decides it. A decision is one conditional update of the record.  *)
(***************************************************************************)
EXTENDS Deployment

CONSTANTS
    ApprovalId,         \* the IDs (fresh UUIDs) requests can get
    Approver,           \* input: the approver_id of a decision
    MaxApprovalFaults   \* bound: failures of the store

ASSUME ApprovalAssumption == MaxApprovalFaults \in Nat

VARIABLES
    approvals,       \* the requests on record
    notifying,       \* the webhook goroutines under way
    approvalFaults,  \* failures so far
    notified,        \* history: how often the webhook of a request was delivered
    decided,         \* history: the decisions answered with success, per request
    refused          \* history: the requests for which a decision was refused

approvalVars == <<approvals, notifying, approvalFaults, notified, decided, refused>>

Verdict  == {"approved", "denied"}
Decision == [status : Verdict, approver : Approver]
Pending  == [status |-> "pending", approver |-> None]

ApprovalTypeOK ==
    /\ DOMAIN approvals \subseteq ApprovalId
    /\ \A id \in DOMAIN approvals : approvals[id] \in Decision \cup {Pending}
    /\ notifying \subseteq ApprovalId
    /\ approvalFaults \in 0..MaxApprovalFaults
    /\ notified \in [ApprovalId -> Nat]
    /\ decided \in [ApprovalId -> Seq(Decision)]
    /\ refused \subseteq ApprovalId

ApprovalInit ==
    /\ approvals = <<>> /\ notifying = {} /\ approvalFaults = 0
    /\ notified = [id \in ApprovalId |-> 0]
    /\ decided = [id \in ApprovalId |-> <<>>]
    /\ refused = {}

ApprovalFault == approvalFaults < MaxApprovalFaults /\ approvalFaults' = approvalFaults + 1

Put(id, record) ==
    approvals' = [x \in DOMAIN approvals \cup {id} |-> IF x = id THEN record ELSE approvals[x]]

-----------------------------------------------------------------------------
(* RequestApproval: the record first, then the webhook from a goroutine      *)

Fresh(id) == id \notin DOMAIN approvals /\ notified[id] = 0 /\ id \notin notifying

RequestApproval(id, webhook) ==
    /\ Fresh(id)
    /\ Put(id, Pending)
    /\ notifying' = IF webhook THEN notifying \cup {id} ELSE notifying
    /\ UNCHANGED <<approvalFaults, notified, decided, refused>>

\* Seeded fault: the webhook is sent although the insert failed.
RequestFailsAfterWebhook(id) ==
    /\ ApprovalFault
    /\ Fresh(id)
    /\ notifying' = notifying \cup {id}
    /\ UNCHANGED <<approvals, notified, decided, refused>>

\* The insert was applied and reported as failed: nobody is told of the record.
RequestFails(id) ==
    /\ ApprovalFault /\ Postgres
    /\ Fresh(id)
    /\ Put(id, Pending)
    /\ UNCHANGED <<notifying, notified, decided, refused>>

\* fireWebhook: one attempt, whose failure is only logged.
FireWebhook(id) ==
    /\ id \in notifying
    /\ notifying' = notifying \ {id}
    /\ notified' \in {notified, [notified EXCEPT ![id] = @ + 1]}
    /\ UNCHANGED <<approvals, approvalFaults, decided, refused>>

-----------------------------------------------------------------------------
(* Approve and Deny                                                          *)

\* Seeded fault: the update does not ask for the status.
OpenAlways(id) == id \in DOMAIN approvals

\* The condition of the update.
Open(id) == id \in DOMAIN approvals /\ approvals[id].status = "pending"

Decide(id, decision) ==
    /\ Open(id)
    /\ Put(id, decision)
    /\ decided' = [decided EXCEPT ![id] = Append(@, decision)]
    /\ UNCHANGED <<notifying, approvalFaults, notified, refused>>

\* No row: 404, or 409 from the memory store if there is a record.
DecideRefused(id) ==
    /\ id \in DOMAIN approvals /\ ~Open(id)
    /\ refused' = refused \cup {id}
    /\ UNCHANGED <<approvals, notifying, approvalFaults, notified, decided>>

\* The update was applied and reported as failed: the approver sees a 500, and
\* a 404 when trying again.
DecideFails(id, decision) ==
    /\ ApprovalFault /\ Postgres
    /\ Open(id)
    /\ Put(id, decision)
    /\ UNCHANGED <<notifying, notified, decided, refused>>

\* A restart ends the goroutines, and with the memory store the records, about
\* which nothing is said after.
ApprovalRestart ==
    /\ notifying' = {}
    /\ IF Postgres
       THEN UNCHANGED <<approvals, notified, decided, refused>>
       ELSE /\ approvals' = <<>> /\ refused' = {}
            /\ notified' = [id \in ApprovalId |-> 0]
            /\ decided' = [id \in ApprovalId |-> <<>>]
    /\ UNCHANGED approvalFaults

ApprovalNext ==
    \/ \E id \in ApprovalId :
         \/ \E webhook \in BOOLEAN : RequestApproval(id, webhook)
         \/ RequestFails(id) \/ FireWebhook(id) \/ DecideRefused(id)
         \/ \E decision \in Decision : Decide(id, decision) \/ DecideFails(id, decision)
    \/ ApprovalRestart

ApprovalSpec == ApprovalInit /\ [][ApprovalNext]_approvalVars

-----------------------------------------------------------------------------
(* Properties                                                                *)

\* However many approvers decide at once, fail and try again: at most one of
\* them is told that the decision was taken, the record is that decision from
\* then on, and an approver is refused only when a decision is on record.
AnswersMatchRecord ==
    \A id \in ApprovalId :
        /\ Len(decided[id]) <= 1
        /\ decided[id] # <<>> => id \in DOMAIN approvals /\ approvals[id] = decided[id][1]
        /\ id \in refused => approvals[id].status \in Verdict

\* Who is told of a request is told once, and finds it on record when following
\* the link, whatever failed when it was written.
NotifiedIsOnRecord ==
    \A id \in ApprovalId :
        /\ notified[id] <= 1
        /\ notified[id] = 1 \/ id \in notifying => id \in DOMAIN approvals
=============================================================================
