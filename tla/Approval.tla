------------------------------ MODULE Approval ------------------------------
(***************************************************************************)
(* The dual-approval workflow of the NestJS backend                        *)
(* (backend/src/ctdisr/approval-workflow.service.ts) over the tables       *)
(* approval_requests and approval_decisions.                               *)
(*                                                                         *)
(* submitDecision is five HTTP calls to the database in a row.  Between    *)
(* two of them other submissions, the expiry job and the clock move on,    *)
(* and no constraint of the tables keeps two decisions of one approver     *)
(* apart.  approval_workflows is written by no code, so reading it is part *)
(* of the action that uses it.                                             *)
(***************************************************************************)
EXTENDS Integers, FiniteSets

CONSTANTS
    Requests,       \* approval_requests rows that may be created
    Approvers,      \* users who may call POST approvals/:requestCode/decision
    Submissions,    \* calls of submitDecision (a bound on their number)
    Required,       \* workflow.required_approvals of each request
    Environments,   \* what may go wrong in the histories considered, see `allowed'
    MaxCrashes,     \* bound: how often the backend process dies
    None

ASSUME ApprovalAssumption ==
    /\ IsFiniteSet(Submissions)
    /\ Required \in [Requests -> Nat]
    /\ Environments \subseteq SUBSET {"approvers", "calls", "reads", "writes"}
    /\ MaxCrashes \in Nat
    /\ None \notin Requests \cup Approvers

Statuses  == {"absent", "PENDING", "APPROVED", "REJECTED", "EXPIRED"}
Decisions == {"APPROVE", "REJECT"}

VARIABLES
    request,    \* status column of every approval request
    expired,    \* expires_at < now
    decisions,  \* the submissions whose approval_decisions row is in the table
    call,       \* state of every submitDecision call, and the contents of its row
    marking,    \* requests between validateApprovalToken's read and its PATCH
    executed,   \* executed_at IS NOT NULL
    crashes,
    allowed     \* what may go wrong in this history; never changes

vars == <<request, expired, decisions, call, marking, executed, crashes, allowed>>

\* Calls for one request may overlap if they come from different approvers, or always; a
\* GET may answer with an error status; a POST or PATCH may fail, or its answer be lost.
ApproversOverlap == "approvers" \in allowed
CallsOverlap     == "calls" \in allowed
ReadsMayFail     == "reads" \in allowed
WritesMayFail    == "writes" \in allowed

SubmitCall == [pc : {"start", "check", "record", "count", "resolve", "done", "thrown"},
               request : Requests \cup {None}, approver : Approvers \cup {None},
               decision : Decisions, verdict : Statuses]

Running == {s \in Submissions : call[s].pc \in {"check", "record", "count", "resolve"}}

Rows(r, d) == {s \in decisions : call[s].request = r /\ call[s].decision = d}

Quorum(r) == Cardinality(Rows(r, "APPROVE")) >= Required[r]

Init ==
    /\ request = [r \in Requests |-> "absent"]
    /\ expired = [r \in Requests |-> FALSE]
    /\ decisions = {}
    /\ call = [s \in Submissions |->
           [pc |-> "start", request |-> None, approver |-> None,
            decision |-> "APPROVE", verdict |-> "PENDING"]]
    /\ marking = {}
    /\ executed = [r \in Requests |-> FALSE]
    /\ crashes = 0
    /\ allowed \in Environments

-----------------------------------------------------------------------------
(* The life of a request outside of its decisions.                         *)

CreateApprovalRequest(r) ==
    /\ request[r] = "absent"
    /\ request' = [request EXCEPT ![r] = "PENDING"]
    /\ UNCHANGED <<expired, decisions, call, marking, executed, crashes>>

TimeoutPasses(r) ==
    /\ request[r] # "absent" /\ ~expired[r]
    /\ expired' = [expired EXCEPT ![r] = TRUE]
    /\ UNCHANGED <<request, decisions, call, marking, executed, crashes>>

\* Mutated form: a request somebody decided on is left to its approvers.
StaleUndecided(r) ==
    request[r] = "PENDING" /\ expired[r] /\ \A s \in decisions : call[s].request # r
Stale(r) == request[r] = "PENDING" /\ expired[r]

\* One PATCH over every row that is still PENDING when it is written.
ExpireStaleRequests ==
    /\ \E r \in Requests : Stale(r)
    /\ request' = [r \in Requests |-> IF Stale(r) THEN "EXPIRED" ELSE request[r]]
    /\ UNCHANGED <<expired, decisions, call, marking, executed, crashes>>

-----------------------------------------------------------------------------
(* submitDecision.                                                         *)

MayOverlap(s, r, a) ==
    \A t \in Running \ {s} :
        call[t].request = r => \/ CallsOverlap
                               \/ ApproversOverlap /\ call[t].approver # a

\* Mutated form: a request that was resolved takes decisions until it expires.
TakesLateDecisions(r) == request[r] # "absent" /\ ~expired[r]
TakesDecisions(r) == request[r] = "PENDING" /\ ~expired[r]

\* getApprovalRequest, and the three checks on what it returned.
ReadRequest(s, r, a, d) ==
    /\ call[s].pc = "start" /\ MayOverlap(s, r, a)
    /\ call' = [call EXCEPT ![s] =
           [pc |-> IF TakesDecisions(r) THEN "check" ELSE "thrown", request |-> r,
            approver |-> a, decision |-> d, verdict |-> "PENDING"]]
    /\ UNCHANGED <<request, expired, decisions, marking, executed, crashes>>

\* Mutated form: nobody is asked whether the approver decided before.
NeverDecided(s) == FALSE
HasDecided(s) ==
    \E t \in decisions : /\ call[t].request = call[s].request
                         /\ call[t].approver = call[s].approver

\* getUserDecision returns null when its GET fails, as if there were no row.
CheckUserDecision(s) ==
    /\ call[s].pc = "check"
    /\ \/ /\ HasDecided(s)
          /\ call' = [call EXCEPT ![s].pc = "thrown"]
       \/ /\ ~HasDecided(s) \/ ReadsMayFail
          /\ call' = [call EXCEPT ![s].pc = "record"]
    /\ UNCHANGED <<request, expired, decisions, marking, executed, crashes>>

RecordDecision(s) ==
    /\ call[s].pc = "record"
    /\ decisions' = decisions \cup {s}
    /\ call' = [call EXCEPT ![s].pc = "count"]
    /\ UNCHANGED <<request, expired, marking, executed, crashes>>

\* The POST fails, or its row is committed and the answer is lost.
RecordDecisionFails(s) ==
    /\ WritesMayFail /\ call[s].pc = "record"
    /\ decisions' \in {decisions, decisions \cup {s}}
    /\ call' = [call EXCEPT ![s].pc = "thrown"]
    /\ UNCHANGED <<request, expired, marking, executed, crashes>>

\* Mutated forms: one approval too few is enough; only the exact number of approvals
\* resolves; the decision is written as status.
VerdictOffByOne(r) ==
    IF Rows(r, "REJECT") # {} THEN "REJECTED"
    ELSE IF Cardinality(Rows(r, "APPROVE")) + 1 >= Required[r] THEN "APPROVED" ELSE "PENDING"
VerdictExact(r) ==
    IF Rows(r, "REJECT") # {} THEN "REJECTED"
    ELSE IF Cardinality(Rows(r, "APPROVE")) = Required[r] THEN "APPROVED" ELSE "PENDING"
VerdictAsDecision(r) ==
    IF Rows(r, "REJECT") # {} THEN "REJECT"
    ELSE IF Quorum(r) THEN "APPROVE" ELSE "PENDING"
Verdict(r) ==
    IF Rows(r, "REJECT") # {} THEN "REJECTED"
    ELSE IF Quorum(r) THEN "APPROVED" ELSE "PENDING"

\* getWorkflowById and getRequestDecisions.
CountDecisions(s) ==
    /\ call[s].pc = "count"
    /\ LET v == Verdict(call[s].request) IN
         call' = [call EXCEPT ![s].pc = IF v = "PENDING" THEN "done" ELSE "resolve",
                              ![s].verdict = v]
    /\ UNCHANGED <<request, expired, decisions, marking, executed, crashes>>

\* Any of its reads fails and the call throws; a recorded decision stays.
ReadFails(s) ==
    /\ ReadsMayFail /\ call[s].pc = "count"
    /\ call' = [call EXCEPT ![s].pc = "thrown"]
    /\ UNCHANGED <<request, expired, decisions, marking, executed, crashes>>

\* The PATCH names the row by id only: it replaces whatever status is there.
ResolveRequest(s) ==
    /\ call[s].pc = "resolve"
    /\ request' = [request EXCEPT ![call[s].request] = call[s].verdict]
    /\ call' = [call EXCEPT ![s].pc = "done"]
    /\ UNCHANGED <<expired, decisions, marking, executed, crashes>>

\* The status of its response is not looked at.
ResolveRequestFails(s) ==
    /\ WritesMayFail /\ call[s].pc = "resolve"
    /\ call' = [call EXCEPT ![s].pc = "done"]
    /\ UNCHANGED <<request, expired, decisions, marking, executed, crashes>>

-----------------------------------------------------------------------------
(* validateApprovalToken, for a token of the right action and resource.    *)
(* Validations of one request that run at the same time write the same     *)
(* column, so that a set of requests stands for them all.                  *)

TokenValid(r) == request[r] = "APPROVED" /\ ~expired[r]

ValidateApprovalToken(r) ==
    /\ TokenValid(r) /\ ~executed[r]
    /\ marking' = marking \cup {r}
    /\ UNCHANGED <<request, expired, decisions, call, executed, crashes>>

MarkAsExecuted(r) ==
    /\ r \in marking
    /\ marking' = marking \ {r}
    /\ \/ executed' = [executed EXCEPT ![r] = TRUE]
       \/ WritesMayFail /\ executed' = executed
    /\ UNCHANGED <<request, expired, decisions, call, crashes>>

\* The process dies: calls in flight stop where they are.
Crash ==
    /\ crashes < MaxCrashes /\ (Running # {} \/ marking # {})
    /\ crashes' = crashes + 1
    /\ call' = [s \in Submissions |->
           IF s \in Running THEN [call[s] EXCEPT !.pc = "thrown"] ELSE call[s]]
    /\ marking' = {}
    /\ UNCHANGED <<request, expired, decisions, executed>>

-----------------------------------------------------------------------------

Submit(s) ==
    \/ \E r \in Requests, a \in Approvers, d \in Decisions : ReadRequest(s, r, a, d)
    \/ CheckUserDecision(s)
    \/ RecordDecision(s)
    \/ RecordDecisionFails(s)
    \/ CountDecisions(s)
    \/ ReadFails(s)
    \/ ResolveRequest(s)
    \/ ResolveRequestFails(s)

Step ==
    \/ \E r \in Requests : \/ CreateApprovalRequest(r)
                           \/ TimeoutPasses(r)
                           \/ ValidateApprovalToken(r)
                           \/ MarkAsExecuted(r)
    \/ ExpireStaleRequests
    \/ \E s \in Submissions : Submit(s)
    \/ Crash

Next == Step /\ UNCHANGED allowed

Spec == Init /\ [][Next]_vars

\* The clock runs and the five-minute job is started again and again.  Nothing
\* is assumed of the submissions: a call may hang or its process may die.
FairSpec ==
    /\ Spec
    /\ \A r \in Requests : WF_vars(TimeoutPasses(r) /\ UNCHANGED allowed)
    /\ WF_vars(ExpireStaleRequests /\ UNCHANGED allowed)

-----------------------------------------------------------------------------

\* Every variable has its type: the shape of rows and handler states.
TypeOK ==
    /\ request \in [Requests -> Statuses]
    /\ expired \in [Requests -> BOOLEAN]
    /\ decisions \subseteq Submissions
    /\ call \in [Submissions -> SubmitCall]
    /\ marking \subseteq Requests
    /\ executed \in [Requests -> BOOLEAN]
    /\ crashes \in 0..MaxCrashes
    /\ allowed \in Environments

\* A request that is approved, or was executed, has the number of approving rows
\* its workflow asks for in the table, whatever overlapped, failed or crashed:
\* the snapshot submitDecision counted is never larger than the table.
ApprovedHasQuorum ==
    \A r \in Requests : request[r] = "APPROVED" \/ executed[r] => Quorum(r)

ApproversOf(r) == {call[s].approver : s \in Rows(r, "APPROVE")}

\* An approved request was approved by as many DIFFERENT users as its workflow
\* asks for ('Check if user already approved', and the dual approval the service
\* is named for).
DualControl ==
    \A r \in Requests :
        request[r] = "APPROVED" => Cardinality(ApproversOf(r)) >= Required[r]

\* It is so as long as no approver has two calls open for one request and every read
\* is answered, whatever else overlaps, is lost or crashes.
CarefulApprovers == ~CallsOverlap /\ ~ReadsMayFail
CarefulDualControl == CarefulApprovers => DualControl

\* What an approval rests on: enough approvers, and distinct ones where the reads are
\* answered and no approver overlaps himself.
ApprovalsAreSound == ApprovedHasQuorum /\ CarefulDualControl

\* The decisions recorded for a request settle it.
Decisive(r) == Rows(r, "REJECT") # {} \/ (Rows(r, "APPROVE") # {} /\ Quorum(r))

\* When the rows in the table settle a request that is still pending, some call has
\* yet to count them or to write the verdict.
OnItsWay ==
    \A r \in Requests :
        request[r] = "PENDING" /\ Decisive(r)
            => \E s \in Running : call[s].request = r /\ call[s].pc \in {"count", "resolve"}

\* It is so unless something fails: of submissions that overlap, the one that records
\* last sees them all, so none ends with the request left open.
ReliableService == ~ReadsMayFail /\ ~WritesMayFail /\ crashes = 0
VerdictIsOnItsWay == ReliableService => OnItsWay

\* Every request is resolved in the end, if only by the expiry job, although
\* calls may throw between recording a decision and writing its consequence.
PendingIsResolved ==
    \A r \in Requests : request[r] = "PENDING" ~> request[r] \in {"APPROVED", "REJECTED", "EXPIRED"}

\* The vote of approver a on request r, as its row in the table records it.
Voted(r, a, d) == \E s \in Rows(r, d) : call[s].approver = a
VoteOf(r, a) ==
    IF Voted(r, a, "APPROVE") THEN "APPROVE"
    ELSE IF Voted(r, a, "REJECT") THEN "REJECT" ELSE "none"

Voting == INSTANCE DualApproval WITH
    status <- request,
    vote <- [r \in Requests |-> [a \in Approvers |-> VoteOf(r, a)]]

\* Where the submissions of one request do not overlap and no read fails, the
\* service implements the approval it is named for: one vote each, a verdict only
\* the votes justify, and a verdict that is final; only an expiry may be overruled
\* by a decision that was submitted in time.
SerialSubmissions == ~ApproversOverlap /\ CarefulApprovers
ImplementsDualApproval ==
    /\ SerialSubmissions => Voting!Init
    /\ [][SerialSubmissions => Voting!Next]_(Voting!dvars)
=============================================================================
