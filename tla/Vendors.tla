------------------------------- MODULE Vendors ------------------------------
(***************************************************************************)
(* One vendor with its contracts, permissions and risk assessments         *)
(* (ctdisr/vendor-security).  A request reads a row, checks it and writes  *)
(* by what was read; a report of an incident suspends the vendor in three  *)
(* requests.  Flags "status", "contracts", "access", "reports",            *)
(* "assessments", "findings": what a history is about.  Nothing in the     *)
(* code keeps requests apart: only where "overlap" is allowed do grants    *)
(* overlap suspensions, and changes of one kind to one assessment.         *)
(***************************************************************************)
EXTENDS Histories, Integers, FiniteSets

CONSTANTS
    Permissions,   \* rows of third_party_access
    Contracts,     \* rows of vendor_contracts
    Assessments,   \* rows of vendor_assessments
    Findings,      \* findings of assessments
    VendorCalls    \* requests to the two services

ASSUME VendorAssumption ==
    /\ Assessments # {}
    /\ None \notin {"PROSPECT", "UNDER_REVIEW", "APPROVED", "ACTIVE", "SUSPENDED", "TERMINATED",
                    "ARCHIVED", "CRITICAL", "HIGH", "MEDIUM", "LOW", "MINIMAL", "NOT_STARTED",
                    "IN_PROGRESS", "PENDING_REVIEW", "COMPLETED", "DRAFT", "PENDING_APPROVAL",
                    "status", "contract", "activate", "grant", "report", "initiate", "start",
                    "submit", "complete", "add", "resolve"}

VARIABLES
    vendor,      \* the row of vendors
    access,      \* third_party_access
    contract,    \* vendor_contracts
    assessment,  \* vendor_assessments
    certified,   \* the vendor's certification
    vendCall     \* requests under way

vendorRows == <<vendor, access, contract, assessment, certified>>
vendorVars == <<vendorRows, vendCall>>

VendorStatus == {"PROSPECT", "UNDER_REVIEW", "APPROVED", "ACTIVE", "SUSPENDED", "TERMINATED",
                 "ARCHIVED"}
VendorRiskLevel == {"CRITICAL", "HIGH", "MEDIUM", "LOW", "MINIMAL"}
AssessmentStatus == {"NOT_STARTED", "IN_PROGRESS", "PENDING_REVIEW", "COMPLETED"}
ContractStatus == {"DRAFT", "PENDING_APPROVAL", "ACTIVE"}
\* approved: it was APPROVED once; cut: suspended by a report and not ACTIVE since (history).
VendorRow == [status : VendorStatus \cup {None}, approved : BOOLEAN, cut : BOOLEAN]
VendorAccessPermission == {"none", "active", "revoked"}
VendorRiskAssessment == [status : AssessmentStatus \cup {None},
                         level : VendorRiskLevel \cup {None}, findings : SUBSET Findings]
VendorCall == [pc : {"idle", "read", "write", "revoke", "then"},
               kind : {"status", "contract", "activate", "grant", "report", "initiate", "start",
                       "submit", "complete", "add", "resolve", None},
               on : Permissions \cup Contracts \cup Assessments \cup {None},
               arg : VendorStatus \cup VendorRiskLevel \cup Findings \cup {None},
               read : VendorRiskAssessment \cup {None}]
IdleVendorCall == [pc |-> "idle", kind |-> None, on |-> None, arg |-> None, read |-> None]
NoAssessment == [status |-> None, level |-> None, findings |-> {}]

VendorInit ==
    /\ vendor = [status |-> None, approved |-> FALSE, cut |-> FALSE]
    /\ access = [p \in Permissions |-> "none"]
    /\ contract = [k \in Contracts |-> None]
    /\ assessment = [a \in Assessments |-> NoAssessment]
    /\ certified = "none"
    /\ vendCall = [c \in VendorCalls |-> IdleVendorCall]

VendorWritesFail == May("writes")
VendAt(c, pc) == vendCall' = [vendCall EXCEPT ![c].pc = pc]
VendEnds(c) == vendCall' = [vendCall EXCEPT ![c] = IdleVendorCall]
VendorBusy(kinds) == \E d \in VendorCalls : vendCall[d].kind \in kinds
BeginVend(c, kind, x, arg) ==
    /\ vendor.status # None /\ vendCall[c].pc = "idle"
    /\ c = CHOOSE d \in VendorCalls : vendCall[d].pc = "idle"
    /\ vendCall' = [vendCall EXCEPT ![c] = [IdleVendorCall EXCEPT
          !.pc = "read", !.kind = kind, !.on = x, !.arg = arg]]
    /\ UNCHANGED vendorRows
\* A check on what was read: the request goes on, or ends.
Checks(c, ok) ==
    /\ \/ ok /\ VendAt(c, "write")
       \/ (~ok \/ May("reads")) /\ VendEnds(c)
    /\ UNCHANGED vendorRows
\* A write: done, or it fails and the request with it.
Stores(c, done, next) ==
    \/ done /\ (IF next = "idle" THEN VendEnds(c) ELSE VendAt(c, next))
    \/ VendorWritesFail /\ VendEnds(c) /\ UNCHANGED vendorRows

-----------------------------------------------------------------------------
(* The vendor and its contracts.                                           *)

CreateVendor ==
    /\ vendor.status = None /\ vendor' = [vendor EXCEPT !.status = "PROSPECT"]
    /\ UNCHANGED <<access, contract, assessment, certified, vendCall>>

\* validateStatusTransition.  Mutated form: any.
MayBecomeAny(from, to) == from # to
MayBecome(from, to) ==
    to \in CASE from = "PROSPECT"     -> {"UNDER_REVIEW", "ARCHIVED"}
             [] from = "UNDER_REVIEW" -> {"APPROVED", "ARCHIVED"}
             [] from = "APPROVED"     -> {"ACTIVE", "SUSPENDED", "ARCHIVED"}
             [] from = "ACTIVE"       -> {"SUSPENDED", "TERMINATED"}
             [] from = "SUSPENDED"    -> {"ACTIVE", "TERMINATED"}
             [] from = "TERMINATED"   -> {"ARCHIVED"}
             [] from = "ARCHIVED"     -> {}
SetStatus(s) == vendor' = [vendor EXCEPT !.status = s, !.approved = @ \/ s = "APPROVED",
                                         !.cut = @ /\ s # "ACTIVE"]

UpdateVendorStatus(c, s) == BeginVend(c, "status", None, s)
CheckStatus(c) ==
    /\ vendCall[c].pc = "read" /\ vendCall[c].kind = "status"
    /\ Checks(c, MayBecome(vendor.status, vendCall[c].arg))
WriteVendorStatus(c) ==
    /\ vendCall[c].pc = "write" /\ vendCall[c].kind = "status"
    /\ Stores(c, /\ SetStatus(vendCall[c].arg)
                 /\ UNCHANGED <<access, contract, assessment, certified>>, "idle")

CreateContract(c, k) == contract[k] = None /\ BeginVend(c, "contract", k, None)
CheckContractor(c) ==
    /\ vendCall[c].pc = "read" /\ vendCall[c].kind = "contract"
    /\ Checks(c, vendor.status \in {"APPROVED", "ACTIVE"})
InsertContract(c) ==
    /\ vendCall[c].pc = "write" /\ vendCall[c].kind = "contract"
    /\ Stores(c, /\ contract' = [contract EXCEPT ![vendCall[c].on] = "DRAFT"]
                 /\ UNCHANGED <<vendor, access, assessment, certified>>, "idle")
\* Nothing in the repository asks for the approval of a contract (external).
SubmitContract(k) ==
    /\ contract[k] = "DRAFT" /\ contract' = [contract EXCEPT ![k] = "PENDING_APPROVAL"]
    /\ UNCHANGED <<vendor, access, assessment, certified, vendCall>>
ActivateContract(c, k) == contract[k] # None /\ BeginVend(c, "activate", k, None)
CheckContract(c) ==
    /\ vendCall[c].pc = "read" /\ vendCall[c].kind = "activate"
    /\ Checks(c, contract[vendCall[c].on] = "PENDING_APPROVAL")
UpdateContract(c) ==
    /\ vendCall[c].pc = "write" /\ vendCall[c].kind = "activate"
    /\ Stores(c, /\ contract' = [contract EXCEPT ![vendCall[c].on] = "ACTIVE"]
                 /\ UNCHANGED <<vendor, access, assessment, certified>>, "then")
\* One conditional update, whose error is not looked at.
ActivateVendor(c) ==
    /\ vendCall[c].pc = "then" /\ vendCall[c].kind = "activate"
    /\ \/ vendor.status = "APPROVED" /\ SetStatus("ACTIVE")
       \/ (vendor.status # "APPROVED" \/ VendorWritesFail) /\ UNCHANGED vendor
    /\ VendEnds(c) /\ UNCHANGED <<access, contract, assessment, certified>>

-----------------------------------------------------------------------------
(* Permissions, and the suspension that a severe incident brings.          *)

\* Mutated form: to any vendor.
GrantableAny(status) == status # None
Grantable(status) == status = "ACTIVE"
GrantAccess(c, p) ==
    /\ access[p] = "none" /\ (May("overlap") \/ ~VendorBusy({"report"}))
    /\ BeginVend(c, "grant", p, None)
CheckGrantee(c) ==
    /\ vendCall[c].pc = "read" /\ vendCall[c].kind = "grant"
    /\ Checks(c, Grantable(vendor.status))
InsertPermission(c) ==
    /\ vendCall[c].pc = "write" /\ vendCall[c].kind = "grant"
    /\ Stores(c, /\ access' = [access EXCEPT ![vendCall[c].on] = "active"]
                 /\ UNCHANGED <<vendor, contract, assessment, certified>>, "idle")
\* Whether or not it is active; nothing depends on the time between its two requests.
RevokeAccess(p) ==
    /\ access[p] # "none" /\ access' = [access EXCEPT ![p] = "revoked"]
    /\ UNCHANGED <<vendor, contract, assessment, certified, vendCall>>

\* A CRITICAL or HIGH incident with data impacted; others are only noted.
ReportIncident(c) ==
    /\ May("overlap") \/ ~VendorBusy({"report", "grant"})
    /\ BeginVend(c, "report", None, None)
ActivePermissions == {p \in Permissions : access[p] = "active"}
SuspendVendorAccess(c) ==
    /\ vendCall[c].pc = "read" /\ vendCall[c].kind = "report"
    /\ \/ VendAt(c, IF ActivePermissions = {} THEN "then" ELSE "revoke")
       \/ May("reads") /\ VendAt(c, "then")
    /\ UNCHANGED vendorRows
\* Neither error is looked at.
RevokeAll(c) ==
    /\ vendCall[c].pc = "revoke"
    /\ \/ access' = [p \in Permissions |-> IF p \in ActivePermissions THEN "revoked" ELSE access[p]]
       \/ VendorWritesFail /\ UNCHANGED access
    /\ VendAt(c, "then")
    /\ UNCHANGED <<vendor, contract, assessment, certified>>
SuspendVendor(c) ==
    /\ vendCall[c].pc = "then" /\ vendCall[c].kind = "report"
    /\ \/ vendor' = [vendor EXCEPT !.status = "SUSPENDED", !.cut = TRUE]
       \/ VendorWritesFail /\ UNCHANGED vendor
    /\ VendEnds(c) /\ UNCHANGED <<access, contract, assessment, certified>>

AddCertification ==
    /\ vendor.status # None /\ certified = "none" /\ certified' = "added"
    /\ UNCHANGED <<vendor, access, contract, assessment, vendCall>>
VerifyCertification ==
    /\ certified # "none" /\ certified' = "verified"
    /\ UNCHANGED <<vendor, access, contract, assessment, vendCall>>

-----------------------------------------------------------------------------
(* Assessments.                                                            *)

OpenAssessments ==
    {a \in Assessments : assessment[a].status \in {"NOT_STARTED", "IN_PROGRESS", "PENDING_REVIEW"}}
InitiateAssessment(c, a) == assessment[a].status = None /\ BeginVend(c, "initiate", a, None)
\* .single() finds one open assessment; with none, with two and in error it finds nothing.
CheckExisting(c) ==
    /\ vendCall[c].pc = "read" /\ vendCall[c].kind = "initiate"
    /\ \/ (Cardinality(OpenAssessments) # 1 \/ May("reads")) /\ VendAt(c, "write")
       \/ Cardinality(OpenAssessments) = 1 /\ VendEnds(c)
    /\ UNCHANGED vendorRows
\* The row has a created_by, which the table does not know: it is refused, always.
InsertAssessment(c) ==
    /\ vendCall[c].pc = "write" /\ vendCall[c].kind = "initiate" /\ VendEnds(c)
    /\ UNCHANGED vendorRows
\* So that a row is entered by another client of the tables only (external).
EnterAssessment(a) ==
    /\ vendor.status # None /\ assessment[a].status = None
    /\ assessment' = [assessment EXCEPT ![a].status = "NOT_STARTED"]
    /\ UNCHANGED <<vendor, access, contract, certified, vendCall>>

\* The status an assessment is in when a request may change it.  Mutated form: one that
\* was submitted can be submitted again.
WantsTwice(kind) == CASE kind \in {"start", "complete"} -> {"NOT_STARTED"}
                      [] kind \in {"submit", "add"} -> {"IN_PROGRESS", "PENDING_REVIEW"}
Wants(kind) == CASE kind = "start" -> {"NOT_STARTED"}
                 [] kind \in {"submit", "add"} -> {"IN_PROGRESS"}
                 [] kind = "complete" -> {"PENDING_REVIEW"}
\* start, submit, complete; add and resolve a finding.
ChangeAssessment(c, kind, a, arg) ==
    /\ assessment[a].status # None
    /\ May("overlap") \/ \A d \in VendorCalls : ~(vendCall[d].kind = kind /\ vendCall[d].on = a)
    /\ BeginVend(c, kind, a, arg)
GetAssessment(c) ==
    /\ vendCall[c].pc = "read"
    /\ vendCall[c].kind \in {"start", "submit", "complete", "add", "resolve"}
    /\ LET row == assessment[vendCall[c].on]
           ok == vendCall[c].kind # "resolve" => row.status \in Wants(vendCall[c].kind)
       IN \/ ok /\ vendCall' = [vendCall EXCEPT ![c].pc = "write",
                   ![c].read = IF vendCall[c].kind \in {"add", "resolve"} THEN row ELSE None]
          \/ (~ok \/ May("reads")) /\ VendEnds(c)
    /\ UNCHANGED vendorRows
\* calculateRiskScores, with the answers and the findings it may be given, in hundredths.
\* Controls count for 70 at least, so that no level above MEDIUM comes out.
InherentRisks == {IF 50 + r > 100 THEN 100 ELSE 50 + r : r \in {5 * k : k \in 0..20}}
ControlEffectiveness == {70 + 5 * k : k \in 0..6}
RiskLevel(inherent, controls) ==
    LET residual == (inherent * (100 - controls) + 50) \div 100 IN
    IF residual >= 70 THEN "CRITICAL" ELSE IF residual >= 50 THEN "HIGH"
    ELSE IF residual >= 30 THEN "MEDIUM" ELSE IF residual >= 15 THEN "LOW" ELSE "MINIMAL"
CalculatedLevels == {RiskLevel(i, c) : i \in InherentRisks, c \in ControlEffectiveness}

\* The findings are written as they were read, with the new one or the new status of one.
Amends(call, row) ==
    CASE call.kind = "start"    -> [row EXCEPT !.status = "IN_PROGRESS"]
      [] call.kind = "submit"   -> [row EXCEPT !.status = "PENDING_REVIEW", !.level = call.arg,
                                               !.findings = {}]
      [] call.kind = "add"      -> [row EXCEPT !.findings = call.read.findings \cup {call.arg}]
      [] call.kind = "resolve"  -> [row EXCEPT !.findings = call.read.findings]
UpdateAssessment(c) ==
    /\ vendCall[c].pc = "write" /\ vendCall[c].kind \in {"start", "submit", "add", "resolve"}
    /\ Stores(c, /\ assessment' = [assessment EXCEPT ![vendCall[c].on] = Amends(vendCall[c], @)]
                 /\ UNCHANGED <<vendor, access, contract, certified>>, "idle")
\* completeAssessment writes reviewer_notes, which the table does not know: its update is
\* refused, always, and the level of the vendor is never set.
CompleteAssessment(c) ==
    /\ vendCall[c].pc = "write" /\ vendCall[c].kind = "complete" /\ VendEnds(c)
    /\ UNCHANGED vendorRows

VendorBackendDies ==
    /\ May("crash") /\ \E c \in VendorCalls : vendCall[c].pc # "idle"
    /\ vendCall' = [c \in VendorCalls |-> IdleVendorCall] /\ UNCHANGED vendorRows

VendorStep(c) ==
    \/ CheckStatus(c) \/ WriteVendorStatus(c) \/ CheckContractor(c) \/ InsertContract(c)
    \/ CheckContract(c) \/ UpdateContract(c) \/ ActivateVendor(c) \/ CheckGrantee(c)
    \/ InsertPermission(c) \/ SuspendVendorAccess(c) \/ RevokeAll(c) \/ SuspendVendor(c)
    \/ CheckExisting(c) \/ InsertAssessment(c) \/ GetAssessment(c) \/ UpdateAssessment(c)
    \/ CompleteAssessment(c)

\* Bound: histories with findings are about one assessment.
Considered == IF May("findings") THEN {CHOOSE a \in Assessments : TRUE} ELSE Assessments
VendorNext ==
    \/ May("vendors") /\ CreateVendor
    \/ May("status") /\ \E c \in VendorCalls, s \in VendorStatus : UpdateVendorStatus(c, s)
    \/ /\ May("contracts")
       /\ \E k \in Contracts : \/ SubmitContract(k)
                               \/ \E c \in VendorCalls : \/ CreateContract(c, k)
                                                          \/ ActivateContract(c, k)
    \/ /\ May("access")
       /\ \E p \in Permissions : RevokeAccess(p) \/ \E c \in VendorCalls : GrantAccess(c, p)
    \/ May("reports") /\ \E c \in VendorCalls : ReportIncident(c)
    \/ May("certifications") /\ (AddCertification \/ VerifyCertification)
    \/ /\ May("assessments")
       /\ \/ \E a \in Considered : EnterAssessment(a)
          \/ \E c \in VendorCalls, a \in Considered :
                \/ InitiateAssessment(c, a) \/ ChangeAssessment(c, "start", a, None)
                \/ \E l \in CalculatedLevels : ChangeAssessment(c, "submit", a, l)
                \/ ChangeAssessment(c, "complete", a, None)
                \/ /\ May("findings")
                   /\ \/ ChangeAssessment(c, "resolve", a, None)
                      \/ \E f \in Findings : ChangeAssessment(c, "add", a, f)
    \/ VendorBackendDies
    \/ \E c \in VendorCalls : VendorStep(c)

-----------------------------------------------------------------------------
(* Properties.                                                             *)

VendorTypeOK ==
    /\ vendor \in VendorRow /\ access \in [Permissions -> VendorAccessPermission]
    /\ contract \in [Contracts -> ContractStatus \cup {None}]
    /\ assessment \in [Assessments -> VendorRiskAssessment]
    /\ certified \in {"none", "added", "verified"}
    /\ vendCall \in [VendorCalls -> VendorCall]

\* Where no severe incident was reported, a vendor that is active, or has a permission or
\* a contract, was approved once, whatever overlaps and fails (updateVendorStatus,
\* activateContract).  A report may suspend a prospect, which can then be activated.
OnlyTheApprovedAct ==
    ~May("reports") =>
        ((vendor.status = "ACTIVE" \/ (\E p \in Permissions : access[p] # "none")
            \/ (\E k \in Contracts : contract[k] # None)) => vendor.approved)

\* A vendor suspended for an incident has no active permission until it is made active
\* again, whatever status others write by older reads and although the three requests of
\* the suspension may be cut short, unless one fails or a grant overlaps them
\* (suspendVendorAccess).
SuspensionEndsAccess ==
    ~VendorWritesFail /\ ~May("reads") /\ ~May("overlap") /\ vendor.cut => ActivePermissions = {}

\* Where changes of one kind do not overlap, an assessment is never started twice, and what
\* waits for its review keeps the status and the level it was submitted with, whatever
\* requests of other kinds, failures and crashes come between (startAssessment,
\* submitAssessment).
AssessmentsMoveOn ==
    [][~May("overlap") => \A a \in Assessments :
         /\ assessment[a].status = "IN_PROGRESS" => assessment'[a].status # "NOT_STARTED"
         /\ assessment[a].status = "PENDING_REVIEW" =>
              /\ assessment'[a].status = "PENDING_REVIEW"
              /\ assessment'[a].level = assessment[a].level]_vendorVars
=============================================================================
