--------------------------- MODULE ApprovalProofs ---------------------------
(***************************************************************************)
(* Theorems about Approval for any number of requests, approvers and       *)
(* submissions, and any number of required approvals.                      *)
(***************************************************************************)
EXTENDS Approval, FiniteSetTheorems, TLAPS

(* The strengthening: what a call in flight knows about the tables.        *)

CallsKnown ==
    \A s \in Submissions :
        /\ call[s].pc # "start" => call[s].request \in Requests /\ call[s].approver \in Approvers
        /\ s \in decisions => call[s].pc \in {"count", "resolve", "done", "thrown"}

\* A verdict that is to be written is justified by rows of the table.
VerdictsKnown ==
    \A s \in Submissions : call[s].pc = "resolve" =>
        \/ call[s].verdict = "APPROVED" /\ Quorum(call[s].request)
        \/ call[s].verdict = "REJECTED" /\ Rows(call[s].request, "REJECT") # {}

MarkingHasQuorum == \A r \in marking : Quorum(r)

\* Decisions are made on requests that were created.
RequestsExist ==
    \A s \in Submissions :
        call[s].pc \in {"check", "record", "count", "resolve"} \/ s \in decisions
            => request[call[s].request] # "absent"

IndInv ==
    /\ TypeOK /\ CallsKnown /\ VerdictsKnown /\ RequestsExist
    /\ ApprovedHasQuorum /\ MarkingHasQuorum

\* Approvers whose own calls never overlap, and reads that are answered: the table
\* holds one decision of each, and a call about to record finds none.
OneEach ==
    /\ \A s, t \in Running :
          call[s].request = call[t].request /\ call[s].approver = call[t].approver => s = t
    /\ \A s, t \in decisions :
          call[s].request = call[t].request /\ call[s].approver = call[t].approver => s = t
    /\ \A s \in Submissions : call[s].pc = "record" => ~HasDecided(s)

-----------------------------------------------------------------------------

\* The disjuncts of Next, named for case analysis.
LEMMA NextCases ==
    ASSUME [Next]_vars
    PROVE  \/ \E r \in Requests : CreateApprovalRequest(r)
           \/ \E r \in Requests : TimeoutPasses(r)
           \/ \E r \in Requests : ValidateApprovalToken(r)
           \/ \E r \in Requests : MarkAsExecuted(r)
           \/ ExpireStaleRequests
           \/ \E s \in Submissions, r \in Requests, a \in Approvers, d \in Decisions :
                 ReadRequest(s, r, a, d)
           \/ \E s \in Submissions : CheckUserDecision(s)
           \/ \E s \in Submissions : RecordDecision(s)
           \/ \E s \in Submissions : RecordDecisionFails(s)
           \/ \E s \in Submissions : CountDecisions(s)
           \/ \E s \in Submissions : ReadFails(s)
           \/ \E s \in Submissions : ResolveRequest(s)
           \/ \E s \in Submissions : ResolveRequestFails(s)
           \/ Crash
           \/ UNCHANGED vars
  BY DEF Next, Step, Submit

\* The environment of a history never changes, and a crash is not undone.
LEMMA AllowedStays ==
    ASSUME [Next]_vars
    PROVE  allowed' = allowed
  BY DEF Next, vars

LEMMA CrashesStay ==
    ASSUME TypeOK, [Next]_vars
    PROVE  crashes' = 0 => crashes = 0
  <1>1. crashes' = crashes \/ Crash
    BY NextCases
    DEF CreateApprovalRequest, TimeoutPasses, ValidateApprovalToken, MarkAsExecuted,
        ReadRequest, CheckUserDecision, RecordDecision, RecordDecisionFails, CountDecisions,
        ReadFails, ResolveRequest, ResolveRequestFails, ExpireStaleRequests, vars
  <1> QED BY <1>1, ApprovalAssumption DEF Crash, TypeOK

LEMMA InitInd == Init => IndInv
  <1> SUFFICES ASSUME Init PROVE IndInv
    OBVIOUS
  <1>1. TypeOK
    BY ApprovalAssumption DEF Init, TypeOK, SubmitCall, Statuses, Decisions
  <1>2. /\ CallsKnown /\ VerdictsKnown /\ RequestsExist
        /\ ApprovedHasQuorum /\ MarkingHasQuorum
    BY DEF Init, CallsKnown, VerdictsKnown, RequestsExist, ApprovedHasQuorum, MarkingHasQuorum
  <1> QED BY <1>1, <1>2 DEF IndInv

\* What a call has read of its request, and its row, never change once it has begun.
LEMMA CallsStay ==
    ASSUME IndInv, [Next]_vars, NEW s \in Submissions, call[s].pc # "start"
    PROVE  /\ call'[s].pc # "start"
           /\ call'[s].request = call[s].request
           /\ call'[s].approver = call[s].approver
           /\ call'[s].decision = call[s].decision
  <1> DEFINE Kept == /\ call'[s].pc # "start"
                     /\ call'[s].request = call[s].request
                     /\ call'[s].approver = call[s].approver
                     /\ call'[s].decision = call[s].decision
  <1> SUFFICES Kept OBVIOUS
  <1> USE DEF IndInv, TypeOK, SubmitCall
  <1>1. CASE UNCHANGED call
    BY <1>1
  <1>2. ASSUME NEW t \in Submissions, NEW r \in Requests, NEW a \in Approvers,
               NEW d \in Decisions, ReadRequest(t, r, a, d)
        PROVE  Kept
    BY <1>2 DEF ReadRequest
  <1>3. ASSUME NEW t \in Submissions, CheckUserDecision(t) PROVE Kept
    BY <1>3 DEF CheckUserDecision
  <1>4. ASSUME NEW t \in Submissions, RecordDecision(t) \/ RecordDecisionFails(t)
        PROVE  Kept
    BY <1>4 DEF RecordDecision, RecordDecisionFails
  <1>5. ASSUME NEW t \in Submissions, CountDecisions(t) PROVE Kept
    BY <1>5 DEF CountDecisions
  <1>6. ASSUME NEW t \in Submissions,
               ReadFails(t) \/ ResolveRequest(t) \/ ResolveRequestFails(t)
        PROVE  Kept
    BY <1>6 DEF ReadFails, ResolveRequest, ResolveRequestFails
  <1>7. CASE Crash
    BY <1>7 DEF Crash
  <1> QED
    BY <1>1, <1>2, <1>3, <1>4, <1>5, <1>6, <1>7, NextCases
    DEF CreateApprovalRequest, TimeoutPasses, ValidateApprovalToken, MarkAsExecuted,
        ExpireStaleRequests, vars

\* A row is recorded by a call that has begun, and never deleted.
LEMMA DecisionsStay ==
    ASSUME IndInv, [Next]_vars
    PROVE  /\ decisions \subseteq decisions'
           /\ decisions' \subseteq Submissions
           /\ \A s \in decisions' \ decisions :
                 call[s].pc = "record" /\ call'[s].pc \in {"count", "thrown"}
  <1> USE DEF IndInv, TypeOK
  <1>1. CASE UNCHANGED decisions
    BY <1>1
  <1>2. ASSUME NEW t \in Submissions, RecordDecision(t) \/ RecordDecisionFails(t)
        PROVE  /\ decisions \subseteq decisions'
               /\ decisions' \subseteq Submissions
               /\ \A s \in decisions' \ decisions :
                     call[s].pc = "record" /\ call'[s].pc \in {"count", "thrown"}
    BY <1>2 DEF RecordDecision, RecordDecisionFails, SubmitCall
  <1> QED
    BY <1>1, <1>2, NextCases
    DEF CreateApprovalRequest, TimeoutPasses, ValidateApprovalToken, MarkAsExecuted,
        ExpireStaleRequests, ReadRequest, CheckUserDecision, CountDecisions, ReadFails,
        ResolveRequest, ResolveRequestFails, Crash, vars

\* The rows a query returns are still returned after any step.
LEMMA RowsStay ==
    ASSUME IndInv, [Next]_vars, NEW r, NEW d
    PROVE  /\ Rows(r, d) \subseteq Rows(r, d)'
           /\ IsFiniteSet(Rows(r, d)')
  <1>1. Rows(r, d) \subseteq Rows(r, d)'
    <2>1. SUFFICES ASSUME NEW s \in Rows(r, d) PROVE s \in Rows(r, d)'
      OBVIOUS
    <2>2. s \in Submissions /\ s \in decisions'
      BY DecisionsStay DEF Rows, IndInv, TypeOK
    <2>3. call[s].pc # "start"
      BY <2>2 DEF Rows, IndInv, CallsKnown
    <2> QED BY <2>2, <2>3, CallsStay DEF Rows
  <1>2. Rows(r, d)' \in SUBSET Submissions
    BY DecisionsStay DEF Rows
  <1> QED BY <1>1, <1>2, FS_Subset, ApprovalAssumption

LEMMA QuorumStays ==
    ASSUME IndInv, [Next]_vars, NEW r \in Requests, Quorum(r)
    PROVE  Quorum(r)'
  <1>1. Cardinality(Rows(r, "APPROVE")) <= Cardinality(Rows(r, "APPROVE")')
    BY RowsStay, FS_Subset
  <1>2. IsFiniteSet(Rows(r, "APPROVE")) /\ IsFiniteSet(Rows(r, "APPROVE")')
    BY RowsStay, FS_Subset
  <1>3. /\ Cardinality(Rows(r, "APPROVE")) \in Nat
        /\ Cardinality(Rows(r, "APPROVE")') \in Nat
    BY <1>2, FS_CardinalityType
  <1>4. Required[r] \in Nat
    BY ApprovalAssumption
  <1> QED BY <1>1, <1>3, <1>4 DEF Quorum

-----------------------------------------------------------------------------
(* The inductive invariant.                                                *)

LEMMA TypeStep == ASSUME IndInv, [Next]_vars PROVE TypeOK'
  <1> USE DEF IndInv, TypeOK
  <1>1. request' \in [Requests -> Statuses] /\ expired' \in [Requests -> BOOLEAN]
    <2>1. ASSUME NEW s \in Submissions, ResolveRequest(s) PROVE request' \in [Requests -> Statuses]
      BY <2>1 DEF ResolveRequest, SubmitCall
    <2>2. CASE ExpireStaleRequests
      BY <2>2 DEF ExpireStaleRequests, Statuses
    <2> QED
      BY <2>1, <2>2, NextCases
      DEF CreateApprovalRequest, TimeoutPasses, ValidateApprovalToken, MarkAsExecuted,
          ReadRequest, CheckUserDecision, RecordDecision, RecordDecisionFails, CountDecisions,
          ReadFails, ResolveRequest, ResolveRequestFails, Crash, ExpireStaleRequests, vars,
          Statuses
  <1>2. call' \in [Submissions -> SubmitCall]
    <2> USE DEF SubmitCall
    <2>1. ASSUME NEW s \in Submissions, NEW r \in Requests, NEW a \in Approvers,
                 NEW d \in Decisions, ReadRequest(s, r, a, d)
          PROVE  call' \in [Submissions -> SubmitCall]
      BY <2>1 DEF ReadRequest, Statuses
    <2>2. ASSUME NEW s \in Submissions, CheckUserDecision(s)
          PROVE  call' \in [Submissions -> SubmitCall]
      BY <2>2 DEF CheckUserDecision
    <2>3. ASSUME NEW s \in Submissions, RecordDecision(s) \/ RecordDecisionFails(s)
          PROVE  call' \in [Submissions -> SubmitCall]
      BY <2>3 DEF RecordDecision, RecordDecisionFails
    <2>4. ASSUME NEW s \in Submissions, CountDecisions(s)
          PROVE  call' \in [Submissions -> SubmitCall]
      <3>1. PICK v \in Statuses : v = Verdict(call[s].request)
        BY DEF Verdict, Statuses
      <3>2. PICK pc \in {"done", "resolve"} :
               call' = [call EXCEPT ![s].pc = pc, ![s].verdict = v]
        BY <2>4, <3>1 DEF CountDecisions
      <3>3. call[s] \in SubmitCall /\ [call[s] EXCEPT !.pc = pc] \in SubmitCall
        OBVIOUS
      <3>4. /\ DOMAIN call' = Submissions
            /\ \A t \in Submissions \ {s} : call'[t] = call[t]
            /\ call'[s] = [[call[s] EXCEPT !.pc = pc] EXCEPT !.verdict = v]
        BY <3>2
      <3>5. call'[s] \in SubmitCall
        BY <3>3, <3>4
      <3>6. call' = [t \in Submissions |-> call'[t]]
        BY <3>2
      <3> QED BY <3>4, <3>5, <3>6
    <2>5. ASSUME NEW s \in Submissions,
                 ReadFails(s) \/ ResolveRequest(s) \/ ResolveRequestFails(s)
          PROVE  call' \in [Submissions -> SubmitCall]
      BY <2>5 DEF ReadFails, ResolveRequest, ResolveRequestFails
    <2>6. CASE Crash
      <3>1. \A s \in Submissions : [call[s] EXCEPT !.pc = "thrown"] \in SubmitCall
        OBVIOUS
      <3> QED BY <2>6, <3>1 DEF Crash
    <2> QED
      BY <2>1, <2>2, <2>3, <2>4, <2>5, <2>6, NextCases
      DEF CreateApprovalRequest, TimeoutPasses, ValidateApprovalToken, MarkAsExecuted,
          ExpireStaleRequests, vars
  <1>3. marking' \subseteq Requests /\ executed' \in [Requests -> BOOLEAN]
    BY NextCases
    DEF CreateApprovalRequest, TimeoutPasses, ValidateApprovalToken, MarkAsExecuted,
        ReadRequest, CheckUserDecision, RecordDecision, RecordDecisionFails, CountDecisions,
        ReadFails, ResolveRequest, ResolveRequestFails, Crash, ExpireStaleRequests, vars
  <1>4. crashes' \in 0..MaxCrashes
    <2>1. crashes' = crashes \/ Crash
      BY NextCases
      DEF CreateApprovalRequest, TimeoutPasses, ValidateApprovalToken, MarkAsExecuted,
          ReadRequest, CheckUserDecision, RecordDecision, RecordDecisionFails, CountDecisions,
          ReadFails, ResolveRequest, ResolveRequestFails, ExpireStaleRequests, vars
    <2> QED BY <2>1, ApprovalAssumption DEF Crash
  <1>5. allowed' \in Environments
    BY AllowedStays
  <1> QED BY <1>1, <1>2, <1>3, <1>4, <1>5, DecisionsStay

LEMMA CallsKnownStep == ASSUME IndInv, [Next]_vars PROVE CallsKnown'
  <1> USE DEF IndInv, TypeOK, CallsKnown, SubmitCall
  <1> SUFFICES ASSUME NEW s \in Submissions
               PROVE  /\ call'[s].pc # "start" => /\ call'[s].request \in Requests
                                                  /\ call'[s].approver \in Approvers
                      /\ s \in decisions' => call'[s].pc \in {"count", "resolve", "done", "thrown"}
    OBVIOUS
  <1>1. CASE UNCHANGED <<call, decisions>>
    BY <1>1
  <1>2. ASSUME NEW t \in Submissions, NEW r \in Requests, NEW a \in Approvers,
               NEW d \in Decisions, ReadRequest(t, r, a, d)
        PROVE  /\ call'[s].pc # "start" => /\ call'[s].request \in Requests
                                           /\ call'[s].approver \in Approvers
               /\ s \in decisions' => call'[s].pc \in {"count", "resolve", "done", "thrown"}
    BY <1>2 DEF ReadRequest
  <1>3. ASSUME NEW t \in Submissions,
               CheckUserDecision(t) \/ RecordDecision(t) \/ RecordDecisionFails(t)
        PROVE  /\ call'[s].pc # "start" => /\ call'[s].request \in Requests
                                           /\ call'[s].approver \in Approvers
               /\ s \in decisions' => call'[s].pc \in {"count", "resolve", "done", "thrown"}
    BY <1>3 DEF CheckUserDecision, RecordDecision, RecordDecisionFails
  <1>4. ASSUME NEW t \in Submissions,
               CountDecisions(t) \/ ReadFails(t) \/ ResolveRequest(t) \/ ResolveRequestFails(t)
        PROVE  /\ call'[s].pc # "start" => /\ call'[s].request \in Requests
                                           /\ call'[s].approver \in Approvers
               /\ s \in decisions' => call'[s].pc \in {"count", "resolve", "done", "thrown"}
    BY <1>4 DEF CountDecisions, ReadFails, ResolveRequest, ResolveRequestFails
  <1>5. CASE Crash
    BY <1>5 DEF Crash, Running
  <1> QED
    BY <1>1, <1>2, <1>3, <1>4, <1>5, NextCases
    DEF CreateApprovalRequest, TimeoutPasses, ValidateApprovalToken, MarkAsExecuted,
        ExpireStaleRequests, vars

\* Only counting a request's rows makes a call resolve it, with what they say.
LEMMA ResolveIsCounted ==
    ASSUME IndInv, [Next]_vars, NEW s \in Submissions, call'[s].pc = "resolve"
    PROVE  \/ call[s].pc = "resolve" /\ call'[s].verdict = call[s].verdict
           \/ /\ CountDecisions(s)
              /\ call'[s].verdict = Verdict(call[s].request)
              /\ call'[s].verdict # "PENDING"
  <1> USE DEF IndInv, TypeOK, SubmitCall
  <1> DEFINE Goal == \/ call[s].pc = "resolve" /\ call'[s].verdict = call[s].verdict
                     \/ /\ CountDecisions(s)
                        /\ call'[s].verdict = Verdict(call[s].request)
                        /\ call'[s].verdict # "PENDING"
  <1> SUFFICES Goal OBVIOUS
  <1>1. CASE UNCHANGED call
    BY <1>1
  <1>2. ASSUME NEW t \in Submissions, CountDecisions(t) PROVE Goal
    BY <1>2 DEF CountDecisions
  <1>3. ASSUME NEW t \in Submissions,
               \/ \E r \in Requests, a \in Approvers, d \in Decisions : ReadRequest(t, r, a, d)
               \/ CheckUserDecision(t) \/ RecordDecision(t) \/ RecordDecisionFails(t)
        PROVE  Goal
    BY <1>3 DEF ReadRequest, CheckUserDecision, RecordDecision, RecordDecisionFails
  <1>4. ASSUME NEW t \in Submissions,
               ReadFails(t) \/ ResolveRequest(t) \/ ResolveRequestFails(t)
        PROVE  Goal
    BY <1>4 DEF ReadFails, ResolveRequest, ResolveRequestFails
  <1>5. CASE Crash
    BY <1>5 DEF Crash, Running
  <1> QED
    BY <1>1, <1>2, <1>3, <1>4, <1>5, NextCases
    DEF CreateApprovalRequest, TimeoutPasses, ValidateApprovalToken, MarkAsExecuted,
        ExpireStaleRequests, vars

LEMMA VerdictsKnownStep == ASSUME IndInv, [Next]_vars PROVE VerdictsKnown'
  <1> SUFFICES ASSUME NEW s \in Submissions, call'[s].pc = "resolve"
               PROVE  \/ call'[s].verdict = "APPROVED" /\ Quorum(call[s].request)'
                      \/ call'[s].verdict = "REJECTED" /\ Rows(call[s].request, "REJECT")' # {}
    BY DEF VerdictsKnown
  <1>1. call[s].pc # "start" /\ call'[s].request = call[s].request
    BY ResolveIsCounted, CallsStay DEF CountDecisions
  <1>2. PICK r \in Requests : r = call[s].request /\ r = call'[s].request
    BY <1>1 DEF IndInv, CallsKnown
  <1>3. \/ call'[s].verdict = "APPROVED" /\ Quorum(r)
        \/ call'[s].verdict = "REJECTED" /\ Rows(r, "REJECT") # {}
    BY <1>2, ResolveIsCounted DEF IndInv, VerdictsKnown, Verdict
  <1>4. \/ call'[s].verdict = "APPROVED" /\ Quorum(r)'
        \/ call'[s].verdict = "REJECTED" /\ Rows(r, "REJECT")' # {}
    BY <1>3, QuorumStays, RowsStay
  <1> QED BY <1>2, <1>4 DEF Quorum, Rows

\* A status changes to APPROVED only where the verdict of a call says so.
LEMMA ApprovedByVerdict ==
    ASSUME IndInv, [Next]_vars, NEW r \in Requests, request'[r] # request[r]
    PROVE  \/ request[r] = "absent" /\ request'[r] = "PENDING"
           \/ request[r] = "PENDING" /\ request'[r] = "EXPIRED" /\ expired[r] /\ ExpireStaleRequests
           \/ \E s \in Submissions : /\ ResolveRequest(s) /\ call[s].request = r
                                     /\ request'[r] = call[s].verdict
  <1> USE DEF IndInv, TypeOK
  <1>1. CASE ExpireStaleRequests
    BY <1>1 DEF ExpireStaleRequests, Stale
  <1>2. ASSUME NEW s \in Submissions, ResolveRequest(s)
        PROVE  call[s].request = r /\ request'[r] = call[s].verdict
    BY <1>2 DEF ResolveRequest
  <1>3. ASSUME NEW q \in Requests, CreateApprovalRequest(q)
        PROVE  request[r] = "absent" /\ request'[r] = "PENDING"
    BY <1>3 DEF CreateApprovalRequest
  <1> QED
    BY <1>1, <1>2, <1>3, NextCases
    DEF TimeoutPasses, ValidateApprovalToken, MarkAsExecuted,
        ReadRequest, CheckUserDecision, RecordDecision, RecordDecisionFails, CountDecisions,
        ReadFails, ResolveRequestFails, Crash, vars

LEMMA QuorumStep ==
    ASSUME IndInv, [Next]_vars PROVE ApprovedHasQuorum' /\ MarkingHasQuorum'
  <1> SUFFICES ASSUME NEW r \in Requests,
                      request'[r] = "APPROVED" \/ executed'[r] \/ r \in marking'
               PROVE  Quorum(r)
    BY QuorumStays, TypeStep DEF ApprovedHasQuorum, MarkingHasQuorum, TypeOK
  <1> USE DEF IndInv, TypeOK
  <1>1. CASE request'[r] = "APPROVED"
    <2>1. CASE request[r] = "APPROVED"
      BY <2>1 DEF ApprovedHasQuorum
    <2>2. CASE request[r] # "APPROVED"
      <3>1. PICK s \in Submissions : /\ call[s].pc = "resolve" /\ call[s].request = r
                                     /\ call[s].verdict = "APPROVED"
        BY <1>1, <2>2, ApprovedByVerdict DEF ResolveRequest
      <3> QED BY <3>1 DEF VerdictsKnown
    <2> QED BY <2>1, <2>2
  <1>2. executed'[r] => executed[r] \/ r \in marking
    BY NextCases
    DEF CreateApprovalRequest, TimeoutPasses, ValidateApprovalToken, MarkAsExecuted,
        ReadRequest, CheckUserDecision, RecordDecision, RecordDecisionFails, CountDecisions,
        ReadFails, ResolveRequest, ResolveRequestFails, Crash, ExpireStaleRequests, vars
  <1>3. r \in marking' => r \in marking \/ request[r] = "APPROVED"
    <2>1. \/ marking' \subseteq marking
          \/ \E q \in Requests : ValidateApprovalToken(q)
      BY NextCases
      DEF CreateApprovalRequest, TimeoutPasses, MarkAsExecuted,
          ReadRequest, CheckUserDecision, RecordDecision, RecordDecisionFails, CountDecisions,
          ReadFails, ResolveRequest, ResolveRequestFails, Crash, ExpireStaleRequests, vars
    <2> QED BY <2>1 DEF ValidateApprovalToken, TokenValid
  <1> QED BY <1>1, <1>2, <1>3 DEF ApprovedHasQuorum, MarkingHasQuorum

\* Only ReadRequest sets a call running.
LEMMA CallBegins ==
    ASSUME IndInv, [Next]_vars, NEW s \in Submissions,
           call'[s].pc \in {"check", "record", "count", "resolve"}
    PROVE  \/ call[s].pc \in {"check", "record", "count", "resolve"}
           \/ \E r \in Requests, a \in Approvers, d \in Decisions : ReadRequest(s, r, a, d)
  <1> DEFINE Goal ==
         \/ call[s].pc \in {"check", "record", "count", "resolve"}
         \/ \E r \in Requests, a \in Approvers, d \in Decisions : ReadRequest(s, r, a, d)
  <1> SUFFICES Goal OBVIOUS
  <1> USE DEF IndInv, TypeOK, SubmitCall
  <1>1. CASE UNCHANGED call
    BY <1>1
  <1>2. ASSUME NEW t \in Submissions, NEW r \in Requests, NEW a \in Approvers,
               NEW d \in Decisions, ReadRequest(t, r, a, d)
        PROVE  Goal
    BY <1>2 DEF ReadRequest
  <1>3. ASSUME NEW t \in Submissions,
               \/ CheckUserDecision(t) \/ RecordDecision(t) \/ RecordDecisionFails(t)
               \/ CountDecisions(t) \/ ReadFails(t) \/ ResolveRequest(t)
               \/ ResolveRequestFails(t)
        PROVE  Goal
    BY <1>3 DEF CheckUserDecision, RecordDecision, RecordDecisionFails, CountDecisions, ReadFails,
                ResolveRequest, ResolveRequestFails
  <1>4. CASE Crash
    BY <1>4 DEF Crash, Running
  <1> QED
    BY <1>1, <1>2, <1>3, <1>4, NextCases
    DEF CreateApprovalRequest, TimeoutPasses, ValidateApprovalToken, MarkAsExecuted,
        ExpireStaleRequests, vars

LEMMA RequestsExistStep == ASSUME IndInv, [Next]_vars PROVE RequestsExist'
  <1> SUFFICES ASSUME NEW s \in Submissions,
                      \/ call'[s].pc \in {"check", "record", "count", "resolve"}
                      \/ s \in decisions'
               PROVE  request'[call'[s].request] # "absent"
    BY DEF RequestsExist
  <1> USE DEF IndInv, TypeOK
  <1>1. CASE \E r \in Requests, a \in Approvers, d \in Decisions : ReadRequest(s, r, a, d)
    BY <1>1 DEF ReadRequest, TakesDecisions, CallsKnown
  <1>2. CASE ~ \E r \in Requests, a \in Approvers, d \in Decisions : ReadRequest(s, r, a, d)
    <2>1. \/ call[s].pc \in {"check", "record", "count", "resolve"}
          \/ s \in decisions
      <3>1. CASE s \in decisions' \ decisions
        BY <3>1, DecisionsStay
      <3>2. CASE call'[s].pc \in {"check", "record", "count", "resolve"}
        BY <1>2, <3>2, CallBegins
      <3> QED BY <3>1, <3>2
    <2>2. call[s].pc # "start" /\ request[call[s].request] # "absent"
      BY <2>1 DEF RequestsExist, CallsKnown
    <2>3. PICK r \in Requests : r = call[s].request /\ r = call'[s].request
      BY <2>2, CallsStay DEF CallsKnown
    <2>4. request'[r] # "absent"
      BY <2>2, <2>3, ApprovedByVerdict DEF ResolveRequest, VerdictsKnown
    <2> QED BY <2>3, <2>4
  <1> QED BY <1>1, <1>2

\* IndInv is an inductive invariant of the workflow, whatever overlaps, fails or crashes.
THEOREM Inductive == Spec => []IndInv
  <1>1. IndInv /\ [Next]_vars => IndInv'
    BY TypeStep, CallsKnownStep, VerdictsKnownStep, RequestsExistStep, QuorumStep DEF IndInv
  <1> QED BY InitInd, <1>1, PTL DEF Spec

\* Rows and handler states keep their types, however many there are.
THEOREM TypeCorrect == Spec => []TypeOK
  <1>1. IndInv => TypeOK
    BY DEF IndInv
  <1> QED BY <1>1, Inductive, PTL

\* No request is approved or executed without the approving rows its workflow asks
\* for: submitDecision decides on a snapshot that is never larger than the table.
THEOREM ApprovalsHaveQuorum == Spec => []ApprovedHasQuorum
  <1>1. IndInv => ApprovedHasQuorum
    BY DEF IndInv
  <1> QED BY <1>1, Inductive, PTL

-----------------------------------------------------------------------------
(* No verdict is lost where nothing fails.                                 *)

\* A call that has recorded its decision goes on: to the verdict, or past it.
LEMMA CallGoesOn ==
    ASSUME ReliableService, ReliableService', IndInv, [Next]_vars,
           NEW s \in Submissions, call[s].pc \in {"count", "resolve"}
    PROVE  CountDecisions(s) \/ ResolveRequest(s) \/ call'[s].pc = call[s].pc
  <1> USE DEF ReliableService, IndInv, TypeOK, SubmitCall
  <1>1. ~Crash
    BY DEF Crash
  <1>2. CASE UNCHANGED call
    BY <1>2
  <1>3. ASSUME NEW t \in Submissions, CountDecisions(t) \/ ResolveRequest(t)
        PROVE  t = s \/ call'[s].pc = call[s].pc
    BY <1>3 DEF CountDecisions, ResolveRequest
  <1>4. ASSUME NEW t \in Submissions,
               \/ \E r \in Requests, a \in Approvers, d \in Decisions : ReadRequest(t, r, a, d)
               \/ CheckUserDecision(t) \/ RecordDecision(t) \/ RecordDecisionFails(t)
               \/ ReadFails(t) \/ ResolveRequestFails(t)
        PROVE  call'[s].pc = call[s].pc
    BY <1>4 DEF ReadRequest, CheckUserDecision, RecordDecision, RecordDecisionFails, ReadFails,
                ResolveRequestFails
  <1> QED
    BY <1>1, <1>2, <1>3, <1>4, NextCases
    DEF CreateApprovalRequest, TimeoutPasses, ValidateApprovalToken, MarkAsExecuted,
        ExpireStaleRequests, vars

LEMMA OnItsWayStep ==
    ASSUME ReliableService, ReliableService', IndInv, OnItsWay, [Next]_vars
    PROVE  OnItsWay'
  <1> SUFFICES ASSUME NEW r \in Requests, request'[r] = "PENDING", Decisive(r)'
               PROVE  \E s \in Submissions : /\ call'[s].request = r
                                             /\ call'[s].pc \in {"count", "resolve"}
    BY DEF OnItsWay, Running
  <1> USE DEF IndInv, TypeOK
  <1>1. CASE \E s \in decisions' \ decisions : call[s].request = r
    <2>1. PICK s \in Submissions : s \in decisions' \ decisions /\ call[s].request = r
      BY <1>1, DecisionsStay
    <2>2. call[s].pc = "record"
      BY <2>1, DecisionsStay
    <2>3. call'[s].pc # "thrown"
      BY <2>1, <2>2, NextCases
      DEF ReliableService, CreateApprovalRequest, TimeoutPasses, ValidateApprovalToken,
          MarkAsExecuted, ReadRequest, CheckUserDecision, RecordDecision, RecordDecisionFails,
          CountDecisions, ReadFails, ResolveRequest, ResolveRequestFails, Crash,
          ExpireStaleRequests, vars, SubmitCall
    <2> QED BY <2>1, <2>2, <2>3, DecisionsStay, CallsStay
  <1>2. CASE \A s \in decisions' \ decisions : call[s].request # r
    <2>1. ASSUME NEW d PROVE Rows(r, d)' = Rows(r, d)
      <3>1. ASSUME NEW s \in Rows(r, d)' PROVE s \in Rows(r, d)
        <4>1. s \in Submissions /\ call[s].pc # "start"
          BY <3>1, DecisionsStay DEF Rows, CallsKnown
        <4> QED BY <1>2, <3>1, <4>1, CallsStay DEF Rows
      <3> QED BY <3>1, RowsStay
    <2>2. Rows(r, "REJECT")' = Rows(r, "REJECT") /\ Rows(r, "APPROVE")' = Rows(r, "APPROVE")
      BY <2>1
    <2>3. Decisive(r)
      BY <2>2 DEF Decisive, Quorum
    <2>4. request[r] = "PENDING"
      <3>1. PICK s \in decisions : call[s].request = r
        BY <2>3 DEF Decisive, Rows
      <3>2. request[r] # "absent"
        BY <3>1 DEF RequestsExist
      <3> QED BY <3>2, ApprovedByVerdict DEF ResolveRequest, VerdictsKnown
    <2>5. PICK s \in Submissions : /\ call[s].request = r
                                   /\ call[s].pc \in {"count", "resolve"}
      BY <2>3, <2>4 DEF OnItsWay, Running
    <2>6. ~ResolveRequest(s)
      BY <2>5 DEF ResolveRequest, VerdictsKnown
    <2>7. CountDecisions(s) => call'[s].pc = "resolve"
      <3>1. Verdict(call[s].request) # "PENDING"
        BY <2>3, <2>5 DEF Verdict, Decisive
      <3> QED BY <3>1 DEF CountDecisions, SubmitCall
    <2> QED BY <2>5, <2>6, <2>7, CallGoesOn, CallsStay
  <1> QED BY <1>1, <1>2

\* Where every read and write succeeds and no process dies, no overlap of submissions
\* leaves a request open that its decisions settle.
THEOREM NoVerdictIsLost == Spec => []VerdictIsOnItsWay
  <1>1. Init => VerdictIsOnItsWay
    BY DEF Init, VerdictIsOnItsWay, OnItsWay
  <1>2. IndInv /\ VerdictIsOnItsWay /\ [Next]_vars => VerdictIsOnItsWay'
    <2> SUFFICES ASSUME IndInv, VerdictIsOnItsWay, [Next]_vars, ReliableService'
                 PROVE  OnItsWay'
      BY DEF VerdictIsOnItsWay
    <2>1. ReliableService
      BY AllowedStays, CrashesStay DEF ReliableService, ReadsMayFail, WritesMayFail, IndInv
    <2> QED BY <2>1, OnItsWayStep DEF VerdictIsOnItsWay
  <1> QED BY <1>1, <1>2, Inductive, PTL DEF Spec

-----------------------------------------------------------------------------
(* Dual control where the calls of one approver follow one another.        *)

\* A call is bound to record a decision only after it looked for an earlier one.
LEMMA RecordIsChecked ==
    ASSUME IndInv, [Next]_vars, NEW s \in Submissions, call'[s].pc = "record"
    PROVE  call[s].pc = "record" \/ CheckUserDecision(s)
  <1> DEFINE Goal == call[s].pc = "record" \/ CheckUserDecision(s)
  <1> SUFFICES Goal OBVIOUS
  <1> USE DEF IndInv, TypeOK, SubmitCall
  <1>1. CASE UNCHANGED call
    BY <1>1
  <1>2. ASSUME NEW t \in Submissions,
               \/ \E r \in Requests, a \in Approvers, d \in Decisions : ReadRequest(t, r, a, d)
               \/ CheckUserDecision(t) \/ RecordDecision(t) \/ RecordDecisionFails(t)
        PROVE  Goal
    BY <1>2 DEF ReadRequest, CheckUserDecision, RecordDecision, RecordDecisionFails
  <1>3. ASSUME NEW t \in Submissions,
               CountDecisions(t) \/ ReadFails(t) \/ ResolveRequest(t) \/ ResolveRequestFails(t)
        PROVE  Goal
    BY <1>3 DEF CountDecisions, ReadFails, ResolveRequest, ResolveRequestFails
  <1>4. CASE Crash
    BY <1>4 DEF Crash, Running
  <1> QED
    BY <1>1, <1>2, <1>3, <1>4, NextCases
    DEF CreateApprovalRequest, TimeoutPasses, ValidateApprovalToken, MarkAsExecuted,
        ExpireStaleRequests, vars

\* Two calls that run after a step: if one has just begun, MayOverlap let it.
LEMMA RunningStaysApart ==
    ASSUME CarefulApprovers, IndInv, OneEach, [Next]_vars,
           NEW s \in Submissions, NEW t \in Submissions, s # t,
           call'[s].pc \in {"check", "record", "count", "resolve"},
           call'[t].pc \in {"check", "record", "count", "resolve"},
           call'[s].request = call'[t].request
    PROVE  call'[s].approver # call'[t].approver
  <1> USE DEF IndInv, TypeOK, SubmitCall
  <1>1. ASSUME NEW u \in Submissions, NEW v \in Submissions, u # v,
               call'[u].request = call'[v].request,
               call[v].pc \in {"check", "record", "count", "resolve"},
               \E r \in Requests, a \in Approvers, d \in Decisions : ReadRequest(u, r, a, d)
        PROVE  call'[u].approver # call'[v].approver
    BY <1>1 DEF ReadRequest, MayOverlap, CarefulApprovers, Running
  <1>2. ASSUME NEW u \in Submissions, NEW v \in Submissions, u # v,
               call'[v].pc \in {"check", "record", "count", "resolve"},
               \E r \in Requests, a \in Approvers, d \in Decisions : ReadRequest(u, r, a, d)
        PROVE  call[v].pc \in {"check", "record", "count", "resolve"}
    BY <1>2 DEF ReadRequest
  <1>3. CASE /\ call[s].pc \in {"check", "record", "count", "resolve"}
             /\ call[t].pc \in {"check", "record", "count", "resolve"}
    <2>1. s \in Running /\ t \in Running
      BY <1>3 DEF Running
    <2> QED BY <1>3, <2>1, CallsStay DEF OneEach
  <1> QED BY <1>1, <1>2, <1>3, CallBegins

LEMMA OneEachStep ==
    ASSUME CarefulApprovers, IndInv, OneEach, [Next]_vars
    PROVE  OneEach'
  <1> USE DEF IndInv, TypeOK, SubmitCall
  <1>1. ASSUME NEW s \in Running', NEW t \in Running',
               call'[s].request = call'[t].request, call'[s].approver = call'[t].approver
        PROVE  s = t
    BY <1>1, RunningStaysApart DEF Running
  <1>2. ASSUME NEW s \in Submissions, NEW t \in Submissions,
               call[s].pc = "record", call[t].pc = "record",
               call[s].request = call[t].request, call[s].approver = call[t].approver
        PROVE  s = t
    BY <1>2 DEF OneEach, Running
  <1>3. ASSUME NEW s \in decisions', NEW t \in decisions',
               call'[s].request = call'[t].request, call'[s].approver = call'[t].approver
        PROVE  s = t
    <2>1. /\ s \in Submissions /\ t \in Submissions
          /\ s \in decisions \/ call[s].pc = "record"
          /\ t \in decisions \/ call[t].pc = "record"
      BY <1>3, DecisionsStay
    <2>2. call[s].pc # "start" /\ call[t].pc # "start"
      BY <2>1 DEF CallsKnown
    <2>3. call[s].request = call[t].request /\ call[s].approver = call[t].approver
      BY <1>3, <2>1, <2>2, CallsStay
    <2> QED BY <1>2, <2>1, <2>3 DEF OneEach, HasDecided
  <1>4. ASSUME NEW s \in Submissions, call'[s].pc = "record", NEW t \in decisions',
               call'[t].request = call'[s].request, call'[t].approver = call'[s].approver
        PROVE  FALSE
    <2>1. t \in Submissions /\ (t \in decisions \/ (call[t].pc = "record" /\ t # s))
      <3>1. CASE t \in decisions
        <4>1. decisions \subseteq Submissions
          OBVIOUS
        <4> QED BY <3>1, <4>1
      <3>2. CASE t \in decisions' \ decisions
        <4>1. t \in Submissions /\ call[t].pc = "record" /\ call'[t].pc \in {"count", "thrown"}
          BY <3>2, DecisionsStay
        <4> QED BY <1>4, <4>1
      <3> QED BY <1>4, <3>1, <3>2
    <2>2. call[s].pc # "start" /\ call[t].pc # "start"
      BY <1>4, <2>1, RecordIsChecked DEF CallsKnown, CheckUserDecision
    <2>3. call[s].request = call[t].request /\ call[s].approver = call[t].approver
      BY <1>4, <2>1, <2>2, CallsStay
    <2>4. CASE call[s].pc = "record"
      BY <1>2, <2>1, <2>3, <2>4 DEF OneEach, HasDecided
    <2>5. CASE CheckUserDecision(s)
      <3>1. decisions' = decisions /\ ~HasDecided(s)
        BY <1>4, <2>5 DEF CheckUserDecision, CarefulApprovers
      <3> QED BY <1>4, <2>3, <3>1 DEF HasDecided
    <2> QED BY <1>4, <2>4, <2>5, RecordIsChecked
  <1> QED BY <1>1, <1>3, <1>4 DEF OneEach, HasDecided

\* One row of each approver: as many approvers as rows.
LEMMA QuorumIsOfApprovers ==
    ASSUME TypeOK, OneEach, NEW r \in Requests
    PROVE  Cardinality(ApproversOf(r)) = Cardinality(Rows(r, "APPROVE"))
  <1> DEFINE f == [s \in Rows(r, "APPROVE") |-> call[s].approver]
  <1>1. IsFiniteSet(Rows(r, "APPROVE"))
    BY FS_Subset, ApprovalAssumption DEF Rows, TypeOK
  <1>2. f \in Surjection(Rows(r, "APPROVE"), ApproversOf(r))
    BY DEF ApproversOf, Surjection
  <1>3. f \in Injection(Rows(r, "APPROVE"), ApproversOf(r))
    BY <1>2 DEF Injection, IsInjective, Surjection, OneEach, Rows
  <1> HIDE DEF f
  <1> QED BY <1>1, <1>2, <1>3, FS_Surjection

LEMMA CareStays ==
    ASSUME [Next]_vars
    PROVE  /\ CarefulApprovers' = CarefulApprovers
           /\ SerialSubmissions' = SerialSubmissions
  BY AllowedStays
  DEF CarefulApprovers, SerialSubmissions, CallsOverlap, ApproversOverlap, ReadsMayFail

\* Where no approver has two calls open for one request and the reads are answered, an
\* approved request was approved by Required different users; crashes, lost writes and
\* overlapping calls of different approvers included.
THEOREM DualControlHolds == Spec => []CarefulDualControl
  <1> DEFINE Inv == CarefulApprovers => OneEach
  <1>1. Init => Inv
    BY DEF Init, OneEach, Running
  <1>2. IndInv /\ Inv /\ [Next]_vars => Inv'
    BY OneEachStep, CareStays
  <1>3. IndInv /\ Inv => CarefulDualControl
    BY QuorumIsOfApprovers
    DEF IndInv, CarefulDualControl, DualControl, ApprovedHasQuorum, Quorum
  <1> QED BY <1>1, <1>2, <1>3, Inductive, PTL DEF Spec

-----------------------------------------------------------------------------
(* The workflow implements DualApproval where the submissions of one       *)
(* request follow one another.                                             *)

\* One call at a time on a request, which is unresolved while it runs; it approves
\* what nobody rejected.
OneAtATime ==
    /\ \A s, t \in Running : call[s].request = call[t].request => s = t
    /\ \A s \in Running : request[call[s].request] \in {"PENDING", "EXPIRED"}
    /\ \A s \in Submissions : call[s].pc = "resolve" /\ call[s].verdict = "APPROVED"
                                => Rows(call[s].request, "REJECT") = {}

LEMMA OneAtATimeStep ==
    ASSUME SerialSubmissions, IndInv, OneAtATime, [Next]_vars
    PROVE  OneAtATime'
  <1> USE DEF IndInv, TypeOK, SubmitCall
  <1>1. ASSUME NEW u \in Submissions, NEW v \in Submissions, u # v,
               call'[u].request = call'[v].request,
               call[v].pc \in {"check", "record", "count", "resolve"},
               \E r \in Requests, a \in Approvers, d \in Decisions : ReadRequest(u, r, a, d)
        PROVE  call'[u].pc = "thrown"
    BY <1>1 DEF ReadRequest, MayOverlap, SerialSubmissions, CarefulApprovers, Running
  <1>2. ASSUME NEW u \in Submissions, NEW v \in Submissions, u # v,
               call'[v].pc \in {"check", "record", "count", "resolve"},
               \E r \in Requests, a \in Approvers, d \in Decisions : ReadRequest(u, r, a, d)
        PROVE  call[v].pc \in {"check", "record", "count", "resolve"}
    BY <1>2 DEF ReadRequest
  <1>3. ASSUME NEW s \in Running', NEW t \in Running', call'[s].request = call'[t].request
        PROVE  s = t
    <2>1. /\ s \in Submissions /\ call'[s].pc \in {"check", "record", "count", "resolve"}
          /\ t \in Submissions /\ call'[t].pc \in {"check", "record", "count", "resolve"}
      BY <1>3 DEF Running
    <2>2. CASE /\ call[s].pc \in {"check", "record", "count", "resolve"}
               /\ call[t].pc \in {"check", "record", "count", "resolve"}
      <3>1. s \in Running /\ t \in Running
        BY <2>1, <2>2 DEF Running
      <3> QED BY <1>3, <2>1, <2>2, <3>1, CallsStay DEF OneAtATime
    <2> QED BY <1>1, <1>2, <1>3, <2>1, <2>2, CallBegins
  <1>4. ASSUME NEW s \in Running' PROVE request'[call'[s].request] \in {"PENDING", "EXPIRED"}
    <2>1. s \in Submissions /\ call'[s].pc \in {"check", "record", "count", "resolve"}
      BY <1>4 DEF Running
    <2>2. CASE call[s].pc \in {"check", "record", "count", "resolve"}
      <3>1. s \in Running /\ request[call[s].request] \in {"PENDING", "EXPIRED"}
        BY <2>1, <2>2 DEF OneAtATime, Running
      <3>2. PICK r \in Requests : r = call[s].request /\ r = call'[s].request
        BY <2>1, <2>2, CallsStay DEF CallsKnown
      <3>3. ASSUME NEW t \in Submissions, ResolveRequest(t), call[t].request = r
            PROVE  FALSE
        <4>1. t = s
          BY <3>1, <3>2, <3>3 DEF ResolveRequest, Running, OneAtATime
        <4> QED BY <2>1, <3>3, <4>1 DEF ResolveRequest
      <3> QED BY <3>1, <3>2, <3>3, ApprovedByVerdict
    <2>3. CASE \E r \in Requests, a \in Approvers, d \in Decisions : ReadRequest(s, r, a, d)
      BY <2>1, <2>3 DEF ReadRequest, TakesDecisions
    <2> QED BY <2>1, <2>2, <2>3, CallBegins
  <1>5. ASSUME NEW s \in Submissions, call'[s].pc = "resolve", call'[s].verdict = "APPROVED"
        PROVE  Rows(call[s].request, "REJECT")' = {}
    <2>1. call[s].pc \in {"count", "resolve"} /\ Rows(call[s].request, "REJECT") = {}
      BY <1>5, ResolveIsCounted DEF CountDecisions, Verdict, OneAtATime
    <2>2. PICK r \in Requests : r = call[s].request /\ r = call'[s].request
      BY <2>1, CallsStay DEF CallsKnown
    <2>3. ASSUME NEW t \in Rows(r, "REJECT")' PROVE FALSE
      <3>1. t \in decisions' /\ t \in Submissions /\ call[t].pc # "start"
        BY <2>3, DecisionsStay DEF Rows, CallsKnown
      <3>2. call[t].request = r /\ call[t].decision = "REJECT"
        BY <2>3, <3>1, CallsStay DEF Rows
      <3>3. CASE t \in decisions
        BY <2>1, <2>2, <3>2, <3>3 DEF Rows
      <3>4. CASE t \notin decisions
        <4>1. call[t].pc = "record"
          BY <3>1, <3>4, DecisionsStay
        <4>2. s \in Running /\ t \in Running
          BY <2>1, <3>1, <4>1 DEF Running
        <4> QED BY <2>1, <2>2, <3>2, <4>1, <4>2 DEF OneAtATime
      <3> QED BY <3>3, <3>4
    <2>4. Rows(r, "REJECT")' = {}
      BY <2>3
    <2> QED BY <2>2, <2>4 DEF Rows
  <1> QED BY <1>3, <1>4, <1>5 DEF OneAtATime

\* The votes are what the rows say: as many voters of a kind as rows of it.
LEMMA VotersAre ==
    ASSUME IndInv, OneEach, NEW r \in Requests, NEW d \in Decisions
    PROVE  Voting!Voters(r, d) = {call[s].approver : s \in Rows(r, d)}
  <1> USE DEF Decisions
  <1>1. ASSUME NEW a \in Approvers PROVE VoteOf(r, a) = d <=> Voted(r, a, d)
    <2>1. ~(Voted(r, a, "APPROVE") /\ Voted(r, a, "REJECT"))
      BY DEF Voted, Rows, OneEach
    <2> QED BY <2>1 DEF VoteOf
  <1>2. ASSUME NEW s \in Rows(r, d) PROVE call[s].approver \in Approvers
    BY DEF Rows, IndInv, CallsKnown, TypeOK
  <1> QED BY <1>1, <1>2 DEF Voting!Voters, Voted

LEMMA VotesStay ==
    ASSUME IndInv, [Next]_vars, decisions' = decisions,
           NEW r \in Requests, NEW a \in Approvers
    PROVE  VoteOf(r, a)' = VoteOf(r, a)
  <1>1. ASSUME NEW d PROVE Rows(r, d)' = Rows(r, d)
    <2>1. ASSUME NEW s \in decisions
          PROVE  call'[s].request = call[s].request /\ call'[s].decision = call[s].decision
      BY CallsStay DEF IndInv, TypeOK, CallsKnown
    <2> QED BY <2>1 DEF Rows
  <1>2. ASSUME NEW d PROVE Voted(r, a, d)' <=> Voted(r, a, d)
    <2>1. ASSUME NEW s \in Rows(r, d) PROVE call'[s].approver = call[s].approver
      BY CallsStay DEF IndInv, TypeOK, CallsKnown, Rows
    <2> QED BY <1>1, <2>1 DEF Voted
  <1> QED BY <1>2 DEF VoteOf

\* The row a call records is its approver's first vote on the request.
LEMMA RecordIsVote ==
    ASSUME IndInv, OneEach, OneAtATime, [Next]_vars, NEW s \in Submissions,
           decisions' = decisions \cup {s}, s \notin decisions, UNCHANGED request
    PROVE  \E r \in Requests, a \in Approvers, d \in Decisions : Voting!Vote(r, a, d)
  <1> USE DEF IndInv, TypeOK
  <1>1. call[s].pc = "record" /\ s \in Running
    BY DecisionsStay DEF Running
  <1>2. PICK r \in Requests, a \in Approvers, d \in Decisions :
            r = call[s].request /\ a = call[s].approver /\ d = call[s].decision
    BY <1>1 DEF CallsKnown, SubmitCall
  <1>3. r = call'[s].request /\ a = call'[s].approver /\ d = call'[s].decision
    BY <1>1, <1>2, CallsStay
  <1>4. ASSUME NEW t \in decisions
        PROVE  /\ call'[t].request = call[t].request /\ call'[t].approver = call[t].approver
               /\ call'[t].decision = call[t].decision
    BY CallsStay DEF CallsKnown
  <1>5. request[r] \in {"PENDING", "EXPIRED"}
    BY <1>1, <1>2 DEF OneAtATime
  <1>6. ASSUME NEW e PROVE ~Voted(r, a, e) /\ (Voted(r, a, e)' <=> e = d)
    <2>1. ASSUME NEW t \in decisions PROVE ~(call[t].request = r /\ call[t].approver = a)
      BY <1>1, <1>2 DEF OneEach, HasDecided
    <2> QED BY <1>2, <1>3, <1>4, <2>1 DEF Voted, Rows
  <1>7. ASSUME NEW q \in Requests, NEW b \in Approvers, q # r \/ b # a
        PROVE  VoteOf(q, b)' = VoteOf(q, b)
    <2>1. ASSUME NEW e PROVE Voted(q, b, e)' <=> Voted(q, b, e)
      BY <1>2, <1>3, <1>4, <1>7 DEF Voted, Rows
    <2> QED BY <2>1 DEF VoteOf
  <1>8. VoteOf(r, a) = "none" /\ VoteOf(r, a)' = d
    BY <1>2, <1>6 DEF VoteOf, Decisions
  <1>9. [q \in Requests |-> [b \in Approvers |-> VoteOf(q, b)']]
           = [[q \in Requests |-> [b \in Approvers |-> VoteOf(q, b)]] EXCEPT ![r][a] = d]
    BY <1>7, <1>8
  <1>10. Voting!Vote(r, a, d)
    BY <1>5, <1>8, <1>9 DEF Voting!Vote, Voting!TakesVotes
  <1> QED BY <1>10

\* A verdict written is one the votes justify.
LEMMA ResolveIsVerdict ==
    ASSUME IndInv, OneEach, OneAtATime, [Next]_vars, NEW s \in Submissions, ResolveRequest(s)
    PROVE  \E r \in Requests : Voting!Approve(r) \/ Voting!Reject(r)
  <1> USE DEF IndInv, TypeOK
  <1>1. PICK r \in Requests : r = call[s].request
    BY DEF ResolveRequest, CallsKnown
  <1>2. decisions' = decisions
    BY DEF ResolveRequest
  <1>3. [q \in Requests |-> [b \in Approvers |-> VoteOf(q, b)']]
           = [q \in Requests |-> [b \in Approvers |-> VoteOf(q, b)]]
    BY <1>2, VotesStay
  <1>4. request[r] \in {"PENDING", "EXPIRED"}
    BY <1>1 DEF ResolveRequest, OneAtATime, Running
  <1>5. request' = [request EXCEPT ![r] = call[s].verdict]
    BY <1>1 DEF ResolveRequest
  <1>6. /\ Voting!Voters(r, "APPROVE") = ApproversOf(r)
        /\ Voting!Voters(r, "REJECT") = {call[t].approver : t \in Rows(r, "REJECT")}
    BY VotersAre DEF ApproversOf, Decisions
  <1>7. CASE call[s].verdict = "APPROVED" /\ Quorum(r)
    <2>1. Voting!Cardinality(Voting!Voters(r, "APPROVE")) >= Required[r]
      <3>1. Cardinality(Voting!Voters(r, "APPROVE")) >= Required[r]
        BY <1>6, <1>7, QuorumIsOfApprovers DEF Quorum
      <3>2. Voting!Cardinality(Voting!Voters(r, "APPROVE"))
               = Cardinality(Voting!Voters(r, "APPROVE"))
        BY Zenon DEF Cardinality, Voting!Cardinality
      <3> QED BY <3>1, <3>2
    <2>2. Voting!Voters(r, "REJECT") = {}
      BY <1>1, <1>6, <1>7 DEF OneAtATime, ResolveRequest
    <2>3. Voting!Approve(r)
      BY <1>3, <1>4, <1>5, <1>7, <2>1, <2>2 DEF Voting!Approve, Voting!TakesVotes
    <2> QED BY <2>3
  <1>8. CASE call[s].verdict = "REJECTED" /\ Rows(r, "REJECT") # {}
    <2>1. Voting!Voters(r, "REJECT") # {}
      <3>1. PICK t \in Rows(r, "REJECT") : TRUE
        BY <1>8
      <3>2. call[t].approver \in Voting!Voters(r, "REJECT")
        BY <1>6
      <3> QED BY <3>2
    <2>2. Voting!Reject(r)
      BY <1>3, <1>4, <1>5, <1>8, <2>1 DEF Voting!Reject, Voting!TakesVotes
    <2> QED BY <2>2
  <1> QED BY <1>1, <1>7, <1>8 DEF ResolveRequest, VerdictsKnown

\* A step that records no decision and writes no verdict opens or expires requests.
LEMMA OtherSteps ==
    ASSUME IndInv, [Next]_vars, UNCHANGED decisions, \A s \in Submissions : ~ResolveRequest(s)
    PROVE  [Voting!Next]_(Voting!dvars)
  <1> USE DEF IndInv, TypeOK
  <1>1. [q \in Requests |-> [b \in Approvers |-> VoteOf(q, b)']]
           = [q \in Requests |-> [b \in Approvers |-> VoteOf(q, b)]]
    BY VotesStay
  <1>2. ASSUME NEW r \in Requests, CreateApprovalRequest(r) PROVE Voting!Open(r)
    BY <1>1, <1>2 DEF CreateApprovalRequest, Voting!Open
  <1>3. ASSUME ExpireStaleRequests PROVE Voting!Expire({r \in Requests : Stale(r)})
    <2>1. request' = [r \in Requests |->
              IF r \in {q \in Requests : Stale(q)} THEN "EXPIRED" ELSE request[r]]
      BY <1>3 DEF ExpireStaleRequests
    <2> QED BY <1>1, <2>1 DEF Voting!Expire, Stale
  <1>4. CASE UNCHANGED request
    BY <1>1, <1>4 DEF Voting!dvars
  <1>5. \/ UNCHANGED request \/ ExpireStaleRequests
        \/ \E r \in Requests : CreateApprovalRequest(r)
    BY NextCases
    DEF TimeoutPasses, ValidateApprovalToken, MarkAsExecuted, ReadRequest, CheckUserDecision,
        RecordDecision, RecordDecisionFails, CountDecisions, ReadFails, ResolveRequestFails,
        Crash, vars
  <1>6. {r \in Requests : Stale(r)} \in SUBSET Requests
    OBVIOUS
  <1> QED BY <1>2, <1>3, <1>4, <1>5, <1>6 DEF Voting!Next

\* Under these assumptions the service implements the dual approval it is named for:
\* one vote each, no verdict the votes do not justify, and no verdict replaced; only an
\* expiry may be overruled, by a decision submitted in time.
THEOREM DualApprovalImplemented == Spec => ImplementsDualApproval
  <1> DEFINE Inv == SerialSubmissions => OneEach /\ OneAtATime
  <1>1. Init => Inv
    BY DEF Init, OneEach, OneAtATime, Running
  <1>2. IndInv /\ Inv /\ [Next]_vars => Inv'
    BY OneEachStep, OneAtATimeStep, CareStays DEF SerialSubmissions
  <1>4. Init => Voting!Init
    BY DEF Init, Voting!Init, VoteOf, Voted, Rows
  <1>5. IndInv /\ Inv /\ [Next]_vars => [SerialSubmissions => Voting!Next]_(Voting!dvars)
    <2> SUFFICES ASSUME IndInv, OneEach, OneAtATime, [Next]_vars
                 PROVE  [Voting!Next]_(Voting!dvars)
      OBVIOUS
    <2>1. ASSUME NEW s \in Submissions, decisions' = decisions \cup {s}, s \notin decisions,
                 UNCHANGED request
          PROVE  [Voting!Next]_(Voting!dvars)
      BY <2>1, RecordIsVote DEF Voting!Next, Decisions
    <2>2. ASSUME NEW s \in Submissions, ResolveRequest(s) PROVE [Voting!Next]_(Voting!dvars)
      BY <2>2, ResolveIsVerdict DEF Voting!Next
    <2>3. CASE UNCHANGED decisions /\ \A s \in Submissions : ~ResolveRequest(s)
      BY <2>3, OtherSteps
    <2>4. \/ UNCHANGED decisions
          \/ \E s \in Submissions : /\ decisions' = decisions \cup {s} /\ s \notin decisions
                                    /\ UNCHANGED request
      <3>1. \/ UNCHANGED decisions
            \/ \E s \in Submissions : RecordDecision(s) \/ RecordDecisionFails(s)
        BY NextCases
        DEF CreateApprovalRequest, TimeoutPasses, ValidateApprovalToken, MarkAsExecuted,
            ExpireStaleRequests, ReadRequest, CheckUserDecision, CountDecisions, ReadFails,
            ResolveRequest, ResolveRequestFails, Crash, vars
      <3> QED BY <3>1 DEF RecordDecision, RecordDecisionFails, IndInv, CallsKnown
    <2> QED BY <2>1, <2>2, <2>3, <2>4
  <1> QED
    BY <1>1, <1>2, <1>4, <1>5, Inductive, PTL DEF Spec, ImplementsDualApproval

\* What submitDecision approves rests on enough approvers, and on distinct ones where no
\* approver overlaps himself and reads are answered.
THEOREM ApprovalsRestOnApprovers == Spec => []ApprovalsAreSound
  BY ApprovalsHaveQuorum, DualControlHolds, PTL DEF ApprovalsAreSound
=============================================================================
