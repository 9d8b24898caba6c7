---------------------------- MODULE PolicyGuard -----------------------------
(***************************************************************************)
(* Requests before the policy guard, and after it the compliance           *)
(* interceptor, over the policies, their cache and the chain of violations *)
(* (ctdisr-policy.guard.ts, ctdisr-compliance.interceptor.ts,              *)
(* ctdisr.service.ts).  Flag "policies" makes it active.                   *)
(***************************************************************************)
EXTENDS Histories, Integers, FiniteSets, Sequences, SequencesExt

CONSTANTS
    Policies,      \* rows of policy_config, enabled
    InitialModes,  \* the enforcement_mode of each
    GuardCalls,    \* requests (bound)
    MaxChecks,     \* hourly verifications of a broken chain (bound)
    MaxTampering,  \* rows deleted behind the program's back (bound)
    MaxUpdates     \* calls of updateViolationStatus (bound)

VARIABLES
    policyRow,     \* policy_config: enforcement_mode
    policyCache,         \* policiesCache, in its order, whether it was ever filled, and
                   \* whether CACHE_TTL_MS have passed since
    guarded,       \* the requests
    violations,    \* rows of ctdisr.violations
    clock,         \* the last detected_at
    verifying,     \* verifyViolationsHashChain: where it is, the hash it read
    accessLog,     \* <<request, event>> of uses handed to the security event log
    report,        \* generateComplianceReport: the last score, of the one section
    checks, deleted, updates   \* counts for the bounds

guardVars == <<policyRow, policyCache, guarded, violations, clock, verifying, accessLog, report,
               checks, deleted, updates>>

CacheFetchFails == May("reads")
RecordFails == May("writes")
PolicyEnforcementMode == {"ENFORCE", "AUDIT_ONLY"}
ASSUME PolicyGuardAssumption ==
    /\ IsFiniteSet(Policies) /\ InitialModes \in [Policies -> PolicyEnforcementMode]
    /\ None \notin GuardCalls

PolicyConfig == [policy : Policies, mode : PolicyEnforcementMode]
ViolationStatus == {"OPEN", "REMEDIATION_VERIFIED", "CLOSED"}
\* The hash of a row stands for its detected_at; 0 is no hash.  of is the request, or None.
Violation == [at : Nat, prev : Nat, of : GuardCalls \cup {None},
              policy : Policies \cup {None}, status : ViolationStatus]
LogOrder == <<"DATA", "CONFIG", "CRITICAL">>
UseLogs == Range(LogOrder)
\* breach: the policies that apply to the request and it does not comply with; todo: those
\* among the cached ones still to be evaluated; owed (a history variable): policies enforced
\* from the beginning of the request on.
GuardCall == [pc : {"idle", "refresh", "apply", "evaluate", "insert", "grant", "deny",
                    "serve", "answered", "done", "refused", "failed"},
              breach : SUBSET Policies, read : Seq(PolicyConfig), todo : Seq(PolicyConfig),
              at : Nat, prev : Nat, owed : SUBSET Policies, due : SUBSET UseLogs]
IdleCall == [pc |-> "idle", breach |-> {}, read |-> <<>>, todo |-> <<>>, at |-> 0, prev |-> 0,
             owed |-> {}, due |-> {}]

\* The rows in the order in which the database happens to give them.
Orders == {s \in [1 .. Cardinality(Policies) -> Policies] : Range(s) = Policies}
Fetched(modes) == {[i \in 1 .. Cardinality(Policies) |-> [policy |-> s[i], mode |-> modes[s[i]]]] :
                      s \in Orders}
Enforced(ps) == {p.policy : p \in {q \in Range(ps) : q.mode = "ENFORCE"}}
EnforcedRows == {p \in Policies : policyRow[p] = "ENFORCE"}

GuardInit ==
    /\ policyRow = InitialModes
    /\ policyCache \in {[rows |-> ps, loaded |-> TRUE, old |-> FALSE] :
                     ps \in IF May("policies") THEN Fetched(policyRow) ELSE {<<>>}}
                 \cup (IF CacheFetchFails /\ May("policies") 
                       THEN {[rows |-> <<>>, loaded |-> FALSE, old |-> FALSE]}
                       ELSE {})
    /\ guarded = [c \in GuardCalls |-> IdleCall]
    /\ violations = {} /\ clock = 0
    /\ verifying = [pc |-> "idle", at |-> 0, prev |-> 0]
    /\ accessLog = {} /\ report = None
    /\ checks = 0 /\ deleted = 0 /\ updates = 0

GuardEnded == {"idle", "done", "refused", "failed"}
GuardAt(c, pc) == guarded' = [guarded EXCEPT ![c].pc = pc]
GuardEnds(c, pc) == guarded' = [guarded EXCEPT ![c] = [IdleCall EXCEPT !.pc = pc]]
GuardAtRest == verifying.pc = "idle" /\ \A c \in GuardCalls : guarded[c].pc \in GuardEnded
OneRequest == May("serial") => GuardAtRest
Alarms == {v \in violations : v.of = None}
unchangedRows == UNCHANGED <<policyRow, violations, clock, verifying, report, checks, deleted,
                             updates>>

-----------------------------------------------------------------------------
(* canActivate: multi-factor and approval first, then the policies.        *)

\* shouldRefreshCache.
ShouldRefreshCache == ~policyCache.loaded \/ policyCache.old
Receive(c) ==
    /\ guarded[c].pc = "idle" /\ c = CHOOSE d \in GuardCalls : guarded[d].pc = "idle"
    /\ OneRequest
    /\ \/ GuardAt(c, "deny")          \* no second factor, no x-approval-token
       \/ \E B \in SUBSET Policies :
             guarded' = [guarded EXCEPT ![c] = [IdleCall EXCEPT !.breach = B,
                !.pc = IF ShouldRefreshCache THEN "refresh" ELSE "evaluate",
                !.todo = IF ShouldRefreshCache THEN <<>> ELSE policyCache.rows,
                !.owed = IF policyCache.old THEN EnforcedRows
                         ELSE EnforcedRows \cap Enforced(policyCache.rows)]]
    /\ unchangedRows /\ UNCHANGED <<policyCache, accessLog>>

\* refreshPoliciesCache: the rows, and later their way into the cache.
FetchPolicies(c) ==
    /\ guarded[c].pc = "refresh"
    /\ \/ \E ps \in Fetched(policyRow) :
             guarded' = [guarded EXCEPT ![c].pc = "apply", ![c].read = ps]
       \/ CacheFetchFails /\ guarded' = [guarded EXCEPT ![c].pc = "evaluate",
                                                        ![c].todo = policyCache.rows]
    /\ unchangedRows /\ UNCHANGED <<policyCache, accessLog>>

ApplyPolicies(c) ==
    /\ guarded[c].pc = "apply"
    /\ policyCache' = [rows |-> guarded[c].read, loaded |-> TRUE, old |-> FALSE]
    /\ guarded' = [guarded EXCEPT ![c].pc = "evaluate", ![c].todo = guarded[c].read,
                                  ![c].read = <<>>]
    /\ unchangedRows /\ UNCHANGED accessLog

\* evaluatePolicy: up to the next policy the request does not comply with; the hash of
\* the latest violation is read for it, and the moment of its detection set.
Breaching(todo, breach) == {i \in DOMAIN todo : todo[i].policy \in breach}
FirstOf(S) == CHOOSE i \in S : \A j \in S : i <= j
ToRecord(todo, breach) ==
    IF Breaching(todo, breach) = {} THEN <<>>
    ELSE SubSeq(todo, FirstOf(Breaching(todo, breach)), Len(todo))
\* Mutated form: the chain is continued from its first row.
EarliestHash == IF violations = {} THEN 0
                ELSE (CHOOSE v \in violations : \A w \in violations : v.at <= w.at).at
LatestViolationHash == IF violations = {} THEN 0
                       ELSE (CHOOSE v \in violations : \A w \in violations : v.at >= w.at).at
Evaluate(c) ==
    /\ guarded[c].pc = "evaluate"
    /\ LET todo == ToRecord(guarded[c].todo, guarded[c].breach) IN
       IF todo = <<>>
       THEN guarded' = [guarded EXCEPT ![c].pc = "grant", ![c].todo = <<>>] /\ UNCHANGED clock
       ELSE /\ clock' = clock + 1
            /\ \E h \in {LatestViolationHash} \cup (IF CacheFetchFails THEN {0} ELSE {}) :
                  guarded' = [guarded EXCEPT ![c].pc = "insert", ![c].todo = todo,
                                             ![c].at = clock', ![c].prev = h]
    /\ UNCHANGED <<policyRow, policyCache, violations, verifying, accessLog, report, checks, deleted,
                   updates>>

\* createViolation's insert.  A policy in ENFORCE mode stops the evaluation; a failing
\* insert refuses the request, and nothing is logged of that.  Mutated forms: any breach
\* stops the evaluation; the failure is taken for success.
NextPolicyStopping(p, rest) == IF p.mode = "ENFORCE" THEN "deny" ELSE "grant"
NextPolicy(p, rest) == IF p.mode = "ENFORCE" THEN "deny" ELSE "evaluate"
AfterInsertFailureIgnored == "evaluate"
AfterInsertFailure == "refused"
RowOf(c) == [at |-> guarded[c].at, prev |-> guarded[c].prev, of |-> c,
             policy |-> guarded[c].todo[1].policy, status |-> "OPEN"]
CreateViolation(c) ==
    /\ guarded[c].pc = "insert"
    /\ LET p == guarded[c].todo[1]
           rest == Tail(guarded[c].todo)
           Goes(pc) == IF pc \in GuardEnded THEN GuardEnds(c, pc)
                       ELSE guarded' = [guarded EXCEPT ![c] = [IdleCall EXCEPT !.pc = pc,
                               !.breach = guarded[c].breach, !.owed = guarded[c].owed,
                               !.todo = IF pc = "evaluate" THEN rest ELSE <<>>]]
       IN \/ violations' = violations \cup {RowOf(c)} /\ Goes(NextPolicy(p, rest))
          \/ RecordFails /\ UNCHANGED violations /\ Goes(AfterInsertFailure)
    /\ UNCHANGED <<policyRow, policyCache, clock, verifying, accessLog, report, checks, deleted,
                   updates>>

\* Both outcomes are logged before the answer.  What comes after a grant is followed in
\* histories called "uses".
Grant(c) ==
    /\ guarded[c].pc = "grant"
    /\ IF May("uses") THEN GuardAt(c, "serve") ELSE GuardEnds(c, "done")
    /\ unchangedRows /\ UNCHANGED <<policyCache, accessLog>>
Deny(c) ==
    /\ guarded[c].pc = "deny"
    /\ GuardEnds(c, "refused")
    /\ unchangedRows /\ UNCHANGED <<policyCache, accessLog>>

-----------------------------------------------------------------------------
(* intercept: what is logged of a use is logged after it was answered; a   *)
(* failure is logged first.                                                *)

\* The events due of a use: reading data, changing the configuration and reaching a
\* critical asset may come together.  Mutated form: one or the other.
DueLogsEither(due) == IF "CONFIG" \in due THEN {"CONFIG"} ELSE due
DueLogs(due) == due
Serve(c) ==
    /\ guarded[c].pc = "serve"
    /\ \/ \E due \in SUBSET UseLogs :
             guarded' = [guarded EXCEPT ![c] = [IdleCall EXCEPT !.pc = "answered",
                                                                !.due = due]]
       \/ GuardEnds(c, "failed")      \* after OPERATION_FAILED is logged
    /\ unchangedRows /\ UNCHANGED <<policyCache, accessLog>>

LogUse(c) ==
    /\ guarded[c].pc = "answered"
    /\ LET left == {e \in DueLogs(guarded[c].due) : <<c, e>> \notin accessLog} IN
       IF left = {} THEN GuardAt(c, "done") /\ UNCHANGED accessLog
       ELSE /\ accessLog' = accessLog \cup {<<c, SelectSeq(LogOrder, LAMBDA e : e \in left)[1]>>}
            /\ UNCHANGED guarded
    /\ unchangedRows /\ UNCHANGED policyCache

GuardStep(c) == \/ FetchPolicies(c) \/ ApplyPolicies(c) \/ Evaluate(c) \/ CreateViolation(c)
                \/ Grant(c) \/ Deny(c) \/ Serve(c) \/ LogUse(c)

-----------------------------------------------------------------------------
(* The hourly verification, the policies' administration, status and       *)
(* report.                                                                 *)

\* A row whose predecessor by detected_at is not the one it names; the first row may name
\* any.  Mutated form: the comparison begins one row too late.
Before(v) == {w \in violations : w.at < v.at}
LastBefore(v) == CHOOSE w \in Before(v) : \A x \in Before(v) : x.at <= w.at
BrokenLater(v) == Cardinality(Before(v)) > 1 /\ v.prev # LastBefore(v).at
Broken(v) == Before(v) # {} /\ v.prev # LastBefore(v).at
ChainBroken == \E v \in violations : Broken(v)


\* One request reads the rows; only for a broken chain others follow.
VerifyChain ==
    /\ verifying.pc = "idle" /\ checks < MaxChecks /\ checks' = checks + 1
    /\ OneRequest
    /\ ChainBroken
    /\ verifying' = [verifying EXCEPT !.pc = "hash"]
    /\ UNCHANGED <<policyRow, policyCache, guarded, violations, clock, accessLog, report, deleted,
                   updates>>
ReadForAlarm ==
    /\ verifying.pc = "hash"
    /\ clock' = clock + 1
    /\ \E h \in {LatestViolationHash} \cup (IF CacheFetchFails THEN {0} ELSE {}) :
          verifying' = [pc |-> "insert", at |-> clock', prev |-> h]
    /\ UNCHANGED <<policyRow, policyCache, guarded, violations, accessLog, report, checks, deleted,
                   updates>>
RaiseAlarm ==
    /\ verifying.pc = "insert"
    /\ \/ violations' = violations \cup {[at |-> verifying.at, prev |-> verifying.prev,
                                          of |-> None, policy |-> None, status |-> "OPEN"]}
       \/ RecordFails /\ UNCHANGED violations
    /\ verifying' = [pc |-> "idle", at |-> 0, prev |-> 0]
    /\ UNCHANGED <<policyRow, policyCache, guarded, clock, accessLog, report, checks, deleted,
                   updates>>

\* An administrator changes a mode; what requests are owed shrinks with it.
ChangePolicy(p) ==
    /\ updates < MaxUpdates /\ updates' = updates + 1
    /\ \E m \in PolicyEnforcementMode \ {policyRow[p]} :
          /\ policyRow' = [policyRow EXCEPT ![p] = m]
          /\ guarded' = [c \in GuardCalls |-> [guarded[c] EXCEPT !.owed = @ \ {p}]]
    /\ UNCHANGED <<policyCache, violations, clock, verifying, accessLog, report, checks, deleted>>

\* Five minutes pass since the refresh.
PolicyCacheAges ==
    /\ policyCache.loaded /\ ~policyCache.old /\ policyCache' = [policyCache EXCEPT !.old = TRUE]
    /\ unchangedRows /\ UNCHANGED <<guarded, accessLog>>

\* updateViolationStatus: any status at any time.
UpdateViolationStatus(v) ==
    /\ updates < MaxUpdates /\ updates' = updates + 1
    /\ \E s \in ViolationStatus \ {v.status} :
          violations' = (violations \ {v}) \cup {[v EXCEPT !.status = s]}
    /\ UNCHANGED <<policyRow, policyCache, guarded, clock, verifying, accessLog, report, checks,
                   deleted>>

\* Someone with access to the database deletes a row (external).
Tamper(v) ==
    /\ deleted < MaxTampering /\ deleted' = deleted + 1 /\ GuardAtRest
    /\ violations' = violations \ {v}
    /\ UNCHANGED <<policyRow, policyCache, guarded, clock, verifying, accessLog, report, checks,
                   updates>>

\* The score of a section; alarms belong to no policy and so to no section.
Lesser(a, b) == IF a < b THEN a ELSE b
SectionScore(total, remediated) ==
    LET bonus == IF total > 0 THEN (20 * remediated) \div total ELSE 20
        score == 100 - Lesser(5 * total, 50) + bonus
    IN IF score < 0 THEN 0 ELSE score
GenerateReport ==
    /\ LET counted == {v \in violations : v.policy # None} IN
         report' = SectionScore(Cardinality(counted),
                     Cardinality({v \in counted : v.status = "REMEDIATION_VERIFIED"}))
    /\ UNCHANGED <<policyRow, policyCache, guarded, violations, clock, verifying, accessLog, checks,
                   deleted, updates>>

GuardNext ==
    /\ May("policies")
    /\ \/ \E c \in GuardCalls : Receive(c) \/ GuardStep(c)
       \/ VerifyChain \/ ReadForAlarm \/ RaiseAlarm
       \/ May("changes") /\ ((\E p \in Policies : ChangePolicy(p)) \/ PolicyCacheAges)
       \/ May("tampering") /\ \E v \in violations : Tamper(v)
       \/ May("reports") /\ (GenerateReport \/ \E v \in violations : UpdateViolationStatus(v))

\* Handlers run; the job runs every hour.
GuardFairness ==
    /\ WF_guardVars(May("policies") /\ (VerifyChain \/ ReadForAlarm \/ RaiseAlarm))
    /\ \A c \in GuardCalls : WF_guardVars(May("policies") /\ GuardStep(c))

-----------------------------------------------------------------------------
(* Properties.                                                             *)

GuardTypeOK ==
    /\ clock \in Nat /\ deleted \in Nat
    /\ verifying \in [pc : {"idle", "hash", "insert"}, at : Nat, prev : Nat]
    /\ policyRow \in [Policies -> PolicyEnforcementMode]
    /\ policyCache \in [rows : Seq(PolicyConfig), loaded : BOOLEAN, old : BOOLEAN]
    /\ guarded \in [GuardCalls -> GuardCall]
    /\ violations \subseteq Violation
    /\ report \in Nat \cup {None}

\* A request passes only if it complies with every policy that was enforced, in the table
\* and in a cache less than five minutes old, from the request's beginning to its end: in
\* whatever order the policies come, and however they change (evaluatePolicy).
EnforcedIsDenied ==
    ~CacheFetchFails => \A c \in GuardCalls :
       guarded[c].pc = "grant" => guarded[c].breach \cap guarded[c].owed = {}

\* What a served request breaches is on record, although inserts fail and modes change
\* meanwhile: a request whose breach cannot be recorded is refused (createViolation).
BreachIsRecorded ==
    ~CacheFetchFails /\ ~May("tampering") =>
       \A c \in GuardCalls : guarded[c].pc = "grant" =>
          \A p \in guarded[c].breach : \E v \in violations : v.of = c /\ v.policy = p

\* Where requests do not overlap, no query fails and nobody deletes rows, the chain is
\* whole, so that the verification never takes the program's own rows for tampering.
NoFalseAlarm ==
    May("serial") /\ ~CacheFetchFails /\ deleted = 0 => Alarms = {}

\* As long as nobody deletes rows the violations are a chain, although requests and the
\* verification read the latest hash before others insert, and statuses are changed.
ViolationLinks == IF May("tampering") THEN {} ELSE {<<v.at, v.prev>> : v \in violations}
ViolationsLinear == May("serial") /\ ~CacheFetchFails
ViolationChain == INSTANCE HashChain
    WITH links <- ViolationLinks, linear <- ViolationsLinear, Nothing <- 0
ViolationsAreChained == ViolationChain!Spec

\* A row missing from within the chain is found by a following verification
\* (verifyViolationsHashChain).
RowMissing == \E v \in violations : v.prev > 0 /\ Before(v) # {}
                                      /\ \A w \in violations : w.at # v.prev
TamperingIsNoticed == May("tampering") /\ RowMissing /\ Alarms = {} ~> Alarms # {}

\* Every access to data, change of the configuration and use of a critical asset is logged,
\* if the backend does not die between the answer and the log (intercept).
UsesAreLogged ==
    \A c \in GuardCalls : \A e \in UseLogs :
       guarded[c].pc = "answered" /\ e \in guarded[c].due ~> <<c, e>> \in accessLog
=============================================================================
