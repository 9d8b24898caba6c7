------------------------------ MODULE Recovery ------------------------------
(***************************************************************************)
(* Backups of one system, continuity plans, tests of a recovery plan and   *)
(* failovers (ctdisr/disaster-recovery).  Plans, schedules and logs are    *)
(* read, changed and written back in separate requests.  Flags "backups"   *)
(* (with "completions" or "expiry"), "plans", "tests", "failovers": what a *)
(* history is about; requests of one kind for one row do not overlap, nor  *)
(* do two that complete backups.                                           *)
(***************************************************************************)
EXTENDS Histories, Integers, FiniteSets, Sequences, SequencesExt

CONSTANTS
    Schedules,      \* backup_schedules, of the same system
    Executions,     \* backup_executions
    Activations,    \* bcp_activations of one plan
    Tests,          \* dr_tests of one recovery plan
    RecoveryCalls,  \* requests to the two services
    MaxUpdates      \* bound: updates of a failover, activations of the plan, completions
                    \* of a backup

ASSUME RecoveryAssumption ==
    /\ MaxUpdates \in Nat /\ IsFiniteSet(Executions)
    /\ None \notin Schedules \cup Executions
    /\ None \notin {"running", "completed", "failed", "verified", "expired", "passed", "standby",
                    "initiating", "active", "failing_back", "start", "complete", "activate",
                    "deactivate", "test", "failover"}

VARIABLES
    schedule,   \* backup_schedules: counters of runs
    execution,  \* backup_executions
    current,    \* recovery_points with is_current, by execution
    latest,     \* the execution completed with a location last (history)
    counted,    \* completions by schedule whose update was answered (history)
    plan,       \* the business continuity plan
    activation, \* bcp_activations
    test,       \* dr_tests
    drPlan,     \* last_test_result
    failover,   \* a failover event with its status_updates
    recCall     \* requests under way

backupVars == <<schedule, execution, current, latest, counted>>
planVars == <<plan, activation>>
testVars == <<test, drPlan>>
recoveryVars == <<backupVars, planVars, testVars, failover, recCall>>

BackupStatus == {"running", "completed", "failed", "verified", "expired"}
BackupSchedule == [active : BOOLEAN, total : Nat, ok : Nat, bad : Nat]
\* over: expires_at has passed; expired: is_expired; times: completions (bounded).
BackupExecution == [status : BackupStatus \cup {None}, of : Schedules \cup {None},
                    over : BOOLEAN, expired : BOOLEAN, times : Nat]
DrPlanStatus == {"draft", "under_review", "approved", "active"}
BcpActivation == {"none", "open", "closed"}
DrTestResult == {"passed", "failed"}
DrTest == [status : {"none", "scheduled", "started", "completed"},
           result : DrTestResult \cup {None}]
FailoverStatus == {"standby", "initiating", "active", "failing_back"}
FailoverEvent == [status : FailoverStatus \cup {None}, updates : Seq(FailoverStatus),
                  sent : 0..MaxUpdates, over : BOOLEAN]

RecKinds == {"start", "complete", "activate", "deactivate", "test", "failover"}
\* arg: what is asked for; schedule, failover, count: what was read and is used later.
RecCall == [pc : {"idle", "read", "schedule", "insert", "write", "clear", "point", "plan"},
            kind : RecKinds \cup {None},
            on : Schedules \cup Executions \cup Activations \cup Tests \cup {None},
            arg : {"success", "elsewhere", "failure"} \cup DrTestResult \cup FailoverStatus
                    \cup {None},
            row : BackupSchedule \cup FailoverEvent \cup {None}, count : Nat]
IdleRecCall == [pc |-> "idle", kind |-> None, on |-> None, arg |-> None, row |-> None,
                count |-> 0]

RecoveryInit ==
    /\ schedule = [s \in Schedules |-> [active |-> TRUE, total |-> 0, ok |-> 0, bad |-> 0]]
    /\ execution = [e \in Executions |-> [status |-> None, of |-> None, over |-> FALSE,
                                          expired |-> FALSE, times |-> 0]]
    /\ current = [e \in Executions |-> 0] /\ latest = None
    /\ counted = [s \in Schedules |-> [ok |-> 0, bad |-> 0]]
    /\ plan = [status |-> "draft", count |-> 0]
    /\ activation = [a \in Activations |-> "none"]
    /\ test = [t \in Tests |-> [status |-> "none", result |-> None]]
    /\ drPlan = [result |-> None, expected |-> None]
    /\ failover = [status |-> None, updates |-> <<>>, sent |-> 0, over |-> FALSE]
    /\ recCall = [c \in RecoveryCalls |-> IdleRecCall]

RecWritesFail == May("writes")
RecAt(c, pc) == recCall' = [recCall EXCEPT ![c].pc = pc]
RecEnds(c) == recCall' = [recCall EXCEPT ![c] = IdleRecCall]
RecApart(kind, x) == \A d \in RecoveryCalls : recCall[d].kind = kind => recCall[d].on # x
NoneOf(kinds) == \A d \in RecoveryCalls : recCall[d].kind \notin kinds
BeginRec(c, kind, x, arg, pc) ==
    /\ recCall[c].pc = "idle" /\ c = CHOOSE d \in RecoveryCalls : recCall[d].pc = "idle"
    /\ RecApart(kind, x)
    /\ recCall' = [recCall EXCEPT ![c] = [IdleRecCall EXCEPT !.kind = kind, !.on = x,
                                                             !.arg = arg, !.pc = pc]]
    /\ UNCHANGED <<backupVars, planVars, testVars, failover>>
\* A read fails: the request does.
RecReadFails(c) ==
    /\ May("reads") /\ recCall[c].pc \in {"read", "schedule"} /\ RecEnds(c)
    /\ UNCHANGED <<backupVars, planVars, testVars, failover>>

-----------------------------------------------------------------------------
(* Backups.                                                                *)

\* Whether the schedule is active is not asked.
StartBackup(c, s) == BeginRec(c, "start", s, None, "read")
Fresh == {e \in Executions : execution[e].status = None}
ReadSchedule(c) ==
    /\ recCall[c].pc = "read" /\ recCall[c].kind = "start"
    /\ recCall' = [recCall EXCEPT ![c].pc = "insert", ![c].count = schedule[recCall[c].on].total]
    /\ UNCHANGED <<backupVars, planVars, testVars, failover>>
InsertExecution(c) ==
    /\ recCall[c].pc = "insert" /\ recCall[c].kind = "start" /\ Fresh # {}
    /\ \/ /\ execution' = [execution EXCEPT ![CHOOSE e \in Fresh : TRUE] =
                [@ EXCEPT !.status = "running", !.of = recCall[c].on]]
          /\ RecAt(c, "plan")
       \/ RecWritesFail /\ RecEnds(c) /\ UNCHANGED execution
    /\ UNCHANGED <<schedule, current, latest, counted, planVars, testVars, failover>>
\* The error of the write is not looked at.
CountRun(c) ==
    /\ recCall[c].pc = "plan" /\ recCall[c].kind = "start"
    /\ \/ schedule' = [schedule EXCEPT ![recCall[c].on].total = recCall[c].count + 1]
       \/ RecWritesFail /\ UNCHANGED schedule
    /\ RecEnds(c)
    /\ UNCHANGED <<execution, current, latest, counted, planVars, testVars, failover>>

\* Whatever the status of the execution; "elsewhere": a success without a location.
CompleteBackup(c, e, outcome) ==
    /\ execution[e].status # None /\ NoneOf({"complete"})
    /\ MapThenSumSet(LAMBDA x : execution[x].times, Executions) < MaxUpdates
    /\ BeginRec(c, "complete", e, outcome, "read")
ReadExecution(c) ==
    /\ recCall[c].pc = "read" /\ recCall[c].kind = "complete"
    /\ recCall' = [recCall EXCEPT ![c].pc = "write",
                                  ![c].row = schedule[execution[recCall[c].on].of]]
    /\ UNCHANGED <<backupVars, planVars, testVars, failover>>
UpdateExecution(c) ==
    /\ recCall[c].pc = "write" /\ recCall[c].kind = "complete"
    /\ LET e == recCall[c].on
           ok == recCall[c].arg # "failure"
       IN \/ /\ execution' = [execution EXCEPT ![e].times = @ + 1,
                                ![e].status = IF ok THEN "completed" ELSE "failed"]
             /\ RecAt(c, IF recCall[c].arg = "success" THEN "clear" ELSE "plan")
          \/ RecWritesFail /\ RecEnds(c) /\ UNCHANGED execution
    /\ UNCHANGED <<schedule, current, latest, counted, planVars, testVars, failover>>
\* createRecoveryPoint; the errors of its two writes are not looked at.  Mutated form: the
\* points of the system stay current.
ClearedNone == current
Cleared == [e \in Executions |-> 0]
ClearCurrent(c) ==
    /\ recCall[c].pc = "clear"
    /\ current' = Cleared \/ (RecWritesFail /\ UNCHANGED current)
    /\ RecAt(c, "point")
    /\ UNCHANGED <<schedule, execution, latest, counted, planVars, testVars, failover>>
InsertPoint(c) ==
    /\ recCall[c].pc = "point"
    /\ LET e == recCall[c].on IN
       \/ /\ current' = [current EXCEPT ![e] = IF @ < 2 THEN @ + 1 ELSE 2]
          /\ latest' = e
       \/ RecWritesFail /\ UNCHANGED <<current, latest>>
    /\ RecAt(c, "plan")
    /\ UNCHANGED <<schedule, execution, counted, planVars, testVars, failover>>
\* Only the counter of the outcome is written, one more than was read.  Mutated form:
\* what was read is written back.
CompletedAll(s, read, ok) == [s EXCEPT !.total = read.total,
                                       !.ok = IF ok THEN read.ok + 1 ELSE read.ok,
                                       !.bad = IF ok THEN read.bad ELSE read.bad + 1]
Completed(s, read, ok) == IF ok THEN [s EXCEPT !.ok = read.ok + 1]
                          ELSE [s EXCEPT !.bad = read.bad + 1]
UpdateStatistics(c) ==
    /\ recCall[c].pc = "plan" /\ recCall[c].kind = "complete"
    /\ LET s == execution[recCall[c].on].of
           ok == recCall[c].arg # "failure"
       IN \/ /\ schedule' = [schedule EXCEPT ![s] = Completed(@, recCall[c].row, ok)]
             /\ counted' = [counted EXCEPT ![s] = [ok |-> IF ok THEN @.ok + 1 ELSE @.ok,
                                                   bad |-> IF ok THEN @.bad ELSE @.bad + 1]]
          \/ RecWritesFail /\ UNCHANGED <<schedule, counted>>
    /\ RecEnds(c)
    /\ UNCHANGED <<execution, current, latest, planVars, testVars, failover>>

VerifyBackup(e) ==
    /\ execution[e].status # None
    /\ \E s \in {"verified", "failed"} : execution' = [execution EXCEPT ![e].status = s]
    /\ UNCHANGED <<schedule, current, latest, counted, planVars, testVars, failover, recCall>>
ToggleSchedule(s) ==
    /\ schedule' = [schedule EXCEPT ![s].active = ~@]
    /\ UNCHANGED <<execution, current, latest, counted, planVars, testVars, failover, recCall>>
ExpiryPasses(e) ==
    /\ execution[e].status # None /\ ~execution[e].over
    /\ execution' = [execution EXCEPT ![e].over = TRUE]
    /\ UNCHANGED <<schedule, current, latest, counted, planVars, testVars, failover, recCall>>
\* The hourly mark_expired_backups, whatever the status.  Mutated form: verified ones only.
ExpirableVerified(e) == execution[e].over /\ ~execution[e].expired
                          /\ execution[e].status = "verified"
Expirable(e) == execution[e].over /\ ~execution[e].expired
MarkExpiredBackups ==
    /\ \E e \in Executions : Expirable(e)
    /\ execution' = [e \in Executions |->
          IF Expirable(e) THEN [execution[e] EXCEPT !.expired = TRUE, !.status = "expired"]
          ELSE execution[e]]
    /\ UNCHANGED <<schedule, current, latest, counted, planVars, testVars, failover, recCall>>

-----------------------------------------------------------------------------
(* The business continuity plan.                                           *)

\* Nothing in the repository puts a plan under review (external).
SubmitForReview ==
    /\ plan.status = "draft" /\ plan' = [plan EXCEPT !.status = "under_review"]
    /\ UNCHANGED <<activation, backupVars, testVars, failover, recCall>>
\* approveBcp: read and written in two requests, with nothing that could intervene.
ApproveBcp ==
    /\ plan.status = "under_review" /\ plan' = [plan EXCEPT !.status = "approved"]
    /\ UNCHANGED <<activation, backupVars, testVars, failover, recCall>>
ActivateBcp(c, a) ==
    /\ activation[a] = "none" /\ plan.count < MaxUpdates
    /\ NoneOf({"activate", "deactivate"})
    /\ BeginRec(c, "activate", a, None, "read")
ReadPlan(c) ==
    /\ recCall[c].pc = "read" /\ recCall[c].kind = "activate"
    /\ IF plan.status \in {"approved", "active"}
       THEN recCall' = [recCall EXCEPT ![c].pc = "plan", ![c].count = plan.count]
       ELSE RecEnds(c)
    /\ UNCHANGED <<backupVars, planVars, testVars, failover>>
\* The plan is active before there is an activation; the error is not looked at.
ActivatePlan(c) ==
    /\ recCall[c].pc = "plan" /\ recCall[c].kind = "activate"
    /\ plan' = [status |-> "active", count |-> recCall[c].count + 1]
         \/ (RecWritesFail /\ UNCHANGED plan)
    /\ RecAt(c, "insert")
    /\ UNCHANGED <<activation, backupVars, testVars, failover>>
InsertActivation(c) ==
    /\ recCall[c].pc = "insert" /\ recCall[c].kind = "activate"
    /\ activation' = [activation EXCEPT ![recCall[c].on] = "open"]
         \/ (RecWritesFail /\ UNCHANGED activation)
    /\ RecEnds(c)
    /\ UNCHANGED <<plan, backupVars, testVars, failover>>
DeactivateBcp(c, a) ==
    /\ activation[a] # "none" /\ NoneOf({"activate", "deactivate"})
    /\ BeginRec(c, "deactivate", a, None, "write")
CloseActivation(c) ==
    /\ recCall[c].pc = "write" /\ recCall[c].kind = "deactivate"
    /\ \/ activation' = [activation EXCEPT ![recCall[c].on] = "closed"] /\ RecAt(c, "plan")
       \/ RecWritesFail /\ RecEnds(c) /\ UNCHANGED activation
    /\ UNCHANGED <<plan, backupVars, testVars, failover>>
\* Even if the plan has another open activation.  Mutated forms: it stays active; it gets a
\* status that plans do not have.
AfterDeactivationActive(status) == status
AfterDeactivationEnded(status) == "deactivated"
AfterDeactivation(status) == "approved"
DeactivatePlan(c) ==
    /\ recCall[c].pc = "plan" /\ recCall[c].kind = "deactivate"
    /\ plan' = [plan EXCEPT !.status = AfterDeactivation(@)] \/ (RecWritesFail /\ UNCHANGED plan)
    /\ RecEnds(c)
    /\ UNCHANGED <<activation, backupVars, testVars, failover>>

-----------------------------------------------------------------------------
(* Tests and failovers.                                                    *)

ScheduleDrTest(t) ==
    /\ test[t].status = "none" /\ test' = [test EXCEPT ![t].status = "scheduled"]
    /\ UNCHANGED <<drPlan, backupVars, planVars, failover, recCall>>
StartDrTest(t) ==
    /\ test[t].status # "none" /\ test' = [test EXCEPT ![t].status = "started"]
    /\ UNCHANGED <<drPlan, backupVars, planVars, failover, recCall>>
\* Whether the test was started, or is over, is not asked.
CompleteDrTest(c, t, result) ==
    /\ test[t].status # "none" /\ NoneOf({"test"})
    /\ BeginRec(c, "test", t, result, "write")
UpdateDrTest(c) ==
    /\ recCall[c].pc = "write" /\ recCall[c].kind = "test"
    /\ \/ /\ test' = [test EXCEPT ![recCall[c].on] = [status |-> "completed",
                                                      result |-> recCall[c].arg]]
          /\ drPlan' = [drPlan EXCEPT !.expected = recCall[c].arg]
          /\ RecAt(c, "plan")
       \/ RecWritesFail /\ RecEnds(c) /\ UNCHANGED testVars
    /\ UNCHANGED <<backupVars, planVars, failover>>
\* Mutated form: only a test that passed is noted.
NotedIfPassed(result, old) == IF result = "passed" THEN result ELSE old
Noted(result, old) == result
UpdateDrp(c) ==
    /\ recCall[c].pc = "plan" /\ recCall[c].kind = "test"
    /\ drPlan' = [drPlan EXCEPT !.result = Noted(recCall[c].arg, @)]
         \/ (RecWritesFail /\ UNCHANGED drPlan)
    /\ RecEnds(c)
    /\ UNCHANGED <<test, backupVars, planVars, failover>>

InitiateFailover ==
    /\ failover.status = None
    /\ failover' = [status |-> "initiating", updates |-> <<"initiating">>, sent |-> 0,
                    over |-> FALSE]
    /\ UNCHANGED <<backupVars, planVars, testVars, recCall>>
UpdateFailoverStatus(c, status) ==
    /\ failover.status # None /\ failover.sent < MaxUpdates
    /\ BeginRec(c, "failover", None, status, "read")
ReadFailover(c) ==
    /\ recCall[c].pc = "read" /\ recCall[c].kind = "failover"
    /\ recCall' = [recCall EXCEPT ![c].pc = "write", ![c].row = failover]
    /\ UNCHANGED <<backupVars, planVars, testVars, failover>>
\* Mutated form: only the new update is written.
UpdatesLast(read, status) == <<status>>
Updates(read, status) == Append(read.updates, status)
WriteFailover(c) ==
    /\ recCall[c].pc = "write" /\ recCall[c].kind = "failover"
    /\ LET read == recCall[c].row
           status == recCall[c].arg
       IN failover' = [status |-> status, updates |-> Updates(read, status),
                       sent |-> failover.sent + 1,
                       over |-> \/ failover.over
                                \/ status = "standby" /\ read.status = "failing_back"]
            \/ (RecWritesFail /\ UNCHANGED failover)
    /\ RecEnds(c)
    /\ UNCHANGED <<backupVars, planVars, testVars>>

RecoveryBackendDies ==
    /\ May("crash") /\ \E c \in RecoveryCalls : recCall[c].pc # "idle"
    /\ recCall' = [c \in RecoveryCalls |-> IdleRecCall]
    /\ UNCHANGED <<backupVars, planVars, testVars, failover>>

RecoveryStep(c) ==
    \/ ReadSchedule(c) \/ InsertExecution(c) \/ CountRun(c) \/ ReadExecution(c)
    \/ UpdateExecution(c) \/ ClearCurrent(c) \/ InsertPoint(c) \/ UpdateStatistics(c)
    \/ ReadPlan(c) \/ ActivatePlan(c) \/ InsertActivation(c) \/ CloseActivation(c)
    \/ DeactivatePlan(c) \/ UpdateDrTest(c) \/ UpdateDrp(c) \/ ReadFailover(c)
    \/ WriteFailover(c) \/ RecReadFails(c)

RecoveryNext ==
    \/ /\ May("backups")
       /\ \/ \E c \in RecoveryCalls, s \in Schedules : StartBackup(c, s)
          \/ \E c \in RecoveryCalls, e \in Executions, o \in {"success", "elsewhere", "failure"} :
                May("completions") /\ CompleteBackup(c, e, o)
          \/ /\ May("expiry")
             /\ \/ \E e \in Executions : VerifyBackup(e) \/ ExpiryPasses(e)
                \/ (\E s \in Schedules : ToggleSchedule(s)) \/ MarkExpiredBackups
    \/ /\ May("plans")
       /\ \/ SubmitForReview \/ ApproveBcp
          \/ \E c \in RecoveryCalls, a \in Activations : ActivateBcp(c, a) \/ DeactivateBcp(c, a)
    \/ /\ May("tests")
       /\ \/ \E t \in Tests : ScheduleDrTest(t) \/ StartDrTest(t)
          \/ \E c \in RecoveryCalls, t \in Tests, r \in DrTestResult : CompleteDrTest(c, t, r)
    \/ /\ May("failovers")
       /\ \/ InitiateFailover
          \/ \E c \in RecoveryCalls, s \in FailoverStatus : UpdateFailoverStatus(c, s)
    \/ RecoveryBackendDies
    \/ \E c \in RecoveryCalls : RecoveryStep(c)

\* The hourly job recurs.
RecoveryFairness == WF_recoveryVars(MarkExpiredBackups)

-----------------------------------------------------------------------------
(* Properties.                                                             *)

RecoveryTypeOK ==
    /\ schedule \in [Schedules -> BackupSchedule]
    /\ execution \in [Executions -> BackupExecution]
    /\ current \in [Executions -> 0..2] /\ latest \in Executions \cup {None}
    /\ counted \in [Schedules -> [ok : Nat, bad : Nat]]
    /\ plan \in [status : DrPlanStatus, count : 0..MaxUpdates]
    /\ activation \in [Activations -> BcpActivation]
    /\ test \in [Tests -> DrTest]
    /\ drPlan \in [result : DrTestResult \cup {None}, expected : DrTestResult \cup {None}]
    /\ failover \in FailoverEvent /\ recCall \in [RecoveryCalls -> RecCall]

CalmRecovery == ~RecWritesFail /\ ~May("crash")
Under(kinds) == \E c \in RecoveryCalls : recCall[c].kind \in kinds

\* A system has at most one current recovery point, the one of the backup completed last,
\* and has it unless a completion is between its two writes, crashed there, or failed
\* (createRecoveryPoint, getCurrentRecoveryPoint).
CurrentPointIsLatest ==
    ~RecWritesFail => \A e \in Executions :
        /\ current[e] > 0 => current[e] = 1 /\ latest = e
        /\ ~May("crash") /\ latest = e
             /\ (\A c \in RecoveryCalls : recCall[c].pc # "point") => current[e] = 1

\* The counters of a schedule count the completions that were answered, and in the end
\* the runs, although starts and completions write the row by what each has read
\* (startBackup, completeBackup).
RunsAreCounted ==
    CalmRecovery => \A s \in Schedules :
        /\ schedule[s].ok = counted[s].ok /\ schedule[s].bad = counted[s].bad
        /\ ~Under({"start"}) =>
             schedule[s].total = Cardinality({e \in Executions : execution[e].of = s})

\* An active plan has an open activation, unless one is under way or failed half-way
\* (activateBcp, deactivateBcp).
ActivePlanIsActivated ==
    CalmRecovery /\ plan.status = "active" =>
        Under({"activate", "deactivate"}) \/ \E a \in Activations : activation[a] = "open"

\* A recovery plan shows the result of the test that was completed last, once the
\* completion is over and unless it failed half-way (completeDrTest).
LastTestIsShown == CalmRecovery => Under({"test"}) \/ drPlan.result = drPlan.expected

\* The log of a failover tells every update that was answered and ends with the present
\* status, whatever fails or crashes in between, as updates of it do not overlap here
\* (updateFailoverStatus): each appends to the list it read, and of two one would be lost.
FailoverIsTold ==
    failover.status # None => /\ Len(failover.updates) = failover.sent + 1
                              /\ Last(failover.updates) = failover.status

\* A backup past its time is marked as expired, whatever its status (markExpiredBackups).
ExpiredIsMarked == \A e \in Executions : execution[e].over ~> execution[e].expired
=============================================================================
