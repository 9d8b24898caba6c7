---------------------------- MODULE MCCompliance ----------------------------
(* The compliance platform (CTDISR), each component with a small instance.  A  *)
(* history is about one of them.                                               *)
EXTENDS SecurityLog, AuditTrail, UserSessions, Privileges, PolicyGuard, TLC

CONSTANTS q1, q2, r1, p1, p2

MCTargets == <<"elasticsearch", "sentinel">>
MCTargetOf == q1 :> "elasticsearch" @@ q2 :> "sentinel"
MCRetries == "elasticsearch" :> 2 @@ "sentinel" :> 1
MCModes == p1 :> "AUDIT_ONLY" @@ p2 :> "ENFORCE"

MCEnvironments ==
    {{"events"}, {"events", "slow", "crash"}, {"events", "writes", "reads"},
     {"events", "answers", "siem"},
     {"queue"}, {"queue", "nokey"}, {"queue", "crash", "answers", "again"},
     {"queue", "writes", "reads"},
     {"alerts", "serial"}, {"alerts", "serial", "reads"}, {"alerts", "writes"},
     {"sessions", "serial", "ends"}, {"sessions"}, {"sessions", "serial", "reads"},
     {"sessions", "serial", "writes", "anomalies"},
     {"actions", "serial"}, {"actions", "serial", "writes"}, {"actions", "reads"},
     {"roles"}, {"roles", "serial", "changes"}, {"roles", "serial", "reads", "writes"},
     {"jit"}, {"jit", "serial"}, {"jit", "serial", "writes", "reads"},
     {"policies"}, {"policies", "serial", "uses"}, {"policies", "serial", "changes"},
     {"policies", "serial", "reads", "writes"}, {"policies", "serial", "writes"},
     {"policies", "serial", "tampering"}, {"policies", "serial", "reports"}}
\* What the forwarder is judged by: no failure but a SIEM that refuses.
MCForwarding == {{"events", "siem"}}

vars == <<logVars, trailVars, sessionVars, privVars, guardVars, allowed>>
Init == /\ allowed \in Environments
        /\ LogInit /\ TrailInit /\ SessionInit /\ PrivInit /\ GuardInit
Next ==
    /\ \/ LogNext /\ UNCHANGED <<trailVars, sessionVars, privVars, guardVars>>
       \/ TrailNext /\ UNCHANGED <<logVars, sessionVars, privVars, guardVars>>
       \/ SessionNext /\ UNCHANGED <<logVars, trailVars, privVars, guardVars>>
       \/ PrivNext /\ UNCHANGED <<logVars, trailVars, sessionVars, guardVars>>
       \/ GuardNext /\ UNCHANGED <<logVars, trailVars, sessionVars, privVars>>
    /\ UNCHANGED allowed
Spec == Init /\ [][Next]_vars
          /\ LogFairness /\ TrailFairness /\ SessionFairness /\ PrivFairness /\ GuardFairness

\* The types of all components.
TypeOK == LogTypeOK /\ TrailTypeOK /\ SessionTypeOK /\ PrivTypeOK /\ GuardTypeOK

\* The logs: events, the queue for the SIEM and the alert rules that read them.
LogSafety == /\ LoggedIsKept /\ SlowChainIsLinear
             /\ SentWasTaken /\ GivenUpLate /\ RulesAreObeyed

\* Who is in and what for: sessions, logins, actions, roles and just-in-time privileges.
AccessSafety == /\ SessionsBounded /\ OldestGoesFirst /\ LoginsAreCounted
                /\ ActionChainIsLinear /\ PrivilegesWereAskedFor /\ OneApprovalOnePeriod

\* Policies: what they forbid is denied and recorded, and the record is no false alarm.
PolicySafety == EnforcedIsDenied /\ BreachIsRecorded /\ NoFalseAlarm

\* The three logs of the platform are chains.
LogsAreChained == EventsAreChained /\ ActionsAreChained /\ ViolationsAreChained

\* What is promised is kept: events and entries arrive, stale sessions and privileges
\* end, a granted permission was held, tampering and uses of personal data are noticed.
PromisesAreKept == /\ EventsAreStored /\ EntriesAreSettled
                   /\ StaleSessionsEnd /\ PrivilegesEnd /\ GrantedWasHeld
                   /\ TamperingIsNoticed /\ UsesAreLogged
=============================================================================
