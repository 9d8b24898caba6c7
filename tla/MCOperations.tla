---------------------------- MODULE MCOperations ----------------------------
(* The operations of the provider, each with a small instance: subscribers and *)
(* their ONUs, tickets and notices, exports of audit data.  A history is     *)
(* about one of them.                                                          *)
EXTENDS SubscriberAccess, CustomerCare, AuditExport, TLC

CONSTANTS o1, o2, n1, n2, n3, k1, i1, i2, a1, a2

MCVendor == o1 :> "zte" @@ o2 :> "fiberhome"
MCHome == n1 :> o1 @@ n2 :> o1 @@ n3 :> o2
MCOnuOf == k1 :> n1

MCEnvironments ==
    {{"calls", "concurrent"}, {"operators", "timeouts"},
     {"operators", "harmless"}, {"operators", "harmless", "overlap", "restarts"},
     {"calls", "reads", "timeouts", "crash"}, {"calls", "reads", "timeouts"},
     {"calls", "unreachable", "writes", "restarts", "drops"},
     {"tickets"}, {"tickets", "overlap", "writes"},
     {"notices", "crash"}, {"notices", "reads"}, {"notices", "crash", "writes"},
     {"exports", "reads"}, {"exports", "writes"}, {"exports", "cancels"},
     {"exports", "cleanup"},
     {"accesses", "serial", "writes"}, {"accesses", "serial", "encrypted", "altered"},
     {"schedules", "serial", "crash"}, {"schedules", "crash"}}

vars == <<subscriberVars, careVars, exportVars, allowed>>
Init == allowed \in Environments /\ SubscriberInit /\ CareInit /\ ExportInit
Next == /\ \/ SubscriberNext /\ UNCHANGED <<careVars, exportVars>>
           \/ CareNext /\ UNCHANGED <<subscriberVars, exportVars>>
           \/ ExportNext /\ UNCHANGED <<subscriberVars, careVars>>
        /\ UNCHANGED allowed
Spec == Init /\ [][Next]_vars /\ SubscriberFairness /\ CareFairness /\ ExportFairness

\* The types of all components.
TypeOK == SubscriberTypeOK /\ CareTypeOK /\ ExportTypeOK

\* Subscribers: a suspended one is throttled, and the audit log ends with what is stored.
SubscriberSafety == SuspendedIsThrottled /\ AuditIsCurrent

\* The office: what is logged as sent was taken, what was taken is logged, and no request for
\* a message leaves its row pending; exports are complete, stored and handed over with a
\* trace, and the jobs of the scheduler are those of its schedules.
OfficeSafety ==
    /\ SentWasAccepted /\ NoticesAreSettled
    /\ FilesAreStored /\ CompletedIsStored /\ ExportIsComplete
    /\ HandedOverIsLogged /\ NoBreakIsReported
    /\ JobsCanBeStopped /\ SchedulesAreServed

\* Steps: an answer of the network service is true, its dialogues touch no other ONU, and an
\* answered ticket is not left waiting.
StepsAreSound == AnswersAreTrue /\ OthersUntouched /\ AnswersAreNoticed

\* Whatever was begun ends: requests for ONUs, calls of administrators, messages,
\* exports.
WorkEnds == RequestsAreAnswered /\ CallsEnd /\ NoticesEnd /\ RunsEnd
=============================================================================
