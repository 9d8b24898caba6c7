-------------------------- MODULE SubscriberAccess --------------------------
(***************************************************************************)
(* Suspending and resuming subscribers: admin.service.ts, over the network *)
(* service of OltAccess.  A call writes customers.status, which the RADIUS *)
(* service reads, and then has the ONU throttled; between two round trips  *)
(* other calls and other clients of the network service run.               *)
(***************************************************************************)
EXTENDS OltAccess

CONSTANTS
    Customers,
    OnuOf,       \* the ONU of a customer by onu_mapping, None without a row
    AdminCalls   \* calls of the backend; the request of a call has its name

ASSUME SubscriberAccessAssumption ==
    /\ OnuOf \in [Customers -> Onus \cup {None}]
    /\ AdminCalls \subseteq NetRequests

VARIABLES
    status,    \* customers.status
    audited,   \* the last status change of a customer that has a row in audit_logs
    call       \* the calls

accessVars == <<status, audited, call>>
subscriberVars == <<oltVars, accessVars>>

ReadsMayFail == May("reads")
Roles == {"noc", "superadmin", "finance", "support"}

\* verifyAdminRole and the roles each operation is open to.
MayRun(kind, role) ==
    role \in (IF kind = "resume" THEN {"noc", "superadmin", "finance"}
                                 ELSE {"noc", "superadmin"})

Call == [pc : {"idle", "check", "write", "audit", "mapping", "post", "waiting",
               "done", "refused", "died"},
         kind : {"suspend", "resume", "reboot", None}, customer : Customers \cup {None}]

IdleCall == [pc |-> "idle", kind |-> None, customer |-> None]
Ended == {"idle", "done", "refused", "died"}

AccessInit ==
    /\ status = [c \in Customers |-> "active"]
    /\ audited = [c \in Customers |-> "active"]
    /\ call = [a \in AdminCalls |-> IdleCall]

Quiet(c) == \A a \in AdminCalls : call[a].customer = c => call[a].pc \in Ended
Goto(a, pc) ==
    call' = [call EXCEPT ![a] = IF pc \in Ended THEN [IdleCall EXCEPT !.pc = pc]
                                ELSE [call[a] EXCEPT !.pc = pc]]

-----------------------------------------------------------------------------
(* suspendSubscriber, resumeSubscriber, rebootOnu.                         *)

BeginCall(a, kind, role, c) ==
    /\ call[a].pc = "idle" /\ job[a].pc = "idle"
    /\ May("calls") /\ (May("concurrent") \/ Quiet(c))
    /\ call' = [call EXCEPT ![a] =
         IF ~MayRun(kind, role) THEN [IdleCall EXCEPT !.pc = "refused"]
         ELSE [pc |-> CASE kind = "reboot" -> "post"
                        [] kind = "resume" /\ role = "finance" -> "check"
                        [] OTHER -> "write",
               kind |-> kind, customer |-> c]]
    /\ UNCHANGED <<status, audited, oltVars>>

\* The count of overdue invoices.  It asks for invoices by customer_id, a column that table
\* has not, so the query fails whatever is overdue; its error is not looked at, and no count
\* means none: the call is never refused here.
CheckInvoices(a) ==
    call[a].pc = "check" /\ Goto(a, "write") /\ UNCHANGED <<status, audited, oltVars>>

NewStatus(kind) == IF kind = "suspend" THEN "suspended" ELSE "active"

\* Mutated form: the audit row of a resumption is forgotten.
WriteStatusUnaudited(a) ==
    /\ call[a].pc = "write"
    /\ status' = [status EXCEPT ![call[a].customer] = NewStatus(call[a].kind)]
    /\ Goto(a, IF call[a].kind = "suspend" THEN "audit" ELSE "mapping")
    /\ UNCHANGED <<audited, oltVars>>
WriteStatus(a) ==
    /\ call[a].pc = "write"
    /\ status' = [status EXCEPT ![call[a].customer] = NewStatus(call[a].kind)]
    /\ Goto(a, "audit")
    /\ UNCHANGED <<audited, oltVars>>

\* The error of this insert is not looked at.
WriteAudit(a) ==
    /\ call[a].pc = "audit"
    /\ \/ audited' = [audited EXCEPT ![call[a].customer] = NewStatus(call[a].kind)]
       \/ May("writes") /\ audited' = audited
    /\ Goto(a, "mapping")
    /\ UNCHANGED <<status, oltVars>>

\* Mutated form: the ONU is asked to slow down only when it is resumed.
ReadMappingSwapped(a) ==
    /\ call[a].pc = "mapping"
    /\ Goto(a, IF OnuOf[call[a].customer] = None \/ call[a].kind = "suspend" THEN "done"
               ELSE "post")
    /\ UNCHANGED <<status, audited, oltVars>>
ReadMapping(a) ==
    /\ call[a].pc = "mapping"
    /\ \/ OnuOf[call[a].customer] # None /\ Goto(a, "post")
       \/ (OnuOf[call[a].customer] = None \/ ReadsMayFail) /\ Goto(a, "done")
    /\ UNCHANGED <<status, audited, oltVars>>

\* What the network service takes of what the backend sends: 'suspend' needs no more than
\* the serial number, 'resume' wants two figures as query parameters and 'reboot' the
\* position of the ONU, which the backend does not send: 422.
Understood(kind) == kind = "suspend"

\* Mutated form: an error is tried again until there is none.
PostUntilTaken(a) ==
    /\ call[a].pc = "post"
    /\ \/ /\ Understood(call[a].kind)
          /\ Accept(a, "suspend", OnuOf[call[a].customer])
          /\ Goto(a, "waiting")
       \/ ~Understood(call[a].kind) /\ Goto(a, "post") /\ UNCHANGED oltVars
    /\ UNCHANGED <<status, audited>>
Post(a) ==
    /\ call[a].pc = "post"
    /\ \/ /\ Understood(call[a].kind)
          /\ Accept(a, "suspend", OnuOf[call[a].customer])
          /\ Goto(a, "waiting")
       \/ /\ ~Understood(call[a].kind) \/ May("unreachable")
          /\ Goto(a, IF call[a].kind = "reboot" THEN "refused" ELSE "done")
          /\ UNCHANGED oltVars
    /\ UNCHANGED <<status, audited>>

\* Whatever the network service answered, and whether it did: 'Subscriber suspended'.
Answered200(a) ==
    /\ call[a].pc = "waiting" /\ job[a].pc \in Answers
    /\ Goto(a, "done")
    /\ UNCHANGED <<status, audited, oltVars>>

-----------------------------------------------------------------------------
(* The others: a death of the backend, other clients of the network        *)
(* service.                                                                *)

BackendDies ==
    /\ May("crash")
    /\ \E a \in AdminCalls : call[a].pc \notin Ended
    /\ call' = [a \in AdminCalls |->
                  IF call[a].pc \in Ended THEN call[a] ELSE [IdleCall EXCEPT !.pc = "died"]]
    /\ UNCHANGED <<status, audited, oltVars>>

\* Requests that change nothing at an OLT have histories of their own, with changes of
\* speed; requests that may overlap are for ONUs of one OLT, those that may time out come
\* one after the other.
ClientKinds == IF May("harmless") THEN {"status", "reboot", "speed", "suspend"}
               ELSE Kinds \ {"status", "reboot"}
OtherClient ==
    /\ May("operators")
    /\ \E q \in NetRequests : job[q].pc = "idle" /\ (q \in AdminCalls => call[q].pc = "idle")
    /\ \E r \in NetRequests, k \in ClientKinds, n \in Onus :
         /\ r = CHOOSE q \in NetRequests :
                  job[q].pc = "idle" /\ (q \in AdminCalls => call[q].pc = "idle")
         /\ Overlapping => \A q \in NetRequests : Active(q) => Home[job[q].onu] = Home[n]
         /\ Timeouts => \A q \in NetRequests : ~Active(q)
         /\ Accept(r, k, n)
    /\ UNCHANGED accessVars

CallStep(a) ==
    CheckInvoices(a) \/ WriteStatus(a) \/ WriteAudit(a) \/ ReadMapping(a) \/ Post(a)
      \/ Answered200(a)

SubscriberNext ==
    \/ \E a \in AdminCalls, k \in {"suspend", "resume", "reboot"}, role \in Roles,
          c \in Customers : BeginCall(a, k, role, c)
    \/ \E a \in AdminCalls : CallStep(a)
    \/ BackendDies
    \/ OtherClient
    \/ \E r \in NetRequests : Serve(r) /\ UNCHANGED accessVars
    \/ \E d \in Drivers : ConnectionLost(d) /\ UNCHANGED accessVars
    \/ RestartService /\ UNCHANGED accessVars

SubscriberInit == OltInit /\ AccessInit

\* Round trips end or time out, in both services.
SubscriberFairness ==
    /\ \A r \in NetRequests : WF_subscriberVars(Serve(r) /\ UNCHANGED accessVars)
    /\ \A a \in AdminCalls : WF_subscriberVars(CallStep(a))

-----------------------------------------------------------------------------
(* Properties.                                                             *)

SubscriberTypeOK ==
    /\ OltTypeOK
    /\ status \in [Customers -> {"active", "suspended"}]
    /\ audited \in [Customers -> {"active", "suspended"}]
    /\ call \in [AdminCalls -> Call]

\* In histories in which nothing fails and the requests for one OLT come one by one, all
\* from the backend, a suspended customer's ONU, if its OLT knows it, is throttled once no
\* call is under way, in whatever order calls for one customer were made and overlapped
\* (suspendSubscriber, suspend_onu).
Smooth == allowed \cap {"timeouts", "drops", "restarts", "reads", "crash", "unreachable",
                        "overlap", "operators"} = {}
SuspendedIsThrottled ==
    Smooth => \A c \in Customers :
       LET n == OnuOf[c] IN
       status[c] = "suspended" /\ Quiet(c) /\ n # None /\ device[n].known =>
          Vendor[Home[n]] = "huawei" \/ (device[n].down = "slow" /\ device[n].up = "slow")

\* audit_logs tells the present status of a customer once no call is under way, unless
\* inserts fail, the backend dies, or calls for one customer overlapped.
AuditIsCurrent ==
    allowed \cap {"writes", "crash", "concurrent"} = {} =>
       \A c \in Customers : Quiet(c) => audited[c] = status[c]

\* Every call comes to its end unless the backend dies, whatever the network service and
\* its OLTs do.
CallsEnd == \A a \in AdminCalls : call[a].pc \notin Ended ~> call[a].pc \in Ended
=============================================================================
