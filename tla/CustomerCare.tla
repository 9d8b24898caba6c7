---------------------------- MODULE CustomerCare ----------------------------
(***************************************************************************)
(* Support tickets (support.service.ts) and notifications                  *)
(* (notification.service.ts).  A history is about one of the two: the      *)
(* flags "tickets" and "notices" say which.                                *)
(***************************************************************************)
EXTENDS Histories

CONSTANTS
    CareCalls,   \* calls about the one ticket considered
    Notices,     \* requests for a message to a customer
    Reachable,   \* those whose customer an active template can be sent to
    Channel      \* what delivers: "gateway" (SMS, SendGrid), "placeholder" (push, SMTP, mock)

ASSUME CustomerCareAssumption ==
    /\ Reachable \subseteq Notices
    /\ Channel \in {"gateway", "placeholder"}
    /\ None # "message"

VARIABLES
    ticket,    \* the row: status, and whether closed_at is set
    last,      \* who wrote its last message that the customer can read
    care,      \* the calls
    log,       \* notification_logs, by request
    accepted,  \* requests whose message a gateway took (external)
    notice,    \* the requests
    reminders  \* whether a run of sendOverdueReminders has ended

ticketVars == <<ticket, last, care>>
noticeVars == <<log, accepted, notice, reminders>>
careVars == <<ticketVars, noticeVars>>

CareWritesFail == May("writes")

TicketStatus == {"none", "open", "in_progress", "waiting_customer", "resolved", "closed"}
CareKinds == {"message", "reply", "note", "status"}
CareCall == [pc : {"idle", "insert", "update", "done", "refused"},
             kind : CareKinds \cup {None}, seen : TicketStatus]
LogStatus == {"none", "pending", "sent", "failed"}
Notice == [pc : {"idle", "template", "contact", "insert", "deliver", "update", "done", "died"},
           outcome : {"sent", "failed"}]

CareInit ==
    /\ ticket = [status |-> "none", closed |-> FALSE]
    /\ last = None
    /\ care = [c \in CareCalls |-> [pc |-> "idle", kind |-> None, seen |-> "none"]]
    /\ log = [n \in Notices |-> "none"]
    /\ accepted = {}
    /\ notice = [n \in Notices |-> [pc |-> "idle", outcome |-> "failed"]]
    /\ reminders = FALSE

-----------------------------------------------------------------------------
(* Tickets.  seen is the status a call read.                               *)

CareGoto(c, pc) ==
    care' = [care EXCEPT ![c] = IF pc = "done" THEN [pc |-> pc, kind |-> None, seen |-> "none"]
                                ELSE [care[c] EXCEPT !.pc = pc]]

\* The function create_support_ticket writes ticket and message in one transaction.
CreateTicket ==
    /\ ticket.status = "none"
    /\ ticket' = [status |-> "open", closed |-> FALSE]
    /\ last' \in {None, "customer"}
    /\ UNCHANGED care

\* Only a customer's message looks at the ticket before it is added.
BeginCare(c, kind) ==
    /\ care[c].pc = "idle" /\ ticket.status # "none"
    /\ May("overlap") \/ \A d \in CareCalls : care[d].pc \in {"idle", "done", "refused"}
    /\ care' = [care EXCEPT ![c] =
         [pc |-> IF kind = "message" /\ ticket.status = "closed" THEN "refused"
                 ELSE IF kind = "status" THEN "update" ELSE "insert",
          kind |-> kind, seen |-> IF kind = "message" THEN ticket.status ELSE "none"]]
    /\ UNCHANGED <<ticket, last>>

\* addMessage, addAgentMessage.  Mutated form: an agent's reply does not hand the ticket
\* over to the customer until the customer has read it.
MovesOnMessage(kind, seen) == kind = "message" /\ seen = "open"
Moves(kind, seen) == kind = "reply" \/ (kind = "message" /\ seen = "waiting_customer")
InsertMessage(c) ==
    /\ care[c].pc = "insert"
    /\ last' = CASE care[c].kind = "message" -> "customer"
                 [] care[c].kind = "reply" -> "agent"
                 [] OTHER -> last
    /\ CareGoto(c, IF Moves(care[c].kind, care[c].seen) THEN "update" ELSE "done")
    /\ UNCHANGED ticket

\* The second write of a message; its error is not looked at.
UpdateAfterMessage(c) ==
    /\ care[c].pc = "update" /\ care[c].kind # "status"
    /\ \/ ticket' = [ticket EXCEPT !.status = IF care[c].kind = "reply"
                                              THEN "waiting_customer" ELSE "open"]
       \/ CareWritesFail /\ UNCHANGED ticket
    /\ CareGoto(c, "done")
    /\ UNCHANGED last

\* updateTicketStatus: any status from any status; closed_at is set and never reset.
UpdateTicketStatus(c) ==
    /\ care[c].pc = "update" /\ care[c].kind = "status"
    /\ \E s \in TicketStatus \ {"none"} :
          ticket' = [status |-> s, closed |-> ticket.closed \/ s = "closed"]
    /\ CareGoto(c, "done")
    /\ UNCHANGED last

-----------------------------------------------------------------------------
(* Notifications.                                                          *)

NoticeReadsFail == May("reads")
NoticeEnds == {"idle", "done", "died"}
NoticeGoto(n, pc) == notice' = [notice EXCEPT ![n].pc = pc]

\* POST notifications/send names the recipient and the text; /trigger looks for them.
BeginNotice(n) ==
    /\ notice[n].pc = "idle"
    /\ \E pc \in {"template", "insert"} : NoticeGoto(n, pc)
    /\ UNCHANGED <<log, accepted, reminders>>

\* triggerNotification: no template, no customer, no telephone or address, or a query for
\* one of them that fails, which looks the same: nothing is sent.  Mutated form: the search
\* for the customer's address begins again.
FindTemplate(n) ==
    /\ notice[n].pc = "template"
    /\ \/ NoticeGoto(n, "contact")
       \/ (n \notin Reachable \/ NoticeReadsFail) /\ NoticeGoto(n, "done")
    /\ UNCHANGED <<log, accepted, reminders>>
FindContactAgain(n) ==
    /\ notice[n].pc = "contact"
    /\ NoticeGoto(n, IF n \in Reachable THEN "insert" ELSE "contact")
    /\ UNCHANGED <<log, accepted, reminders>>
FindContact(n) ==
    /\ notice[n].pc = "contact"
    /\ \/ n \in Reachable /\ NoticeGoto(n, "insert")
       \/ (n \notin Reachable \/ NoticeReadsFail) /\ NoticeGoto(n, "done")
    /\ UNCHANGED <<log, accepted, reminders>>

\* send: without a log row nothing is delivered.
InsertLog(n) ==
    /\ notice[n].pc = "insert"
    /\ \/ log' = [log EXCEPT ![n] = "pending"] /\ NoticeGoto(n, "deliver")
       \/ CareWritesFail /\ log' = log /\ NoticeGoto(n, "done")
    /\ UNCHANGED <<accepted, reminders>>

\* sendViaCMPak, sendViaTwilio, sendViaSendGrid turn every exception into a failure;
\* a placeholder delivers nothing and succeeds.  Mutated forms: an answer that never
\* came counts as success; an exception ends the request.
Delivered(n, outcome) == notice' = [notice EXCEPT ![n] = [pc |-> "update", outcome |-> outcome]]
DeliverTrusting(n) ==
    /\ notice[n].pc = "deliver" /\ Delivered(n, "sent")
    /\ accepted' = accepted \/ (Channel = "gateway" /\ accepted' = accepted \cup {n})
    /\ UNCHANGED <<log, reminders>>
DeliverUncaught(n) ==
    /\ notice[n].pc = "deliver"
    /\ \/ accepted' = accepted \cup {n} /\ Delivered(n, "sent")
       \/ accepted' = accepted /\ NoticeGoto(n, "done")
    /\ UNCHANGED <<log, reminders>>
Deliver(n) ==
    /\ notice[n].pc = "deliver"
    /\ \/ /\ Channel = "gateway" /\ accepted' = accepted \cup {n}
          /\ \E o \in {"sent", "failed"} : Delivered(n, o)
       \/ accepted' = accepted /\ Delivered(n, IF Channel = "gateway" THEN "failed" ELSE "sent")
    /\ UNCHANGED <<log, reminders>>

\* updateNotificationStatus; its error is not looked at.
UpdateLog(n) ==
    /\ notice[n].pc = "update"
    /\ log' = [log EXCEPT ![n] = notice[n].outcome] \/ (CareWritesFail /\ log' = log)
    /\ NoticeGoto(n, "done")
    /\ UNCHANGED <<accepted, reminders>>

\* sendOverdueReminders asks for the customer_id of the invoices, which the view has not, so
\* the query fails; its error is not looked at, and no rows mean that none is overdue: the
\* loop that triggers a notice for every row is never entered.
SendOverdueReminders ==
    /\ ~reminders /\ reminders' = TRUE
    /\ UNCHANGED <<log, accepted, notice>>

CareDies ==
    /\ May("crash") /\ \E n \in Notices : notice[n].pc \notin NoticeEnds
    /\ notice' = [n \in Notices |-> IF notice[n].pc \in NoticeEnds THEN notice[n]
                                    ELSE [notice[n] EXCEPT !.pc = "died"]]
    /\ UNCHANGED <<log, accepted, reminders>>

TicketStep(c) == InsertMessage(c) \/ UpdateAfterMessage(c) \/ UpdateTicketStatus(c)
NoticeStep(n) ==
    FindTemplate(n) \/ FindContact(n) \/ InsertLog(n) \/ Deliver(n) \/ UpdateLog(n)

CareNext ==
    \/ /\ May("tickets") /\ UNCHANGED noticeVars
       /\ \/ CreateTicket
          \/ \E c \in CareCalls, kind \in CareKinds : BeginCare(c, kind)
          \/ \E c \in CareCalls : TicketStep(c)
    \/ /\ May("notices") /\ UNCHANGED ticketVars
       /\ \/ \E n \in Notices : BeginNotice(n) \/ NoticeStep(n)
          \/ SendOverdueReminders \/ CareDies

CareFairness ==
    \A n \in Notices : WF_careVars(NoticeStep(n) /\ May("notices") /\ UNCHANGED ticketVars)

-----------------------------------------------------------------------------
(* Properties.                                                             *)

CareTypeOK ==
    /\ ticket \in [status : TicketStatus, closed : BOOLEAN]
    /\ last \in {None, "customer", "agent"}
    /\ care \in [CareCalls -> CareCall]
    /\ log \in [Notices -> LogStatus]
    /\ accepted \subseteq Notices
    /\ notice \in [Notices -> Notice]
    /\ reminders \in BOOLEAN

\* A ticket whose last word is the customer's does not wait for the customer, once no call
\* is under way: two writes and a status read before them agree, unless calls overlap or a
\* write is lost.
AnswersAreNoticed ==
    [][~May("overlap") /\ ~CareWritesFail =>
         \A c \in CareCalls :
            care[c].kind = "message" /\ care'[c].pc = "done" =>
               last' = "customer" /\ ticket'.status \notin {"waiting_customer", "closed"}]_careVars

\* What is logged as sent by a gateway was taken by it, and what it took is logged, also if
\* the service dies or answers are lost between delivery and log (send, sendSMS, sendEmail).
SentWasAccepted ==
    Channel = "gateway" =>
       \A n \in Notices : /\ log[n] = "sent" => n \in accepted
                          /\ n \in accepted => log[n] # "none"

\* A request that has ended left no row pending, whatever the gateway did, if rows can be
\* written; and a message that can be sent has its row, if the queries for template,
\* customer and address succeed as well (triggerNotification, send).
NoticesAreSettled ==
    \A n \in Notices : notice[n].pc = "done" /\ ~CareWritesFail =>
       /\ log[n] # "pending"
       /\ n \in Reachable /\ ~NoticeReadsFail => log[n] # "none"

\* Every request for a message ends.
NoticesEnd ==
    \A n \in Notices : notice[n].pc \notin NoticeEnds ~> notice[n].pc \in NoticeEnds
=============================================================================
