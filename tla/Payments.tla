------------------------------ MODULE Payments ------------------------------
(***************************************************************************)
(* Payment intents, gateway webhooks and the overdue job of the NestJS     *)
(* backend (backend/src/payment/payment.service.ts) over the tables        *)
(* invoices, payments and transactions.                                    *)
(*                                                                         *)
(* Every `await` of a handler is one database round trip and one action    *)
(* here; nothing is locked between two of them.  Each gateway may send a   *)
(* notice late, twice or in another order than the events it reports.      *)
(***************************************************************************)
EXTENDS Integers, FiniteSets

CONSTANTS
    Invoices,          \* billing.invoices rows
    Payments,          \* ids a billing.payments insert may take (a bound on inserts)
    Attempts,          \* transactions opened at a gateway (pf_payment_id, pp_TxnRefNo, ...)
    Intents,           \* calls of POST /payments/intent
    Webhooks,          \* webhook requests the backend serves at one time
    Gateways,          \* subset of {"payfast", "jazzcash", "easypaisa"}
    InvoiceAmount,     \* amount of every invoice, in paisa
    InitialStatuses,   \* statuses an invoice may have when the history begins
    Environments,      \* what may go wrong in the histories considered, see `allowed'
    MaxCrashes,        \* bound: how often the backend process dies
    MaxCredits,        \* bound: ledger rows and running handlers of one payment
    MaxDrift,          \* bound: paisa by which a gateway's figure exceeds ours
    None

InvoiceStatuses == {"draft", "pending", "paid", "overdue", "cancelled"}
OpenStatuses    == {"initiated", "pending"}
FinalStatuses   == {"success", "failed"}
PaymentStatuses == {"absent"} \cup OpenStatuses \cup FinalStatuses

ASSUME PaymentsAssumption ==
    /\ Gateways \subseteq {"payfast", "jazzcash", "easypaisa"}
    /\ InvoiceAmount \in [Invoices -> Nat]
    /\ InitialStatuses \subseteq InvoiceStatuses \ {"paid"}
    /\ Environments \subseteq SUBSET {"webhooks", "intents", "writes"}
    /\ MaxCrashes \in Nat /\ MaxCredits \in Nat /\ MaxDrift \in Nat
    /\ None \notin Invoices \cup Payments \cup Attempts \cup Gateways

VARIABLES
    invoice,   \* status column of every invoice
    pastDue,   \* due_date < current_date
    payment,   \* payments rows; status "absent" is a row not inserted yet
    credits,   \* number of credit rows in transactions, per payment
    intent,    \* state of every createIntent call
    webhook,   \* state of every webhook handler
    attempt,   \* the gateways' own transactions (external)
    crashes,
    allowed    \* what may go wrong in this history; never changes

vars == <<invoice, pastDue, payment, credits, intent, webhook, attempt, crashes, allowed>>

\* Two webhook requests of one payment may overlap in time; so may two intent requests of
\* one invoice and gateway; an update or insert may return {error}, which the code ignores.
Overlap        == "webhooks" \in allowed
OverlapIntents == "intents" \in allowed
WritesMayFail  == "writes" \in allowed

PaymentRow == [status : PaymentStatuses, invoice : Invoices \cup {None},
               gateway : Gateways \cup {None}, reference : Attempts \cup {None}]
IntentCall == [pc : {"start", "lookup", "insert", "redirected", "rejected"},
               invoice : Invoices \cup {None}, gateway : Gateways \cup {None},
               payment : Payments \cup {None}]
WebhookCall == [pc : {"idle", "payment", "invoice", "credit"},
                payment : Payments \cup {None}, status : PaymentStatuses,
                reference : Attempts \cup {None}]
Attempt == [state : {"unused", "open", "captured", "declined"},
            payment : Payments \cup {None}, amount : Nat]

\* A payment takes its amount from the invoice, which no code updates.
AmountOf(p) == InvoiceAmount[payment[p].invoice]
Exists(p) == payment[p].status # "absent"
OfInvoice(p, i, g) == payment[p].invoice = i /\ payment[p].gateway = g

\* Mutated form: a payment the gateway reported as pending is not looked for.
InitiatedPayments(i, g) ==
    {p \in Payments : OfInvoice(p, i, g) /\ payment[p].status = "initiated"}
OpenPayments(i, g) ==
    {p \in Payments : OfInvoice(p, i, g) /\ payment[p].status \in OpenStatuses}

NoWebhook == [pc |-> "idle", payment |-> None, status |-> "absent", reference |-> None]

Init ==
    /\ invoice \in [Invoices -> InitialStatuses]
    /\ pastDue = [i \in Invoices |-> invoice[i] = "overdue"]
    /\ payment = [p \in Payments |->
           [status |-> "absent", invoice |-> None, gateway |-> None, reference |-> None]]
    /\ credits = [p \in Payments |-> 0]
    /\ intent = [n \in Intents |->
           [pc |-> "start", invoice |-> None, gateway |-> None, payment |-> None]]
    /\ webhook = [w \in Webhooks |-> NoWebhook]
    /\ attempt = [a \in Attempts |-> [state |-> "unused", payment |-> None, amount |-> 0]]
    /\ crashes = 0
    /\ allowed \in Environments

-----------------------------------------------------------------------------
(* createIntent.  The customer row it also reads is never written by the   *)
(* modelled code, so that read is part of ReadInvoice; the audit row and   *)
(* the redirect URL change nothing else and belong to the step that        *)
(* returns.                                                                *)

IntentRunning(i, g) ==
    \E n \in Intents : /\ intent[n].pc \in {"lookup", "insert"}
                       /\ intent[n].invoice = i /\ intent[n].gateway = g

\* Reads the invoice; 'Invoice already paid' is the only status refused.
ReadInvoice(n, i, g) ==
    /\ intent[n].pc = "start"
    /\ OverlapIntents \/ ~IntentRunning(i, g)
    /\ intent' = [intent EXCEPT ![n] =
           [pc |-> IF invoice[i] = "paid" THEN "rejected" ELSE "lookup",
            invoice |-> i, gateway |-> g, payment |-> None]]
    /\ UNCHANGED <<invoice, pastDue, payment, credits, webhook, attempt, crashes>>

\* `.single()` yields a row only when exactly one matches: with none or several, data is null.
LookupPayment(n) ==
    /\ intent[n].pc = "lookup"
    /\ LET open == OpenPayments(intent[n].invoice, intent[n].gateway) IN
         \/ \E p \in open :
              /\ open = {p}
              /\ intent' = [intent EXCEPT ![n].pc = "redirected", ![n].payment = p]
         \/ /\ \A p \in open : open # {p}
            /\ intent' = [intent EXCEPT ![n].pc = "insert"]
    /\ UNCHANGED <<invoice, pastDue, payment, credits, webhook, attempt, crashes>>

InsertPayment(n) ==
    /\ intent[n].pc = "insert"
    /\ \E p \in Payments :
         /\ ~Exists(p)
         /\ payment' = [payment EXCEPT ![p] =
                [status |-> "initiated", invoice |-> intent[n].invoice,
                 gateway |-> intent[n].gateway, reference |-> None]]
         /\ intent' = [intent EXCEPT ![n].pc = "redirected", ![n].payment = p]
    /\ UNCHANGED <<invoice, pastDue, credits, webhook, attempt, crashes>>

\* The insert's error is checked: the call throws and nothing is recorded.
InsertPaymentFails(n) ==
    /\ WritesMayFail /\ intent[n].pc = "insert"
    /\ intent' = [intent EXCEPT ![n].pc = "rejected"]
    /\ UNCHANGED <<invoice, pastDue, payment, credits, webhook, attempt, crashes>>

-----------------------------------------------------------------------------
(* The gateways, external.  A redirect URL may be used more than once: the *)
(* second createIntent call for an open payment returns a fresh URL with   *)
(* the same m_payment_id / pp_BillReference / orderId.                     *)

\* The customer opens a transaction; the gateway's figure may differ from ours.
OpenAttempt(a, n) ==
    /\ attempt[a].state = "unused" /\ intent[n].pc = "redirected"
    /\ \E drift \in 0..MaxDrift :
         attempt' = [attempt EXCEPT ![a] =
             [state |-> "open", payment |-> intent[n].payment,
              amount |-> AmountOf(intent[n].payment) + drift]]
    /\ UNCHANGED <<invoice, pastDue, payment, credits, intent, webhook, crashes>>

FinishAttempt(a, outcome) ==
    /\ attempt[a].state = "open" /\ outcome \in {"captured", "declined"}
    /\ attempt' = [attempt EXCEPT ![a].state = outcome]
    /\ UNCHANGED <<invoice, pastDue, payment, credits, intent, webhook, crashes>>

\* Status codes a gateway may (still) send about a transaction.
Codes(a) ==
    {c \in {"waiting", "other", "complete", "refused"} :
        /\ attempt[a].state # "unused"
        /\ c = "complete" => attempt[a].state = "captured"
        /\ c = "refused"  => attempt[a].state = "declined"}

-----------------------------------------------------------------------------
(* handlePayFastWebhook, handleJazzCashWebhook, handleEasyPaisaWebhook and *)
(* updatePaymentAndInvoice.  A request that fails the signature check, or  *)
(* names no payment, or meets an early return, changes nothing: it is a    *)
(* stuttering step.  The audit row belongs to the handler's last step.     *)

\* isPaymentFailed: PayFast keeps a code it does not know pending, JazzCash and EasyPaisa
\* take it for a failure.
IsPaymentFailed(g, code) == code = "refused" \/ (code = "other" /\ g # "payfast")

\* Mutated forms: the gateway's word is stored as it came; a code nobody knows counts as
\* a success; a refusal is not recognised.
StatusAsSent(g, code) == code
StatusOptimistic(g, code) == IF code = "waiting" THEN "pending" ELSE "success"
StatusWithoutRefusal(g, code) == IF code = "complete" THEN "success" ELSE "pending"
NewStatus(g, code) ==
    IF code = "complete" THEN "success"
    ELSE IF IsPaymentFailed(g, code) THEN "failed" ELSE "pending"

\* Mutated forms: the check is dropped; a failed payment does not count as processed.
NeverProcessed(p) == FALSE
SuccessProcessed(p) == payment[p].status = "success"
AlreadyProcessed(p) == payment[p].status \in FinalStatuses

\* Mutated form: the comparison is forgotten.
AmountIgnored(a, p) == TRUE
\* Math.abs(webhookAmount - payment.amount) > 0.01; at exactly one paisa the
\* floating-point comparison goes either way, so such a webhook may pass.
AmountMatches(a, p) == attempt[a].amount - AmountOf(p) \in -1..1

Running(p) == {w \in Webhooks : webhook[w].pc # "idle" /\ webhook[w].payment = p}

\* One notice arrives.  getPaymentWithLock is a plain select; what follows it up to
\* the next await is computed from that snapshot.
ReceiveNotice(w, a, code) ==
    /\ webhook[w].pc = "idle" /\ code \in Codes(a)
    /\ LET p == attempt[a].payment IN
         /\ Overlap \/ Running(p) = {}
         /\ credits[p] + Cardinality(Running(p)) < MaxCredits
         /\ ~AlreadyProcessed(p)
         /\ AmountMatches(a, p)
         /\ webhook' = [webhook EXCEPT ![w] =
                [pc |-> "payment", payment |-> p,
                 status |-> NewStatus(payment[p].gateway, code), reference |-> a]]
    /\ UNCHANGED <<invoice, pastDue, payment, credits, intent, attempt, crashes>>

\* What an update or insert does when Supabase answers {error}: nothing, unnoticed.
Written(changed, same) == changed \/ (WritesMayFail /\ same)

Advance(w, next) ==
    webhook' = [webhook EXCEPT ![w] =
        IF next = "idle" THEN NoWebhook ELSE [webhook[w] EXCEPT !.pc = next]]

UpdatePayment(w) ==
    /\ webhook[w].pc = "payment"
    /\ Written(payment' = [payment EXCEPT
                   ![webhook[w].payment].status = webhook[w].status,
                   ![webhook[w].payment].reference = webhook[w].reference],
               payment' = payment)
    /\ Advance(w, IF webhook[w].status = "success" THEN "invoice" ELSE "idle")
    /\ UNCHANGED <<invoice, pastDue, credits, intent, attempt, crashes>>

\* Mutated form: only an invoice still 'pending' is marked.
PaidIfPending(i) == [invoice EXCEPT ![i] = IF @ = "pending" THEN "paid" ELSE @]
\* Whatever the invoice's status is, it becomes 'paid'.
InvoicePaid(i) == [invoice EXCEPT ![i] = "paid"]

MarkInvoicePaid(w) ==
    /\ webhook[w].pc = "invoice"
    /\ Written(invoice' = InvoicePaid(payment[webhook[w].payment].invoice),
               invoice' = invoice)
    /\ Advance(w, "credit")
    /\ UNCHANGED <<pastDue, payment, credits, intent, attempt, crashes>>

InsertCredit(w) ==
    /\ webhook[w].pc = "credit"
    /\ Written(credits' = [credits EXCEPT ![webhook[w].payment] = @ + 1],
               credits' = credits)
    /\ Advance(w, "idle")
    /\ UNCHANGED <<invoice, pastDue, payment, intent, attempt, crashes>>

\* The backend process dies: every request in it is lost between two writes.
Crash ==
    /\ crashes < MaxCrashes
    /\ crashes' = crashes + 1
    /\ webhook' = [w \in Webhooks |-> NoWebhook]
    /\ intent' = [n \in Intents |-> IF intent[n].pc \in {"lookup", "insert"}
                                    THEN [intent[n] EXCEPT !.pc = "rejected"]
                                    ELSE intent[n]]
    /\ UNCHANGED <<invoice, pastDue, payment, credits, attempt>>

-----------------------------------------------------------------------------
(* update_overdue_invoices(), one SQL statement run by a schedule.         *)

DueDatePasses(i) ==
    /\ ~pastDue[i]
    /\ pastDue' = [pastDue EXCEPT ![i] = TRUE]
    /\ UNCHANGED <<invoice, payment, credits, intent, webhook, attempt, crashes>>

\* Mutated form: the status filter of the UPDATE is missing.
BecomesOverdueUnfiltered(i) == pastDue[i]
BecomesOverdue(i) == invoice[i] = "pending" /\ pastDue[i]

UpdateOverdueInvoices ==
    /\ \E i \in Invoices : BecomesOverdue(i)
    /\ invoice' = [i \in Invoices |-> IF BecomesOverdue(i) THEN "overdue" ELSE invoice[i]]
    /\ UNCHANGED <<pastDue, payment, credits, intent, webhook, attempt, crashes>>

-----------------------------------------------------------------------------
WebhookStep(w) == UpdatePayment(w) \/ MarkInvoicePaid(w) \/ InsertCredit(w)

IntentStep(n) == LookupPayment(n) \/ InsertPayment(n) \/ InsertPaymentFails(n)

Step ==
    \/ \E n \in Intents, i \in Invoices, g \in Gateways : ReadInvoice(n, i, g)
    \/ \E n \in Intents : IntentStep(n)
    \/ \E a \in Attempts, n \in Intents : OpenAttempt(a, n)
    \/ \E a \in Attempts, o \in {"captured", "declined"} : FinishAttempt(a, o)
    \/ \E w \in Webhooks, a \in Attempts :
          \E code \in Codes(a) : ReceiveNotice(w, a, code)
    \/ \E w \in Webhooks : WebhookStep(w)
    \/ Crash
    \/ \E i \in Invoices : DueDatePasses(i)
    \/ UpdateOverdueInvoices

Next == Step /\ UNCHANGED allowed

Spec == Init /\ [][Next]_vars

\* The event loop runs every request it has begun, and a gateway repeats the notice of
\* a finished transaction until it is acknowledged.
FinalCode(a) == IF attempt[a].state = "captured" THEN "complete" ELSE "refused"
Fairness ==
    /\ \A w \in Webhooks : WF_vars(WebhookStep(w) /\ UNCHANGED allowed)
    /\ \A a \in Attempts :
         SF_vars(/\ attempt[a].state \in {"captured", "declined"}
                 /\ \E w \in Webhooks : ReceiveNotice(w, a, FinalCode(a))
                 /\ UNCHANGED allowed)

FairSpec == Spec /\ Fairness

-----------------------------------------------------------------------------
(* Properties.                                                             *)

TypeOK ==
    /\ invoice \in [Invoices -> InvoiceStatuses]
    /\ pastDue \in [Invoices -> BOOLEAN]
    /\ payment \in [Payments -> PaymentRow]
    /\ credits \in [Payments -> Nat]
    /\ intent \in [Intents -> IntentCall]
    /\ webhook \in [Webhooks -> WebhookCall]
    /\ attempt \in [Attempts -> Attempt]
    /\ crashes \in Nat
    /\ allowed \in Environments

\* A gateway transaction that took the price of payment p, to the paisa.
Pays(a, p) ==
    /\ attempt[a].state = "captured" /\ attempt[a].payment = p
    /\ attempt[a].amount <= AmountOf(p) + 1 /\ attempt[a].amount + 1 >= AmountOf(p)

\* An invoice is 'paid' only if some gateway captured its amount for a payment of that
\* very invoice, whatever the order, duplication or overlap of the webhooks
\* (updatePaymentAndInvoice marks it from a snapshot read several awaits earlier).
PaidWasCaptured ==
    \A i \in Invoices : invoice[i] = "paid" =>
        \E a \in Attempts, p \in Payments : payment[p].invoice = i /\ Pays(a, p)

\* A credit in the ledger, and a payment in status 'success', stand for money that a
\* gateway captured for this payment.
CreditWasCaptured ==
    \A p \in Payments : credits[p] > 0 \/ payment[p].status = "success" =>
        \E a \in Attempts : Pays(a, p)

\* No invoice, payment or credit is settled without captured money: the two above.
MoneyWasCaptured == PaidWasCaptured /\ CreditWasCaptured

\* Unless a write is lost or the process dies, a payment in status 'success' no handler is
\* at work on has its invoice paid and its credit booked: no interleaving of handlers
\* loses one of the three writes.
SuccessIsSettled ==
    ~WritesMayFail /\ crashes = 0 =>
        \A p \in Payments : payment[p].status = "success" /\ Running(p) = {} =>
            invoice[payment[p].invoice] = "paid" /\ credits[p] > 0

\* The money of a payment is booked once ('already_processed').
CreditedOnce == \A p \in Payments : credits[p] <= 1

\* It is so while webhooks of one payment do not overlap and no write is lost, whatever
\* duplicates, second transactions and crashes there are.
SerialWrites == ~Overlap /\ ~WritesMayFail
SerialCreditsOnce == SerialWrites => CreditedOnce

\* While neither intents nor webhooks overlap there are never two payments open for one
\* invoice at one gateway, so the `.single()` of the next intent finds the one there is.
OneOpenPayment ==
    ~Overlap /\ ~OverlapIntents =>
        \A i \in Invoices, g \in Gateways : \A p, q \in Payments :
            /\ OfInvoice(p, i, g) /\ payment[p].status \in OpenStatuses
            /\ OfInvoice(q, i, g) /\ payment[q].status \in OpenStatuses
            => p = q

\* The promise kept: every step of the program is a capture by a gateway, the settlement
\* of an invoice whose price was captured, or nothing to an observer of Settlement; in
\* particular the overdue job and late notices never unpay an invoice.
Contract == INSTANCE Settlement WITH
    paid  <- {i \in Invoices : invoice[i] = "paid"},
    funds <- {f \in Attempts \X Invoices :
                 \E p \in Payments : payment[p].invoice = f[2] /\ Pays(f[1], p)}
ImplementsSettlement == Contract!Spec

\* While webhooks of one payment do not overlap, the outcome it has got is never
\* overwritten by a later notice.
OutcomeIsStable ==
    [][~Overlap => \A p \in Payments : payment[p].status \in FinalStatuses =>
          payment'[p].status = payment[p].status]_vars

\* A finished gateway transaction of the right amount eventually settles its payment: the
\* status polled by the customer leaves 'initiated' / 'pending' even if the backend crashes.
FinishedIsNoticed ==
    \A a \in Attempts, p \in Payments :
        /\ attempt[a].state \in {"captured", "declined"} /\ attempt[a].payment = p
        /\ attempt[a].amount = AmountOf(p)
        ~> AlreadyProcessed(p)

=============================================================================
