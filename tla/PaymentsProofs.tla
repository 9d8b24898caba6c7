--------------------------- MODULE PaymentsProofs ---------------------------
(***************************************************************************)
(* Theorems about Payments for any number of invoices, payments, gateway   *)
(* transactions, requests and crashes.                                     *)
(***************************************************************************)
EXTENDS Payments, TLAPS

(* The strengthening: what the requests in flight know about the rows.     *)

RowsKnown ==
    \A p \in Payments : Exists(p) => payment[p].invoice \in Invoices

IntentsKnown ==
    \A n \in Intents :
        /\ intent[n].pc \in {"lookup", "insert"} =>
              intent[n].invoice \in Invoices /\ intent[n].gateway \in Gateways
        /\ intent[n].pc = "redirected" =>
              intent[n].payment \in Payments /\ Exists(intent[n].payment)

AttemptsKnown ==
    \A a \in Attempts : attempt[a].state # "unused" =>
        attempt[a].payment \in Payments /\ Exists(attempt[a].payment)

\* A handler bound to write 'success' carries a transaction that paid for its payment.
WebhooksKnown ==
    \A w \in Webhooks : webhook[w].pc # "idle" =>
        /\ webhook[w].payment \in Payments /\ Exists(webhook[w].payment)
        /\ webhook[w].reference \in Attempts
        /\ webhook[w].status \in {"pending", "success", "failed"}
        /\ webhook[w].pc # "payment" => webhook[w].status = "success"
        /\ webhook[w].status = "success" => Pays(webhook[w].reference, webhook[w].payment)

IndInv ==
    /\ TypeOK /\ RowsKnown /\ IntentsKnown /\ AttemptsKnown /\ WebhooksKnown
    /\ PaidWasCaptured /\ CreditWasCaptured

\* Handlers of one payment that never overlap: the one that is running books the first credit.
Serial ==
    /\ \A v, w \in Webhooks :
          webhook[v].pc # "idle" /\ webhook[w].pc # "idle"
            /\ webhook[v].payment = webhook[w].payment => v = w
    /\ \A w \in Webhooks : webhook[w].pc = "payment" => ~AlreadyProcessed(webhook[w].payment)
    /\ \A w \in Webhooks : webhook[w].pc \in {"invoice", "credit"} =>
          payment[webhook[w].payment].status = "success" /\ credits[webhook[w].payment] = 0
    /\ \A p \in Payments : payment[p].status # "success" => credits[p] = 0
    /\ CreditedOnce



-----------------------------------------------------------------------------

\* The disjuncts of Next, named for case analysis.
LEMMA NextCases ==
    ASSUME [Next]_vars
    PROVE  \/ \E n \in Intents, i \in Invoices, g \in Gateways : ReadInvoice(n, i, g)
           \/ \E n \in Intents : LookupPayment(n)
           \/ \E n \in Intents : InsertPayment(n)
           \/ \E n \in Intents : InsertPaymentFails(n)
           \/ \E a \in Attempts, n \in Intents : OpenAttempt(a, n)
           \/ \E a \in Attempts, o \in {"captured", "declined"} : FinishAttempt(a, o)
           \/ \E w \in Webhooks, a \in Attempts :
                 \E code \in Codes(a) : ReceiveNotice(w, a, code)
           \/ \E w \in Webhooks : UpdatePayment(w)
           \/ \E w \in Webhooks : MarkInvoicePaid(w)
           \/ \E w \in Webhooks : InsertCredit(w)
           \/ Crash
           \/ \E i \in Invoices : DueDatePasses(i)
           \/ UpdateOverdueInvoices
           \/ UNCHANGED vars
  BY DEF Next, Step, IntentStep, WebhookStep

\* The environment of a history never changes.
LEMMA AllowedStays ==
    ASSUME [Next]_vars
    PROVE  allowed' = allowed
  BY DEF Next, vars

\* The price of an inserted payment is a natural number.
LEMMA AmountType ==
    ASSUME TypeOK, RowsKnown, NEW p \in Payments, Exists(p)
    PROVE  AmountOf(p) \in Nat
  BY PaymentsAssumption DEF RowsKnown, AmountOf

\* What a handler is to write is 'pending', 'success' or 'failed', and 'success' comes from a
\* completed transaction only (isPaymentSuccessful of each gateway).
LEMMA NewStatusType ==
    ASSUME NEW g, NEW a \in Attempts, attempt[a] \in Attempt, NEW code \in Codes(a)
    PROVE  /\ attempt[a].state # "unused"
           /\ NewStatus(g, code) \in {"pending", "success", "failed"}
           /\ NewStatus(g, code) = "success" => attempt[a].state = "captured"
  BY DEF Codes, NewStatus

LEMMA InitInd == Init => IndInv
  <1> SUFFICES ASSUME Init PROVE IndInv
    OBVIOUS
  <1>1. TypeOK
    BY PaymentsAssumption
    DEF Init, TypeOK, PaymentRow, IntentCall, WebhookCall, Attempt, NoWebhook,
        InvoiceStatuses, PaymentStatuses
  <1>2. RowsKnown /\ IntentsKnown /\ AttemptsKnown /\ WebhooksKnown
    BY DEF Init, RowsKnown, IntentsKnown, AttemptsKnown, WebhooksKnown, Exists, NoWebhook
  <1>3. PaidWasCaptured /\ CreditWasCaptured
    BY PaymentsAssumption DEF Init, PaidWasCaptured, CreditWasCaptured, InvoiceStatuses
  <1> QED BY <1>1, <1>2, <1>3 DEF IndInv

\* A step never deletes a payments row nor changes the invoice it is for.
LEMMA RowsStay ==
    ASSUME IndInv, [Next]_vars, NEW p \in Payments, Exists(p)
    PROVE  Exists(p)' /\ payment'[p].invoice = payment[p].invoice
  <1> USE DEF Exists
  <1>1. CASE UNCHANGED payment
    BY <1>1
  <1>2. ASSUME NEW n \in Intents, InsertPayment(n)
        PROVE  Exists(p)' /\ payment'[p].invoice = payment[p].invoice
    BY <1>2 DEF InsertPayment, IndInv, TypeOK
  <1>3. ASSUME NEW w \in Webhooks, UpdatePayment(w)
        PROVE  Exists(p)' /\ payment'[p].invoice = payment[p].invoice
    BY <1>3 DEF UpdatePayment, Written, IndInv, TypeOK, PaymentRow, WebhooksKnown
  <1> QED
    BY <1>1, <1>2, <1>3, NextCases
    DEF ReadInvoice, LookupPayment, InsertPaymentFails, OpenAttempt, FinishAttempt,
        ReceiveNotice, MarkInvoicePaid, InsertCredit, Crash, DueDatePasses,
        UpdateOverdueInvoices, vars

\* Money a gateway has captured stays captured, for the same payment.
LEMMA CapturedStays ==
    ASSUME IndInv, [Next]_vars, NEW a \in Attempts, attempt[a].state = "captured"
    PROVE  attempt'[a] = attempt[a]
  <1>1. CASE UNCHANGED attempt
    BY <1>1
  <1>2. ASSUME NEW b \in Attempts, NEW n \in Intents, OpenAttempt(b, n)
        PROVE  attempt'[a] = attempt[a]
    BY <1>2 DEF OpenAttempt, IndInv, TypeOK
  <1>3. ASSUME NEW b \in Attempts, NEW o, FinishAttempt(b, o)
        PROVE  attempt'[a] = attempt[a]
    BY <1>3 DEF FinishAttempt, IndInv, TypeOK
  <1> QED
    BY <1>1, <1>2, <1>3, NextCases
    DEF ReadInvoice, LookupPayment, InsertPayment, InsertPaymentFails, ReceiveNotice,
        UpdatePayment, MarkInvoicePaid, InsertCredit, Crash, DueDatePasses,
        UpdateOverdueInvoices, vars

LEMMA PaysStays ==
    ASSUME IndInv, [Next]_vars, NEW a \in Attempts, NEW p \in Payments,
           Exists(p), Pays(a, p)
    PROVE  Pays(a, p)'
  BY RowsStay, CapturedStays DEF Pays, AmountOf

\* Transactions in use keep their payment.
LEMMA AttemptStays ==
    ASSUME IndInv, [Next]_vars, NEW a \in Attempts, attempt[a].state # "unused"
    PROVE  attempt'[a].state # "unused" /\ attempt'[a].payment = attempt[a].payment
  <1>1. CASE UNCHANGED attempt
    BY <1>1
  <1>2. ASSUME NEW b \in Attempts, NEW n \in Intents, OpenAttempt(b, n)
        PROVE  attempt'[a] = attempt[a]
    BY <1>2 DEF OpenAttempt, IndInv, TypeOK
  <1>3. ASSUME NEW b \in Attempts, NEW o, FinishAttempt(b, o)
        PROVE  attempt'[a].state # "unused" /\ attempt'[a].payment = attempt[a].payment
    BY <1>3 DEF FinishAttempt, IndInv, TypeOK, Attempt
  <1> QED
    BY <1>1, <1>2, <1>3, NextCases
    DEF ReadInvoice, LookupPayment, InsertPayment, InsertPaymentFails, ReceiveNotice,
        UpdatePayment, MarkInvoicePaid, InsertCredit, Crash, DueDatePasses,
        UpdateOverdueInvoices, vars

LEMMA TypeInd ==
    ASSUME IndInv, [Next]_vars
    PROVE  TypeOK'
  <1> USE DEF IndInv, TypeOK
  <1>0. allowed' \in Environments
    BY AllowedStays
  <1> USE <1>0
  <1>1. ASSUME NEW n \in Intents, NEW i \in Invoices, NEW g \in Gateways, ReadInvoice(n, i, g)
        PROVE  TypeOK'
    BY <1>1 DEF ReadInvoice, IntentCall
  <1>2. ASSUME NEW n \in Intents, LookupPayment(n)
        PROVE  TypeOK'
    <2>1. intent' \in [Intents -> IntentCall]
      BY <1>2 DEF LookupPayment, IntentCall, OpenPayments
    <2> QED BY <1>2, <2>1 DEF LookupPayment
  <1>3. ASSUME NEW n \in Intents, InsertPayment(n)
        PROVE  TypeOK'
    <2>1. PICK p \in Payments : InsertPayment(n)!2!(p)
      BY <1>3 DEF InsertPayment
    <2> DEFINE row == [status |-> "initiated", invoice |-> intent[n].invoice,
                       gateway |-> intent[n].gateway, reference |-> None]
    <2>a. row \in PaymentRow
      BY <1>3 DEF InsertPayment, IntentsKnown, PaymentRow, PaymentStatuses, OpenStatuses
    <2>b. payment' = [payment EXCEPT ![p] = row]
      BY <2>1
    <2>2. payment' \in [Payments -> PaymentRow]
      BY <2>a, <2>b
    <2>3. intent' \in [Intents -> IntentCall]
      BY <2>1 DEF IntentCall
    <2> QED BY <1>3, <2>2, <2>3 DEF InsertPayment
  <1>4. ASSUME NEW n \in Intents, InsertPaymentFails(n)
        PROVE  TypeOK'
    BY <1>4 DEF InsertPaymentFails, IntentCall
  <1>5. ASSUME NEW a \in Attempts, NEW n \in Intents, OpenAttempt(a, n)
        PROVE  TypeOK'
    <2>1. AmountOf(intent[n].payment) \in Nat /\ intent[n].payment \in Payments
      BY <1>5, AmountType DEF OpenAttempt, IntentsKnown
    <2>2. PICK drift \in 0..MaxDrift : OpenAttempt(a, n)!2!(drift)
      BY <1>5 DEF OpenAttempt
    <2>3. AmountOf(intent[n].payment) + drift \in Nat
      BY <2>1, PaymentsAssumption
    <2>4. attempt' \in [Attempts -> Attempt]
      BY <2>1, <2>2, <2>3 DEF Attempt
    <2> QED BY <1>5, <2>4 DEF OpenAttempt
  <1>6. ASSUME NEW a \in Attempts, NEW o \in {"captured", "declined"}, FinishAttempt(a, o)
        PROVE  TypeOK'
    BY <1>6 DEF FinishAttempt, Attempt
  <1>7. ASSUME NEW w \in Webhooks, NEW a \in Attempts, NEW code \in Codes(a),
               ReceiveNotice(w, a, code)
        PROVE  TypeOK'
    <2>1. NewStatus(payment[attempt[a].payment].gateway, code) \in PaymentStatuses
      BY NewStatusType DEF PaymentStatuses, OpenStatuses, FinalStatuses
    <2>2. webhook' \in [Webhooks -> WebhookCall]
      BY <1>7, <2>1 DEF ReceiveNotice, WebhookCall, Attempt
    <2> QED BY <1>7, <2>2 DEF ReceiveNotice
  <1>8. ASSUME NEW w \in Webhooks, UpdatePayment(w)
        PROVE  TypeOK'
    <2>1. payment' \in [Payments -> PaymentRow]
      <3> DEFINE p == webhook[w].payment
      <3>1. p \in Payments /\ webhook[w].status \in PaymentStatuses
            /\ webhook[w].reference \in Attempts
        BY <1>8 DEF UpdatePayment, WebhooksKnown, WebhookCall
      <3>2. CASE payment' = payment
        BY <3>2
      <3>3. CASE payment' = [payment EXCEPT ![p].status = webhook[w].status,
                                            ![p].reference = webhook[w].reference]
        BY <3>1, <3>3 DEF PaymentRow
      <3> QED BY <1>8, <3>2, <3>3 DEF UpdatePayment, Written
    <2>2. webhook' \in [Webhooks -> WebhookCall]
      BY <1>8 DEF UpdatePayment, Advance, NoWebhook, WebhookCall, PaymentStatuses
    <2> QED BY <1>8, <2>1, <2>2 DEF UpdatePayment
  <1>9. ASSUME NEW w \in Webhooks, MarkInvoicePaid(w)
        PROVE  TypeOK'
    <2>1. invoice' \in [Invoices -> InvoiceStatuses]
      BY <1>9 DEF MarkInvoicePaid, Written, InvoicePaid, InvoiceStatuses
    <2>2. webhook' \in [Webhooks -> WebhookCall]
      BY <1>9 DEF MarkInvoicePaid, Advance, NoWebhook, WebhookCall, PaymentStatuses
    <2> QED BY <1>9, <2>1, <2>2 DEF MarkInvoicePaid
  <1>10. ASSUME NEW w \in Webhooks, InsertCredit(w)
         PROVE  TypeOK'
    <2>1. credits' \in [Payments -> Nat]
      BY <1>10 DEF InsertCredit, Written
    <2>2. webhook' \in [Webhooks -> WebhookCall]
      BY <1>10 DEF InsertCredit, Advance, NoWebhook, WebhookCall, PaymentStatuses
    <2> QED BY <1>10, <2>1, <2>2 DEF InsertCredit
  <1>11. CASE Crash
    <2>1. intent' \in [Intents -> IntentCall]
      BY <1>11 DEF Crash, IntentCall
    <2>2. webhook' \in [Webhooks -> WebhookCall]
      BY <1>11 DEF Crash, NoWebhook, WebhookCall, PaymentStatuses
    <2> QED BY <1>11, <2>1, <2>2 DEF Crash
  <1>12. ASSUME NEW i \in Invoices, DueDatePasses(i)
         PROVE  TypeOK'
    BY <1>12 DEF DueDatePasses
  <1>13. CASE UpdateOverdueInvoices
    BY <1>13 DEF UpdateOverdueInvoices, InvoiceStatuses
  <1>14. CASE UNCHANGED vars
    BY <1>14 DEF vars
  <1> QED
    BY <1>1, <1>2, <1>3, <1>4, <1>5, <1>6, <1>7, <1>8, <1>9, <1>10, <1>11, <1>12, <1>13,
       <1>14, NextCases

LEMMA RowsInd ==
    ASSUME IndInv, [Next]_vars
    PROVE  RowsKnown'
  <1>1. CASE UNCHANGED payment
    BY <1>1 DEF IndInv, RowsKnown, Exists
  <1>2. ASSUME NEW n \in Intents, InsertPayment(n)
        PROVE  RowsKnown'
    BY <1>2 DEF InsertPayment, IndInv, TypeOK, IntentsKnown, RowsKnown, Exists
  <1>3. ASSUME NEW w \in Webhooks, UpdatePayment(w)
        PROVE  RowsKnown'
    <2> SUFFICES ASSUME NEW p \in Payments, Exists(p)'
                 PROVE  payment'[p].invoice \in Invoices
      BY DEF RowsKnown
    <2>1. Exists(p)
      BY <1>3 DEF UpdatePayment, Written, WebhooksKnown, IndInv, TypeOK, PaymentRow, Exists
    <2> QED BY <2>1, RowsStay DEF IndInv, RowsKnown
  <1> QED
    BY <1>1, <1>2, <1>3, NextCases
    DEF ReadInvoice, LookupPayment, InsertPaymentFails, OpenAttempt, FinishAttempt,
        ReceiveNotice, MarkInvoicePaid, InsertCredit, Crash, DueDatePasses,
        UpdateOverdueInvoices, vars

LEMMA IntentsInd ==
    ASSUME IndInv, [Next]_vars
    PROVE  IntentsKnown'
  <1>1. CASE UNCHANGED intent
    BY <1>1, RowsStay DEF IndInv, IntentsKnown
  <1>2. ASSUME NEW n \in Intents, NEW i \in Invoices, NEW g \in Gateways, ReadInvoice(n, i, g)
        PROVE  IntentsKnown'
    BY <1>2, RowsStay DEF ReadInvoice, IndInv, TypeOK, IntentsKnown
  <1>3. ASSUME NEW n \in Intents, LookupPayment(n)
        PROVE  IntentsKnown'
    <2>1. \/ \E p \in Payments :
               /\ Exists(p)
               /\ intent' = [intent EXCEPT ![n].pc = "redirected", ![n].payment = p]
          \/ intent' = [intent EXCEPT ![n].pc = "insert"]
      BY <1>3 DEF LookupPayment, OpenPayments, OpenStatuses, Exists
    <2> QED BY <1>3, <2>1, RowsStay
            DEF LookupPayment, IndInv, TypeOK, IntentCall, IntentsKnown
  <1>4. ASSUME NEW n \in Intents, InsertPayment(n)
        PROVE  IntentsKnown'
    <2>1. PICK p \in Payments : InsertPayment(n)!2!(p)
      BY <1>4 DEF InsertPayment
    <2>2. Exists(p)'
      BY <2>1 DEF IndInv, TypeOK, Exists
    <2> QED BY <2>1, <2>2, RowsStay DEF IndInv, TypeOK, IntentCall, IntentsKnown
  <1>5. ASSUME NEW n \in Intents, InsertPaymentFails(n)
        PROVE  IntentsKnown'
    BY <1>5, RowsStay DEF InsertPaymentFails, IndInv, TypeOK, IntentCall, IntentsKnown
  <1>6. CASE Crash
    <2> SUFFICES ASSUME NEW n \in Intents
                 PROVE  /\ intent'[n].pc \notin {"lookup", "insert"}
                        /\ intent'[n].pc = "redirected" => intent'[n] = intent[n]
      BY <1>6, RowsStay DEF IndInv, IntentsKnown
    <2>1. CASE intent[n].pc \in {"lookup", "insert"}
      <3>1. intent'[n] = [intent[n] EXCEPT !.pc = "rejected"]
        BY <1>6, <2>1 DEF Crash
      <3>2. intent[n] \in IntentCall
        BY DEF IndInv, TypeOK
      <3>3. intent'[n].pc = "rejected"
        BY <3>1, <3>2 DEF IntentCall
      <3> QED BY <3>3
    <2>2. CASE intent[n].pc \notin {"lookup", "insert"}
      BY <1>6, <2>2 DEF Crash
    <2> QED BY <2>1, <2>2
  <1> QED
    BY <1>1, <1>2, <1>3, <1>4, <1>5, <1>6, NextCases
    DEF OpenAttempt, FinishAttempt, ReceiveNotice, UpdatePayment, MarkInvoicePaid,
        InsertCredit, DueDatePasses, UpdateOverdueInvoices, vars

LEMMA AttemptsInd ==
    ASSUME IndInv, [Next]_vars
    PROVE  AttemptsKnown'
  <1>1. CASE UNCHANGED attempt
    BY <1>1, RowsStay DEF IndInv, AttemptsKnown
  <1>2. ASSUME NEW a \in Attempts, NEW n \in Intents, OpenAttempt(a, n)
        PROVE  AttemptsKnown'
    BY <1>2, RowsStay DEF OpenAttempt, IndInv, TypeOK, IntentsKnown, AttemptsKnown
  <1>3. ASSUME NEW a \in Attempts, NEW o, FinishAttempt(a, o)
        PROVE  AttemptsKnown'
    BY <1>3, RowsStay DEF FinishAttempt, IndInv, TypeOK, Attempt, AttemptsKnown
  <1> QED
    BY <1>1, <1>2, <1>3, NextCases
    DEF ReadInvoice, LookupPayment, InsertPayment, InsertPaymentFails, ReceiveNotice,
        UpdatePayment, MarkInvoicePaid, InsertCredit, Crash, DueDatePasses,
        UpdateOverdueInvoices, vars

\* What a running handler knows; the body of WebhooksKnown for one handler.
Knows(w) ==
    /\ webhook[w].payment \in Payments /\ Exists(webhook[w].payment)
    /\ webhook[w].reference \in Attempts
    /\ webhook[w].status \in {"pending", "success", "failed"}
    /\ webhook[w].pc # "payment" => webhook[w].status = "success"
    /\ webhook[w].status = "success" => Pays(webhook[w].reference, webhook[w].payment)

LEMMA KnowsStays ==
    ASSUME IndInv, [Next]_vars, NEW w \in Webhooks, Knows(w),
           \/ webhook'[w] = webhook[w]
           \/ /\ webhook[w].status = "success"
              /\ webhook'[w].status = "success"
              /\ webhook'[w].payment = webhook[w].payment
              /\ webhook'[w].reference = webhook[w].reference
    PROVE  Knows(w)'
  BY RowsStay, PaysStays DEF Knows

LEMMA AdvanceInd ==
    ASSUME IndInv, [Next]_vars, NEW w \in Webhooks, webhook[w].pc # "idle",
           NEW pc \in {"idle", "invoice", "credit"}, Advance(w, pc),
           pc # "idle" => webhook[w].status = "success"
    PROVE  WebhooksKnown'
  <1> SUFFICES ASSUME NEW v \in Webhooks, webhook'[v].pc # "idle"
               PROVE  Knows(v)'
    BY DEF WebhooksKnown, Knows
  <1>1. CASE v # w
    <2>1. webhook'[v] = webhook[v]
      BY <1>1 DEF Advance, IndInv, TypeOK
    <2> QED BY <2>1, KnowsStays DEF IndInv, WebhooksKnown, Knows
  <1>2. CASE v = w /\ pc = "idle"
    BY <1>2 DEF Advance, NoWebhook, IndInv, TypeOK
  <1>3. CASE v = w /\ pc # "idle"
    <2>1. webhook'[w] = [webhook[w] EXCEPT !.pc = pc]
      BY <1>3 DEF Advance, IndInv, TypeOK
    <2>2. webhook[w] \in WebhookCall
      BY DEF IndInv, TypeOK
    <2>3. /\ webhook'[w].status = webhook[w].status
          /\ webhook'[w].payment = webhook[w].payment
          /\ webhook'[w].reference = webhook[w].reference
      BY <2>1, <2>2 DEF WebhookCall
    <2> QED BY <1>3, <2>3, KnowsStays DEF IndInv, WebhooksKnown, Knows
  <1> QED BY <1>1, <1>2, <1>3

LEMMA WebhooksInd ==
    ASSUME IndInv, [Next]_vars
    PROVE  WebhooksKnown'
  <1>1. CASE UNCHANGED webhook
    BY <1>1, KnowsStays DEF IndInv, WebhooksKnown, Knows
  <1>2. ASSUME NEW w \in Webhooks, NEW a \in Attempts, NEW code \in Codes(a),
               ReceiveNotice(w, a, code)
        PROVE  WebhooksKnown'
    <2> DEFINE p == attempt[a].payment
    <2>1. /\ attempt[a].state # "unused"
          /\ NewStatus(payment[p].gateway, code) \in {"pending", "success", "failed"}
          /\ NewStatus(payment[p].gateway, code) = "success" => attempt[a].state = "captured"
      BY NewStatusType DEF IndInv, TypeOK
    <2>2. p \in Payments /\ Exists(p)
      BY <2>1 DEF IndInv, AttemptsKnown
    <2>3. webhook'[w] = [pc |-> "payment", payment |-> p,
                         status |-> NewStatus(payment[p].gateway, code), reference |-> a]
          /\ \A v \in Webhooks : v # w => webhook'[v] = webhook[v]
      BY <1>2 DEF ReceiveNotice, IndInv, TypeOK
    <2>4. attempt[a].amount \in Nat /\ AmountOf(p) \in Nat
      BY <2>2, AmountType DEF IndInv, TypeOK, Attempt
    <2>5. attempt[a].state = "captured" => Pays(a, p)
      BY <1>2, <2>4 DEF ReceiveNotice, AmountMatches, Pays
    <2>6. Knows(w)'
      BY <2>1, <2>2, <2>3, <2>5, RowsStay, PaysStays DEF Knows
    <2>7. ASSUME NEW v \in Webhooks, v # w, webhook[v].pc # "idle"
          PROVE  Knows(v)'
      BY <2>3, <2>7, KnowsStays DEF IndInv, WebhooksKnown, Knows
    <2> QED BY <2>3, <2>6, <2>7 DEF WebhooksKnown, Knows
  <1>3. ASSUME NEW w \in Webhooks, UpdatePayment(w)
        PROVE  WebhooksKnown'
    BY <1>3, AdvanceInd DEF UpdatePayment
  <1>4. ASSUME NEW w \in Webhooks, MarkInvoicePaid(w)
        PROVE  WebhooksKnown'
    BY <1>4, AdvanceInd DEF MarkInvoicePaid, IndInv, WebhooksKnown
  <1>5. ASSUME NEW w \in Webhooks, InsertCredit(w)
        PROVE  WebhooksKnown'
    BY <1>5, AdvanceInd DEF InsertCredit
  <1>6. CASE Crash
    BY <1>6 DEF Crash, NoWebhook, WebhooksKnown
  <1> QED
    BY <1>1, <1>2, <1>3, <1>4, <1>5, <1>6, NextCases
    DEF ReadInvoice, LookupPayment, InsertPayment, InsertPaymentFails, OpenAttempt,
        FinishAttempt, DueDatePasses, UpdateOverdueInvoices, vars

\* Only InvoicePaid, in the hands of a handler that saw a completed transaction, makes an
\* invoice 'paid'; the overdue job takes none away.
LEMMA InvoiceStep ==
    ASSUME IndInv, [Next]_vars, NEW i \in Invoices
    PROVE  /\ invoice[i] = "paid" => invoice'[i] = "paid"
           /\ invoice'[i] = "paid" /\ invoice[i] # "paid" =>
                 \E w \in Webhooks : /\ webhook[w].pc = "invoice"
                                     /\ payment[webhook[w].payment].invoice = i
  <1>1. CASE UNCHANGED invoice
    BY <1>1
  <1>2. ASSUME NEW w \in Webhooks, MarkInvoicePaid(w)
        PROVE  /\ invoice[i] = "paid" => invoice'[i] = "paid"
               /\ invoice'[i] = "paid" /\ invoice[i] # "paid" =>
                     webhook[w].pc = "invoice" /\ payment[webhook[w].payment].invoice = i
    BY <1>2 DEF MarkInvoicePaid, Written, InvoicePaid, IndInv, TypeOK
  <1>3. CASE UpdateOverdueInvoices
    BY <1>3 DEF UpdateOverdueInvoices, BecomesOverdue
  <1> QED
    BY <1>1, <1>2, <1>3, NextCases
    DEF ReadInvoice, LookupPayment, InsertPayment, InsertPaymentFails, OpenAttempt,
        FinishAttempt, ReceiveNotice, UpdatePayment, InsertCredit, Crash, DueDatePasses, vars

LEMMA PaidInd ==
    ASSUME IndInv, [Next]_vars
    PROVE  PaidWasCaptured'
  <1> SUFFICES ASSUME NEW i \in Invoices, invoice'[i] = "paid"
               PROVE  \E a \in Attempts, p \in Payments : payment'[p].invoice = i /\ Pays(a, p)'
    BY DEF PaidWasCaptured
  <1>1. \E a \in Attempts, p \in Payments : Exists(p) /\ payment[p].invoice = i /\ Pays(a, p)
    <2>1. CASE invoice[i] = "paid"
      BY <2>1 DEF IndInv, PaidWasCaptured, Pays, AttemptsKnown
    <2>2. CASE invoice[i] # "paid"
      BY <2>2, InvoiceStep DEF IndInv, WebhooksKnown
    <2> QED BY <2>1, <2>2
  <1> QED BY <1>1, RowsStay, PaysStays

LEMMA CreditStep ==
    ASSUME IndInv, [Next]_vars, NEW p \in Payments
    PROVE  credits'[p] > 0 \/ payment'[p].status = "success" =>
             \/ credits[p] > 0 \/ payment[p].status = "success"
             \/ \E w \in Webhooks : /\ webhook[w].pc # "idle" /\ webhook[w].payment = p
                                    /\ webhook[w].status = "success"
  <1>1. CASE UNCHANGED <<credits, payment>>
    BY <1>1
  <1>2. ASSUME NEW n \in Intents, InsertPayment(n)
        PROVE  credits' = credits /\ (payment'[p].status = "success" => payment[p].status = "success")
    BY <1>2 DEF InsertPayment, IndInv, TypeOK
  <1>3. ASSUME NEW w \in Webhooks, UpdatePayment(w)
        PROVE  /\ credits' = credits /\ webhook[w].pc # "idle"
               /\ payment'[p].status = "success" =>
                     \/ payment[p].status = "success"
                     \/ webhook[w].payment = p /\ webhook[w].status = "success"
    BY <1>3 DEF UpdatePayment, Written, IndInv, TypeOK, PaymentRow
  <1>4. ASSUME NEW w \in Webhooks, InsertCredit(w)
        PROVE  /\ payment' = payment /\ webhook[w].pc = "credit"
               /\ credits'[p] > 0 => credits[p] > 0 \/ webhook[w].payment = p
    BY <1>4 DEF InsertCredit, Written, IndInv, TypeOK
  <1>5. ASSUME NEW w \in Webhooks, webhook[w].pc = "credit"
        PROVE  webhook[w].status = "success"
    BY <1>5 DEF IndInv, WebhooksKnown
  <1> QED
    BY <1>1, <1>2, <1>3, <1>4, <1>5, NextCases
    DEF ReadInvoice, LookupPayment, InsertPaymentFails, OpenAttempt, FinishAttempt,
        ReceiveNotice, MarkInvoicePaid, Crash, DueDatePasses, UpdateOverdueInvoices, vars

LEMMA CreditInd ==
    ASSUME IndInv, [Next]_vars
    PROVE  CreditWasCaptured'
  <1> SUFFICES ASSUME NEW p \in Payments, credits'[p] > 0 \/ payment'[p].status = "success"
               PROVE  \E a \in Attempts : Pays(a, p)'
    BY DEF CreditWasCaptured
  <1>1. \E a \in Attempts : Pays(a, p)
    BY CreditStep DEF IndInv, WebhooksKnown, CreditWasCaptured
  <1>2. Exists(p)
    BY <1>1 DEF IndInv, AttemptsKnown, Pays
  <1> QED BY <1>1, <1>2, PaysStays

-----------------------------------------------------------------------------

THEOREM Inductive == Spec => []IndInv
  <1>1. IndInv /\ [Next]_vars => IndInv'
    BY TypeInd, RowsInd, IntentsInd, AttemptsInd, WebhooksInd, PaidInd, CreditInd DEF IndInv
  <1> QED BY InitInd, <1>1, PTL DEF Spec

\* The rows and the requests in flight keep their types in every history of
\* createIntent, the webhooks, the overdue job and crashes.
THEOREM TypeCorrect == Spec => []TypeOK
  <1>1. IndInv => TypeOK
    BY DEF IndInv
  <1> QED BY <1>1, Inductive, PTL

\* With any overlap of webhooks and intents, any lost write and any number of crashes, an
\* invoice is 'paid' only if a gateway took its price for one of its payments.
THEOREM PaidInvoicesWereCaptured == Spec => []PaidWasCaptured
  <1>1. IndInv => PaidWasCaptured
    BY DEF IndInv
  <1> QED BY <1>1, Inductive, PTL

\* Under the same freedom, no payment is a success and no credit is booked out of nothing.
THEOREM CreditsWereCaptured == Spec => []CreditWasCaptured
  <1>1. IndInv => CreditWasCaptured
    BY DEF IndInv
  <1> QED BY <1>1, Inductive, PTL

-----------------------------------------------------------------------------
(* Implementation of Settlement: funds grows by at most one captured       *)
(* transaction in a step, paid by at most one invoice, never both.         *)

LEMMA ContractInit == Init => Contract!Init
  BY PaymentsAssumption DEF Init, Contract!Init, InvoiceStatuses, Pays

LEMMA FundsStep ==
    ASSUME IndInv, [Next]_vars,
           NEW a \in Attempts, NEW p \in Payments, Pays(a, p)', ~Pays(a, p)
    PROVE  /\ attempt[a].state = "open" /\ Exists(p) /\ attempt[a].payment = p
           /\ payment' = payment /\ invoice' = invoice
           /\ \A b \in Attempts : b # a => attempt'[b] = attempt[b]
  <1>1. ASSUME UNCHANGED attempt
        PROVE  FALSE
    <2>1. Exists(p)
      BY <1>1 DEF Pays, IndInv, AttemptsKnown
    <2> QED BY <1>1, <2>1, RowsStay DEF Pays, AmountOf
  <1>2. ASSUME NEW b \in Attempts, NEW n \in Intents, OpenAttempt(b, n)
        PROVE  FALSE
    <2>1. attempt'[a].state = "captured" => attempt'[a] = attempt[a]
      BY <1>2 DEF OpenAttempt, IndInv, TypeOK
    <2> QED BY <1>2, <2>1 DEF Pays, OpenAttempt, AmountOf
  <1>3. ASSUME NEW b \in Attempts, NEW o, FinishAttempt(b, o)
        PROVE  /\ attempt[a].state = "open" /\ Exists(p) /\ attempt[a].payment = p
               /\ payment' = payment /\ invoice' = invoice
               /\ \A c \in Attempts : c # a => attempt'[c] = attempt[c]
    <2>1. payment' = payment /\ invoice' = invoice
      BY <1>3 DEF FinishAttempt
    <2>2. a = b
      <3>1. a # b => attempt'[a] = attempt[a]
        BY <1>3 DEF FinishAttempt, IndInv, TypeOK
      <3> QED BY <2>1, <3>1 DEF Pays, AmountOf
    <2>3. attempt[a].state = "open" /\ attempt'[a].payment = attempt[a].payment
      BY <1>3, <2>2 DEF FinishAttempt, IndInv, TypeOK, Attempt
    <2>4. attempt[a].payment = p
      BY <2>3 DEF Pays
    <2>5. Exists(p)
      BY <2>3, <2>4 DEF IndInv, AttemptsKnown
    <2>6. \A c \in Attempts : c # a => attempt'[c] = attempt[c]
      BY <1>3, <2>2 DEF FinishAttempt, IndInv, TypeOK
    <2> QED BY <2>1, <2>3, <2>4, <2>5, <2>6
  <1> QED
    BY <1>1, <1>2, <1>3, NextCases
    DEF ReadInvoice, LookupPayment, InsertPayment, InsertPaymentFails, ReceiveNotice,
        UpdatePayment, MarkInvoicePaid, InsertCredit, Crash, DueDatePasses,
        UpdateOverdueInvoices, vars

\* The mapped state: which invoice's price a transaction took, and which invoices are paid.
Funds == {f \in Attempts \X Invoices :
             \E p \in Payments : payment[p].invoice = f[2] /\ Pays(f[1], p)}
Paid == {i \in Invoices : invoice[i] = "paid"}

LEMMA FundsKept ==
    ASSUME IndInv, [Next]_vars,
           \A a \in Attempts, p \in Payments : Pays(a, p)' => Pays(a, p)
    PROVE  Funds' = Funds
  <1>1. ASSUME NEW a \in Attempts, NEW p \in Payments, Pays(a, p)
        PROVE  Pays(a, p)' /\ payment'[p].invoice = payment[p].invoice
    <2>1. Exists(p)
      BY <1>1 DEF IndInv, AttemptsKnown, Pays
    <2> QED BY <1>1, <2>1, RowsStay, PaysStays
  <1> QED BY <1>1 DEF Funds

LEMMA FundsCaptured ==
    ASSUME IndInv, [Next]_vars,
           NEW a \in Attempts, NEW p \in Payments, Pays(a, p)', ~Pays(a, p)
    PROVE  \E i \in Invoices : Contract!Capture(a, i)
  <1>1. /\ attempt[a].state = "open" /\ Exists(p) /\ attempt[a].payment = p
        /\ payment' = payment /\ invoice' = invoice
        /\ \A b \in Attempts : b # a => attempt'[b] = attempt[b]
    BY FundsStep
  <1>2. PICK i \in Invoices : i = payment[p].invoice
    BY <1>1 DEF IndInv, RowsKnown
  <1>3. \A j \in Invoices : <<a, j>> \notin Funds
    BY <1>1 DEF Funds, Pays
  <1>4. attempt'[a].payment = p
    BY DEF Pays
  <1>5. ASSUME NEW b \in Attempts, NEW q \in Payments
        PROVE  Pays(b, q)' <=> Pays(b, q) \/ (b = a /\ q = p)
    <2>1. CASE b # a
      BY <1>1, <2>1 DEF Pays, AmountOf
    <2>2. CASE b = a
      BY <1>1, <1>4, <2>2 DEF Pays
    <2> QED BY <2>1, <2>2
  <1>6. ASSUME NEW b \in Attempts, NEW j \in Invoices
        PROVE  <<b, j>> \in Funds' <=> <<b, j>> \in Funds \cup {<<a, i>>}
    BY <1>1, <1>2, <1>5 DEF Funds
  <1>7. Funds' = Funds \cup {<<a, i>>}
    <2>1. Funds' \subseteq Attempts \X Invoices
      BY DEF Funds
    <2>2. Funds \cup {<<a, i>>} \subseteq Attempts \X Invoices
      BY <1>2 DEF Funds
    <2> QED BY <1>6, <2>1, <2>2
  <1>8. Paid' = Paid
    BY <1>1 DEF Paid
  <1>9. Contract!Capture(a, i)
    BY <1>3, <1>7, <1>8 DEF Contract!Capture, Funds, Paid
  <1> QED BY <1>9

LEMMA PaidStep ==
    ASSUME IndInv, [Next]_vars
    PROVE  \/ Paid' = Paid
           \/ \E i \in Invoices : /\ i \notin Paid /\ Paid' = Paid \cup {i}
                                  /\ \E a \in Attempts : <<a, i>> \in Funds
  <1>1. CASE UNCHANGED invoice
    BY <1>1 DEF Paid
  <1>2. CASE UpdateOverdueInvoices
    BY <1>2 DEF UpdateOverdueInvoices, BecomesOverdue, Paid
  <1>3. ASSUME NEW w \in Webhooks, MarkInvoicePaid(w), invoice' # invoice
        PROVE  \E i \in Invoices : /\ i \notin Paid /\ Paid' = Paid \cup {i}
                                   /\ \E a \in Attempts : <<a, i>> \in Funds
    <2> DEFINE p == webhook[w].payment
               i == payment[p].invoice
    <2>1. /\ p \in Payments /\ Exists(p)
          /\ webhook[w].reference \in Attempts /\ Pays(webhook[w].reference, p)
      BY <1>3 DEF MarkInvoicePaid, IndInv, WebhooksKnown
    <2>2. i \in Invoices
      BY <2>1 DEF IndInv, RowsKnown
    <2>3. <<webhook[w].reference, i>> \in Funds
      BY <2>1, <2>2 DEF Funds
    <2>4. invoice' = [invoice EXCEPT ![i] = "paid"]
      BY <1>3 DEF MarkInvoicePaid, Written, InvoicePaid
    <2>5. i \notin Paid
      BY <1>3, <2>2, <2>4 DEF Paid, IndInv, TypeOK
    <2>6. Paid' = Paid \cup {i}
      BY <2>2, <2>4 DEF Paid, IndInv, TypeOK
    <2> QED BY <2>1, <2>2, <2>3, <2>5, <2>6
  <1> QED
    BY <1>1, <1>2, <1>3, NextCases
    DEF ReadInvoice, LookupPayment, InsertPayment, InsertPaymentFails, OpenAttempt,
        FinishAttempt, ReceiveNotice, UpdatePayment, InsertCredit, Crash, DueDatePasses, vars

LEMMA ContractStep ==
    ASSUME IndInv, [Next]_vars
    PROVE  [Contract!Next]_<<Funds, Paid>>
  <1>1. CASE \E a \in Attempts, p \in Payments : Pays(a, p)' /\ ~Pays(a, p)
    <2>1. PICK a \in Attempts, p \in Payments : Pays(a, p)' /\ ~Pays(a, p)
      BY <1>1
    <2>2. \E i \in Invoices : Contract!Capture(a, i)
      BY <2>1, FundsCaptured
    <2>3. Contract!Next
      BY <2>2 DEF Contract!Next
    <2> QED BY <2>3
  <1>2. CASE \A a \in Attempts, p \in Payments : Pays(a, p)' => Pays(a, p)
    <2>1. Funds' = Funds
      BY <1>2, FundsKept
    <2>2. ASSUME NEW i \in Invoices, i \notin Paid, Paid' = Paid \cup {i},
                 \E a \in Attempts : <<a, i>> \in Funds
          PROVE  Contract!Settle(i)
      BY <2>1, <2>2 DEF Contract!Settle, Funds, Paid
    <2> QED BY <2>1, <2>2, PaidStep DEF Contract!Next
  <1> QED BY <1>1, <1>2

\* The payment subsystem implements Settlement: a gateway captures, an invoice whose price
\* was captured is settled once and for ever, and nothing else happens to a paid invoice,
\* whatever overlaps, is lost or crashes.
THEOREM SettlementImplemented == Spec => ImplementsSettlement
  <1>1. IndInv /\ [Next]_vars => [Contract!Next]_<<Funds, Paid>>
    BY ContractStep
  <1>2. Contract!Spec <=> Contract!Init /\ [][Contract!Next]_<<Funds, Paid>>
    BY DEF Contract!Spec, Funds, Paid
  <1> QED BY ContractInit, Inductive, <1>1, <1>2, PTL DEF Spec, ImplementsSettlement

-----------------------------------------------------------------------------
(* One credit per payment, when the webhooks of a payment do not overlap   *)
(* and no write is lost.                                                   *)

LEMMA SerialInit == Init => Serial
  BY DEF Init, Serial, NoWebhook, CreditedOnce

\* Steps that touch no handler, no ledger row and no status of an inserted payment.
LEMMA SerialAside ==
    ASSUME IndInv, Serial, webhook' = webhook, credits' = credits,
           \A p \in Payments : payment'[p].status = payment[p].status
                                 \/ (~Exists(p) /\ payment'[p].status = "initiated")
    PROVE  Serial'
  <1>1. \A w \in Webhooks : webhook[w].pc # "idle" =>
           webhook[w].payment \in Payments /\ Exists(webhook[w].payment)
    BY DEF IndInv, WebhooksKnown
  <1>2. \A w \in Webhooks : webhook[w].pc # "idle" =>
           payment'[webhook[w].payment].status = payment[webhook[w].payment].status
    BY <1>1
  <1>3. \A p \in Payments : payment'[p].status # "success" => payment[p].status # "success"
    BY DEF Exists
  <1> QED BY <1>2, <1>3 DEF Serial, CreditedOnce, AlreadyProcessed

\* Handlers only finish, one step at a time.
LEMMA AdvanceSerial ==
    ASSUME IndInv, NEW w \in Webhooks, NEW pc, Advance(w, pc)
    PROVE  /\ \A v \in Webhooks : v # w => webhook'[v] = webhook[v]
           /\ pc = "idle" => webhook'[w].pc = "idle"
           /\ pc # "idle" => webhook'[w].pc = pc /\ webhook'[w].payment = webhook[w].payment
  <1>1. \A v \in Webhooks : v # w => webhook'[v] = webhook[v]
    BY DEF Advance, IndInv, TypeOK
  <1>2. webhook[w] \in WebhookCall
    BY DEF IndInv, TypeOK
  <1>3. CASE pc = "idle"
    BY <1>1, <1>3 DEF Advance, NoWebhook, IndInv, TypeOK
  <1>4. CASE pc # "idle"
    <2>1. webhook'[w] = [webhook[w] EXCEPT !.pc = pc]
      BY <1>4 DEF Advance, IndInv, TypeOK
    <2>2. webhook'[w].pc = pc /\ webhook'[w].payment = webhook[w].payment
      BY <2>1, <1>2 DEF WebhookCall
    <2> QED BY <1>1, <1>4, <2>2
  <1> QED BY <1>3, <1>4

LEMMA SerialInd ==
    ASSUME IndInv, SerialWrites, Serial, [Next]_vars
    PROVE  Serial'
  <1>1. ASSUME NEW n \in Intents, InsertPayment(n)
        PROVE  Serial'
    <2>1. PICK q \in Payments : InsertPayment(n)!2!(q)
      BY <1>1 DEF InsertPayment
    <2>2. \A p \in Payments : payment'[p].status = payment[p].status
                                 \/ (~Exists(p) /\ payment'[p].status = "initiated")
      BY <2>1 DEF IndInv, TypeOK
    <2> QED BY <1>1, <2>2, SerialAside DEF InsertPayment
  <1>2. ASSUME NEW w \in Webhooks, NEW a \in Attempts, NEW code \in Codes(a),
               ReceiveNotice(w, a, code)
        PROVE  Serial'
    <2> DEFINE p == attempt[a].payment
    <2>1. webhook'[w].pc = "payment" /\ webhook'[w].payment = p
          /\ \A v \in Webhooks : v # w => webhook'[v] = webhook[v]
      BY <1>2 DEF ReceiveNotice, IndInv, TypeOK
    <2>2. \A v \in Webhooks : webhook[v].pc # "idle" => webhook[v].payment # p
      BY <1>2 DEF ReceiveNotice, SerialWrites, Running
    <2>3. ~AlreadyProcessed(p) /\ payment' = payment /\ credits' = credits
      BY <1>2 DEF ReceiveNotice
    <2> QED BY <2>1, <2>2, <2>3 DEF Serial, CreditedOnce, AlreadyProcessed
  <1>3. ASSUME NEW w \in Webhooks, UpdatePayment(w)
        PROVE  Serial'
    <2> DEFINE p == webhook[w].payment
               next == IF webhook[w].status = "success" THEN "invoice" ELSE "idle"
    <2>1. webhook[w].pc = "payment" /\ credits' = credits
      BY <1>3 DEF UpdatePayment
    <2>2. p \in Payments /\ payment[p].status # "success" /\ credits[p] = 0
      BY <2>1 DEF IndInv, WebhooksKnown, Serial, AlreadyProcessed, FinalStatuses
    <2>3. payment'[p].status = webhook[w].status
          /\ \A q \in Payments : q # p => payment'[q].status = payment[q].status
      BY <1>3, <2>2 DEF UpdatePayment, Written, SerialWrites, IndInv, TypeOK, PaymentRow
    <2>4. /\ \A v \in Webhooks : v # w => webhook'[v] = webhook[v]
          /\ next = "idle" => webhook'[w].pc = "idle"
          /\ next # "idle" => webhook'[w].pc = next /\ webhook'[w].payment = p
      BY <1>3, AdvanceSerial DEF UpdatePayment
    <2>5. \A v \in Webhooks : v # w /\ webhook[v].pc # "idle" =>
             webhook[v].payment \in Payments /\ webhook[v].payment # p
      BY <2>1 DEF IndInv, WebhooksKnown, Serial
    <2> QED BY <2>1, <2>2, <2>3, <2>4, <2>5 DEF Serial, CreditedOnce, AlreadyProcessed
  <1>4. ASSUME NEW w \in Webhooks, MarkInvoicePaid(w)
        PROVE  Serial'
    <2>1. webhook[w].pc = "invoice" /\ credits' = credits /\ payment' = payment
      BY <1>4 DEF MarkInvoicePaid
    <2>2. /\ \A v \in Webhooks : v # w => webhook'[v] = webhook[v]
          /\ webhook'[w].pc = "credit" /\ webhook'[w].payment = webhook[w].payment
      BY <1>4, AdvanceSerial DEF MarkInvoicePaid
    <2> QED BY <2>1, <2>2 DEF Serial, CreditedOnce, AlreadyProcessed
  <1>5. ASSUME NEW w \in Webhooks, InsertCredit(w)
        PROVE  Serial'
    <2> DEFINE p == webhook[w].payment
    <2>1. webhook[w].pc = "credit" /\ payment' = payment
      BY <1>5 DEF InsertCredit
    <2>2. p \in Payments /\ payment[p].status = "success" /\ credits[p] = 0
      BY <2>1 DEF IndInv, WebhooksKnown, Serial
    <2>3. credits' = [credits EXCEPT ![p] = @ + 1]
      BY <1>5 DEF InsertCredit, Written, SerialWrites
    <2>4. credits'[p] = 1 /\ \A q \in Payments : q # p => credits'[q] = credits[q]
      BY <2>2, <2>3 DEF IndInv, TypeOK
    <2>5. (\A v \in Webhooks : v # w => webhook'[v] = webhook[v]) /\ webhook'[w].pc = "idle"
      BY <1>5, AdvanceSerial DEF InsertCredit
    <2>6. \A v \in Webhooks : v # w /\ webhook[v].pc # "idle" =>
             webhook[v].payment \in Payments /\ webhook[v].payment # p
      BY <2>1 DEF IndInv, WebhooksKnown, Serial
    <2> QED BY <2>1, <2>2, <2>4, <2>5, <2>6 DEF Serial, CreditedOnce, AlreadyProcessed
  <1>6. CASE Crash
    BY <1>6 DEF Crash, NoWebhook, Serial, CreditedOnce
  <1>7. ASSUME UNCHANGED <<webhook, credits, payment>>
        PROVE  Serial'
    BY <1>7, SerialAside
  <1> QED
    BY <1>1, <1>2, <1>3, <1>4, <1>5, <1>6, <1>7, NextCases
    DEF ReadInvoice, LookupPayment, InsertPaymentFails, OpenAttempt, FinishAttempt,
        DueDatePasses, UpdateOverdueInvoices, vars

\* As long as webhooks of one payment never overlap and every write succeeds, the
\* 'already_processed' check is enough: duplicates in sequence, second transactions on the
\* same payment and crashes between the writes never book a payment's money twice.
THEOREM SerialWebhooksCreditOnce == Spec => []SerialCreditsOnce
  <1> DEFINE Inv == SerialWrites => Serial
  <1>1. Init => Inv
    BY SerialInit
  <1>2. IndInv /\ Inv /\ [Next]_vars => Inv'
    <2> SUFFICES ASSUME IndInv, SerialWrites => Serial, [Next]_vars, SerialWrites'
                 PROVE  Serial'
      OBVIOUS
    <2>1. SerialWrites
      BY AllowedStays DEF SerialWrites, Overlap, WritesMayFail
    <2> QED BY <2>1, SerialInd
  <1>3. Inv => SerialCreditsOnce
    BY DEF Serial, SerialCreditsOnce
  <1> QED BY <1>1, <1>2, <1>3, Inductive, PTL DEF Spec

\* Nothing is settled without captured money: neither an invoice nor a payment, whatever
\* overlaps, is lost or crashes.
THEOREM NothingSettledUncaptured == Spec => []MoneyWasCaptured
  BY PaidInvoicesWereCaptured, CreditsWereCaptured, PTL DEF MoneyWasCaptured
-----------------------------------------------------------------------------
(* The three writes of a success, where none of them is lost and no        *)
(* process has died.                                                       *)

\* A handler about to book the credit has marked the invoice; a success whose invoice or
\* credit is missing has a handler on the way to it.
Settled(p) == invoice[payment[p].invoice] = "paid" /\ credits[p] > 0
OnItsWay(p) ==
    \E w \in Webhooks : webhook[w].pc \in {"invoice", "credit"} /\ webhook[w].payment = p
Settling ==
    /\ \A w \in Webhooks : webhook[w].pc = "credit" =>
          invoice[payment[webhook[w].payment].invoice] = "paid"
    /\ \A p \in Payments : payment[p].status = "success" => Settled(p) \/ OnItsWay(p)

\* A paid invoice stays paid, and a booked credit stays booked.
LEMMA SettledStays ==
    ASSUME IndInv, [Next]_vars
    PROVE  /\ \A i \in Invoices : invoice[i] = "paid" => invoice'[i] = "paid"
           /\ \A p \in Payments : credits[p] > 0 => credits'[p] > 0
  <1>1. CASE UNCHANGED <<invoice, credits>>
    BY <1>1
  <1>2. ASSUME NEW w \in Webhooks, MarkInvoicePaid(w)
        PROVE  /\ \A i \in Invoices : invoice[i] = "paid" => invoice'[i] = "paid"
               /\ \A p \in Payments : credits[p] > 0 => credits'[p] > 0
    BY <1>2 DEF MarkInvoicePaid, Written, InvoicePaid, IndInv, TypeOK
  <1>3. ASSUME NEW w \in Webhooks, InsertCredit(w)
        PROVE  /\ \A i \in Invoices : invoice[i] = "paid" => invoice'[i] = "paid"
               /\ \A p \in Payments : credits[p] > 0 => credits'[p] > 0
    BY <1>3 DEF InsertCredit, Written, IndInv, TypeOK
  <1>4. CASE UpdateOverdueInvoices
    BY <1>4 DEF UpdateOverdueInvoices, BecomesOverdue
  <1> QED
    BY <1>1, <1>2, <1>3, <1>4, NextCases
    DEF ReadInvoice, LookupPayment, InsertPayment, InsertPaymentFails, OpenAttempt,
        FinishAttempt, ReceiveNotice, UpdatePayment, Crash, DueDatePasses, vars

\* What holds of a settled payment, and of a handler that does not move, goes on to hold.
LEMMA SettlingStays ==
    ASSUME IndInv, Settling, [Next]_vars
    PROVE  /\ \A p \in Payments : Exists(p) /\ Settled(p) => Settled(p)'
           /\ \A w \in Webhooks : webhook[w].pc = "credit" /\ webhook'[w] = webhook[w] =>
                 invoice'[payment'[webhook[w].payment].invoice] = "paid"
  <1>1. \A p \in Payments : Exists(p) =>
           payment[p].invoice \in Invoices /\ payment'[p].invoice = payment[p].invoice
    BY RowsStay DEF IndInv, RowsKnown
  <1>2. \A p \in Payments : Exists(p) /\ Settled(p) => Settled(p)'
    BY <1>1, SettledStays DEF Settled
  <1>3. \A w \in Webhooks : webhook[w].pc = "credit" =>
           webhook[w].payment \in Payments /\ Exists(webhook[w].payment)
    BY DEF IndInv, WebhooksKnown
  <1> QED BY <1>1, <1>2, <1>3, SettledStays DEF Settling

\* Steps that touch no handler and make no payment a success.
LEMMA SettlingAside ==
    ASSUME IndInv, Settling, [Next]_vars, webhook' = webhook,
           \A p \in Payments : payment'[p].status = "success" => payment[p].status = "success"
    PROVE  Settling'
  <1>1. \A p \in Payments : payment[p].status = "success" => Exists(p)
    BY DEF Exists
  <1> QED BY <1>1, SettlingStays DEF Settling, OnItsWay

LEMMA SettlingInd ==
    ASSUME IndInv, ~WritesMayFail, Settling, [Next]_vars, ~Crash
    PROVE  Settling'
  <1>0. \A p \in Payments : payment[p].status = "success" => Exists(p)
    BY DEF Exists
  <1>1. ASSUME NEW n \in Intents, InsertPayment(n)
        PROVE  Settling'
    <2>1. PICK q \in Payments : InsertPayment(n)!2!(q)
      BY <1>1 DEF InsertPayment
    <2>2. \A p \in Payments : payment'[p].status = "success" => payment[p].status = "success"
      BY <2>1 DEF IndInv, TypeOK
    <2> QED BY <1>1, <2>2, SettlingAside DEF InsertPayment
  <1>2. ASSUME NEW w \in Webhooks, NEW a \in Attempts, NEW code \in Codes(a),
               ReceiveNotice(w, a, code)
        PROVE  Settling'
    <2>1. /\ webhook[w].pc = "idle" /\ webhook'[w].pc = "payment"
          /\ \A v \in Webhooks : v # w => webhook'[v] = webhook[v]
          /\ payment' = payment
      BY <1>2 DEF ReceiveNotice, IndInv, TypeOK
    <2>2. \A p \in Payments : OnItsWay(p) => OnItsWay(p)'
      BY <2>1 DEF OnItsWay
    <2>3. ASSUME NEW v \in Webhooks, webhook'[v].pc = "credit"
          PROVE  invoice'[payment'[webhook'[v].payment].invoice] = "paid"
      <3>1. v # w /\ webhook'[v] = webhook[v]
        BY <2>1, <2>3
      <3> QED BY <2>3, <3>1, SettlingStays
    <2> QED BY <1>0, <2>1, <2>2, <2>3, SettlingStays DEF Settling
  <1>3. ASSUME NEW w \in Webhooks, UpdatePayment(w)
        PROVE  Settling'
    <2> DEFINE next == IF webhook[w].status = "success" THEN "invoice" ELSE "idle"
    <2>0. PICK p \in Payments : p = webhook[w].payment
      BY <1>3 DEF UpdatePayment, IndInv, WebhooksKnown
    <2>1. webhook[w].pc = "payment"
      BY <1>3 DEF UpdatePayment
    <2>2. /\ payment'[p].status = webhook[w].status
          /\ \A q \in Payments : q # p => payment'[q].status = payment[q].status
      BY <1>3, <2>0 DEF UpdatePayment, Written, IndInv, TypeOK, PaymentRow
    <2>3. /\ \A v \in Webhooks : v # w => webhook'[v] = webhook[v]
          /\ next = "idle" => webhook'[w].pc = "idle"
          /\ next # "idle" => webhook'[w].pc = next /\ webhook'[w].payment = p
      BY <1>3, <2>0, AdvanceSerial DEF UpdatePayment
    <2>4. \A q \in Payments : OnItsWay(q) => OnItsWay(q)'
      BY <2>1, <2>3 DEF OnItsWay
    <2>5. webhook[w].status = "success" => OnItsWay(p)'
      BY <2>3 DEF OnItsWay
    <2>6. ASSUME NEW v \in Webhooks, webhook'[v].pc = "credit"
          PROVE  invoice'[payment'[webhook'[v].payment].invoice] = "paid"
      <3>1. v # w /\ webhook'[v] = webhook[v]
        BY <2>3, <2>6
      <3> QED BY <2>6, <3>1, SettlingStays
    <2>7. ASSUME NEW q \in Payments, payment'[q].status = "success"
          PROVE  Settled(q)' \/ OnItsWay(q)'
      <3>1. CASE q = p
        BY <2>2, <2>5, <2>7, <3>1
      <3>2. CASE q # p
        <4>1. payment[q].status = "success" /\ Exists(q)
          BY <1>0, <2>2, <2>7, <3>2
        <4>2. Settled(q) \/ OnItsWay(q)
          BY <4>1 DEF Settling
        <4> QED BY <2>4, <4>1, <4>2, SettlingStays
      <3> QED BY <3>1, <3>2
    <2> QED BY <2>6, <2>7 DEF Settling
  <1>4. ASSUME NEW w \in Webhooks, MarkInvoicePaid(w)
        PROVE  Settling'
    <2> DEFINE p == webhook[w].payment
    <2>1. /\ webhook[w].pc = "invoice" /\ payment' = payment
          /\ p \in Payments /\ payment[p].invoice \in Invoices
      BY <1>4 DEF MarkInvoicePaid, IndInv, WebhooksKnown, RowsKnown
    <2>2. invoice'[payment[p].invoice] = "paid"
      BY <1>4, <2>1 DEF MarkInvoicePaid, Written, InvoicePaid, IndInv, TypeOK
    <2>3. /\ \A v \in Webhooks : v # w => webhook'[v] = webhook[v]
          /\ webhook'[w].pc = "credit" /\ webhook'[w].payment = p
      BY <1>4, AdvanceSerial DEF MarkInvoicePaid
    <2>4. \A q \in Payments : OnItsWay(q) => OnItsWay(q)'
      BY <2>3 DEF OnItsWay
    <2>5. ASSUME NEW v \in Webhooks, webhook'[v].pc = "credit"
          PROVE  invoice'[payment'[webhook'[v].payment].invoice] = "paid"
      BY <2>1, <2>2, <2>3, <2>5, SettlingStays
    <2> QED BY <1>0, <2>1, <2>4, <2>5, SettlingStays DEF Settling
  <1>5. ASSUME NEW w \in Webhooks, InsertCredit(w)
        PROVE  Settling'
    <2>0. PICK p \in Payments : p = webhook[w].payment
      BY <1>5 DEF InsertCredit, IndInv, WebhooksKnown
    <2>1. /\ webhook[w].pc = "credit" /\ payment' = payment /\ invoice' = invoice
          /\ invoice[payment[p].invoice] = "paid"
      BY <1>5, <2>0 DEF InsertCredit, Settling
    <2>2. credits'[p] > 0
      BY <1>5, <2>0 DEF InsertCredit, Written, IndInv, TypeOK
    <2>3. (\A v \in Webhooks : v # w => webhook'[v] = webhook[v]) /\ webhook'[w].pc = "idle"
      BY <1>5, AdvanceSerial DEF InsertCredit
    <2>4. Settled(p)'
      BY <2>1, <2>2 DEF Settled
    <2>5. ASSUME NEW q \in Payments, q # p, OnItsWay(q)
          PROVE  OnItsWay(q)'
      BY <2>0, <2>3, <2>5 DEF OnItsWay
    <2>6. ASSUME NEW v \in Webhooks, webhook'[v].pc = "credit"
          PROVE  invoice'[payment'[webhook'[v].payment].invoice] = "paid"
      <3>1. v # w /\ webhook'[v] = webhook[v]
        BY <2>3, <2>6
      <3> QED BY <2>6, <3>1, SettlingStays
    <2>7. ASSUME NEW q \in Payments, payment'[q].status = "success"
          PROVE  Settled(q)' \/ OnItsWay(q)'
      <3>1. payment[q].status = "success" /\ Exists(q)
        BY <1>0, <2>1, <2>7
      <3>2. Settled(q) \/ OnItsWay(q)
        BY <3>1 DEF Settling
      <3> QED BY <2>4, <2>5, <3>1, <3>2, SettlingStays
    <2> QED BY <2>6, <2>7 DEF Settling
  <1>6. ASSUME UNCHANGED <<webhook, payment>>
        PROVE  Settling'
    BY <1>6, SettlingAside
  <1> QED
    BY <1>1, <1>2, <1>3, <1>4, <1>5, <1>6, NextCases
    DEF ReadInvoice, LookupPayment, InsertPaymentFails, OpenAttempt, FinishAttempt,
        DueDatePasses, UpdateOverdueInvoices, vars

\* No interleaving of handlers, however they overlap, loses one of the three writes of a
\* success: once no handler is at work on it, its invoice is paid and its credit is booked.
THEOREM SuccessesAreSettled == Spec => []SuccessIsSettled
  <1> DEFINE Inv == ~WritesMayFail /\ crashes = 0 => Settling
  <1>1. Init => Inv
    BY DEF Init, Settling, NoWebhook
  <1>2. IndInv /\ Inv /\ [Next]_vars => Inv'
    <2> SUFFICES ASSUME IndInv, Inv, [Next]_vars, ~WritesMayFail', crashes' = 0
                 PROVE  Settling'
      OBVIOUS
    <2>1. ~WritesMayFail
      BY AllowedStays DEF WritesMayFail
    <2>2. ~Crash /\ crashes = 0
      <3>1. crashes' = crashes \/ crashes' = crashes + 1
        BY NextCases
        DEF ReadInvoice, LookupPayment, InsertPayment, InsertPaymentFails, OpenAttempt,
            FinishAttempt, ReceiveNotice, UpdatePayment, MarkInvoicePaid, InsertCredit, Crash,
            DueDatePasses, UpdateOverdueInvoices, vars
      <3>2. crashes \in Nat
        BY DEF IndInv, TypeOK
      <3> QED BY <3>1, <3>2 DEF Crash
    <2> QED BY <2>1, <2>2, SettlingInd
  <1>3. Inv => SuccessIsSettled
    BY DEF Settling, Settled, OnItsWay, SuccessIsSettled, Running
  <1> QED BY <1>1, <1>2, <1>3, Inductive, PTL DEF Spec

-----------------------------------------------------------------------------
(* Outcomes that stay, when the webhooks of a payment do not overlap.      *)

\* One handler of a payment at a time: the outcome is still open when it is written.
OneHandler ==
    /\ \A v, w \in Webhooks :
          webhook[v].pc # "idle" /\ webhook[w].pc # "idle"
            /\ webhook[v].payment = webhook[w].payment => v = w
    /\ \A w \in Webhooks : webhook[w].pc = "payment" => ~AlreadyProcessed(webhook[w].payment)

\* Steps that touch no handler and settle no payment.
LEMMA HandlerAside ==
    ASSUME IndInv, OneHandler, webhook' = webhook,
           \A p \in Payments : payment'[p].status = payment[p].status
                                 \/ (~Exists(p) /\ payment'[p].status = "initiated")
    PROVE  OneHandler'
  <1>1. \A w \in Webhooks : webhook[w].pc # "idle" =>
           payment'[webhook[w].payment].status = payment[webhook[w].payment].status
    BY DEF IndInv, WebhooksKnown
  <1> QED BY <1>1 DEF OneHandler, AlreadyProcessed

\* Nor do steps that only take a handler on, or end it.
LEMMA HandlerAdvances ==
    ASSUME IndInv, OneHandler, NEW w \in Webhooks, webhook[w].pc # "idle",
           NEW pc \in {"idle", "invoice", "credit"}, Advance(w, pc),
           \A q \in Payments : q # webhook[w].payment => payment'[q].status = payment[q].status
    PROVE  OneHandler'
  <1> DEFINE p == webhook[w].payment
  <1>1. /\ \A v \in Webhooks : v # w => webhook'[v] = webhook[v]
        /\ pc = "idle" => webhook'[w].pc = "idle"
        /\ pc # "idle" => webhook'[w].pc = pc /\ webhook'[w].payment = p
    BY AdvanceSerial
  <1>2. \A v \in Webhooks : v # w /\ webhook[v].pc # "idle" =>
           /\ webhook[v].payment \in Payments /\ webhook[v].payment # p
           /\ payment'[webhook[v].payment].status = payment[webhook[v].payment].status
    BY DEF IndInv, WebhooksKnown, OneHandler
  <1>3. webhook'[w].pc # "payment"
    BY <1>1
  <1> QED BY <1>1, <1>2, <1>3 DEF OneHandler, AlreadyProcessed

LEMMA OneHandlerInd ==
    ASSUME IndInv, ~Overlap, OneHandler, [Next]_vars
    PROVE  OneHandler'
  <1>1. ASSUME NEW n \in Intents, InsertPayment(n)
        PROVE  OneHandler'
    <2>1. PICK q \in Payments : InsertPayment(n)!2!(q)
      BY <1>1 DEF InsertPayment
    <2>2. \A p \in Payments : payment'[p].status = payment[p].status
                                 \/ (~Exists(p) /\ payment'[p].status = "initiated")
      BY <2>1 DEF IndInv, TypeOK
    <2> QED BY <1>1, <2>2, HandlerAside DEF InsertPayment
  <1>2. ASSUME NEW w \in Webhooks, NEW a \in Attempts, NEW code \in Codes(a),
               ReceiveNotice(w, a, code)
        PROVE  OneHandler'
    <2> DEFINE p == attempt[a].payment
    <2>1. webhook'[w].pc = "payment" /\ webhook'[w].payment = p
          /\ \A v \in Webhooks : v # w => webhook'[v] = webhook[v]
      BY <1>2 DEF ReceiveNotice, IndInv, TypeOK
    <2>2. \A v \in Webhooks : webhook[v].pc # "idle" => webhook[v].payment # p
      BY <1>2 DEF ReceiveNotice, Running
    <2>3. ~AlreadyProcessed(p) /\ payment' = payment
      BY <1>2 DEF ReceiveNotice
    <2> QED BY <2>1, <2>2, <2>3 DEF OneHandler, AlreadyProcessed
  <1>3. ASSUME NEW w \in Webhooks, UpdatePayment(w)
        PROVE  OneHandler'
    <2>1. \A q \in Payments : q # webhook[w].payment => payment'[q].status = payment[q].status
      BY <1>3 DEF UpdatePayment, Written, IndInv, TypeOK
    <2> QED BY <1>3, <2>1, HandlerAdvances DEF UpdatePayment
  <1>4. ASSUME NEW w \in Webhooks, MarkInvoicePaid(w)
        PROVE  OneHandler'
    BY <1>4, HandlerAdvances DEF MarkInvoicePaid
  <1>5. ASSUME NEW w \in Webhooks, InsertCredit(w)
        PROVE  OneHandler'
    BY <1>5, HandlerAdvances DEF InsertCredit
  <1>6. CASE Crash
    BY <1>6 DEF Crash, NoWebhook, OneHandler
  <1>7. ASSUME UNCHANGED <<webhook, payment>>
        PROVE  OneHandler'
    BY <1>7, HandlerAside
  <1> QED
    BY <1>1, <1>2, <1>3, <1>4, <1>5, <1>6, <1>7, NextCases
    DEF ReadInvoice, LookupPayment, InsertPaymentFails, OpenAttempt, FinishAttempt,
        DueDatePasses, UpdateOverdueInvoices, vars

LEMMA HandlersAreSerial == Spec => [](~Overlap => OneHandler)
  <1> DEFINE Inv == ~Overlap => OneHandler
  <1>1. Init => Inv
    BY DEF Init, OneHandler, NoWebhook
  <1>2. IndInv /\ Inv /\ [Next]_vars => Inv'
    <2> SUFFICES ASSUME IndInv, Inv, [Next]_vars, ~Overlap'
                 PROVE  OneHandler'
      OBVIOUS
    <2> QED BY AllowedStays, OneHandlerInd DEF Overlap
  <1> QED BY <1>1, <1>2, Inductive, PTL DEF Spec

\* The status of a payment that has its outcome is not written any more.
LEMMA OutcomeStays ==
    ASSUME IndInv, OneHandler, [Next]_vars, NEW p \in Payments, AlreadyProcessed(p)
    PROVE  payment'[p].status = payment[p].status
  <1>1. ASSUME NEW n \in Intents, InsertPayment(n)
        PROVE  payment'[p].status = payment[p].status
    <2>1. PICK q \in Payments : InsertPayment(n)!2!(q)
      BY <1>1 DEF InsertPayment
    <2> QED BY <2>1 DEF IndInv, TypeOK, AlreadyProcessed, FinalStatuses, Exists
  <1>2. ASSUME NEW w \in Webhooks, UpdatePayment(w)
        PROVE  payment'[p].status = payment[p].status
    <2>1. webhook[w].payment # p
      BY <1>2 DEF UpdatePayment, OneHandler
    <2> QED BY <1>2, <2>1 DEF UpdatePayment, Written, IndInv, TypeOK
  <1> QED
    BY <1>1, <1>2, NextCases
    DEF ReadInvoice, LookupPayment, InsertPaymentFails, OpenAttempt, FinishAttempt,
        ReceiveNotice, MarkInvoicePaid, InsertCredit, Crash, DueDatePasses,
        UpdateOverdueInvoices, vars

\* While the webhooks of a payment do not overlap, no late, repeated or contradicting notice
\* overwrites the outcome the payment has, even if writes are lost and processes die.
THEOREM OutcomesAreStable == Spec => OutcomeIsStable
  <1> DEFINE Stable == ~Overlap => \A p \in Payments : payment[p].status \in FinalStatuses =>
                          payment'[p].status = payment[p].status
  <1>1. IndInv /\ (~Overlap => OneHandler) /\ [Next]_vars => [Stable]_vars
    BY OutcomeStays DEF AlreadyProcessed
  <1> QED BY <1>1, HandlersAreSerial, Inductive, PTL DEF Spec, OutcomeIsStable

-----------------------------------------------------------------------------
(* One open payment, when neither webhooks nor intents overlap.            *)

\* One intent of an invoice and gateway at a time: none is open where one is inserted.
InIntent(n) == intent[n].pc \in {"lookup", "insert"}
SameIntent(m, n) ==
    intent[m].invoice = intent[n].invoice /\ intent[m].gateway = intent[n].gateway
IntentsApart ==
    \A m, n \in Intents : InIntent(m) /\ InIntent(n) /\ SameIntent(m, n) => m = n
InsertsFirst ==
    \A n \in Intents : intent[n].pc = "insert" =>
        OpenPayments(intent[n].invoice, intent[n].gateway) = {}
OneOpen ==
    \A i \in Invoices, g \in Gateways : \A p, q \in OpenPayments(i, g) : p = q
OneIntent == IntentsApart /\ InsertsFirst /\ OneOpen

\* A payment that exists keeps its invoice and its gateway, and is not opened again.
LEMMA OpenStays ==
    ASSUME IndInv, OneHandler, [Next]_vars, \A n \in Intents : ~InsertPayment(n), NEW i, NEW g
    PROVE  OpenPayments(i, g)' \subseteq OpenPayments(i, g)
  <1> SUFFICES ASSUME NEW p \in Payments, p \in OpenPayments(i, g)'
               PROVE  p \in OpenPayments(i, g)
    BY DEF OpenPayments
  <1>1. CASE payment' = payment
    BY <1>1 DEF OpenPayments, OfInvoice
  <1>2. ASSUME NEW w \in Webhooks, UpdatePayment(w)
        PROVE  p \in OpenPayments(i, g)
    <2>1. webhook[w].payment \in Payments /\ ~AlreadyProcessed(webhook[w].payment)
          /\ Exists(webhook[w].payment)
      BY <1>2 DEF UpdatePayment, OneHandler, IndInv, WebhooksKnown
    <2>2. payment[webhook[w].payment].status \in OpenStatuses
      BY <2>1 DEF IndInv, TypeOK, PaymentRow, PaymentStatuses, AlreadyProcessed, Exists
    <2>3. /\ payment'[p].invoice = payment[p].invoice /\ payment'[p].gateway = payment[p].gateway
          /\ p # webhook[w].payment => payment'[p].status = payment[p].status
      BY <1>2, <2>1 DEF UpdatePayment, Written, IndInv, TypeOK, PaymentRow
    <2> QED BY <2>2, <2>3 DEF OpenPayments, OfInvoice
  <1> QED
    BY <1>1, <1>2, NextCases
    DEF ReadInvoice, LookupPayment, InsertPaymentFails, OpenAttempt, FinishAttempt,
        ReceiveNotice, MarkInvoicePaid, InsertCredit, Crash, DueDatePasses,
        UpdateOverdueInvoices, vars

\* A step that opens no payment keeps what is known of the open ones, as long as the
\* intents it leaves about to insert were so before.
LEMMA IntentsWait ==
    ASSUME IndInv, OneHandler, OneIntent, [Next]_vars, \A n \in Intents : ~InsertPayment(n),
           \A n \in Intents :
              /\ InIntent(n)' => InIntent(n) /\ intent'[n].invoice = intent[n].invoice
                                             /\ intent'[n].gateway = intent[n].gateway
              /\ intent'[n].pc = "insert" =>
                    OpenPayments(intent[n].invoice, intent[n].gateway) = {}
    PROVE  OneIntent'
  <1>1. IntentsApart'
    BY DEF OneIntent, IntentsApart, SameIntent
  <1>2. InsertsFirst'
    <2> SUFFICES ASSUME NEW n \in Intents, intent'[n].pc = "insert"
                 PROVE  OpenPayments(intent[n].invoice, intent[n].gateway)' = {}
      BY DEF InsertsFirst
    <2>1. PICK i, g : i = intent[n].invoice /\ g = intent[n].gateway
      OBVIOUS
    <2>2. intent'[n].invoice = i /\ intent'[n].gateway = g
      BY <2>1 DEF InIntent
    <2>3. OpenPayments(i, g)' = {}
      BY <2>1, OpenStays
    <2> QED BY <2>2, <2>3 DEF OpenPayments, OfInvoice
  <1>3. OneOpen'
    BY OpenStays DEF OneIntent, OneOpen
  <1> QED BY <1>1, <1>2, <1>3 DEF OneIntent

LEMMA ReadKeepsOneIntent ==
    ASSUME IndInv, OneIntent, ~OverlapIntents,
           NEW n \in Intents, NEW i \in Invoices, NEW g \in Gateways, ReadInvoice(n, i, g)
    PROVE  OneIntent'
  <1>1. /\ intent'[n].pc \in {"lookup", "rejected"}
        /\ intent'[n].invoice = i /\ intent'[n].gateway = g
        /\ \A m \in Intents : m # n => intent'[m] = intent[m]
        /\ payment' = payment
    BY DEF ReadInvoice, IndInv, TypeOK
  <1>2. \A m \in Intents : InIntent(m) => ~(intent[m].invoice = i /\ intent[m].gateway = g)
    BY DEF ReadInvoice, IntentRunning, InIntent
  <1>3. IntentsApart'
    BY <1>1, <1>2 DEF OneIntent, IntentsApart, InIntent, SameIntent
  <1>4. InsertsFirst'
    <2> SUFFICES ASSUME NEW m \in Intents, intent'[m].pc = "insert"
                 PROVE  OpenPayments(intent[m].invoice, intent[m].gateway)' = {}
      BY DEF InsertsFirst
    <2>1. m # n /\ intent'[m] = intent[m]
      BY <1>1
    <2>2. OpenPayments(intent[m].invoice, intent[m].gateway) = {}
      BY <2>1 DEF OneIntent, InsertsFirst
    <2> QED BY <1>1, <2>1, <2>2 DEF OpenPayments, OfInvoice
  <1>5. OneOpen'
    BY <1>1 DEF OneIntent, OneOpen, OpenPayments, OfInvoice
  <1> QED BY <1>3, <1>4, <1>5 DEF OneIntent

\* The row inserted is the only one open for its invoice and gateway.
LEMMA InsertKeepsOneIntent ==
    ASSUME IndInv, OneIntent, NEW n \in Intents, InsertPayment(n)
    PROVE  OneIntent'
  <1>1. PICK q \in Payments : InsertPayment(n)!2!(q)
    BY DEF InsertPayment
  <1>2. PICK i, g : i = intent[n].invoice /\ g = intent[n].gateway
    OBVIOUS
  <1>3. /\ payment'[q].invoice = i /\ payment'[q].gateway = g
        /\ \A p \in Payments : p # q => payment'[p] = payment[p]
    BY <1>1, <1>2 DEF IndInv, TypeOK
  <1>4. /\ intent'[n].pc = "redirected"
        /\ \A m \in Intents : m # n => intent'[m] = intent[m]
    BY <1>1 DEF IndInv, TypeOK, IntentCall
  <1>5. intent[n].pc = "insert" /\ OpenPayments(i, g) = {}
    BY <1>2 DEF InsertPayment, OneIntent, InsertsFirst
  <1>6. OpenPayments(i, g)' \subseteq {q}
    <2> SUFFICES ASSUME NEW p \in OpenPayments(i, g)', p # q
                 PROVE  p \in OpenPayments(i, g)
      BY <1>5
    <2> QED BY <1>3 DEF OpenPayments, OfInvoice
  <1>7. ASSUME NEW j, NEW h, ~(j = i /\ h = g)
        PROVE  OpenPayments(j, h)' \subseteq OpenPayments(j, h)
    BY <1>3, <1>7 DEF OpenPayments, OfInvoice
  <1>8. IntentsApart'
    BY <1>4 DEF OneIntent, IntentsApart, InIntent, SameIntent
  <1>9. InsertsFirst'
    <2> SUFFICES ASSUME NEW m \in Intents, intent'[m].pc = "insert"
                 PROVE  OpenPayments(intent[m].invoice, intent[m].gateway)' = {}
      BY DEF InsertsFirst
    <2>1. m # n /\ intent'[m] = intent[m]
      BY <1>4
    <2>2. PICK j, h : j = intent[m].invoice /\ h = intent[m].gateway
      OBVIOUS
    <2>3. ~(j = i /\ h = g)
      BY <1>2, <1>5, <2>1, <2>2 DEF OneIntent, IntentsApart, InIntent, SameIntent
    <2>4. OpenPayments(j, h) = {}
      BY <2>1, <2>2 DEF OneIntent, InsertsFirst
    <2>5. OpenPayments(j, h)' = {}
      BY <1>7, <2>3, <2>4
    <2> QED BY <2>1, <2>2, <2>5 DEF OpenPayments, OfInvoice
  <1>10. OneOpen'
    <2> SUFFICES ASSUME NEW j \in Invoices, NEW h \in Gateways
                 PROVE  \A p, r \in OpenPayments(j, h)' : p = r
      BY DEF OneOpen
    <2>1. CASE j = i /\ h = g
      BY <1>6, <2>1
    <2>2. CASE ~(j = i /\ h = g)
      BY <1>7, <2>2 DEF OneIntent, OneOpen
    <2> QED BY <2>1, <2>2
  <1> QED BY <1>8, <1>9, <1>10 DEF OneIntent

\* `.single()` leads to an insert only where no payment is open.
LEMMA LookupKeepsOneIntent ==
    ASSUME IndInv, OneHandler, OneIntent, [Next]_vars, \A m \in Intents : ~InsertPayment(m),
           NEW n \in Intents, LookupPayment(n)
    PROVE  OneIntent'
  <1> DEFINE open == OpenPayments(intent[n].invoice, intent[n].gateway)
  <1>1. intent[n].pc = "lookup" /\ intent[n] \in IntentCall
    BY DEF LookupPayment, IndInv, TypeOK
  <1>2. \A m \in Intents : m # n => intent'[m] = intent[m]
    BY DEF LookupPayment, IndInv, TypeOK
  <1>3. \/ intent'[n].pc = "redirected"
        \/ /\ intent'[n].invoice = intent[n].invoice /\ intent'[n].gateway = intent[n].gateway
           /\ \A p \in open : open # {p}
    BY <1>1 DEF LookupPayment, IndInv, TypeOK, IntentCall
  <1>4. \A p, q \in open : p = q
    BY <1>1 DEF OneIntent, OneOpen, IndInv, IntentsKnown
  <1>5. intent'[n].pc # "redirected" => open = {}
    BY <1>3, <1>4
  <1> HIDE DEF open
  <1>6. ASSUME NEW m \in Intents, InIntent(m)'
        PROVE  InIntent(m) /\ intent'[m].invoice = intent[m].invoice
                           /\ intent'[m].gateway = intent[m].gateway
    BY <1>1, <1>2, <1>3, <1>6 DEF InIntent
  <1>7. ASSUME NEW m \in Intents, intent'[m].pc = "insert"
        PROVE  OpenPayments(intent[m].invoice, intent[m].gateway) = {}
    BY <1>2, <1>5, <1>7 DEF OneIntent, InsertsFirst, open
  <1> QED BY <1>6, <1>7, IntentsWait

LEMMA OneIntentInd ==
    ASSUME IndInv, OneHandler, ~OverlapIntents, OneIntent, [Next]_vars
    PROVE  OneIntent'
  <1>1. CASE \E n \in Intents, i \in Invoices, g \in Gateways : ReadInvoice(n, i, g)
    BY <1>1, ReadKeepsOneIntent
  <1>2. CASE \E n \in Intents : InsertPayment(n)
    BY <1>2, InsertKeepsOneIntent
  <1>3. CASE \A n \in Intents : ~InsertPayment(n)
    <2> USE <1>3
    <2>1. ASSUME NEW n \in Intents, LookupPayment(n)
          PROVE  OneIntent'
      BY <2>1, LookupKeepsOneIntent
    <2>2. ASSUME UNCHANGED intent
          PROVE  OneIntent'
      BY <2>2, IntentsWait DEF OneIntent, InsertsFirst, InIntent
    <2>3. ASSUME NEW n \in Intents, InsertPaymentFails(n)
          PROVE  OneIntent'
      <3>1. intent'[n].pc = "rejected" /\ \A m \in Intents : m # n => intent'[m] = intent[m]
        BY <2>3 DEF InsertPaymentFails, IndInv, TypeOK, IntentCall
      <3> QED BY <3>1, IntentsWait DEF OneIntent, InsertsFirst, InIntent
    <2>4. CASE Crash
      <3>1. ASSUME NEW n \in Intents
            PROVE  ~InIntent(n)'
        <4>1. CASE intent[n].pc \in {"lookup", "insert"}
          <5>1. intent'[n] = [intent[n] EXCEPT !.pc = "rejected"] /\ intent[n] \in IntentCall
            BY <2>4, <4>1 DEF Crash, IndInv, TypeOK
          <5> QED BY <5>1 DEF InIntent, IntentCall
        <4>2. CASE intent[n].pc \notin {"lookup", "insert"}
          BY <2>4, <4>2 DEF Crash, InIntent
        <4> QED BY <4>1, <4>2
      <3> QED BY <3>1, IntentsWait DEF InIntent
    <2> QED
      BY <1>1, <2>1, <2>2, <2>3, <2>4, NextCases
      DEF OpenAttempt, FinishAttempt, ReceiveNotice, UpdatePayment, MarkInvoicePaid,
          InsertCredit, DueDatePasses, UpdateOverdueInvoices, vars
  <1> QED BY <1>2, <1>3

\* While neither webhooks nor intents overlap, an intent finds the payment that is open for
\* its invoice and gateway, for there is never a second one.
THEOREM OnePaymentIsOpen == Spec => []OneOpenPayment
  <1> DEFINE Inv == ~Overlap /\ ~OverlapIntents => OneIntent
  <1>1. Init => Inv
    BY DEF Init, OneIntent, IntentsApart, InsertsFirst, OneOpen, InIntent, OpenPayments,
           OpenStatuses
  <1>2. IndInv /\ (~Overlap => OneHandler) /\ Inv /\ [Next]_vars => Inv'
    <2> SUFFICES ASSUME IndInv, ~Overlap => OneHandler, Inv, [Next]_vars,
                        ~Overlap', ~OverlapIntents'
                 PROVE  OneIntent'
      OBVIOUS
    <2> QED BY AllowedStays, OneIntentInd DEF Overlap, OverlapIntents
  <1>3. Inv => OneOpenPayment
    BY DEF OneIntent, OneOpen, OpenPayments, OneOpenPayment
  <1> QED BY <1>1, <1>2, <1>3, HandlersAreSerial, Inductive, PTL DEF Spec
=============================================================================
