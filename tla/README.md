# NetAxis: models, checks and proofs

NetAxis is the operations platform of a fibre ISP: a NestJS backend
(`src/backend`), a RADIUS server in Python (`src/radius-service`), a FastAPI
service that drives OLTs (`src/network-service`), a PostgreSQL schema hosted by
Supabase (`src/supabase`) and a Next.js front end (`src/frontend`). The processes
share nothing but the database: no handler opens a transaction, holds a lock or
compares before it writes; every `await` on the Supabase client is a separate
HTTP round trip, and many of them ignore the `error` they return. What makes the
system correct is therefore what remains true when round trips of different
requests interleave, when one of several writes is lost, when a process dies
between two of them, and when gateways, OLTs and access servers answer late, twice,
in another order or not at all. That is what this directory models.

## 1. Inventory

Each row names a part of the system, the state it keeps, what is hard about it and
what makes it correct. `PROJECT.json` lists the parts with their files and status.

| Part | State | Hard behaviour | Correct when | Modelled in |
|---|---|---|---|---|
| payment (`backend/src/payment`) | `payments`, `invoices`, `transactions` | duplicated, late, reordered notices; overlapping requests; three writes without a transaction; crashes; amounts with a tolerance | nothing is paid or credited that no gateway captured; a payment is credited once; a success settles its invoice; an outcome is final | `Payments`, `Settlement` |
| dual approval (`ctdisr/approval-workflow.service.ts`) | approval requests and decisions | check then insert, verdict from a snapshot, failing reads taken for empty answers | nothing is approved without as many different approvers as asked for; every request is resolved | `Approval`, `DualApproval` |
| RADIUS authentication (`radius-service`) | `auth_logs`; reads `subscribers`, `invoices` | helpers turn exceptions into answers; state read early, used late | barred accounts are refused; guesses are bounded | `RadiusAuth` |
| RADIUS accounting | `radius_sessions`, `usage_logs` | loss, repetition, reordering, deaths, 32-bit counters | what was answered is stored; a row is true and closes for good | `RadiusAccounting`, `Metering` |
| kyc (`verisys`) | verifications, attempts, `customers` | overlapping verifications, two writers of one column, lost answers | who is shown as verified was confirmed; every outcome reaches the customer | `Kyc` |
| network service (`network-service`) | pool of OLT connections; the ONUs themselves | command timeouts, broken and shared connections, dialogues that stop half way | an answer is true and concerns only its ONU | `OltAccess` |
| subscriber administration (`admin`) | `customers.status`, audit rows | database and network disagree after a failed call; a failing check taken for a passed one | a suspended subscriber ends up throttled; nobody in arrears is resumed by finance (not so, see 5) | `SubscriberAccess` over `OltAccess` |
| support, notification | tickets, messages; `notification_logs` | status by an older read; delivery and log in two steps; failing look-ups | an answer is not left waiting; what is logged as sent was taken, and no message is left pending | `CustomerCare` |
| security events (`security-events.service.ts`) | buffer in memory, hash chain, `security_events` | failed inserts, overlapping flushes, death with a full buffer | a logged event is kept, then stored | `SecurityLog` |
| audit log, alerts, SIEM (`ctdisr/logging`) | forwarding queue; alert rules and history | lost answers, retries, revived entries, cached rules | sent was taken; given up only after the retries; a rule alerts once per cooldown | `AuditTrail` |
| access control (`ctdisr/access-control`) | sessions, actions, roles, JIT privileges | limits checked before they are taken, chains, failing queries, jobs | limits hold; no privilege without approval or past its end | `UserSessions`, `Privileges` |
| compliance core (guard, interceptor, `ctdisr.service.ts`) | policies with a cache, chain of violations | stale caches, failing inserts, several policies in one request, verification of the chain | what is forbidden is denied, what is breached is recorded, no false alarm | `PolicyGuard` |
| keys, certificates (`ctdisr/cryptography`) | keys with versions, cached materials; certificates | rotation under running requests, cached keys, a job that fails half way | a version opens what it sealed; keys due are rotated | `KeyLifecycle` |
| incidents, forensics (`ctdisr/incident-response`) | incidents, timeline, evidence, cases | read-check-write and a second row that tells of it | statuses follow their transitions; timeline and custody are true; nothing added is lost | `Incidents` |
| recovery, backup (`ctdisr/disaster-recovery`) | backups, points, plans, drills, failovers | three to four writes per completion, counters by older reads | what is shown is the latest; counters count | `Recovery` |
| vendors (`ctdisr/vendor-security`) | vendor, contracts, permissions, assessments | status checks by older reads; suspension in three requests | only the approved act; a suspension ends access; an assessment keeps its order | `Vendors` |
| assets, network security | assets, classifications, vulnerabilities; firewall rules, attacks, block list | reclassification in three requests; history by older reads | registers agree with their histories; scores follow | `Registers` |
| audit export (`audit-export`) | runs, files and their bucket, chained access log, schedules with their cron jobs | a failing write between upload, file row and status; cancellation and clean-up against a run at work; overlapping appends to the chain; jobs in memory, schedules in a table | a completed run is complete and stored; nothing is handed over without a trace, and no break is reported falsely; the jobs are those of the schedules | `AuditExport` |
| billing, usage, inventory, geography, guards, front end, infrastructure | none of their own | | | not modelled, see 6 |

Places where parts meet: `invoices.status` (payments, the overdue job, RADIUS,
administration), `customers.status` (administration, RADIUS), requests for approval
(submissions, expiry, execution, roles and privileges), the OLT connections
(administration and other clients of the network service), and violations (the
guard and the verification job). Audit export shares nothing with the others but the
tables it reads.

## 2. The modules

**An action is what happens between two `await`s** (or two blocking queries in the
Python services): a handler is a record with a program counter and exactly the
values it keeps in local variables across round trips, so that stale reads are
stale in the model as well. What is external (a gateway, a NAS, NADRA, a SIEM, an
ONU, another service that writes a shared column) is a variable of its own, marked
external in the map. A write whose `error` the code ignores may fail silently
where a history allows failing writes; one whose `error` it looks at ends the
request. A crash removes every handler of the process and nothing else.

**What may go wrong in a history is a variable.** `allowed` (`Histories`) is chosen
in `Init` from the constant `Environments`, a set of sets of flags, and never
changes: `May("writes")`, `May("overlap")` and so on are the guards of what may
happen. One run thus covers calm and hostile histories, and a property that needs
a condition states it as a predicate on `allowed`. Flags only add behaviours, so
an instance needs the largest sets of flags under which each property is claimed.
Where one run checks several components (`MCRadius`, `MCOperations`,
`MCCompliance`, `MCContinuity`), a flag also says which of them a history is about:
the components share no table, so that interleaving them would only multiply
states. Where components do share state they are composed for good
(`SubscriberAccess` EXTENDS `OltAccess` and shares its requests).

**Mutated forms.** Beside many operators stands the form a plausible bug would give
them (`ClearedNone`, `AllowedAny`, ...). Nothing uses them; replacing the operator by
its mutated form must break the property `PROJECT.json` names.

| Module | Models | Shape |
|---|---|---|
| `Payments` | intents, webhooks, overdue job, gateways | `invoice`, `payment`, `credits` are the tables, `intent` and `webhook` the handlers, `attempt` the gateways |
| `Settlement` | abstract: money is captured, a captured invoice is settled | refined by `Payments` |
| `Approval` | requests, decisions, verdict, expiry, execution | `request`, `decisions`, `expired` are the tables and the clock, `call` and `marking` the handlers |
| `DualApproval` | abstract: approve with a quorum of different users, reject, expire, execute | refined by `Approval` |
| `RadiusAuth` | Access-Requests | one request at a time: one event loop whose client blocks |
| `RadiusAccounting` | accounting reports | `sent`, `acked` are the NAS and the network, `row`, `usage` the tables |
| `Metering` | abstract: a record follows the use of a line and is closed after the session | refined by `RadiusAccounting` |
| `Kyc` | CNIC verifications with NADRA | `attempts`, `row`, `customer` are the tables, `call` the handlers, `nadra` what NADRA found |
| `OltAccess` | network service, its drivers, the OLTs | `pool`, `conn` are the service's connections, `device` the ONUs, `job` the requests, each with the commands left to send |
| `SubscriberAccess` | suspend, resume, reboot | `status`, `audited` are the tables, `call` the calls of the backend, which become requests of `OltAccess` |
| `CustomerCare` | a ticket; requests for messages, the run of reminders | `care` and `notice` are the handlers, `log` the table, `accepted` what gateways took |
| `AuditExport` | `createExportRun`, cancel, retry, clean-up; access log; scheduler | `maker` are the calls that produce a run, `run`, `files` the tables, `bucket` the storage (external); `access`, `chain` the logged requests and their rows; `schedule` the table, `registry`, `activeJobs` the memory of the scheduler, `change` its calls |
| `SecurityLog` | `logEvent`, flushes, forwarder | `buffer`, `timer` are the memory, `flights` the inserts under way |
| `AuditTrail` | forwarding queue; alert rules | `round` is `processQueue`, `evaluation` the calls of `evaluateEvent` |
| `UserSessions`, `Privileges` | logins, sessions, actions; roles, JIT privileges | `login`, `acting`, `priv` are the handlers; `started` orders sessions by their `started_at`, `inserted` by their rows |
| `PolicyGuard` | guard, interceptor, violations, verification, score | `guarded` are the requests, `clock` orders the rows of the chain |
| `HashChain` | abstract: rows are written once, stay, and name none or an earlier one; in linear histories the last | refined by `SecurityLog`, `UserSessions` and `PolicyGuard` |
| `KeyLifecycle` | keys, cache, rotation job; certificates | `keyCall` are the requests, a material is a number, `sealed` what was encrypted |
| `Incidents` | incidents and timeline; evidence and cases | `incCall` are the requests of both services |
| `Recovery` | backups, points, plans, drills, failovers | `recCall` |
| `Vendors` | a vendor, contracts, permissions, assessments | `vendCall` |
| `Registers` | asset, vulnerabilities; rule, attack, block list | `regCall` |
| `MC*` | sizes, environments, conjunctions of properties | |
| `*Proofs` | theorems | each EXTENDS its component's module and `TLAPS` |

What a reader of the first modules should know:

* *Payments.* `ReadInvoice`, `LookupPayment`, `InsertPayment` are `createIntent`;
  `ReceiveNotice`, `UpdatePayment`, `MarkInvoicePaid`, `InsertCredit` are
  `handleWebhook` / `processPaymentUpdate`. A notice is never consumed: it may be
  delivered again at any time, so that duplicates, delays and reordering need no
  further action. `.single()` returns data only if exactly one row matches.
* *Approval.* `getUserDecision` returns null on an error, so that a failing read
  there goes on rather than throwing. `autoRejectOnTimeout` is read nowhere.
* *RadiusAuth.* Each query with the answer the code derives from an exception. The
  second look-up, by phone, is never reached since `.single()` raises before.
* *RadiusAccounting.* Counters wrap at `Wrap`, which stands for 2^32.
* *Kyc.* The trigger on `kyc.verifications` is part of the step that updates the row.
* *OltAccess.* A request searches the OLTs, connects through the shared pool, finds
  its ONU and then sends the commands of its driver one by one; a command that times
  out may or may not have been executed and ends the dialogue; the command line
  remembers the interface entered. The dialogues of Huawei, ZTE and FiberHome are
  all modelled; the checked instance has ZTE and FiberHome, since Huawei's sets no
  rate at all.
* *AuditExport.* A run is produced by one call with a round trip for each write; a file
  is uploaded before its row is inserted. What a source has in a range goes by the
  beginning of a session for usage records and by the time of the record for the
  others. The three parts (runs, accesses, schedules) share no table, and a history is
  about one of them.
* *KeyLifecycle.* The rotation job takes the first of `due` whose key is active, and a
  rotation removes the key from `due` by its position, so that the order of the rest is
  kept.
* *UserSessions.* A login takes `started_at` in a step before its insert, and the oldest
  session is the first by that time: where logins overlap the two orders differ.
* *Privileges.* `assignRole` asks for an approval only of roles with both flags (`Gated`);
  the schema seeds privileged roles without `requires_approval`, and these are active at
  once. A just-in-time privilege always needs one.
* *Incidents ... Registers.* Where the code updates a row by an id alone, the model
  replaces exactly the fields that update names, by values of an older read if the
  code takes them from there: that is what lets one request undo another.

**How names are resolved.** The code addresses tables as `from('ctdisr.x')`, as
`/rest/v1/x` without a schema, and functions without theirs; vendors' code says
`third_party_access` and `vendor_assessments` where the migration creates
`vendor_access_permissions` and `vendor_risk_assessments`; audit export has its tables
in `pta_audit` for the migration and in `audit_export` for the code. The models presume
that each name reaches the table it means; otherwise every request would fail. A
*column* the table has not is another matter: the query fails, and what the code does
then is modelled. Overdue invoices are never counted (`CheckInvoices`) nor found
(`SendOverdueReminders`), an assessment is never initiated or completed by its service,
because of `created_by` and `reviewer_notes` (`InsertAssessment`, `CompleteAssessment`;
rows come from elsewhere, `EnterAssessment`), and indicators of compromise are never
added, because the default of `iocs` is no array (`SpreadIndicators`). The services' inserts
and updates were compared with the columns of the migrations for all of `ctdisr`.
`KeyLifecycle` presumes that a material comes back from its column as it was written,
although the code sends a `Buffer`, which becomes a JSON object, for a `BYTEA`. In the
same way the services of audit export call `getRunById`, `listRuns`,
`getTemplateByCode`, `getActiveSchedules` and `deactivateSchedule`, which their
repository does not have: each is taken to do what its caller says of it, since
without them no behaviour could be read off the code at all.

## 3. Runs

A run is one question. `pass` runs finish without error; `violation` runs state what
a document or comment of the repository says and show the code doing otherwise. A
property of a component run is a conjunction of named parts, which the comments
state one by one.

| Run | Instance | Shows |
|---|---|---|
| payments | 1 invoice, 2 payments, 2 attempts, 2 intents, 2 webhooks, 1 gateway, 1 crash; calm, overlapping, overlapping with lost writes | always: type, `MoneyWasCaptured` (paid and credited only what was captured), refinement of `Settlement`; without lost writes and crashes every success reaches invoice and ledger; without overlap one credit per payment, one open payment, outcomes final |
| payments_live | 1 payment, 2 gateways, 1 crash, fair | a finished transaction gets its payment a final status |
| payments_replay | the same as payments, overlapping webhooks | finding, see 5 |
| approval | 1 request, 2 approvers, 3 submissions, 1 crash, fair; serial, overlapping, overlapping with failures | `ApprovalsAreSound`: a quorum always, of different users where no approver has two calls at once and reads are answered; with no failure no verdict is lost; serial: refinement of `DualApproval`; every request is resolved |
| approval_twice | 2 submissions | finding |
| radius | authentication: 2 users, one unknown, a window of 1, with and without failures; accounting: 1 session, 4 reports, a counter that wraps, 1 death, fair, every combination of late copies, a NAS that does not wait, failing queries | types; `BarredIsRejected`, `GuessesBounded`; the row is true; refinement of `Metering`, so that a closed row stays closed; in ordered histories what was answered is stored while no counter wrapped, and an ended session is closed |
| kyc | 2 users, one without a customers row, 2 overlapping calls, 2 days, 1 crash, failing reads, with and without failing writes | verified was confirmed; without lost writes outcomes reach the customer and nothing stays pending |
| kyc_limit | 4 calls one after the other, the default limit of 3 | finding |
| operations | 1 customer, 3 ONUs on a ZTE and a FiberHome OLT, 2 calls, 4 drivers; 2 calls about a ticket; 2 messages, one of them to nobody who can be reached; 2 exports of a range of 1 hour up to hour 2, 1 cancellation, 3 accesses, 1 schedule and 2 calls of its scheduler | `SubscriberSafety`, `OfficeSafety` (messages and exports), `StepsAreSound`, `WorkEnds` |
| compliance | 3 events and a buffer of 2; 2 entries of 2 targets; 2 evaluations; 3 logins, 3 actions; 2 roles, 1 JIT request; 2 policies, 2 requests, 1 deleted row | `LogSafety`, `AccessSafety`, `PolicySafety`, `PromisesAreKept`; `LogsAreChained`: the events, the actions of a session and the violations refine `HashChain` |
| security_events_forwarded | 3 events, a query of 1, no failure, fair | finding |
| continuity | 2 keys, 2 requests and materials; 1 incident, 2 items, 2 pieces of evidence, 1 case; 2 backups, 2 activations, 2 drills, a failover; 1 vendor, 1 permission, 1 contract, 2 assessments; 1 asset, 2 vulnerabilities, 1 rule, 1 attack; 2 requests of each service | `IncidentSafety`, `RecoverySafety`, `RegisterSafety`, `WorkMovesOn` |

**Why the bounds are enough to be interesting.** Two of everything that can race is
the least that can (two webhooks of one payment, two submissions of one approver,
two requests about one row, two dialogues with one OLT); three where a chain or a
limit needs them (events, logins, actions, submissions). One crash or an unbounded
number of them (where the process keeps nothing else) breaks any two writes apart.
Ids are bounded sets, so in most configurations every call has finished at some
point: those configurations switch deadlock checking off. Amounts need four figures
(the price, one tolerated paisa on top, one beyond it, and none), octets cross
`Wrap` once, and ages need one tick more than the window. A buffer of 2 with 3
events overflows with one event on its way. Of exports the second is a retry, a PDF
shows 1 record while a range can hold 2, and 3 accesses leave a stranger's row between
two rows of a run. The largest run is radius
(1181901 states, about two minutes: every combination of what may go wrong with a report);
continuity has 353520, operations 149534 and compliance 117183, with more to be checked of
each.

**What is claimed only without overlap.** Nothing in this code keeps requests about one row
apart, and much of it does not stand their overlap. Properties that would fail there carry
that condition: in the formula (`~Overlap`, `May("serial")`, `~May("overlap")`), so that
histories with overlaps are in the same run. In `Incidents`, `Vendors` and `Registers`
requests of one *kind* for one row overlap where `allowed` has the flag "overlap", and
follow one another elsewhere; requests of different kinds overlap freely in every
history. What is claimed without the flag is therefore that requests of *other* kinds,
failures and crashes do no harm between a read and the write that rests on it; requests
of the same kind do, and TLC shows it when the condition is left out.
`Recovery` has no such flag: there requests of one kind for one row, and completions of
backups, follow one another in every history, as its header says, and `FailoverIsTold`
in particular rests on that. So do, in `Incidents`, two collections of one piece of evidence
(each inserts a row of its own). Section 5 tells what happens otherwise.

**Fairness.** Payments: weak fairness of every handler's next step (a promise that
resolves), strong fairness of the delivery of the *final* notice of a transaction,
because gateways repeat it until it is answered with 200. Approval: the clock passes
and the expiry job, a `@Cron`, runs; no submission is assumed to finish. Accounting:
the service handles the packet it has, and a NAS repeats a report until it is
answered. Kyc, requests for ONUs, calls of administrators, guarded requests, requests
for messages, exports, key requests: a call takes its next step, since every round trip ends or
times out (`asyncio.wait_for`, HTTP timeouts). Events: a set timer fires and an
insert ends (the promise that it succeeds is made only without failing writes).
Queue, stale sessions, JIT privileges, verification of violations, key rotation,
expired backups, risk scores: the interval or `@Cron` job recurs; retry delays and
the five minutes of the key cache pass. Nothing is assumed of users, of gateways'
verdicts, of deaths, or of restarts.

## 4. Proofs

TLC checks those instances; the theorems hold for every number of invoices,
payments, requests, approvers, users, sessions, OLTs, ONUs, keys, incidents, backups,
vendors and so on, for all bounds and all failures the constants allow. Each proof is:
an inductive invariant `IndInv`, a lemma that `Init` implies it, one step per action of
`Next`, and a temporal step. Each inductive invariant was an invariant of the
component's run first: TLC's counterexamples are what the conjuncts beyond the property
come from.

In the three modules about several components (`OperationsProofs`, `ComplianceProofs`,
`ContinuityProofs`) every component has its own invariant and its own lemma that its
steps keep it; `IndInv` is their conjunction. The lemmas `...Rest` and `...Aside` say that a
step of one component leaves the variables of the others alone, so that their
invariants stay.

| Module | Theorems | Inductive invariant and why |
|---|---|---|
| `PaymentsProofs` | `TypeCorrect`, `PaidInvoicesWereCaptured`, `CreditsWereCaptured`, `NothingSettledUncaptured`, `SettlementImplemented`, `SerialWebhooksCreditOnce`, `SuccessesAreSettled`, `OutcomesAreStable`, `OnePaymentIsOpen` | the properties are not inductive: a handler between its writes carries a status it read earlier. `WebhooksKnown` says that a handler about to write a success saw a captured transaction of that payment for the right amount; `AttemptsKnown`, `IntentsKnown` and `RowsKnown` say that references lead to rows that exist and never change their invoice. For credits `Serial` adds that at most one handler is inside a payment and that its position tells which writes are done. `Settling` says, for any interleaving, where the second and third write of a success still are if they are not in the tables; `OneHandler`, that the outcome a handler is about to write is still open; `OneIntent`, that nothing is open where a lone `createIntent` is about to insert |
| `ApprovalProofs` | `TypeCorrect`, `ApprovalsHaveQuorum`, `DualControlHolds`, `ApprovalsRestOnApprovers`, `NoVerdictIsLost`, `DualApprovalImplemented` | a verdict is written from a snapshot: `VerdictsKnown` says that decisions counted are still there (rows are never deleted, so quorums only grow). `OneEach` says that without overlapping calls of one approver no approver has two rows; `OneAtATime` that the snapshot of a lone submission is current |
| `RadiusAuthProofs` | `TypeCorrect`, `SuspendedNeverAccepted`, `ArrearsNeverAccepted`, `BarredNeverAccepted`, `GuessesStayBounded` | `StatusChecked` and `InvoicesChecked`: what a request past a check has seen was true at some time since it arrived, which `serving` remembers. `Counting`: the wrong passwords let past the limit are among the rows of the window, age by age; a request past the limit still finds its user below it, since it alone could have added a row; no window holds more of them than the maximum. Rows of a window are counted as a finite set of numbered rows, so that a window that moves on gives a subset |
| `RadiusAccountingProofs` | `TypeCorrect`, `RecordsStayTrue`, `ClosedForGood`, `AnsweredIsStored`, `MeteringImplemented` | `SentIsTrue`: every report in the network was true when sent, and totals only grow. `InOrder` and `Answered` say that at most the last report is unanswered and which of its two writes are done at each point of the handler. For the refinement `MeterInv`: where copies come in order and nothing wraps, reports grow, and the row is behind the report being served and every later one, so that a repetition never takes a count back |
| `KycProofs` | `TypeCorrect`, `VerifiedCustomersWereConfirmed`, `OutcomesReachCustomers` | `Holds`: what a call has asked, inserted and been told at each of its steps. A verification is named by a customer only after its call asked NADRA, so that no later step can change what NADRA found or whose it is |
| `OperationsProofs` | `OperationsTypes`, `SubscribersAreSafe`, `OfficeIsSafe`, `OperationsStepsAreSound` | see below |
| `ComplianceProofs` | `ComplianceTypes`, `LogsAreSafe`, `AccessIsSafe`, `PoliciesAreSafe`, `GrantedPermissionsWereHeld`, `LogsAreChains` | see below |
| `ContinuityProofs` | `ContinuityTypes`, `IncidentsAreSafe`, `RecoveryIsSafe`, `RegistersAreSafe`, `IncidentsFollowTheirTransitions`, `AssessmentsFollowTheirOrder` | see below |

*Operations.*

* OLTs: `JobHolds` says what a request has found and what of its dialogue is left at each
  of its steps, `PlacesKept` that a connection leads to the OLT it is pooled for and that
  the interface entered on it is one of that OLT, `DialoguesKept` that, where requests for
  one OLT do not overlap, each stands at one place of the dialogue of its vendor: what has
  been sent has been done. From these two action properties follow: an answer is
  true, and a command reaches only the ONU it is for.
* Subscribers: `Throttling` relates three variables that no step changes together, the
  status of a customer, the call that suspends it and the speed of its ONU: where nothing
  fails, the commands still to be sent will throttle the ONU (`SmoothOlt`: the connection
  does not break and the search, which goes over all OLTs, is at the ONU's OLT or before
  it). `AuditFollows` ties the last audit row to the status.
* Tickets and messages: `CallHolds`, `NoticeHolds`: what was read and is still to be used,
  and at which steps of a message its log row is there.
* Exports: `RowFirst`, `ObjectFirst`, `FilesFirst`, `FetchedIsAll` and `CleanupIsOld` give
  the order in which row, object, file and status come to exist and vanish. `LoggedFirst`
  says a request in front of the bucket has its row, `Linear` that where requests do not
  overlap each row names the one before it. `ApplyAlone` says that, where calls of the
  scheduler follow one another, a call that has written the table finds it so when it
  changes the jobs, and the jobs of all other schedules are right.

*Compliance.*

* Events: `OneByOneIn`: where events come slowly one is under way at most, and it names the
  latest stored one until it is stored itself.
* Queue: `RoundHolds`: what `processQueue` fetched is still as it was fetched, except what
  it has itself decided.
* Alerts: `AlertsInOrder`: where evaluations follow one another and writes succeed, a rule
  in the cache is active and misses no cooldown, and an alert about to be recorded is the
  first of its cooldown.
* Sessions: `Alone`, `InOrder` (an inserted session has its place in both orders), `PlaceIsFree`, `CountIsCurrent`, `LastIsKnown`: where
  logins are serial, what a login counted is what is there when it inserts.
* Privileges: `OneCall`, `OneRequestEach`, `NoPeriodYet`: between the look at a request and
  its activation nothing else can activate it.
* Guard: `CacheIsWhole` (a cache that is served holds every enforced policy), `TimesPass`,
  `Linked` (where requests do not overlap, no query fails and nothing is deleted, each row
  of the chain names the one before it) and what each request in the guard or the
  interceptor still knows.
* Chains: `HashChain` promises less than a line, because calls read the latest row and
  insert later, with other inserts between: a row may be named by several, but what it
  names was written. `EventsKnown`, `ActsKnown` and `RowsKnown` are what a call under way
  must keep for that: it names none or a row that is there, and its own row is not; for
  violations also that moments of detection are distinct and come after the row named. In
  linear histories `LatestIsLast` and `LastActionIsLast` show that no row names the latest
  one yet. The refinement of the violations holds where nobody deletes rows (its `links`
  are empty in histories with tampering, which `TamperingIsNoticed` is about).

*Continuity.* Requests keep rows they read and overwrite what others wrote meanwhile, so
each invariant says **what a request knows that is still true when it writes**.

* Keys: `OneRotation`, `VersionsCount`: a key's version counts the materials it had.
* Incidents: `ApartAll` (no two requests of one kind for one row, where overlaps are not
  considered), `IncidentsHold` and `EvidenceHolds`: the fields a request will write by its
  older read are those no request of another kind changes. What needs no such condition
  (an urgent incident has its commander, what is analysed has an activity) is proved
  without it.
* Recovery: `BackupsInv`, `PlansInv`, `TestsInv`, `FailoversInv` over `Ordered`, one for each
  kind of run: which of the three or four writes of a completion are done at each step.
* Vendors: `NoClash` (the same for grants and suspensions and for changes of one kind to
  an assessment) with, for each kind of request, what it knows of approval, access and
  assessment; `ApprovedFirst` (whoever has a contract, access or a status after approval
  was approved), `CutOff` (whom a suspension has cut off has no active permission).
* Registers: `Classified` and `HistoryTells`: the asset's class is the one current row, or a
  reclassification is under way; the history of the rule ends with its version, or a
  request is about to write it, where the reads of the rule succeed.

*What the proofs changed in the models.* The condition of `SuspendedIsThrottled` names the
ONUs the network knows, since for others no dialogue is held; `BreachIsRecorded`
no longer presumes that the modes of policies stay. Counters
(`BackupSchedule`, versions of keys) are natural numbers rather than sets bounded by other
constants: the bound is a property of a run and not a type. An update of a row by a CASE
became the operator `Recorded`. `RadiusAuth` counts the rows of a window as the cardinality
of a set of numbered rows and no longer by a fold, whose sum for every input would need
induction over data. `None` is assumed to be no event, login or action: otherwise a row
without a predecessor would name one.

No theorem has a hypothesis beyond the named assumptions on the constants
(`PaymentsAssumption` and so on): sets are sets of the right kind, bounds are
natural numbers or at least 1, `None` is none of them and none of the strings it is
compared with; sets that the code counts or searches one by one (OLTs, requests,
executions, vulnerabilities, policies, logins) are finite; there are as many names of
drivers as OLTs and requests can need, and at least one assessment. TLC evaluates all
of them. A condition such as 'no overlap' is a
condition on `allowed` inside the property, and the first step of such a proof is
the lemma `AllowedStays`. The theorems about RADIUS are about the specifications of
the two components, of which the run's `MCRadius` checks the disjunction.

**Only model-checked**: the liveness properties (fairness and ENABLED are outside
the proof system's reach), that is `FinishedIsNoticed`, `PendingIsResolved`,
`EndedIsClosed`, `WorkEnds`, `PromisesAreKept` but for `GrantedWasHeld`, and `WorkMovesOn`
but for `IncidentsMoveOn` and `AssessmentsMoveOn`. Every other property of the passing
runs is the statement of a theorem.

The proofs about continuity take the longest, some fifteen minutes from nothing;
compliance takes eight, operations six and the others a few together.

## 5. What the checks found

Four disagreements have a violation run and an entry under `findings`.

* Two overlapping deliveries of a notice credit a payment twice
  (`payments_replay`): the function named `getPaymentWithLock` takes no lock.
* Two overlapping submissions let one user approve twice (`approval_twice`).
* The counter of CNIC verifications goes back to 1 with every attempt and never
  reaches the daily limit (`kyc_limit`).
* Stored events do not all reach the SIEM though nothing fails
  (`security_events_forwarded`): marking the fetched rows fails, so that the same
  rows are fetched for ever.

The conditions of the other properties are needed as well; dropping one gives a
counterexample that has no run of its own.

* Payments: an unnoticed failed update of the payment credits twice without any
  overlap; overlapping intents open two payments; a crash after the first write of a
  success leaves the invoice unpaid while the repeated notice is answered 'already
  processed'.
* Approval, kyc: a failed look-up of an earlier decision lets a user approve twice;
  a failed verification takes VERIFIED back, which the trigger takes care not to do.
* RADIUS: a failing query for overdue invoices lets a customer in arrears in; refusals
  of the rate limit are logged as failures and prolong the lock; a late interim report
  overwrites a closed session's count; `usage_logs` holds totals, which the usage
  functions add up; totals wrap at 4 GiB because the Gigawords are not read.
* Operations: finance resumes customers in arrears (admin.service.ts:338), and reminders
  for overdue invoices reach nobody (notification.service.ts:351): both queries name a
  column that is not there, neither error is looked at, and `CheckInvoices` and
  `SendOverdueReminders` are what is left; overlapping suspension and resumption leave an active subscriber
  throttled; overlapping dialogues on one OLT configure the ONU of the other; a change
  of speed of an ONU the OLT does not know succeeds; Huawei's suspension sets no rate.
* Compliance: overlapping logins exceed the limit of sessions; overlapping violations
  fork the chain, and every later verification records a violation of its own; the
  score of a section is 120 when nothing happened; with a cache that could never be
  filled every request passes; an answer that is lost makes a batch of events come back
  for ever; `updateSessionActivity` sends an object for an integer and is refused.
* Keys: rotation overwrites the only copy of the old material, so that data of an older
  version cannot be decrypted; the rotation job throws after its first key, because it
  calls a method the security log does not have, and comes to the next key an hour later.
* Incidents: of two overlapping changes of the status both are checked on the old one, so
  that CONTAINED may become TRIAGED; of two overlapping additions to the evidence of a
  case or to the actions of an incident one is lost.
* Vendors: a severe report suspends a prospect, which can then be activated without
  approval; an overlapping start reopens an assessment that was submitted meanwhile, and
  a finding that was checked before the submission is written after it; the service can
  neither initiate nor complete an assessment; controls start at 70, so that the levels
  CRITICAL and HIGH never result (`CalculatedLevels`) and the branches for them are dead.
* Recovery: overlapping completions leave two current points; closing one of two
  activations makes the plan inactive; registers: overlapping reclassifications leave two
  current classes; a failing read leaves the history of a firewall rule without old
  values; `getBlacklist` omits entries that the summary counts.

## 6. Not modelled

* *Parts of modelled components*, which are `partly` for that reason: teams, playbooks
  and the findings of a case; of audit export a scheduled execution (which exports
  nothing), custom templates, queries and statistics; inserts of plans and schedules and
  the protection of a recovery point; access logs and performance of vendors; zones, IDS
  and VPN; the completion of certificate renewals, which nothing calls. Apart from the
  scheduled execution, all are single inserts or updates without a guard.
* Login tokens, guards and validation pipes (no state); redirect URLs and HMAC
  computation (a notice is genuine or it is not received); reply attributes of
  Access-Accept; audit rows where nothing reads them; queries and statistics; the front
  end; deployment and scripts.

## 7. What could come next

1. An abstract specification of who is in service, over `SubscriberAccess` and `RadiusAuth`:
   a customer who was suspended is throttled by the network and refused by RADIUS. The two
   read `customers.status` at different moments, so that it could only be promised for the
   time after both requests ended.
2. The access log of audit export is no instance of `HashChain`: the hash of a row covers
   only what rows of one run have in common, so that it does not stand for its row.
3. `Privileges` composed with `Approval` would add little as long as nothing in the code
   relates the verdict on a request to the row of the privilege: `requestJitPrivilege` keeps
   the id of the request, and no code decides by it.
