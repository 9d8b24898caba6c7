--------------------------------- MODULE Kyc ---------------------------------
(***************************************************************************)
(* CNIC verification with NADRA (backend/src/verisys/verisys.service.ts)   *)
(* over kyc.rate_limits, kyc.verifications and the KYC columns of          *)
(* customers, which a trigger of 20241130001_kyc_verisys.sql writes too.   *)
(*                                                                         *)
(* Every `await` of verifyCnic is one action, and calls of one user may    *)
(* overlap.  A call inserts one verification, which bears its name here.   *)
(***************************************************************************)
EXTENDS Naturals, FiniteSets

CONSTANTS
    Users,
    Customers,      \* the users that have a row of customers
    Calls,          \* calls of verifyCnic (a bound)
    Environments,   \* what may go wrong in the histories considered, see `allowed'
    MaxAttempts,    \* VERISYS_MAX_ATTEMPTS_PER_DAY
    MaxDays,        \* bound: days
    MaxCrashes,     \* bound: deaths of the backend
    None

ASSUME KycAssumption ==
    /\ Customers \subseteq Users
    /\ Environments \subseteq SUBSET {"overlap", "reads", "writes"}
    /\ MaxAttempts \in Nat /\ MaxDays \in Nat \ {0} /\ MaxCrashes \in Nat
    /\ None \notin Users \cup Calls

VARIABLES
    customer,    \* kyc_status and kyc_verification_id of the users' customers rows
    attempts,    \* attempt_count of a user and a day; 0 is no row
    row,         \* verification_status of the verification a call inserted
    call,        \* the calls of verifyCnic
    nadra,       \* what NADRA found out for a call (external)
    today,
    crashes,
    allowed      \* what may go wrong in this history; never changes

vars == <<customer, attempts, row, call, nadra, today, crashes, allowed>>

\* Calls of one user may overlap; a query may fail, which the code takes for no row; a
\* write may fail, unnoticed but for the insert.
Overlap       == "overlap" \in allowed
ReadsMayFail  == "reads" \in allowed
WritesMayFail == "writes" \in allowed

Days == 1 .. MaxDays
KycStatus == {"UNVERIFIED", "VERIFIED", "FAILED"}
VerificationStatus == {"none", "PENDING", "VERIFIED", "FAILED"}
\* Response code 00, a code of refusal, code 09 for no answer, and a body without a code.
Responses == {"confirmed", "refused", "timeout", "empty"}
Steps == {"start", "customer", "upsert", "update", "insert", "nadra", "verification",
          "publish", "done"}
Customer == [status : KycStatus, verification : Calls \cup {None}]
Call == [pc : Steps, user : Users \cup {None}, hasCustomer : BOOLEAN, day : Days,
         count : 0 .. 1, response : Responses]

Init ==
    /\ customer = [u \in Customers |-> [status |-> "UNVERIFIED", verification |-> None]]
    /\ attempts = [u \in Users |-> [d \in Days |-> 0]]
    /\ row = [c \in Calls |-> "none"]
    /\ call = [c \in Calls |-> [pc |-> "start", user |-> None, hasCustomer |-> FALSE,
                                day |-> 1, count |-> 0, response |-> "empty"]]
    /\ nadra = [c \in Calls |-> "unasked"]
    /\ today = 1
    /\ crashes = 0
    /\ allowed \in Environments

Goto(c, pc) == call' = [call EXCEPT ![c].pc = pc]
UserOf(c) == call[c].user

-----------------------------------------------------------------------------
(* verifyCnic up to the insert.                                            *)

\* canAttemptVerification: the RPC, or the query in its place, finds fewer attempts than
\* allowed today; without an answer of either, the call is allowed.
CanAttempt(c, u) ==
    /\ call[c].pc = "start"
    /\ Overlap \/ \A o \in Calls : UserOf(o) = u => call[o].pc = "done"
    /\ \/ /\ attempts[u][today] < MaxAttempts \/ attempts[u][today] = 0 \/ ReadsMayFail
          /\ call' = [call EXCEPT ![c].user = u, ![c].pc = "customer"]
       \/ /\ attempts[u][today] >= MaxAttempts /\ attempts[u][today] # 0
          /\ call' = [call EXCEPT ![c].user = u, ![c].pc = "done"]
    /\ UNCHANGED <<customer, attempts, row, nadra, today, crashes>>

ReadCustomer(c) ==
    /\ call[c].pc = "customer"
    /\ \/ call' = [call EXCEPT ![c].hasCustomer = UserOf(c) \in Customers, ![c].pc = "upsert"]
       \/ ReadsMayFail /\ Goto(c, "upsert")
    /\ UNCHANGED <<customer, attempts, row, nadra, today, crashes>>

\* The upsert writes attempt_count 1 over whatever the day's row holds.
UpsertAttempt(c) ==
    /\ call[c].pc = "upsert"
    /\ \/ /\ attempts' = [attempts EXCEPT ![UserOf(c)][today] = 1]
          /\ call' = [call EXCEPT ![c].day = today, ![c].count = 1, ![c].pc = "update"]
       \/ /\ WritesMayFail
          /\ call' = [call EXCEPT ![c].day = today, ![c].pc = "insert"]
          /\ attempts' = attempts
    /\ UNCHANGED <<customer, row, nadra, today, crashes>>

UpdateAttempt(c) ==
    /\ call[c].pc = "update"
    /\ \/ attempts' = [attempts EXCEPT ![UserOf(c)][call[c].day] = call[c].count + 1]
       \/ WritesMayFail /\ attempts' = attempts
    /\ Goto(c, "insert")
    /\ UNCHANGED <<customer, row, nadra, today, crashes>>

InsertVerification(c) ==
    /\ call[c].pc = "insert"
    /\ \/ row' = [row EXCEPT ![c] = "PENDING"] /\ Goto(c, "nadra")
       \/ WritesMayFail /\ row' = row /\ Goto(c, "done")
    /\ UNCHANGED <<customer, attempts, nadra, today, crashes>>

-----------------------------------------------------------------------------
(* The answer and its consequences.                                        *)

\* NADRA finds for or against the CNIC, and that may or may not reach the service.
CallNadra(c) ==
    /\ call[c].pc = "nadra"
    /\ \E found \in {"confirmed", "refused"}, response \in Responses :
          /\ response \in {found, "timeout", "empty"}
          /\ nadra' = [nadra EXCEPT ![c] = found]
          /\ call' = [call EXCEPT ![c].response = response, ![c].pc = "verification"]
    /\ UNCHANGED <<customer, attempts, row, today, crashes>>

\* Mutated forms: only an outright refusal fails; the response is the status.
OutcomeLenient(response) == IF response = "refused" THEN "FAILED" ELSE "VERIFIED"
OutcomeRaw(response) == response
Outcome(response) == IF response = "confirmed" THEN "VERIFIED" ELSE "FAILED"

\* The trigger update_customer_kyc_status: a failure does not undo a verification.
\* Mutated form: it is left to the service to record a failure.
TriggeredOnSuccess(old, c, status) ==
    IF status = "VERIFIED" THEN [status |-> "VERIFIED", verification |-> c] ELSE old
Triggered(old, c, status) ==
    IF status = "VERIFIED" THEN [status |-> "VERIFIED", verification |-> c]
    ELSE IF old.status # "VERIFIED" THEN [old EXCEPT !.status = "FAILED"]
    ELSE old

\* The update of the verification with what the trigger does in the same statement.
Settle(c) ==
    /\ \/ /\ row' = [row EXCEPT ![c] = Outcome(call[c].response)]
          /\ customer' = [u \in Customers |->
                             IF u = UserOf(c) THEN Triggered(customer[u], c, row'[c])
                             ELSE customer[u]]
       \/ WritesMayFail /\ UNCHANGED <<row, customer>>
    /\ Goto(c, IF call[c].hasCustomer /\ call[c].response # "empty" THEN "publish" ELSE "done")
    /\ UNCHANGED <<attempts, nadra, today, crashes>>

\* In the regular case and in the catch block, after which the service does not write the
\* customer.  Mutated form: without the catch block.
UpdateVerificationUncaught(c) ==
    call[c].pc = "verification" /\ call[c].response # "empty" /\ Settle(c)
UpdateVerification(c) == call[c].pc = "verification" /\ Settle(c)

\* The update of the customer, whatever the row says by now.
UpdateCustomer(c) ==
    /\ call[c].pc = "publish"
    /\ \/ customer' = [customer EXCEPT ![UserOf(c)] =
                          [status |-> Outcome(call[c].response),
                           verification |-> IF call[c].response = "confirmed" THEN c ELSE None]]
       \/ WritesMayFail /\ customer' = customer
    /\ Goto(c, "done")
    /\ UNCHANGED <<attempts, row, nadra, today, crashes>>

-----------------------------------------------------------------------------

DayPasses ==
    /\ today < MaxDays
    /\ today' = today + 1
    /\ UNCHANGED <<customer, attempts, row, call, nadra, crashes>>

\* The backend dies, and with it the calls it was serving.
Crash ==
    /\ crashes < MaxCrashes
    /\ crashes' = crashes + 1
    /\ call' = [c \in Calls |-> IF call[c].pc = "start" THEN call[c]
                                ELSE [call[c] EXCEPT !.pc = "done"]]
    /\ UNCHANGED <<customer, attempts, row, nadra, today>>

Proceed(c) ==
    \/ ReadCustomer(c) \/ UpsertAttempt(c) \/ UpdateAttempt(c) \/ InsertVerification(c)
    \/ CallNadra(c) \/ UpdateVerification(c) \/ UpdateCustomer(c)

Step ==
    \/ \E c \in Calls : (\E u \in Users : CanAttempt(c, u)) \/ Proceed(c)
    \/ DayPasses
    \/ Crash

Next == Step /\ UNCHANGED allowed

Spec == Init /\ [][Next]_vars

\* Every round trip ends: the call of NADRA has a timeout.
FairSpec == Spec /\ \A c \in Calls : WF_vars(Proceed(c) /\ UNCHANGED allowed)

-----------------------------------------------------------------------------

\* Every variable has its type.
TypeOK ==
    /\ customer \in [Customers -> Customer]
    /\ attempts \in [Users -> [Days -> 0 .. 2]]
    /\ row \in [Calls -> VerificationStatus]
    /\ call \in [Calls -> Call]
    /\ \A c \in Calls : call[c].pc \notin {"start", "done"} => UserOf(c) \in Users
    /\ nadra \in [Calls -> {"unasked", "confirmed", "refused"}]
    /\ today \in Days
    /\ crashes \in 0 .. MaxCrashes
    /\ allowed \in Environments

\* A customer is shown as verified just when a verification is named, and that one is
\* the user's own and was confirmed by NADRA: through overlapping calls, lost writes,
\* failing queries and crashes.
VerifiedIsConfirmed ==
    \A u \in Customers :
        LET c == customer[u].verification IN
            /\ customer[u].status = "VERIFIED" <=> c # None
            /\ c # None => UserOf(c) = u /\ nadra[c] = "confirmed"

\* As long as no write fails, no customer is UNVERIFIED who has the outcome of a
\* verification, also if the service dies before it writes to customers, or never found
\* the customer's row: the trigger did it.
OutcomesArePublished ==
    ~WritesMayFail =>
        \A c \in Calls :
            row[c] \in {"VERIFIED", "FAILED"} /\ UserOf(c) \in Customers
                => customer[UserOf(c)].status # "UNVERIFIED"

\* A verification is PENDING for a while, unless a write fails or the service dies.
PendingIsResolved ==
    \A c \in Calls :
        ~WritesMayFail /\ row[c] = "PENDING" ~> row[c] # "PENDING" \/ crashes > 0

\* A user starts no more than MaxAttempts verifications a day
\* ('Maximum 3 verification attempts per user per day').
DailyLimit ==
    \A u \in Users, d \in Days :
        Cardinality({c \in Calls : row[c] # "none" /\ UserOf(c) = u /\ call[c].day = d})
            <= MaxAttempts
=============================================================================
