----------------------------- MODULE RadiusAuth -----------------------------
(***************************************************************************)
(* Access-Requests at the Python RADIUS service                            *)
(* (radius-service/app/handlers.py, supabase_client.py).                   *)
(*                                                                         *)
(* All handlers run on one event loop and their database client blocks it, *)
(* so that one request is served at a time; the backend and the clock move *)
(* on between two queries of a request.  Time is the age of a log row, in  *)
(* ticks: a row older than Window is no longer counted by anyone.          *)
(***************************************************************************)
EXTENDS Histories, Integers, FiniteSets

CONSTANTS
    Users,            \* values of User-Name
    Unknown,          \* those no customers row has as account_no
    MaxAuthAttempts,  \* settings.max_auth_attempts
    Window,           \* settings.lockout_duration, in ticks
    MaxPerTick        \* bound: requests of all users in one tick

ASSUME RadiusAuthAssumption ==
    /\ Unknown \subseteq Users
    /\ MaxAuthAttempts \in Nat /\ Window \in Nat /\ MaxPerTick \in Nat
    /\ None \notin Users

VARIABLES
    account,     \* customers.status
    overdue,     \* check_customer_overdue
    subscribed,  \* has a subscription with status "active"
    failed,      \* rows of radius_auth_logs with success = false, by user and age
    genuine,     \* those of them not logged for 'Rate limited' (a history variable)
    serving,     \* the request being served, or the last one with its answer
    arrived      \* requests in this tick

vars == <<account, overdue, subscribed, failed, genuine, serving, arrived, allowed>>

\* A query may raise, which every helper turns into an answer; so may the insert into
\* radius_auth_logs.
ReadsMayFail  == May("reads")
WritesMayFail == May("writes")

Ages == 0 .. Window
Passwords == {"right", "wrong", "unchecked", "garbled"}
Answers == {"accepted", "rejected", "limited"}

\* "unchecked" is a CHAP request, or a customer without radius_credentials.
\* barred and inArrears tell whether the account was not active, or overdue, at
\* every moment since the request arrived (history variables).
Request == [user : Users \cup {None},
            pc : {"idle", "rate", "subscriber", "overdue", "password"} \cup Answers,
            password : Passwords, subscribed : BOOLEAN,
            barred : BOOLEAN, inArrears : BOOLEAN]

Busy == serving.pc \in {"rate", "subscriber", "overdue", "password"}

\* The rows of each age, numbered; how many they are.
Numbered(rows) == UNION {{k} \X (1 .. rows[k]) : k \in Ages}
Total(rows) == Cardinality(Numbered(rows))

Init ==
    /\ account \in [Users -> {"active", "suspended", "blocked"}]
    /\ overdue \in [Users -> BOOLEAN]
    /\ subscribed \in [Users -> BOOLEAN]
    /\ \A u \in Unknown : account[u] = "active" /\ ~overdue[u] /\ ~subscribed[u]
    /\ failed = [u \in Users |-> [k \in Ages |-> 0]]
    /\ genuine = [u \in Users |-> [k \in Ages |-> 0]]
    /\ serving = [user |-> None, pc |-> "idle", password |-> "right",
                  subscribed |-> FALSE, barred |-> FALSE, inArrears |-> FALSE]
    /\ arrived = 0
    /\ allowed \in Environments

-----------------------------------------------------------------------------
(* handle_authentication.                                                  *)

Arrive(u, password) ==
    /\ ~Busy /\ arrived < MaxPerTick
    /\ serving' = [user |-> u, pc |-> "rate", password |-> password, subscribed |-> FALSE,
                   barred |-> account[u] # "active", inArrears |-> overdue[u]]
    /\ arrived' = arrived + 1
    /\ UNCHANGED <<account, overdue, subscribed, failed, genuine>>

Goto(pc) == serving' = [serving EXCEPT !.pc = pc]
Logged(rows) == [rows EXCEPT ![serving.user][0] = @ + 1]

\* log_auth_attempt(username, False, ...) swallows its own exception.
Reject ==
    /\ Goto("rejected")
    /\ failed' = Logged(failed) \/ (WritesMayFail /\ failed' = failed)
    /\ genuine' = Logged(genuine)
    /\ UNCHANGED <<account, overdue, subscribed, arrived>>

Continue(pc) ==
    /\ Goto(pc)
    /\ UNCHANGED <<account, overdue, subscribed, failed, genuine, arrived>>

\* Mutated form: one attempt too many before the lock.
LimitedLate(u) == Total(failed[u]) > MaxAuthAttempts
Limited(u) == Total(failed[u]) >= MaxAuthAttempts

\* An attempt that is refused for the limit is logged as a failed one.
CheckRateLimit ==
    /\ serving.pc = "rate"
    /\ \/ /\ Limited(serving.user)
          /\ Goto("limited")
          /\ failed' = Logged(failed) \/ (WritesMayFail /\ failed' = failed)
          /\ UNCHANGED <<account, overdue, subscribed, genuine, arrived>>
       \/ (~Limited(serving.user) \/ ReadsMayFail) /\ Continue("subscriber")

\* Mutated form: only suspended accounts are turned away.
SuspendedOnly(u) == account[u] = "suspended"
TurnedAway(u) == account[u] \in {"suspended", "blocked"}

\* No row, several rows and an exception all mean 'User not found'.
GetSubscriber ==
    /\ serving.pc = "subscriber"
    /\ LET u == serving.user IN
         \/ (u \in Unknown \/ ReadsMayFail) /\ Reject
         \/ u \notin Unknown /\ TurnedAway(u) /\ Reject
         \/ /\ u \notin Unknown /\ ~TurnedAway(u)
            /\ serving' = [serving EXCEPT !.pc = "overdue", !.subscribed = subscribed[u]]
            /\ UNCHANGED <<account, overdue, subscribed, failed, genuine, arrived>>

\* An exception counts as 'nothing overdue'.  Mutated form: the answer is not looked at.
CheckOverdueIgnored == serving.pc = "overdue" /\ Continue("password")
CheckOverdueInvoices ==
    /\ serving.pc = "overdue"
    /\ \/ overdue[serving.user] /\ Reject
       \/ (~overdue[serving.user] \/ ReadsMayFail) /\ Continue("password")

\* An exception of the query for the hash means that nothing is compared.
\* Decoding a garbled password raises: the request is rejected and not logged.
VerifyPassword ==
    /\ serving.pc = "password"
    /\ \/ serving.password = "wrong" /\ Reject
       \/ serving.password = "garbled" /\ Continue("rejected")
       \/ /\ \/ serving.password \in {"right", "unchecked"}
             \/ ReadsMayFail /\ serving.password = "wrong"
          /\ \/ serving.subscribed /\ Continue("accepted")
             \/ ~serving.subscribed /\ Reject

-----------------------------------------------------------------------------
(* The clock, and what the backend does meanwhile (external to the         *)
(* service: admin suspend and resume, the overdue job, payments).          *)

\* Mutated form: rows count for one tick longer than the lockout time.
OlderByOne(rows) == [k \in 0 .. Window + 1 |-> IF k = 0 THEN 0 ELSE rows[k - 1]]
Older(rows) == [k \in Ages |-> IF k = 0 THEN 0 ELSE rows[k - 1]]

Tick ==
    /\ failed' = [u \in Users |-> Older(failed[u])]
    /\ genuine' = [u \in Users |-> Older(genuine[u])]
    /\ arrived' = 0
    /\ UNCHANGED <<account, overdue, subscribed, serving>>

SetStatus(u, status) ==
    /\ status \in {"active", "suspended"} /\ account[u] # status
    /\ account' = [account EXCEPT ![u] = status]
    /\ serving' = IF serving.user = u /\ status = "active"
                  THEN [serving EXCEPT !.barred = FALSE] ELSE serving
    /\ UNCHANGED <<overdue, subscribed, failed, genuine, arrived>>

SetOverdue(u) ==
    /\ overdue' = [overdue EXCEPT ![u] = ~overdue[u]]
    /\ serving' = IF serving.user = u /\ overdue[u]
                  THEN [serving EXCEPT !.inArrears = FALSE] ELSE serving
    /\ UNCHANGED <<account, subscribed, failed, genuine, arrived>>

Handle == CheckRateLimit \/ GetSubscriber \/ CheckOverdueInvoices \/ VerifyPassword

Step ==
    \/ \E u \in Users, password \in Passwords : Arrive(u, password)
    \/ Handle
    \/ Tick
    \/ \E u \in Users \ Unknown : \/ SetStatus(u, "active") \/ SetStatus(u, "suspended")
                                  \/ SetOverdue(u)

Next == Step /\ UNCHANGED allowed

Spec == Init /\ [][Next]_vars

-----------------------------------------------------------------------------

\* Every variable has its type.
TypeOK ==
    /\ account \in [Users -> {"active", "suspended", "blocked"}]
    /\ overdue \in [Users -> BOOLEAN]
    /\ subscribed \in [Users -> BOOLEAN]
    /\ failed \in [Users -> [Ages -> Nat]]
    /\ genuine \in [Users -> [Ages -> Nat]]
    /\ serving \in Request
    /\ arrived \in 0..MaxPerTick
    /\ allowed \in Environments

\* Nobody is let in who was suspended or blocked during the whole of the request,
\* whatever the backend wrote meanwhile and whatever queries failed ('Suspension
\* Logic' of the service's README).
SuspendedIsRejected == serving.pc = "accepted" => ~serving.barred

\* Nobody is let in who had an overdue invoice during the whole of the request
\* ('Rejects auth for ... overdue invoices').
ArrearsAreRejected == serving.pc = "accepted" => ~serving.inArrears

\* It is so as long as no query fails, whatever the backend writes between two of them.
AnsweredArrearsAreRejected == ~ReadsMayFail => ArrearsAreRejected

\* Nobody is let in who was barred, or who owed, throughout the request: the two above.
BarredIsRejected == SuspendedIsRejected /\ AnsweredArrearsAreRejected

\* Within a lockout time no more than MaxAuthAttempts requests of a user get past
\* check_rate_limit and fail, as long as queries and log rows succeed: the check and the
\* row it relies on are several queries apart, and hold together because the handlers
\* share one event loop.
GuessesBounded ==
    ~ReadsMayFail /\ ~WritesMayFail =>
        \A u \in Users : Total(genuine[u]) <= MaxAuthAttempts
=============================================================================
