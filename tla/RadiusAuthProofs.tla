-------------------------- MODULE RadiusAuthProofs --------------------------
(* What an Access-Accept of RadiusAuth says of the account, for all values of *)
(* the constants.                                                            *)
EXTENDS RadiusAuth, FunctionTheorems, FiniteSetTheorems, TLAPS

\* Only the idle service has no user to serve.
Named == serving.pc # "idle" => serving.user \in Users

\* barred says that the account is not active and has not been since the request
\* came; a request that got past the status check is not barred.
StatusChecked ==
    /\ serving.pc # "idle" /\ serving.barred => account[serving.user] # "active"
    /\ serving.pc \in {"overdue", "password", "accepted"} => ~serving.barred

\* The same of the invoices, if no query fails.
InvoicesChecked ==
    ~ReadsMayFail =>
        /\ serving.pc # "idle" /\ serving.inArrears => overdue[serving.user]
        /\ serving.pc \in {"password", "accepted"} => ~serving.inArrears

IndInv == TypeOK /\ Named /\ StatusChecked /\ InvoicesChecked

-----------------------------------------------------------------------------

LEMMA LoggedType ==
    ASSUME TypeOK, Named, serving.pc # "idle", NEW rows \in [Users -> [Ages -> Nat]]
    PROVE  Logged(rows) \in [Users -> [Ages -> Nat]]
<1> DEFINE u == serving.user
<1>1. u \in Users
  BY DEF Named
<1>2. 0 \in Ages
  BY RadiusAuthAssumption DEF Ages
<1>3. [rows[u] EXCEPT ![0] = rows[u][0] + 1] \in [Ages -> Nat]
  BY <1>1, <1>2
<1>4. Logged(rows) = [rows EXCEPT ![u] = [rows[u] EXCEPT ![0] = rows[u][0] + 1]]
  BY <1>1, <1>2 DEF Logged
<1> QED
  BY <1>1, <1>3, <1>4

LEMMA OlderType ==
    ASSUME NEW rows \in [Ages -> Nat]
    PROVE  Older(rows) \in [Ages -> Nat]
BY RadiusAuthAssumption DEF Older, Ages

LEMMA InitHolds == Init => IndInv
BY RadiusAuthAssumption DEF Init, IndInv, TypeOK, Named, StatusChecked, InvoicesChecked, Request,
   Ages, Answers, Passwords

LEMMA RejectKeeps ==
    ASSUME IndInv, Busy, Reject, UNCHANGED allowed
    PROVE  IndInv'
<1> USE DEF ReadsMayFail, May
<1>1. /\ Logged(failed) \in [Users -> [Ages -> Nat]]
      /\ Logged(genuine) \in [Users -> [Ages -> Nat]]
  BY LoggedType DEF IndInv, TypeOK, Busy
<1>2. TypeOK'
  BY <1>1 DEF IndInv, TypeOK, Reject, Goto, Request, Answers
<1> QED
  BY <1>2 DEF IndInv, TypeOK, Named, StatusChecked, InvoicesChecked, Reject, Goto, Busy, Request

LEMMA HandleKeeps ==
    ASSUME IndInv, Handle, UNCHANGED allowed
    PROVE  IndInv'
<1> USE DEF ReadsMayFail, May
<1>1. CASE CheckRateLimit
  <2>1. Busy
    BY <1>1 DEF CheckRateLimit, Busy
  <2>2. Logged(failed) \in [Users -> [Ages -> Nat]]
    BY <2>1, LoggedType DEF IndInv, TypeOK, Busy
  <2>3. /\ Goto("limited") \/ Goto("subscriber")
        /\ failed' \in {failed, Logged(failed)}
        /\ UNCHANGED <<account, overdue, subscribed, genuine, arrived>>
    BY <1>1 DEF CheckRateLimit, Continue
  <2>4. serving' \in Request
    BY <2>3 DEF Goto, IndInv, TypeOK, Request, Answers
  <2>5. TypeOK'
    BY <2>2, <2>3, <2>4 DEF IndInv, TypeOK
  <2> QED
    BY <2>1, <2>3, <2>5
    DEF Goto, Busy, IndInv, TypeOK, Named, StatusChecked, InvoicesChecked, Request
<1>2. CASE GetSubscriber
  <2>1. Busy
    BY <1>2 DEF GetSubscriber, Busy
  <2>2. CASE Reject
    BY <2>1, <2>2, RejectKeeps
  <2>3. CASE /\ ~TurnedAway(serving.user)
             /\ serving' = [serving EXCEPT !.pc = "overdue", !.subscribed = subscribed[serving.user]]
             /\ UNCHANGED <<account, overdue, subscribed, failed, genuine, arrived>>
    <3>1. serving.user \in Users
      BY <2>1 DEF IndInv, Named, Busy
    <3>2. account[serving.user] = "active"
      BY <2>3, <3>1 DEF TurnedAway, IndInv, TypeOK
    <3> QED
      BY <1>2, <2>3, <3>1, <3>2
      DEF GetSubscriber, IndInv, TypeOK, Named, StatusChecked, InvoicesChecked, Request, Answers
  <2> QED
    BY <1>2, <2>2, <2>3 DEF GetSubscriber
<1>3. CASE CheckOverdueInvoices
  <2>1. Busy
    BY <1>3 DEF CheckOverdueInvoices, Busy
  <2>2. CASE Reject
    BY <2>1, <2>2, RejectKeeps
  <2>3. CASE (~overdue[serving.user] \/ ReadsMayFail) /\ Continue("password")
    BY <1>3, <2>3
    DEF CheckOverdueInvoices, Continue, Goto, IndInv, TypeOK, Named, StatusChecked, InvoicesChecked,
        Request, Answers
  <2> QED
    BY <1>3, <2>2, <2>3 DEF CheckOverdueInvoices
<1>4. CASE VerifyPassword
  <2>1. Busy
    BY <1>4 DEF VerifyPassword, Busy
  <2>2. CASE Reject
    BY <2>1, <2>2, RejectKeeps
  <2>3. CASE Continue("rejected") \/ Continue("accepted")
    BY <1>4, <2>3
    DEF VerifyPassword, Continue, Goto, IndInv, TypeOK, Named, StatusChecked, InvoicesChecked,
        Request, Answers
  <2> QED
    BY <1>4, <2>2, <2>3 DEF VerifyPassword
<1> QED
  BY <1>1, <1>2, <1>3, <1>4 DEF Handle

LEMMA StepHolds == IndInv /\ [Next]_vars => IndInv'
<1> SUFFICES ASSUME IndInv, [Next]_vars PROVE IndInv'
  OBVIOUS
<1>0. UNCHANGED allowed
  BY DEF Next, vars
<1> USE <1>0 DEF ReadsMayFail, May
<1>1. ASSUME NEW u \in Users, NEW password \in Passwords, Arrive(u, password)
      PROVE  IndInv'
  <2>1. arrived' \in 0 .. MaxPerTick
    BY <1>1, RadiusAuthAssumption DEF Arrive, IndInv, TypeOK
  <2>2. serving' \in Request
    BY <1>1 DEF Arrive, IndInv, TypeOK, Request
  <2> QED
    BY <1>1, <2>1, <2>2 DEF Arrive, IndInv, TypeOK, Named, StatusChecked, InvoicesChecked
<1>2. CASE Handle
  BY <1>2, HandleKeeps
<1>3. CASE Tick
  <2>1. TypeOK'
    BY <1>3, OlderType, RadiusAuthAssumption DEF Tick, IndInv, TypeOK
  <2> QED
    BY <1>3, <2>1 DEF Tick, IndInv, Named, StatusChecked, InvoicesChecked
<1>4. ASSUME NEW u \in Users, NEW status, SetStatus(u, status)
      PROVE  IndInv'
  <2>1. TypeOK'
    BY <1>4 DEF SetStatus, IndInv, TypeOK, Request
  <2> QED
    BY <1>4, <2>1 DEF SetStatus, IndInv, TypeOK, Named, StatusChecked, InvoicesChecked, Request
<1>5. ASSUME NEW u \in Users, SetOverdue(u)
      PROVE  IndInv'
  <2>1. TypeOK'
    BY <1>5 DEF SetOverdue, IndInv, TypeOK, Request
  <2> QED
    BY <1>5, <2>1 DEF SetOverdue, IndInv, TypeOK, Named, StatusChecked, InvoicesChecked, Request
<1>6. CASE UNCHANGED vars
  BY <1>6 DEF vars, IndInv, TypeOK, Named, StatusChecked, InvoicesChecked
<1> QED
  BY <1>1, <1>2, <1>3, <1>4, <1>5, <1>6 DEF Next, Step

\* The strengthening is invariant: what the checks of handle_authentication have
\* established stays true until the answer.
LEMMA Inductive == Spec => []IndInv
BY InitHolds, StepHolds, PTL DEF Spec

\* Every variable keeps its type.
THEOREM TypeCorrect == Spec => []TypeOK
<1>1. IndInv => TypeOK
  BY DEF IndInv
<1> QED
  BY <1>1, Inductive, PTL

\* handle_authentication accepts nobody who was suspended or blocked during the whole of
\* the request, whatever queries of the service fail.
THEOREM SuspendedNeverAccepted == Spec => []SuspendedIsRejected
<1>1. IndInv => SuspendedIsRejected
  BY DEF IndInv, StatusChecked, SuspendedIsRejected
<1> QED
  BY <1>1, Inductive, PTL

\* It accepts nobody who was in arrears during the whole of the request, provided
\* that no query fails.
THEOREM ArrearsNeverAccepted == Spec => []AnsweredArrearsAreRejected
<1>1. IndInv => AnsweredArrearsAreRejected
  BY DEF IndInv, InvoicesChecked, ArrearsAreRejected, AnsweredArrearsAreRejected
<1> QED
  BY <1>1, Inductive, PTL

\* Nobody is accepted who was barred or, where no query fails, owed during the whole of
\* the request.
THEOREM BarredNeverAccepted == Spec => []BarredIsRejected
BY SuspendedNeverAccepted, ArrearsNeverAccepted, PTL DEF BarredIsRejected

-----------------------------------------------------------------------------
(* Counting the rows of a window.                                          *)

LEMMA NumberedRows ==
    ASSUME NEW rows \in [Ages -> Nat]
    PROVE  /\ Numbered(rows) \subseteq Ages \X Nat
           /\ \A k \in Ages, n \in Nat : <<k, n>> \in Numbered(rows) <=> n \in 1 .. rows[k]
BY DEF Numbered

\* The rows of a window are finitely many, for the window is finite and so is each age.
LEMMA NumberedIsFinite ==
    ASSUME NEW rows \in [Ages -> Nat]
    PROVE  IsFiniteSet(Numbered(rows)) /\ Total(rows) \in Nat
<1> DEFINE column == [k \in Ages |-> {k} \X (1 .. rows[k])]
           Columns == {column[k] : k \in Ages}
<1>1. IsFiniteSet(Ages)
  BY FS_Interval, RadiusAuthAssumption DEF Ages
<1>2. column \in Surjection(Ages, Columns)
  BY DEF Surjection
<1>3. IsFiniteSet(Columns)
  BY <1>1, <1>2, FS_Surjection
<1>4. ASSUME NEW k \in Ages PROVE IsFiniteSet(column[k])
  <2>1. IsFiniteSet(1 .. rows[k])
    BY FS_Interval
  <2>2. IsFiniteSet({k})
    BY FS_Singleton
  <2>3. IsFiniteSet({k} \X (1 .. rows[k]))
    BY <2>1, <2>2, FS_Product
  <2> QED
    BY <2>3
<1>5. \A T \in Columns : IsFiniteSet(T)
  BY <1>4
<1>6. IsFiniteSet(UNION Columns)
  BY <1>3, <1>5, FS_UNION
<1>7. Numbered(rows) = UNION Columns
  BY DEF Numbered
<1> QED
  BY <1>6, <1>7, FS_CardinalityType DEF Total

\* Who has no more rows of any age has no more rows.
LEMMA TotalMonotone ==
    ASSUME NEW rows \in [Ages -> Nat], NEW more \in [Ages -> Nat],
           \A k \in Ages : rows[k] <= more[k]
    PROVE  Total(rows) <= Total(more)
<1>1. Numbered(rows) \subseteq Numbered(more)
  BY NumberedRows
<1> QED
  BY <1>1, NumberedIsFinite, FS_Subset DEF Total

\* A row that is logged counts for one.
LEMMA TotalLogged ==
    ASSUME NEW rows \in [Ages -> Nat]
    PROVE  Total([rows EXCEPT ![0] = @ + 1]) = Total(rows) + 1
<1> DEFINE new == <<0, rows[0] + 1>>
           more == [rows EXCEPT ![0] = @ + 1]
<1>1. 0 \in Ages
  BY RadiusAuthAssumption DEF Ages
<1>2. /\ more \in [Ages -> Nat] /\ more[0] = rows[0] + 1
      /\ \A k \in Ages : k # 0 => more[k] = rows[k]
  BY <1>1
<1>3. new \notin Numbered(rows) /\ new \in Ages \X Nat
  BY <1>1, NumberedRows
<1> HIDE DEF more
<1>4. ASSUME NEW k \in Ages, NEW n \in Nat
      PROVE  <<k, n>> \in Numbered(more) <=> <<k, n>> \in Numbered(rows) \cup {new}
  <2>1. n \in 1 .. more[k] <=> n \in 1 .. rows[k] \/ (k = 0 /\ n = rows[0] + 1)
    BY <1>1, <1>2
  <2>2. <<k, n>> = new <=> k = 0 /\ n = rows[0] + 1
    OBVIOUS
  <2> QED
    BY <1>2, <2>1, <2>2, NumberedRows
<1>5. Numbered(more) = Numbered(rows) \cup {new}
  <2>1. Numbered(more) \subseteq Ages \X Nat /\ Numbered(rows) \cup {new} \subseteq Ages \X Nat
    BY <1>2, <1>3, NumberedRows
  <2> QED
    BY <1>4, <2>1
<1>6. Total(more) = Total(rows) + 1
  BY <1>3, <1>5, NumberedIsFinite, FS_AddElement DEF Total
<1> QED
  BY <1>6 DEF more

\* Ageing only takes rows out of the window.
LEMMA TotalOlder ==
    ASSUME NEW rows \in [Ages -> Nat]
    PROVE  Total(Older(rows)) <= Total(rows)
<1> DEFINE young(r) == <<r[1] - 1, r[2]>>
           younger == [r \in Numbered(Older(rows)) |-> young(r)]
<1>1. ASSUME NEW r \in Numbered(Older(rows))
      PROVE  young(r) \in Numbered(rows) /\ r[1] \in Nat /\ r = <<r[1], r[2]>>
  <2>1. PICK k \in Ages, n \in Nat : r = <<k, n>>
    BY OlderType, NumberedRows
  <2>2. n \in 1 .. Older(rows)[k]
    BY <2>1, OlderType, NumberedRows
  <2>3. k # 0 /\ Older(rows)[k] = rows[k - 1]
    BY <2>2 DEF Older
  <2>4. k - 1 \in Ages /\ k \in Nat
    BY <2>3, RadiusAuthAssumption DEF Ages
  <2>5. <<k - 1, n>> \in Numbered(rows)
    BY <2>2, <2>3, <2>4, NumberedRows
  <2> QED
    BY <2>1, <2>4, <2>5
<1>2. \A r \in Numbered(Older(rows)), s \in Numbered(Older(rows)) : young(r) = young(s) => r = s
  <2> SUFFICES ASSUME NEW r \in Numbered(Older(rows)), NEW s \in Numbered(Older(rows)),
                      young(r) = young(s)
               PROVE  r = s
    OBVIOUS
  <2>1. r[1] - 1 = s[1] - 1 /\ r[2] = s[2]
    OBVIOUS
  <2>2. r[1] \in Nat /\ s[1] \in Nat /\ r = <<r[1], r[2]>> /\ s = <<s[1], s[2]>>
    BY <1>1
  <2>3. r[1] = s[1]
    BY <2>1, <2>2
  <2> QED
    BY <2>1, <2>2, <2>3
<1>3. younger \in [Numbered(Older(rows)) -> Numbered(rows)]
  BY <1>1
<1>4. \A r, s \in Numbered(Older(rows)) : younger[r] = younger[s] => r = s
  BY <1>2
<1> HIDE DEF younger
<1>5. younger \in Injection(Numbered(Older(rows)), Numbered(rows))
  BY <1>3, <1>4 DEF Injection, IsInjective
<1>6. IsFiniteSet(Numbered(rows))
  BY NumberedIsFinite
<1>7. Cardinality(Numbered(Older(rows))) <= Cardinality(Numbered(rows))
  BY <1>5, <1>6, FS_Injection, Zenon
<1> QED
  BY <1>7 DEF Total

LEMMA OlderKeepsOrder ==
    ASSUME NEW fewer \in [Ages -> Nat], NEW more \in [Ages -> Nat],
           \A k \in Ages : fewer[k] <= more[k], NEW k \in Ages
    PROVE  Older(fewer)[k] <= Older(more)[k]
<1>1. CASE k = 0
  BY <1>1 DEF Older
<1>2. CASE k # 0
  <2>1. PICK j \in Ages : j = k - 1
    BY <1>2, RadiusAuthAssumption DEF Ages
  <2>2. Older(fewer)[k] = fewer[j] /\ Older(more)[k] = more[j]
    BY <1>2, <2>1 DEF Older
  <2> QED
    BY <2>2
<1> QED
  BY <1>1, <1>2

-----------------------------------------------------------------------------
(* The limit of attempts.                                                  *)

\* Every failure that got past the limit has its row, and a request past the check found
\* its user below the limit; only this request can have added to the rows since.
Counting ==
    /\ \A u \in Users, k \in Ages : genuine[u][k] <= failed[u][k]
    /\ serving.pc \in {"subscriber", "overdue", "password"} => ~Limited(serving.user)
    /\ \A u \in Users : Total(genuine[u]) <= MaxAuthAttempts

LEMMA LoggedRows ==
    ASSUME IndInv, Busy, NEW rows \in [Users -> [Ages -> Nat]]
    PROVE  /\ serving.user \in Users
           /\ Logged(rows)[serving.user] = [rows[serving.user] EXCEPT ![0] = @ + 1]
           /\ \A u \in Users : u # serving.user => Logged(rows)[u] = rows[u]
BY DEF Logged, Busy, IndInv, Named

LEMMA LoggedKeepsOrder ==
    ASSUME IndInv, Busy, NEW fewer \in [Users -> [Ages -> Nat]], NEW more \in [Users -> [Ages -> Nat]],
           \A u \in Users, k \in Ages : fewer[u][k] <= more[u][k]
    PROVE  /\ \A u \in Users, k \in Ages : Logged(fewer)[u][k] <= Logged(more)[u][k]
           /\ \A u \in Users, k \in Ages : fewer[u][k] <= Logged(more)[u][k]
<1>1. ASSUME NEW u \in Users, NEW k \in Ages
      PROVE  Logged(fewer)[u][k] <= Logged(more)[u][k] /\ fewer[u][k] <= Logged(more)[u][k]
  <2>1. CASE u = serving.user
    <3>1. /\ Logged(fewer)[u] = [fewer[u] EXCEPT ![0] = @ + 1] /\ fewer[u] \in [Ages -> Nat]
          /\ Logged(more)[u] = [more[u] EXCEPT ![0] = @ + 1] /\ more[u] \in [Ages -> Nat]
      BY <2>1, LoggedRows
    <3>2. fewer[u][k] <= more[u][k] /\ fewer[u][k] \in Nat /\ more[u][k] \in Nat
      BY <3>1
    <3>3. /\ Logged(fewer)[u][k] = IF k = 0 THEN fewer[u][k] + 1 ELSE fewer[u][k]
          /\ Logged(more)[u][k] = IF k = 0 THEN more[u][k] + 1 ELSE more[u][k]
      BY <3>1
    <3> QED
      BY <3>2, <3>3
  <2>2. CASE u # serving.user
    BY <2>2, LoggedRows
  <2> QED
    BY <2>1, <2>2
<1> QED
  BY <1>1

\* A failure is logged while there is room for one more.
LEMMA RejectCounts ==
    ASSUME IndInv, Counting, ~WritesMayFail, Reject,
           serving.pc \in {"subscriber", "overdue", "password"}
    PROVE  Counting'
<1>1. Busy /\ failed \in [Users -> [Ages -> Nat]] /\ genuine \in [Users -> [Ages -> Nat]]
  BY DEF Busy, IndInv, TypeOK
<1>2. failed' = Logged(failed) /\ genuine' = Logged(genuine) /\ serving'.pc = "rejected"
  BY DEF Reject, Goto, IndInv, TypeOK, Request
<1>3. \A v \in Users, k \in Ages : genuine'[v][k] <= failed'[v][k]
  BY <1>1, <1>2, LoggedKeepsOrder DEF Counting
<1>4. PICK u \in Users : u = serving.user
  BY <1>1, LoggedRows
<1>5. PICK few \in [Ages -> Nat], many \in [Ages -> Nat] : few = genuine[u] /\ many = failed[u]
  BY <1>1
<1>6. Total(few) \in Nat /\ Total(many) \in Nat /\ Total(few) <= Total(many)
  <2>1. \A k \in Ages : few[k] <= many[k]
    BY <1>5 DEF Counting
  <2> QED
    BY <2>1, NumberedIsFinite, TotalMonotone
<1>7. Total(many) < MaxAuthAttempts
  BY <1>4, <1>5, <1>6, RadiusAuthAssumption DEF Counting, Limited
<1>8. Total(genuine'[u]) = Total(few) + 1
  <2>1. genuine'[u] = [few EXCEPT ![0] = @ + 1]
    BY <1>1, <1>2, <1>4, <1>5, LoggedRows
  <2> QED
    BY <2>1, TotalLogged
<1>9. \A v \in Users : Total(genuine'[v]) <= MaxAuthAttempts
  <2>1. Total(genuine'[u]) <= MaxAuthAttempts
    BY <1>6, <1>7, <1>8, RadiusAuthAssumption
  <2>2. \A v \in Users : v # u => genuine'[v] = genuine[v]
    BY <1>1, <1>2, <1>4, LoggedRows
  <2> QED
    BY <2>1, <2>2 DEF Counting
<1> QED
  BY <1>2, <1>3, <1>9 DEF Counting

LEMMA CountingInd ==
    ASSUME IndInv, Counting, ~ReadsMayFail, ~WritesMayFail, [Next]_vars
    PROVE  Counting'
<1> USE DEF IndInv, TypeOK
<1>1. ASSUME NEW u \in Users, NEW password \in Passwords, Arrive(u, password)
      PROVE  Counting'
  BY <1>1 DEF Arrive, Counting
<1>2. CASE CheckRateLimit
  <2>1. serving.pc = "rate" /\ Busy
    BY <1>2 DEF CheckRateLimit, Busy
  <2>2. CASE Goto("limited") /\ failed' = Logged(failed) /\ genuine' = genuine
    <3>1. serving'.pc = "limited"
      BY <2>2 DEF Goto, Request
    <3> QED
      BY <2>1, <2>2, <3>1, LoggedKeepsOrder DEF Counting
  <2>3. CASE ~Limited(serving.user) /\ Continue("subscriber")
    <3>1. serving'.user = serving.user /\ failed' = failed /\ genuine' = genuine
      BY <2>3 DEF Continue, Goto, Request
    <3> QED
      BY <2>3, <3>1 DEF Counting, Limited
  <2> QED
    BY <1>2, <2>2, <2>3 DEF CheckRateLimit
<1>3. CASE serving.pc \in {"subscriber", "overdue", "password"} /\ Reject
  BY <1>3, RejectCounts
<1>4. CASE /\ serving.pc \in {"subscriber", "overdue", "password"}
           /\ serving'.user = serving.user
           /\ UNCHANGED <<failed, genuine>>
  BY <1>4 DEF Counting, Limited
<1>5. CASE GetSubscriber \/ CheckOverdueInvoices \/ VerifyPassword
  BY <1>3, <1>4, <1>5
  DEF GetSubscriber, CheckOverdueInvoices, VerifyPassword, Continue, Goto, Request
<1>6. CASE Tick
  <2>1. \A u \in Users : /\ failed'[u] = Older(failed[u]) /\ genuine'[u] = Older(genuine[u])
                         /\ failed[u] \in [Ages -> Nat] /\ genuine[u] \in [Ages -> Nat]
    BY <1>6 DEF Tick
  <2>2. ASSUME NEW u \in Users, NEW k \in Ages
        PROVE  genuine'[u][k] <= failed'[u][k]
    <3>1. \A j \in Ages : genuine[u][j] <= failed[u][j]
      BY DEF Counting
    <3> QED
      BY <2>1, <3>1, OlderKeepsOrder
  <2>3. ASSUME serving'.pc \in {"subscriber", "overdue", "password"}
        PROVE  ~Limited(serving.user)'
    <3>1. serving' = serving /\ serving.user \in Users /\ ~Limited(serving.user)
      BY <1>6, <2>3 DEF Tick, Counting, Named
    <3>2. Total(Older(failed[serving.user])) <= Total(failed[serving.user])
      BY <2>1, <3>1, TotalOlder
    <3>3. /\ Total(Older(failed[serving.user])) \in Nat
          /\ Total(failed[serving.user]) \in Nat
      BY <2>1, <3>1, OlderType, NumberedIsFinite
    <3> QED
      BY <2>1, <3>1, <3>2, <3>3, RadiusAuthAssumption DEF Limited
  <2>4. ASSUME NEW u \in Users
        PROVE  Total(genuine'[u]) <= MaxAuthAttempts
    <3>1. /\ Total(Older(genuine[u])) \in Nat /\ Total(genuine[u]) \in Nat
          /\ Total(Older(genuine[u])) <= Total(genuine[u])
      BY <2>1, OlderType, NumberedIsFinite, TotalOlder
    <3> QED
      BY <2>1, <3>1, RadiusAuthAssumption DEF Counting
  <2> QED
    BY <2>2, <2>3, <2>4 DEF Counting
<1>7. CASE /\ UNCHANGED <<failed, genuine>>
           /\ serving'.pc = serving.pc /\ serving'.user = serving.user
  BY <1>7 DEF Counting, Limited
<1>8. ASSUME NEW u \in Users, NEW status, SetStatus(u, status)
      PROVE  Counting'
  BY <1>7, <1>8 DEF SetStatus, Request
<1>9. ASSUME NEW u \in Users, SetOverdue(u)
      PROVE  Counting'
  BY <1>7, <1>9 DEF SetOverdue, Request
<1>10. CASE UNCHANGED vars
  BY <1>7, <1>10 DEF vars
<1> QED
  BY <1>1, <1>2, <1>5, <1>6, <1>8, <1>9, <1>10 DEF Next, Step, Handle

LEMMA EmptyWindow == Total([k \in Ages |-> 0]) = 0
<1>1. [k \in Ages |-> 0] \in [Ages -> Nat]
  OBVIOUS
<1>2. Numbered([k \in Ages |-> 0]) = {}
  BY <1>1, NumberedRows
<1> QED
  BY <1>2, FS_EmptySet DEF Total

\* As long as queries and log rows succeed, no user fails more than MaxAuthAttempts times
\* within a lockout time past check_rate_limit, although the check and the row it relies
\* on are several queries apart.
THEOREM GuessesStayBounded == Spec => []GuessesBounded
<1> DEFINE Inv == ~ReadsMayFail /\ ~WritesMayFail => Counting
<1>1. Init => Inv
  <2> SUFFICES ASSUME Init PROVE Counting
    OBVIOUS
  <2>1. \A u \in Users : failed[u] = [k \in Ages |-> 0] /\ genuine[u] = [k \in Ages |-> 0]
    BY DEF Init
  <2>2. \A u \in Users, k \in Ages : genuine[u][k] <= failed[u][k]
    BY <2>1
  <2> QED
    BY <2>1, <2>2, EmptyWindow, RadiusAuthAssumption DEF Init, Counting
<1>2. IndInv /\ Inv /\ [Next]_vars => Inv'
  <2>1. [Next]_vars => UNCHANGED allowed
    BY DEF Next, vars
  <2> QED
    BY <2>1, CountingInd DEF ReadsMayFail, WritesMayFail, May
<1>3. Inv => GuessesBounded
  BY DEF Counting, GuessesBounded
<1> QED
  BY <1>1, <1>2, <1>3, Inductive, PTL DEF Spec
=============================================================================
