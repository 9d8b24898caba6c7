------------------------------ MODULE KycProofs ------------------------------
(***************************************************************************)
(* Whatever calls overlap, queries and writes fail and processes die, a    *)
(* verified customer was confirmed by NADRA; and as long as writes do not  *)
(* fail, every outcome reaches the customer.  Both follow from what a call *)
(* holds at each of its steps.                                             *)
(***************************************************************************)
EXTENDS Kyc, TLAPS

Inserting == {"start", "customer", "upsert", "update", "insert"}
Asking == Inserting \cup {"nadra"}

\* A call has no verification before its insert and no finding before it asked; the
\* answer it holds is the finding; the customer it holds is its user's.
Holds(c) ==
    /\ call[c].pc \in Inserting => row[c] = "none"
    /\ call[c].pc \in Asking => nadra[c] = "unasked"
    /\ call[c].pc \in {"verification", "publish"} /\ call[c].response = "confirmed"
         => nadra[c] = "confirmed"
    /\ call[c].hasCustomer => call[c].pc # "start" /\ UserOf(c) \in Customers
    /\ call[c].pc = "publish" => call[c].hasCustomer
CallsHold == \A c \in Calls : Holds(c)

IndInv == TypeOK /\ CallsHold /\ VerifiedIsConfirmed /\ OutcomesArePublished

LEMMA InitHolds == Init => IndInv
<1> SUFFICES ASSUME Init PROVE IndInv
  OBVIOUS
<1>1. TypeOK
  BY KycAssumption
  DEF Init, TypeOK, Customer, KycStatus, Days, VerificationStatus, Call, Steps, Responses
<1>2. CallsHold
  BY DEF Init, CallsHold, Holds
<1>3. VerifiedIsConfirmed /\ OutcomesArePublished
  BY DEF Init, VerifiedIsConfirmed, OutcomesArePublished
<1> QED
  BY <1>1, <1>2, <1>3 DEF IndInv

-----------------------------------------------------------------------------

\* A step of one call that writes neither customers nor an outcome, and leaves the call
\* with what it should hold.
LEMMA CallKeeps ==
    ASSUME IndInv, UNCHANGED <<customer, allowed, today, crashes>>,
           attempts' \in [Users -> [Days -> 0 .. 2]],
           NEW c \in Calls, NEW r \in Call, call' = [call EXCEPT ![c] = r],
           r.pc \notin {"start", "done"} => r.user \in Users,
           call[c].pc # "start" => r.user = UserOf(c),
           NEW v \in {row[c], "PENDING"}, row' = [row EXCEPT ![c] = v],
           NEW f \in {"unasked", "confirmed", "refused"}, nadra' = [nadra EXCEPT ![c] = f],
           f # nadra[c] => call[c].pc = "nadra",
           Holds(c)'
    PROVE  IndInv'
<1>1. /\ call \in [Calls -> Call] /\ row \in [Calls -> VerificationStatus]
      /\ nadra \in [Calls -> {"unasked", "confirmed", "refused"}]
      /\ \A q \in Calls : Holds(q)
  BY DEF IndInv, TypeOK, CallsHold
<1>2. /\ call'[c] = r /\ row'[c] = v /\ nadra'[c] = f
      /\ \A q \in Calls \ {c} : call'[q] = call[q] /\ row'[q] = row[q] /\ nadra'[q] = nadra[q]
  BY <1>1
<1>3. TypeOK'
  <2>1. row' \in [Calls -> VerificationStatus]
    BY <1>1 DEF VerificationStatus
  <2>2. \A q \in Calls : call'[q].pc \notin {"start", "done"} => call'[q].user \in Users
    BY <1>2 DEF IndInv, TypeOK, UserOf
  <2> QED
    BY <1>1, <2>1, <2>2 DEF IndInv, TypeOK, UserOf
<1>4. CallsHold'
  BY <1>1, <1>2 DEF CallsHold, Holds, UserOf
<1>5. VerifiedIsConfirmed'
  <2> SUFFICES ASSUME NEW u \in Customers, NEW q \in Calls, customer[u].verification = q
               PROVE  call'[q].user = u /\ nadra'[q] = "confirmed"
    BY <1>1, KycAssumption DEF IndInv, TypeOK, Customer, VerifiedIsConfirmed, UserOf
  <2>1. UserOf(q) = u /\ nadra[q] = "confirmed"
    BY KycAssumption DEF IndInv, VerifiedIsConfirmed
  <2>2. call[q].pc \notin Asking
    BY <1>1, <2>1 DEF Holds
  <2> QED
    BY <1>2, <2>1, <2>2 DEF Asking, Inserting, UserOf
<1>6. OutcomesArePublished'
  <2> SUFFICES ASSUME ~WritesMayFail, NEW q \in Calls, row'[q] \in {"VERIFIED", "FAILED"},
                      call'[q].user \in Customers
               PROVE  customer[call'[q].user].status # "UNVERIFIED"
    BY DEF OutcomesArePublished, WritesMayFail, UserOf
  <2>1. row[q] = row'[q] /\ call[q].pc # "start"
    BY <1>1, <1>2 DEF Holds, Inserting
  <2>2. call'[q].user = UserOf(q)
    BY <1>2, <2>1 DEF UserOf
  <2> QED
    BY <2>1, <2>2 DEF IndInv, OutcomesArePublished
<1> QED
  BY <1>3, <1>4, <1>5, <1>6 DEF IndInv

LEMMA EarlyStepsKeep ==
    ASSUME IndInv, UNCHANGED allowed, NEW c \in Calls,
           \/ \E u \in Users : CanAttempt(c, u)
           \/ ReadCustomer(c) \/ UpsertAttempt(c) \/ UpdateAttempt(c)
           \/ InsertVerification(c) \/ CallNadra(c)
    PROVE  IndInv'
<1>1. /\ call \in [Calls -> Call] /\ row \in [Calls -> VerificationStatus]
      /\ nadra \in [Calls -> {"unasked", "confirmed", "refused"}]
      /\ attempts \in [Users -> [Days -> 0 .. 2]] /\ today \in Days
      /\ call[c].pc \notin {"start", "done"} => UserOf(c) \in Users
      /\ Holds(c)
  BY DEF IndInv, TypeOK, CallsHold
<1>2. call[c] \in Call /\ call[c].count \in 0 .. 1 /\ call[c].day \in Days
  BY <1>1 DEF Call
<1>3. row = [row EXCEPT ![c] = row[c]] /\ nadra = [nadra EXCEPT ![c] = nadra[c]]
  BY <1>1
<1>4. ASSUME NEW u \in Users, CanAttempt(c, u) PROVE IndInv'
  <2>1. PICK pc \in {"customer", "done"} : call' = [call EXCEPT ![c].user = u, ![c].pc = pc]
    BY <1>4 DEF CanAttempt
  <2> DEFINE r == [call[c] EXCEPT !.user = u, !.pc = pc]
  <2>2. call' = [call EXCEPT ![c] = r]
    BY <1>1, <2>1
  <2>3. r \in Call /\ r.user = u /\ r.pc = pc /\ r.hasCustomer = call[c].hasCustomer
    BY <1>2 DEF Call, Steps
  <2> HIDE DEF r
  <2>4. call[c].pc = "start" /\ UNCHANGED <<customer, attempts, row, nadra, today, crashes>>
    BY <1>4 DEF CanAttempt
  <2>5. Holds(c)'
    BY <1>1, <2>2, <2>3, <2>4 DEF Holds, Inserting, Asking
  <2> QED
    BY <1>1, <1>3, <2>2, <2>3, <2>4, <2>5, CallKeeps
<1>5. CASE ReadCustomer(c)
  <2>1. PICK found \in BOOLEAN :
           /\ found => UserOf(c) \in Customers
           /\ call' = [call EXCEPT ![c] = [call[c] EXCEPT !.hasCustomer = found, !.pc = "upsert"]]
    <3>1. CASE call' = [call EXCEPT ![c].hasCustomer = UserOf(c) \in Customers, ![c].pc = "upsert"]
      <4> DEFINE known == UserOf(c) \in Customers
      <4>1. call' = [call EXCEPT ![c] = [call[c] EXCEPT !.hasCustomer = known, !.pc = "upsert"]]
        BY <1>1, <3>1, Zenon
      <4>2. known \in BOOLEAN
        OBVIOUS
      <4> QED
        BY <4>1, <4>2, Zenon
    <3>2. CASE Goto(c, "upsert")
      <4> DEFINE known == call[c].hasCustomer
      <4>1. call' = [call EXCEPT ![c] = [call[c] EXCEPT !.hasCustomer = known, !.pc = "upsert"]]
        BY <1>1, <1>2, <3>2 DEF Goto, Call
      <4>2. known \in BOOLEAN /\ (known => UserOf(c) \in Customers)
        BY <1>1, <1>2 DEF Call, Holds
      <4> QED
        BY <4>1, <4>2, Zenon
    <3> QED
      BY <1>5, <3>1, <3>2 DEF ReadCustomer
  <2> DEFINE r == [call[c] EXCEPT !.hasCustomer = found, !.pc = "upsert"]
  <2>2. call' = [call EXCEPT ![c] = r]
    BY <2>1
  <2>3. r \in Call /\ r.user = UserOf(c) /\ r.pc = "upsert" /\ r.hasCustomer = found
    BY <1>2 DEF Call, Steps, UserOf
  <2> HIDE DEF r
  <2>4. call[c].pc = "customer" /\ UNCHANGED <<customer, attempts, row, nadra, today, crashes>>
    BY <1>5 DEF ReadCustomer
  <2>5. Holds(c)'
    BY <1>1, <2>1, <2>2, <2>3, <2>4 DEF Holds, Inserting, Asking, UserOf
  <2> QED
    BY <1>1, <1>3, <2>2, <2>3, <2>4, <2>5, CallKeeps
<1>6. CASE UpsertAttempt(c)
  <2>1. PICK n \in 0 .. 1, pc \in {"update", "insert"} :
           call' = [call EXCEPT ![c] = [call[c] EXCEPT !.day = today, !.count = n, !.pc = pc]]
    <3>1. CASE call' = [call EXCEPT ![c].day = today, ![c].count = 1, ![c].pc = "update"]
      <4>1. call' = [call EXCEPT ![c] = [call[c] EXCEPT !.day = today, !.count = 1, !.pc = "update"]]
        BY <1>1, <3>1
      <4> QED
        BY <4>1
    <3>2. CASE call' = [call EXCEPT ![c].day = today, ![c].pc = "insert"]
      <4>1. call' = [call EXCEPT ![c] = [call[c] EXCEPT !.day = today, !.count = call[c].count,
                                                        !.pc = "insert"]]
        BY <1>1, <1>2, <3>2 DEF Call
      <4> QED
        BY <1>2, <4>1
    <3> QED
      BY <1>6, <3>1, <3>2 DEF UpsertAttempt
  <2> DEFINE r == [call[c] EXCEPT !.day = today, !.count = n, !.pc = pc]
  <2>2. call' = [call EXCEPT ![c] = r]
    BY <2>1
  <2>3. /\ r \in Call /\ r.user = UserOf(c) /\ r.pc = pc
        /\ r.hasCustomer = call[c].hasCustomer
    BY <1>1, <1>2 DEF Call, Steps, UserOf
  <2> HIDE DEF r
  <2>4. call[c].pc = "upsert" /\ UNCHANGED <<customer, row, nadra, today, crashes>>
    BY <1>6 DEF UpsertAttempt
  <2>5. Holds(c)'
    BY <1>1, <2>2, <2>3, <2>4 DEF Holds, Inserting, Asking, UserOf
  <2>6. attempts' \in [Users -> [Days -> 0 .. 2]]
    BY <1>1, <1>6, <2>4 DEF UpsertAttempt
  <2> QED
    BY <1>1, <1>3, <2>2, <2>3, <2>4, <2>5, <2>6, CallKeeps
<1>7. ASSUME NEW pc \in Steps, Goto(c, pc)
      PROVE  \E r \in Call :
                /\ call' = [call EXCEPT ![c] = r] /\ r.pc = pc
                /\ r.user = UserOf(c) /\ r.hasCustomer = call[c].hasCustomer
  <2> DEFINE r == [call[c] EXCEPT !.pc = pc]
  <2>1. /\ r \in Call /\ r.pc = pc
        /\ r.user = UserOf(c) /\ r.hasCustomer = call[c].hasCustomer
    BY <1>2 DEF Call, UserOf
  <2>2. call' = [call EXCEPT ![c] = r]
    BY <1>1, <1>7 DEF Goto
  <2> HIDE DEF r
  <2> QED
    BY <2>1, <2>2
<1>8. CASE UpdateAttempt(c)
  <2>1. PICK r \in Call :
           /\ call' = [call EXCEPT ![c] = r] /\ r.pc = "insert"
           /\ r.user = UserOf(c) /\ r.hasCustomer = call[c].hasCustomer
    BY <1>7, <1>8 DEF UpdateAttempt, Steps
  <2>2. call[c].pc = "update" /\ UNCHANGED <<customer, row, nadra, today, crashes>>
    BY <1>8 DEF UpdateAttempt
  <2>3. Holds(c)'
    BY <1>1, <2>1, <2>2 DEF Holds, Inserting, Asking, UserOf
  <2>4. attempts' \in [Users -> [Days -> 0 .. 2]]
    BY <1>1, <1>2, <1>8, <2>2 DEF UpdateAttempt
  <2> QED
    BY <1>1, <1>3, <2>1, <2>2, <2>3, <2>4, CallKeeps
<1>9. CASE InsertVerification(c)
  <2>1. PICK pc \in {"nadra", "done"} : Goto(c, pc)
    BY <1>9 DEF InsertVerification
  <2>2. PICK r \in Call :
           /\ call' = [call EXCEPT ![c] = r] /\ r.pc = pc
           /\ r.user = UserOf(c) /\ r.hasCustomer = call[c].hasCustomer
    BY <1>7, <2>1 DEF Steps
  <2>3. PICK v \in {row[c], "PENDING"} : row' = [row EXCEPT ![c] = v]
    BY <1>3, <1>9 DEF InsertVerification
  <2>4. call[c].pc = "insert" /\ UNCHANGED <<customer, attempts, nadra, today, crashes>>
    BY <1>9 DEF InsertVerification
  <2>5. Holds(c)'
    BY <1>1, <2>1, <2>2, <2>4 DEF Holds, Inserting, Asking, UserOf
  <2> QED
    BY <1>1, <1>3, <2>2, <2>3, <2>4, <2>5, CallKeeps
<1>10. CASE CallNadra(c)
  <2>1. PICK found \in {"confirmed", "refused"}, response \in Responses :
           /\ response \in {found, "timeout", "empty"}
           /\ nadra' = [nadra EXCEPT ![c] = found]
           /\ call' = [call EXCEPT ![c].response = response, ![c].pc = "verification"]
    BY <1>10 DEF CallNadra
  <2> DEFINE r == [call[c] EXCEPT !.response = response, !.pc = "verification"]
  <2>2. call' = [call EXCEPT ![c] = r]
    BY <1>1, <2>1
  <2>3. /\ r \in Call /\ r.user = UserOf(c) /\ r.pc = "verification"
        /\ r.response = response /\ r.hasCustomer = call[c].hasCustomer
    BY <1>2 DEF Call, Steps, UserOf
  <2> HIDE DEF r
  <2>4. call[c].pc = "nadra" /\ UNCHANGED <<customer, attempts, row, today, crashes>>
    BY <1>10 DEF CallNadra
  <2>5. Holds(c)'
    BY <1>1, <2>1, <2>2, <2>3, <2>4 DEF Holds, Inserting, Asking, UserOf
  <2>6. /\ found \in {"unasked", "confirmed", "refused"}
        /\ row' = [row EXCEPT ![c] = row[c]]
        /\ attempts' \in [Users -> [Days -> 0 .. 2]]
        /\ r.user \in Users
    BY <1>1, <1>3, <2>3, <2>4
  <2> QED
    BY <2>1, <2>2, <2>3, <2>4, <2>5, <2>6, CallKeeps
<1> QED
  BY <1>4, <1>5, <1>6, <1>8, <1>9, <1>10

\* A step of one call that may change its verification and its user's row of customers.
LEMMA OutcomeKeeps ==
    ASSUME IndInv, NEW c \in Calls, UpdateVerification(c) \/ UpdateCustomer(c), UNCHANGED allowed
    PROVE  IndInv'
<1>1. /\ call \in [Calls -> Call] /\ row \in [Calls -> VerificationStatus]
      /\ nadra \in [Calls -> {"unasked", "confirmed", "refused"}]
      /\ customer \in [Customers -> Customer] /\ call[c] \in Call
      /\ \A q \in Calls : Holds(q)
  BY DEF IndInv, TypeOK, CallsHold
<1>2. call[c].pc \in {"verification", "publish"} /\ UserOf(c) \in Users
      /\ UNCHANGED <<attempts, nadra, today, crashes>>
  BY DEF IndInv, TypeOK, UpdateVerification, Settle, UpdateCustomer
<1> DEFINE o == Outcome(call[c].response)
<1>3. o \in {"VERIFIED", "FAILED"} /\ (o = "VERIFIED" <=> call[c].response = "confirmed")
  BY DEF Outcome
<1>4. o = "VERIFIED" => nadra[c] = "confirmed"
  BY <1>1, <1>2, <1>3 DEF Holds
<1> HIDE DEF o
<1>5. PICK pc \in {"publish", "done"} :
         /\ Goto(c, pc) /\ (pc = "publish" => call[c].hasCustomer)
  BY DEF UpdateVerification, Settle, UpdateCustomer
<1>6. /\ call' \in [Calls -> Call] /\ call'[c].pc = pc
      /\ call'[c].response = call[c].response /\ call'[c].hasCustomer = call[c].hasCustomer
      /\ \A q \in Calls : UserOf(q)' = UserOf(q) /\ call'[q].user = UserOf(q)
      /\ \A q \in Calls \ {c} : call'[q] = call[q]
  <2>1. [call[c] EXCEPT !.pc = pc] \in Call
    BY <1>1 DEF Call, Steps
  <2>2. call' = [call EXCEPT ![c] = [call[c] EXCEPT !.pc = pc]]
    BY <1>1, <1>5 DEF Goto
  <2> QED
    BY <1>1, <2>1, <2>2 DEF Call, UserOf
\* The customer of the call gets the outcome, or keeps what is there; nobody else changes.
<1>7. /\ customer' \in [Customers -> Customer]
      /\ \A u \in Customers : customer'[u] # customer[u] =>
            /\ u = UserOf(c)
            /\ \/ o = "VERIFIED" /\ customer'[u].status = "VERIFIED" /\ customer'[u].verification = c
               \/ /\ o = "FAILED" /\ customer'[u].status = "FAILED"
                  /\ customer'[u].verification \in {customer[u].verification, None}
                  /\ customer[u].status = "VERIFIED" => customer'[u].verification = None
  <2>1. CASE customer' = customer
    BY <1>1, <2>1
  <2>2. CASE /\ UpdateVerification(c)
             /\ customer' = [u \in Customers |->
                                IF u = UserOf(c) THEN Triggered(customer[u], c, row'[c])
                                ELSE customer[u]]
             /\ row'[c] = o
    <3>1. \A u \in Customers : Triggered(customer[u], c, o) \in Customer
      BY <1>1 DEF Triggered, Customer, KycStatus
    <3> QED
      BY <1>1, <1>3, <2>2, <3>1 DEF Triggered, Customer
  <2>3. CASE /\ UpdateCustomer(c)
             /\ customer' = [customer EXCEPT ![UserOf(c)] =
                                [status |-> o,
                                 verification |-> IF call[c].response = "confirmed" THEN c ELSE None]]
    <3> DEFINE new == [status |-> o,
                       verification |-> IF call[c].response = "confirmed" THEN c ELSE None]
    <3>1. new \in Customer
      BY <1>3 DEF Customer, KycStatus
    <3>2. UserOf(c) \in Customers
      BY <1>1, <2>3 DEF UpdateCustomer, Holds
    <3> QED
      BY <1>1, <1>3, <2>3, <3>1, <3>2
  <2> QED
    BY <1>1, <2>1, <2>2, <2>3 DEF UpdateVerification, Settle, UpdateCustomer, o
<1>8. /\ row' \in [Calls -> VerificationStatus] /\ row'[c] \in {row[c], o}
      /\ \A q \in Calls \ {c} : row'[q] = row[q]
  <2>1. row' = row \/ row' = [row EXCEPT ![c] = o]
    BY DEF UpdateVerification, Settle, UpdateCustomer, o
  <2> QED
    BY <1>1, <1>3, <2>1 DEF VerificationStatus
<1>9. TypeOK'
  <2>1. \A q \in Calls : call'[q].pc \notin {"start", "done"} => UserOf(q)' \in Users
    BY <1>2, <1>6 DEF IndInv, TypeOK
  <2> QED
    BY <1>2, <1>6, <1>7, <1>8, <2>1 DEF IndInv, TypeOK
<1>10. CallsHold'
  <2> SUFFICES ASSUME NEW q \in Calls PROVE Holds(q)'
    BY DEF CallsHold
  <2>1. CASE q = c
    BY <1>1, <1>2, <1>5, <1>6, <2>1 DEF Holds, Inserting, Asking
  <2>2. CASE q # c
    BY <1>1, <1>2, <1>6, <1>8, <2>2 DEF Holds
  <2> QED
    BY <2>1, <2>2
<1>11. VerifiedIsConfirmed'
  <2> SUFFICES ASSUME NEW u \in Customers
               PROVE  /\ customer'[u].status = "VERIFIED" <=> customer'[u].verification # None
                      /\ customer'[u].verification # None
                            => /\ call'[customer'[u].verification].user = u
                               /\ nadra'[customer'[u].verification] = "confirmed"
    BY DEF VerifiedIsConfirmed, UserOf
  <2>1. /\ customer[u].status = "VERIFIED" <=> customer[u].verification # None
        /\ customer[u].verification # None
              => /\ UserOf(customer[u].verification) = u
                 /\ nadra[customer[u].verification] = "confirmed"
    BY DEF IndInv, VerifiedIsConfirmed
  <2>2. customer[u].verification \in Calls \cup {None} /\ None \notin Calls
    BY <1>1, KycAssumption DEF Customer
  <2>3. CASE customer'[u] = customer[u]
    BY <1>2, <1>6, <2>1, <2>2, <2>3
  <2>4. CASE customer'[u] # customer[u]
    <3>1. u = UserOf(c)
      BY <1>7, <2>4
    <3>2. CASE o = "VERIFIED"
      BY <1>2, <1>4, <1>6, <1>7, <2>2, <2>4, <3>1, <3>2
    <3>3. CASE o # "VERIFIED"
      BY <1>7, <2>1, <2>4, <3>3
    <3> QED
      BY <3>2, <3>3
  <2> QED
    BY <2>3, <2>4
<1>12. OutcomesArePublished'
  <2> SUFFICES ASSUME ~WritesMayFail, NEW q \in Calls, row'[q] \in {"VERIFIED", "FAILED"},
                      UserOf(q) \in Customers
               PROVE  customer'[UserOf(q)].status # "UNVERIFIED"
    BY <1>6 DEF OutcomesArePublished, WritesMayFail
  <2>1. CASE row[q] \in {"VERIFIED", "FAILED"}
    <3>1. customer[UserOf(q)].status # "UNVERIFIED"
      BY <2>1 DEF IndInv, OutcomesArePublished
    <3> QED
      BY <1>7, <3>1
  <2>2. CASE row[q] \notin {"VERIFIED", "FAILED"}
    <3>1. q = c /\ UpdateVerification(c)
      BY <1>8, <2>2 DEF UpdateCustomer
    <3>2. row'[c] = o /\ customer'[UserOf(c)] = Triggered(customer[UserOf(c)], c, o)
      BY <1>1, <3>1 DEF UpdateVerification, Settle, o
    <3> QED
      BY <1>3, <3>1, <3>2, <1>1 DEF Triggered, Customer
  <2> QED
    BY <2>1, <2>2
<1> QED
  BY <1>9, <1>10, <1>11, <1>12 DEF IndInv

LEMMA CrashKeeps ==
    ASSUME IndInv, Crash, UNCHANGED allowed
    PROVE  IndInv'
<1>1. call \in [Calls -> Call] /\ UNCHANGED <<customer, attempts, row, nadra, today>>
  BY DEF Crash, IndInv, TypeOK
<1>2. ASSUME NEW q \in Calls
      PROVE  /\ call'[q] \in Call /\ UserOf(q)' = UserOf(q)
             /\ call'[q].hasCustomer = call[q].hasCustomer
             /\ \/ call'[q] = call[q]
                \/ call[q].pc # "start" /\ call'[q].pc = "done"
  <2>1. CASE call[q].pc = "start"
    <3>1. call'[q] = call[q] /\ call[q] \in Call
      BY <1>1, <2>1 DEF Crash
    <3> QED
      BY <3>1 DEF UserOf
  <2>2. CASE call[q].pc # "start"
    <3>1. call'[q] = [call[q] EXCEPT !.pc = "done"] /\ call[q] \in Call
      BY <1>1, <2>2 DEF Crash
    <3>2. /\ call'[q] \in Call /\ call'[q].pc = "done"
          /\ call'[q].user = call[q].user /\ call'[q].hasCustomer = call[q].hasCustomer
      BY <3>1 DEF Call, Steps
    <3> QED
      BY <2>2, <3>2 DEF UserOf
  <2> QED
    BY <2>1, <2>2
<1>3. call' \in [Calls -> Call]
  BY <1>2 DEF Crash
<1>4. crashes' \in 0 .. MaxCrashes
  BY KycAssumption DEF Crash, IndInv, TypeOK
<1>5. TypeOK'
  BY <1>1, <1>2, <1>3, <1>4 DEF IndInv, TypeOK
<1>6. CallsHold'
  <2> SUFFICES ASSUME NEW q \in Calls PROVE Holds(q)'
    BY DEF CallsHold
  <2>1. Holds(q)
    BY DEF IndInv, CallsHold
  <2> QED
    BY <1>1, <1>2, <2>1 DEF Holds, Inserting, Asking
<1>7. VerifiedIsConfirmed'
  <2>1. \A u \in Customers : customer[u].verification \in Calls \cup {None}
    BY DEF IndInv, TypeOK, Customer
  <2> QED
    BY <1>1, <1>2, <2>1 DEF IndInv, VerifiedIsConfirmed
<1>8. OutcomesArePublished'
  BY <1>1, <1>2 DEF IndInv, OutcomesArePublished, WritesMayFail
<1> QED
  BY <1>5, <1>6, <1>7, <1>8 DEF IndInv

LEMMA StepHolds == IndInv /\ [Next]_vars => IndInv'
<1> SUFFICES ASSUME IndInv, [Next]_vars PROVE IndInv'
  OBVIOUS
<1>1. allowed' = allowed
  BY DEF Next, vars
<1>2. ASSUME NEW c \in Calls, (\E u \in Users : CanAttempt(c, u)) \/ Proceed(c)
      PROVE  IndInv'
  BY <1>1, <1>2, EarlyStepsKeep, OutcomeKeeps DEF Proceed
<1>3. CASE DayPasses
  <2>1. today' \in Days
    BY <1>3, KycAssumption DEF DayPasses, IndInv, TypeOK, Days
  <2> QED
    BY <1>1, <1>3, <2>1 DEF DayPasses, IndInv, TypeOK, CallsHold, Holds, UserOf,
                            VerifiedIsConfirmed, OutcomesArePublished, WritesMayFail
<1>4. CASE Crash
  BY <1>1, <1>4, CrashKeeps
<1>5. CASE UNCHANGED vars
  BY <1>5 DEF vars, IndInv, TypeOK, CallsHold, Holds, UserOf, VerifiedIsConfirmed,
              OutcomesArePublished, WritesMayFail
<1> QED
  BY <1>2, <1>3, <1>4, <1>5 DEF Next, Step

LEMMA Inductive == Spec => []IndInv
BY InitHolds, StepHolds, PTL DEF Spec

\* Every variable keeps its type, for any users, calls and bounds.
THEOREM TypeCorrect == Spec => []TypeOK
<1>1. IndInv => TypeOK
  BY DEF IndInv
<1> QED
  BY <1>1, Inductive, PTL

\* However many verifications overlap and whatever fails, a customer marked as verified
\* names a verification of its own that NADRA confirmed.
THEOREM VerifiedCustomersWereConfirmed == Spec => []VerifiedIsConfirmed
<1>1. IndInv => VerifiedIsConfirmed
  BY DEF IndInv
<1> QED
  BY <1>1, Inductive, PTL

\* As long as no write fails, the trigger brings every outcome to the customer, whenever
\* the service died.
THEOREM OutcomesReachCustomers == Spec => []OutcomesArePublished
<1>1. IndInv => OutcomesArePublished
  BY DEF IndInv
<1> QED
  BY <1>1, Inductive, PTL
=============================================================================
