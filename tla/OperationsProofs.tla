-------------------------- MODULE OperationsProofs --------------------------
(***************************************************************************)
(* Theorems about MCOperations for any number of OLTs, ONUs, drivers,      *)
(* customers, calls, tickets, invoices, exports, accesses and schedules.   *)
(***************************************************************************)
EXTENDS MCOperations, FiniteSetTheorems, TLAPS

-----------------------------------------------------------------------------
(* The network service.  What is known of each request and its driver; then its place in *)
(* the dialogue with its OLT, from which the truth of its answers follows.              *)

\* Every dialogue of every vendor is a non-empty sequence of known commands.
LEMMA DialoguesAreNamed ==
    ASSUME NEW v \in {"huawei", "zte", "fiberhome"}, NEW k \in Kinds \ {"status"}
    PROVE  Commands(k, v) \in Seq(CommandNames) /\ Commands(k, v) # <<>>
<1> USE DEF Commands, Dialogue, HuaweiCommands, ZteCommands, FiberhomeCommands
<1>1. Commands(k, v) \in
        {<<"other">>, <<"other", "port", "other", "leave">>, <<"port", "add", "leave", "other">>,
         <<"port", "delete", "leave">>, <<"enter", "other", "other", "down", "up", "leave">>,
         <<"port", "add", "leave", "enter", "other", "leave">>, <<"port", "flow", "commit", "leave">>,
         <<"port", "register", "other", "commit", "leave">>, <<"remove">>}
  <2>1. CASE v = "huawei"
    BY <2>1 DEF Kinds, Searching
  <2>2. CASE v = "zte"
    BY <2>2 DEF Kinds, Searching
  <2>3. CASE v = "fiberhome"
    BY <2>3 DEF Kinds, Searching
  <2> QED
    BY <2>1, <2>2, <2>3
<1> HIDE DEF Commands, Dialogue, HuaweiCommands, ZteCommands, FiberhomeCommands
<1>2. /\ <<"other">> \in Seq(CommandNames) /\ <<"remove">> \in Seq(CommandNames)
      /\ <<"other", "port", "other", "leave">> \in Seq(CommandNames)
      /\ <<"port", "add", "leave", "other">> \in Seq(CommandNames)
      /\ <<"port", "delete", "leave">> \in Seq(CommandNames)
      /\ <<"port", "flow", "commit", "leave">> \in Seq(CommandNames)
  BY DEF CommandNames
<1>3. /\ <<"enter", "other", "other", "down", "up", "leave">> \in Seq(CommandNames)
      /\ <<"port", "add", "leave", "enter", "other", "leave">> \in Seq(CommandNames)
      /\ <<"port", "register", "other", "commit", "leave">> \in Seq(CommandNames)
  BY DEF CommandNames
<1>4. /\ <<"other">> # <<>> /\ <<"remove">> # <<>>
      /\ <<"other", "port", "other", "leave">> # <<>>
      /\ <<"port", "add", "leave", "other">> # <<>>
      /\ <<"port", "delete", "leave">> # <<>>
      /\ <<"port", "flow", "commit", "leave">> # <<>>
      /\ <<"enter", "other", "other", "down", "up", "leave">> # <<>>
      /\ <<"port", "add", "leave", "enter", "other", "leave">> # <<>>
      /\ <<"port", "register", "other", "commit", "leave">> # <<>>
  OBVIOUS
<1> QED
  BY <1>1, <1>2, <1>3, <1>4

\* What a request holds in each of its steps.
Holds(r) ==
       /\ Active(r) => job[r].kind \in Kinds /\ job[r].onu \in Onus
       /\ job[r].pc \in {"idle", "search", "connect"} \cup Answers =>
             job[r].driver = None /\ job[r].commands = <<>>
       /\ job[r].pc \in {"connect", "locate", "commands", "profile"} => job[r].olt \in Olts
       /\ job[r].pc \in {"locate", "commands", "profile"} => job[r].driver \in Drivers
       /\ job[r].pc = "locate" => job[r].kind \in Searching
       /\ job[r].pc = "commands" => job[r].kind # "status"
       /\ job[r].pc = "profile" => job[r].kind = "provision"
JobHolds == \A r \in NetRequests : Holds(r)

\* There is a driver for whoever wants to connect: as many are in the pool as there are OLTs,
\* and as many are held as there are other requests.
LEMMA DriverIsFree ==
    ASSUME OltTypeOK, NEW r \in NetRequests, job[r].driver = None
    PROVE  \E d \in Drivers : Free(d)
<1> DEFINE P == {pool[o] : o \in Olts}
           J == {job[q].driver : q \in NetRequests \ {r}}
<1>1. IsFiniteSet(P) /\ Cardinality(P) <= Cardinality(Olts)
  <2>1. [o \in Olts |-> pool[o]] \in Surjection(Olts, P)
    BY DEF Surjection
  <2> QED
    BY <2>1, FS_Surjection, OltAccessAssumption
<1>2. /\ IsFiniteSet(NetRequests \ {r})
      /\ Cardinality(NetRequests \ {r}) = Cardinality(NetRequests) - 1
  BY FS_RemoveElement, OltAccessAssumption
<1>3. IsFiniteSet(J) /\ Cardinality(J) <= Cardinality(NetRequests) - 1
  <2>1. [q \in NetRequests \ {r} |-> job[q].driver] \in Surjection(NetRequests \ {r}, J)
    BY DEF Surjection
  <2> QED
    BY <1>2, <2>1, FS_Surjection
<1>4. /\ Cardinality(P) \in Nat /\ Cardinality(J) \in Nat /\ Cardinality(Olts) \in Nat
      /\ Cardinality(NetRequests) \in Nat /\ Cardinality(Drivers) \in Nat
  BY <1>1, <1>3, FS_CardinalityType, OltAccessAssumption
<1>5. IsFiniteSet(P \cup J) /\ Cardinality(P \cup J) <= Cardinality(P) + Cardinality(J)
  <2> HIDE DEF P, J
  <2>1. P \cap J \subseteq P
    OBVIOUS
  <2>2. Cardinality(P \cap J) \in Nat
    BY <1>1, <2>1, FS_Subset, FS_CardinalityType
  <2> QED
    BY <1>1, <1>3, <1>4, <2>2, FS_Union
<1>6. PICK d \in Drivers : d \notin P \cup J
  <2> HIDE DEF P, J
  <2>1. SUFFICES ASSUME Drivers \subseteq P \cup J PROVE FALSE
    OBVIOUS
  <2>2. Cardinality(Drivers) <= Cardinality(P \cup J)
    BY <1>5, <2>1, FS_Subset
  <2>3. Cardinality(P \cup J) \in Nat
    BY <1>5, FS_CardinalityType
  <2> QED
    BY <1>1, <1>3, <1>4, <1>5, <2>2, <2>3, OltAccessAssumption
<1>7. Free(d)
  BY <1>6, OltAccessAssumption DEF Free
<1> QED
  BY <1>7

OltInv == OltTypeOK /\ JobHolds

\* At the start no request has a driver and no connection is open.
LEMMA OltInitHolds == OltInit => OltInv
BY OltAccessAssumption
DEF Holds, OltInit, OltInv, OltTypeOK, JobHolds, Unconnected, Unknown, IdleJob, Driver, Onu, Job, Steps,
    Rates, Active, Answers

\* A request's next state in all detail, as far as types go.
LEMMA JobMoves ==
    ASSUME OltInv, NEW r \in NetRequests, NEW j, j \in Job,
           job' = [job EXCEPT ![r] = j],
           j.pc \in {"commands", "profile"} <=> j.commands # <<>>,
           j.pc \in Steps \ {"idle"} => j.kind \in Kinds /\ j.onu \in Onus,
           j.pc \in {"idle", "search", "connect"} \cup Answers => j.driver = None,
           j.pc \in {"connect", "locate", "commands", "profile"} => j.olt \in Olts,
           j.pc \in {"locate", "commands", "profile"} => j.driver \in Drivers,
           j.pc = "locate" => j.kind \in Searching,
           j.pc = "commands" => j.kind # "status",
           j.pc = "profile" => j.kind = "provision",
           pool' \in [Olts -> Drivers \cup {None}], conn' \in [Drivers -> Driver],
           device' \in [Onus -> Onu]
    PROVE  OltInv'
<1>1. job' \in [NetRequests -> Job] /\ job'[r] = j /\ \A q \in NetRequests \ {r} : job'[q] = job[q]
  BY DEF OltInv, OltTypeOK
<1>2. \A q \in NetRequests : job'[q].pc \in {"commands", "profile"} <=> job'[q].commands # <<>>
  BY <1>1 DEF OltInv, OltTypeOK
<1>3. OltTypeOK'
  BY <1>1, <1>2 DEF OltTypeOK
<1>4. JobHolds'
  <2>1. Holds(r)'
    BY <1>1 DEF Holds, Active, Answers
  <2>2. ASSUME NEW q \in NetRequests \ {r} PROVE Holds(q)'
    BY <1>1, <2>2 DEF Holds, Active, OltInv, JobHolds
  <2> QED
    BY <2>1, <2>2 DEF JobHolds
<1> QED
  BY <1>3, <1>4 DEF OltInv

\* An answered request has let go of its driver and its commands.
LEMMA AnsweredForm ==
    ASSUME NEW a \in Answers
    PROVE  /\ Answered(a) \in Job /\ Answered(a).pc = a /\ Answered(a).driver = None
           /\ Answered(a).commands = <<>>
<1>1. <<>> \in Seq(CommandNames)
  OBVIOUS
<1> QED
  BY <1>1 DEF Answered, IdleJob, Job

\* A request that turns to the next OLT keeps what it is about.
LEMMA SearchableForm ==
    ASSUME NEW j \in Job
    PROVE  /\ Searchable(j) \in Job /\ Searchable(j).pc = "search" /\ Searchable(j).driver = None
           /\ Searchable(j).commands = <<>> /\ Searchable(j).kind = j.kind
           /\ Searchable(j).onu = j.onu /\ Searchable(j).todo = j.todo
<1>1. <<>> \in Seq(CommandNames)
  OBVIOUS
<1> QED
  BY <1>1 DEF Searchable, Job, Steps

\* A request that got a driver keeps what it is about, and searches or talks to the OLT.
LEMMA WithDriverForm ==
    ASSUME NEW j \in Job, NEW d \in Drivers, NEW o \in Olts, j.kind \in Kinds
    PROVE  /\ WithDriver(j, d, o) \in Job
           /\ WithDriver(j, d, o).kind = j.kind /\ WithDriver(j, d, o).onu = j.onu
           /\ WithDriver(j, d, o).driver = d /\ WithDriver(j, d, o).olt = o
           /\ WithDriver(j, d, o).todo = j.todo
           /\ j.kind \in Searching => /\ WithDriver(j, d, o).pc = "locate"
                                      /\ WithDriver(j, d, o).commands = j.commands
           /\ j.kind \notin Searching =>
                 /\ WithDriver(j, d, o).pc = "commands"
                 /\ WithDriver(j, d, o).commands = Commands(j.kind, Vendor[o])
<1>1. ASSUME j.kind \in Searching
      PROVE  WithDriver(j, d, o) = [pc |-> "locate", kind |-> j.kind, onu |-> j.onu, todo |-> j.todo,
                     driver |-> d, olt |-> o, commands |-> j.commands]
  BY <1>1 DEF WithDriver, Job
<1>2. ASSUME j.kind \notin Searching
      PROVE  WithDriver(j, d, o) = [pc |-> "commands", kind |-> j.kind, onu |-> j.onu, todo |-> j.todo,
                     driver |-> d, olt |-> o, commands |-> Commands(j.kind, Vendor[o])]
  BY <1>2 DEF WithDriver, Job
<1>3. ASSUME j.kind \notin Searching
      PROVE  Commands(j.kind, Vendor[o]) \in Seq(CommandNames)
  BY <1>3, DialoguesAreNamed, OltAccessAssumption DEF Searching
<1>4. WithDriver(j, d, o) \in Job
  BY <1>1, <1>2, <1>3 DEF Job, Steps
<1> QED
  BY <1>1, <1>2, <1>4

\* A request that met an error has let go of its driver; it searches on or answers.
LEMMA FailureForms ==
    ASSUME NEW j \in Job, NEW error \in Answers
    PROVE  /\ AfterFailure(j, error) \in Job
           /\ AfterFailure(j, error).pc \in {"search"} \cup Answers
           /\ AfterFailure(j, error).driver = None /\ AfterFailure(j, error).commands = <<>>
           /\ AfterFailure(j, error).pc = "search" => AfterFailure(j, error).kind = j.kind
                                                  /\ AfterFailure(j, error).onu = j.onu
<1>1. "done" \in Answers
  BY DEF Answers
<1>2. AfterFailure(j, error) \in {Searchable(j), Answered("done"), Answered(error)}
  BY DEF AfterFailure
<1> QED
  BY <1>1, <1>2, AnsweredForm, SearchableForm DEF Answers

\* After a command a request goes on with the rest, turns to the profile, or is done.
LEMMA CommandForms ==
    ASSUME NEW j \in Job, j.pc \in {"commands", "profile"}, j.commands # <<>>,
           j.olt \in Olts
    PROVE  /\ AfterCommand(j) \in Job
           /\ AfterCommand(j).pc \in {"commands", "profile"} <=> AfterCommand(j).commands # <<>>
           /\ AfterCommand(j).pc \in {j.pc, "profile", "done"}
           /\ AfterCommand(j).pc = "profile" => j.kind = "provision" \/ j.pc = "profile"
           /\ AfterCommand(j).pc # "done" =>
                 /\ AfterCommand(j).kind = j.kind /\ AfterCommand(j).onu = j.onu
                 /\ AfterCommand(j).olt = j.olt /\ AfterCommand(j).driver = j.driver
                 /\ AfterCommand(j).todo = j.todo
           /\ AfterCommand(j).pc = "done" => AfterCommand(j).driver = None
<1>1. CASE Len(j.commands) > 1
  <2>1. AfterCommand(j) = [j EXCEPT !.commands = Tail(@)]
    BY <1>1 DEF AfterCommand
  <2>2. j.commands \in Seq(CommandNames)
    BY DEF Job
  <2>3. Tail(j.commands) \in Seq(CommandNames) /\ Tail(j.commands) # <<>>
    <3> DEFINE s == j.commands
    <3>1. s \in Seq(CommandNames) /\ Len(s) > 1
      BY <1>1, <2>2
    <3> HIDE DEF s
    <3>2. Tail(s) \in Seq(CommandNames) /\ Len(Tail(s)) = Len(s) - 1
      BY <3>1
    <3>3. \A t \in Seq(CommandNames) : Len(t) > 0 => t # <<>>
      OBVIOUS
    <3>4. Len(Tail(s)) > 0
      BY <3>1, <3>2
    <3> QED
      BY <3>2, <3>3, <3>4 DEF s
  <2> QED
    BY <2>1, <2>3 DEF Job
<1>2. CASE ~(Len(j.commands) > 1) /\ j.kind = "provision" /\ j.pc = "commands"
  <2> DEFINE cs == Commands("speed", Vendor[j.olt])
  <2>1. AfterCommand(j) = [j EXCEPT !.pc = "profile", !.commands = cs]
    BY <1>2 DEF AfterCommand
  <2>2. cs \in Seq(CommandNames) /\ cs # <<>>
    <3>1. "speed" \in Kinds \ {"status"}
      BY DEF Kinds, Searching
    <3> QED
      BY <3>1, DialoguesAreNamed, OltAccessAssumption
  <2> HIDE DEF cs
  <2> QED
    BY <1>2, <2>1, <2>2 DEF Job, Steps
<1>3. CASE ~(Len(j.commands) > 1) /\ ~(j.kind = "provision" /\ j.pc = "commands")
  <2>1. AfterCommand(j) = Answered("done")
    BY <1>3 DEF AfterCommand
  <2>2. "done" \in Answers
    BY DEF Answers
  <2>3. Answered("done") \in Job /\ Answered("done").pc = "done" /\ Answered("done").driver = None
           /\ Answered("done").commands = <<>>
    BY <2>2, AnsweredForm
  <2> QED
    BY <2>1, <2>3
<1> QED
  BY <1>1, <1>2, <1>3

\* A command leaves typed devices, and the line outside or at the ONU it is about.
LEMMA ExecutedForms ==
    ASSUME NEW c, NEW rate \in Rates, NEW own \in Onus, NEW d \in Drivers, OltTypeOK
    PROVE  LET w == Executed(c, rate, own, [at |-> conn[d].at, staged |-> conn[d].staged,
                                            dev |-> device])
           IN /\ w.dev \in [Onus -> Onu]
              /\ [conn EXCEPT ![d].at = w.at, ![d].staged = w.staged] \in [Drivers -> Driver]
              /\ w.at \in {conn[d].at, own, None}
<1> DEFINE v == [at |-> conn[d].at, staged |-> conn[d].staged, dev |-> device]
           w == Executed(c, rate, own, v)
<1>1. /\ w.at = IF c = "port" \/ (c = "enter" /\ device[own].known) THEN own
                ELSE IF c = "leave" THEN None ELSE conn[d].at
      /\ w.staged = IF c = "leave" THEN {} ELSE conn[d].staged \cup ({c} \cap {"register", "flow"})
      /\ w.dev = [n \in Onus |-> IF n = (IF c = "remove" THEN own ELSE conn[d].at)
                             THEN OnuAfter(c, rate, conn[d].staged, device[n]) ELSE device[n]]
  BY DEF Executed
<1> HIDE DEF w
<1>2. ASSUME NEW n \in Onus
      PROVE  OnuAfter(c, rate, conn[d].staged, device[n]) \in Onu
  BY DEF OnuAfter, Onu, OltTypeOK, Unknown, Rates
<1>3. w.dev \in [Onus -> Onu]
  BY <1>1, <1>2 DEF OltTypeOK
<1>4. w.at \in Onus \cup {None} /\ w.staged \in SUBSET {"register", "flow"} /\ w.at \in {conn[d].at, own, None}
  BY <1>1 DEF OltTypeOK, Driver
<1>5. [conn EXCEPT ![d].at = w.at, ![d].staged = w.staged] \in [Drivers -> Driver]
  <2>1. [conn[d] EXCEPT !.at = w.at, !.staged = w.staged] \in Driver
    BY <1>4 DEF OltTypeOK, Driver
  <2> QED
    BY <2>1 DEF OltTypeOK
<1> QED
  BY <1>3, <1>4, <1>5 DEF w

\* Every step of a request keeps the types and what holds of jobs.
LEMMA ServeKeeps ==
    ASSUME OltInv, NEW r \in NetRequests, Serve(r)
    PROVE  OltInv'
<1>0. /\ pool \in [Olts -> Drivers \cup {None}] /\ conn \in [Drivers -> Driver]
      /\ device \in [Onus -> Onu] /\ job[r] \in Job /\ Holds(r)
  BY DEF OltInv, OltTypeOK, JobHolds
<1>1. CASE Search(r)
  <2>1. PICK o \in job[r].todo :
           job' = [job EXCEPT ![r] =
                    IF pool[o] # None THEN WithDriver([job[r] EXCEPT !.todo = @ \ {o}], pool[o], o)
                    ELSE [[job[r] EXCEPT !.todo = @ \ {o}] EXCEPT !.olt = o, !.pc = "connect"]]
    BY <1>1, Zenon DEF Search
  <2> DEFINE j == [job[r] EXCEPT !.todo = @ \ {o}]
  <2>2. j \in Job /\ j.kind = job[r].kind /\ j.onu = job[r].onu /\ j.driver = None
          /\ j.commands = <<>> /\ j.kind \in Kinds /\ j.onu \in Onus /\ o \in Olts
    BY <1>0, <1>1, <2>1 DEF Search, Job, Holds, Active, Steps
  <2> HIDE DEF j
  <2>3. UNCHANGED <<pool, conn, device>>
    BY <1>1 DEF Search
  <2>4. CASE pool[o] # None
    <3>1. pool[o] \in Drivers
      BY <1>0, <2>2, <2>4
    <3>2. job' = [job EXCEPT ![r] = WithDriver(j, pool[o], o)]
      BY <2>1, <2>4 DEF j
    <3>3. j.kind \notin Searching =>
             /\ Commands(j.kind, Vendor[o]) # <<>>
             /\ j.kind # "status"
      BY <2>2, DialoguesAreNamed, OltAccessAssumption DEF Searching
    <3> HIDE <1>1
    <3> QED
      <4> DEFINE g == WithDriver(j, pool[o], o)
      <4>1. /\ g \in Job /\ g.pc \in {"locate", "commands"}
            /\ g.pc = "commands" <=> g.commands # <<>>
            /\ g.kind \in Kinds /\ g.onu \in Onus /\ g.olt \in Olts /\ g.driver \in Drivers
            /\ g.pc = "locate" => g.kind \in Searching
            /\ g.pc = "commands" => g.kind # "status"
        BY <2>2, <3>1, <3>3, WithDriverForm
      <4>2. job' = [job EXCEPT ![r] = g]
        BY <3>2
      <4> HIDE DEF g
      <4> QED
        BY <1>0, <2>3, <4>1, <4>2, JobMoves DEF Answers
  <2>5. CASE pool[o] = None
    <3>1. job' = [job EXCEPT ![r] = [j EXCEPT !.olt = o, !.pc = "connect"]]
      BY <2>1, <2>5 DEF j
    <3>2. [j EXCEPT !.olt = o, !.pc = "connect"] \in Job
      BY <2>2 DEF Job, Steps
    <3> QED
      BY <1>0, <2>2, <2>3, <3>1, <3>2, JobMoves DEF Answers, Job
  <2> QED
    BY <2>4, <2>5
<1>2. CASE NotFound(r)
  <2>1. "notfound" \in Answers
    BY DEF Answers
  <2> QED
    BY <1>0, <1>2, <2>1, AnsweredForm, JobMoves DEF NotFound, Answers, Steps
<1>3. CASE Connect(r)
  <2>0. job[r].pc = "connect" /\ job[r].driver = None /\ job[r].commands = <<>>
          /\ job[r].olt \in Olts /\ job[r].kind \in Kinds /\ job[r].onu \in Onus
    BY <1>0, <1>3 DEF Connect, Holds, Active, Steps
  <2>1. CASE /\ Drops
             /\ job' = [job EXCEPT ![r] = AfterFailure(job[r], "unavailable")]
             /\ UNCHANGED <<pool, conn>> /\ UNCHANGED device
    <3>1. "unavailable" \in Answers
      BY DEF Answers
    <3> QED
      BY <1>0, <2>0, <2>1, <3>1, FailureForms, JobMoves DEF Answers, Steps
  <2>2. CASE LET d == CHOOSE d \in Drivers : Free(d) IN
            /\ conn' = [conn EXCEPT ![d] = [Unconnected EXCEPT !.olt = job[r].olt,
                                                               !.alive = TRUE]]
            /\ pool' = [pool EXCEPT ![job[r].olt] = d]
            /\ job' = [job EXCEPT ![r] = WithDriver(job[r], d, job[r].olt)]
            /\ UNCHANGED device
    <3> DEFINE d == CHOOSE d \in Drivers : Free(d)
    <3>1. d \in Drivers
      BY <2>0, DriverIsFree DEF OltInv
    <3>2. /\ conn' = [conn EXCEPT ![d] = [Unconnected EXCEPT !.olt = job[r].olt, !.alive = TRUE]]
          /\ pool' = [pool EXCEPT ![job[r].olt] = d]
          /\ job' = [job EXCEPT ![r] = WithDriver(job[r], d, job[r].olt)]
          /\ UNCHANGED device
      BY <2>2
    <3> HIDE DEF d
    <3>3. [Unconnected EXCEPT !.olt = job[r].olt, !.alive = TRUE] \in Driver
      BY <2>0 DEF Unconnected, Driver
    <3>4. conn' \in [Drivers -> Driver] /\ pool' \in [Olts -> Drivers \cup {None}]
      BY <1>0, <2>0, <3>1, <3>2, <3>3
    <3>5. job[r].kind \notin Searching =>
             /\ Commands(job[r].kind, Vendor[job[r].olt]) # <<>>
             /\ job[r].kind # "status"
      BY <2>0, DialoguesAreNamed, OltAccessAssumption DEF Searching
    <3> QED
      <4> DEFINE g == WithDriver(job[r], d, job[r].olt)
      <4>1. /\ g \in Job /\ g.pc \in {"locate", "commands"}
            /\ g.pc = "commands" <=> g.commands # <<>>
            /\ g.kind \in Kinds /\ g.onu \in Onus /\ g.olt \in Olts /\ g.driver \in Drivers
            /\ g.pc = "locate" => g.kind \in Searching
            /\ g.pc = "commands" => g.kind # "status"
        BY <1>0, <2>0, <3>1, <3>5, WithDriverForm
      <4>2. job' = [job EXCEPT ![r] = g]
        BY <3>2
      <4> HIDE DEF g
      <4> QED
        BY <1>0, <3>2, <3>4, <4>1, <4>2, JobMoves DEF Answers
  <2> QED
    BY <1>3, <2>1, <2>2 DEF Connect
<1>4. CASE Locate(r)
  <2>0. /\ job[r].pc = "locate" /\ job[r].olt \in Olts /\ job[r].kind \in Searching
        /\ job[r].onu \in Onus /\ job[r].driver \in Drivers /\ job[r].kind \in Kinds
        /\ UNCHANGED <<pool, conn, device>>
    BY <1>0, <1>4 DEF Locate, Holds, Active, Steps
  <2>1. CASE job' = [job EXCEPT ![r] = Searchable(job[r])]
    BY <1>0, <2>0, <2>1, SearchableForm, JobMoves DEF Answers, Steps
  <2>2. CASE job' = [job EXCEPT ![r] = Answered("done")]
    <3>1. "done" \in Answers
      BY DEF Answers
    <3> QED
      BY <1>0, <2>0, <2>2, <3>1, AnsweredForm, JobMoves DEF Answers, Steps
  <2>3. CASE /\ job[r].kind # "status"
             /\ job' = [job EXCEPT ![r].pc = "commands",
                                   ![r].commands = Commands(job[r].kind, Vendor[job[r].olt])]
    <3> DEFINE cs == Commands(job[r].kind, Vendor[job[r].olt])
    <3>1. cs \in Seq(CommandNames) /\ cs # <<>>
      BY <2>0, <2>3, DialoguesAreNamed, OltAccessAssumption DEF Kinds
    <3>2. job' = [job EXCEPT ![r] = [job[r] EXCEPT !.pc = "commands", !.commands = cs]]
      BY <2>3
    <3> HIDE DEF cs
    <3>3. [job[r] EXCEPT !.pc = "commands", !.commands = cs] \in Job
      BY <1>0, <3>1 DEF Job, Steps
    <3> QED
      BY <1>0, <2>0, <2>3, <3>1, <3>2, <3>3, JobMoves DEF Answers, Job
  <2> QED
    BY <1>4, <2>1, <2>2, <2>3 DEF Locate
<1>5. CASE Command(r)
  <2> DEFINE j == job[r]
             d == job[r].driver
             w == Executed(Head(j.commands), Rate(r), j.onu,
                         [at |-> conn[d].at, staged |-> conn[d].staged, dev |-> device])
  <2>0. /\ j.pc \in {"commands", "profile"} /\ d \in Drivers /\ j.onu \in Onus /\ j.olt \in Olts
        /\ j.kind \in Kinds /\ j \in Job /\ j.commands # <<>> /\ pool' = pool
        /\ j.pc = "commands" => j.kind # "status"
        /\ j.pc = "profile" => j.kind = "provision"
    BY <1>0, <1>5, Zenon DEF Command, Holds, Active, Steps, OltInv, OltTypeOK
  <2>1. w.dev \in [Onus -> Onu]
        /\ [conn EXCEPT ![d].at = w.at, ![d].staged = w.staged] \in [Drivers -> Driver]
    <3>1. Rate(r) \in Rates
      BY DEF Rate, Rates
    <3> QED
      BY <2>0, <3>1, ExecutedForms DEF OltInv
  <2>2. /\ device' = w.dev \/ device' = device
        /\ conn' = [conn EXCEPT ![d].at = w.at, ![d].staged = w.staged] \/ conn' = conn
        /\ job' = [job EXCEPT ![r] = AfterCommand(j)] \/ job' = [job EXCEPT ![r] = AfterFailure(j, "failed")]
    BY <1>5 DEF Command
  <2> HIDE DEF w, d
  <2>3. device' \in [Onus -> Onu] /\ conn' \in [Drivers -> Driver]
    BY <1>0, <2>1, <2>2
  <2>4. CASE job' = [job EXCEPT ![r] = AfterCommand(j)]
    <3> HIDE DEF j
    <3> QED
      BY <1>0, <2>0, <2>3, <2>4, CommandForms, JobMoves DEF Answers, Steps, d, j
  <2>5. CASE job' = [job EXCEPT ![r] = AfterFailure(j, "failed")]
    <3>1. "failed" \in Answers
      BY DEF Answers
    <3> QED
      BY <1>0, <2>0, <2>3, <2>5, <3>1, FailureForms, JobMoves DEF Answers, Steps
  <2> QED
    BY <2>2, <2>4, <2>5
<1> QED
  BY <1>1, <1>2, <1>3, <1>4, <1>5 DEF Serve

\* So does taking on a request.
LEMMA AcceptKeeps ==
    ASSUME OltInv, NEW r \in NetRequests, NEW k \in Kinds, NEW n \in Onus, Accept(r, k, n)
    PROVE  OltInv'
<1> DEFINE todo == IF k \in Searching THEN Olts ELSE {Home[n]}
           j == [IdleJob EXCEPT !.pc = "search", !.kind = k, !.onu = n, !.todo = todo]
<1>1. j \in Job /\ j.pc = "search" /\ j.driver = None /\ j.commands = <<>> /\ j.kind = k /\ j.onu = n
  <2>1. todo \in SUBSET Olts
    BY OltAccessAssumption
  <2> HIDE DEF todo
  <2>2. <<>> \in Seq(CommandNames)
    OBVIOUS
  <2>3. IdleJob \in Job /\ IdleJob.driver = None /\ IdleJob.commands = <<>>
    BY <2>2 DEF IdleJob, Job, Steps
  <2> QED
    BY <2>1, <2>3 DEF Job, Steps
<1>2. job' = [job EXCEPT ![r] = j] /\ UNCHANGED <<pool, conn, device>>
  BY DEF Accept
<1> HIDE DEF j
<1> QED
  BY <1>1, <1>2, JobMoves DEF Steps, Answers, OltInv, OltTypeOK

\* So does the loss of a connection.
LEMMA ConnectionLostKeeps ==
    ASSUME OltInv, NEW d \in Drivers, ConnectionLost(d)
    PROVE  OltInv'
<1>1. [conn[d] EXCEPT !.alive = FALSE, !.at = None, !.staged = {}] \in Driver
  BY DEF OltInv, OltTypeOK, Driver
<1>2. conn' \in [Drivers -> Driver] /\ UNCHANGED <<pool, device, job>>
  BY <1>1 DEF ConnectionLost, OltInv, OltTypeOK
<1> QED
  BY <1>2 DEF OltInv, OltTypeOK, JobHolds, Holds, Active

\* So does a restart of the service.
LEMMA RestartKeeps ==
    ASSUME OltInv, RestartService
    PROVE  OltInv'
<1>1. "lost" \in Answers
  BY DEF Answers
<1>2. \A r \in NetRequests : Answered("lost") \in Job /\ Answered("lost").pc = "lost"
        /\ Answered("lost").driver = None /\ Answered("lost").commands = <<>>
  BY <1>1, AnsweredForm
<1>3. \A r \in NetRequests : job'[r] = IF Active(r) THEN Answered("lost") ELSE job[r]
  BY DEF RestartService
<1>4. job' \in [NetRequests -> Job]
  BY <1>2 DEF RestartService, OltInv, OltTypeOK
<1>5. ASSUME NEW r \in NetRequests
      PROVE  Holds(r)' /\ (job'[r].pc \in {"commands", "profile"} <=> job'[r].commands # <<>>)
  <2>1. CASE Active(r)
    BY <1>2, <1>3, <2>1 DEF Holds, Active, Steps, Answers
  <2>2. CASE ~Active(r)
    BY <1>3, <2>2 DEF Holds, Active, OltInv, JobHolds, OltTypeOK, Steps
  <2> QED
    BY <2>1, <2>2
<1>6. pool' \in [Olts -> Drivers \cup {None}] /\ conn' \in [Drivers -> Driver] /\ device' = device
  BY DEF RestartService, Unconnected, Driver
<1> QED
  BY <1>4, <1>5, <1>6 DEF OltInv, OltTypeOK, JobHolds

\* What is left of a dialogue from its i-th command on.
Left(D, i) == [k \in 1 .. Len(D) - i + 1 |-> D[k + i - 1]]

\* What is left of a dialogue, by position.
LEMMA LeftForms ==
    ASSUME NEW S, NEW D \in Seq(S), NEW i \in 1 .. Len(D)
    PROVE  /\ Left(D, 1) = D
           /\ Len(Left(D, i)) = Len(D) - i + 1 /\ Head(Left(D, i)) = D[i]
           /\ i < Len(D) => Tail(Left(D, i)) = Left(D, i + 1)
<1>1. Left(D, 1) = D
  BY DEF Left
<1>2. Len(Left(D, i)) = Len(D) - i + 1 /\ Head(Left(D, i)) = D[i]
  BY DEF Left
<1>3. i < Len(D) => Tail(Left(D, i)) = Left(D, i + 1)
  BY DEF Left
<1> QED
  BY <1>1, <1>2, <1>3

\* The dialogues: each kind has one by its vendor.
Talks == {"speed", "provision", "deprovision", "reboot"}

\* Before which commands a dialogue is inside the interface of its ONU.
Inside(k, v) ==
    IF v = "huawei"
    THEN IF k = "speed" THEN {3, 4} ELSE IF k = "reboot" THEN {} ELSE {2, 3}
    ELSE IF v = "zte"
    THEN IF k = "speed" THEN 2 .. 6 ELSE IF k = "provision" THEN {2, 3, 5, 6}
         ELSE IF k = "deprovision" THEN {2, 3} ELSE {}
    ELSE IF k = "speed" THEN 2 .. 4 ELSE IF k = "provision" THEN 2 .. 5 ELSE {}

\* What a dialogue has achieved before its i-th command.
SoFar(k, v, i, own, rate, at, staged, onu) ==
    /\ i \in Inside(k, v) => at = own \/ (k = "speed" /\ ~onu.known)
    /\ k = "speed" /\ v = "zte" /\ onu.known => (i > 4 => onu.down = rate) /\ (i > 5 => onu.up = rate)
    /\ k = "speed" /\ v = "fiberhome" =>
          /\ i > 1 => at = own
          /\ i = 3 => "flow" \in staged
          /\ i > 3 => onu.down = rate /\ onu.up = rate
    /\ k = "provision" /\ v # "fiberhome" => (i > 2 => onu.known)
    /\ k = "provision" /\ v = "fiberhome" =>
          /\ i \in {3, 4} => "register" \in staged
          /\ i > 4 => onu.known
    /\ k = "deprovision" /\ v # "fiberhome" => (i > 2 => ~onu.known)

\* What a dialogue that went through has achieved.
Reached(k, v, rate, onu) ==
    /\ k = "speed" /\ v # "huawei" /\ onu.known => onu.down = rate /\ onu.up = rate
    /\ k = "provision" => onu.known
    /\ k = "deprovision" => ~onu.known

\* Where nothing times out, a dialogue enters its own interface only, and leaves it.
Clean(k, v, i, own, at, onu) ==
    IF i \in Inside(k, v) THEN at = own \/ (at = None /\ k = "speed" /\ ~onu.known) ELSE at = None

\* What a command does to its ONU, which was onu and is then y, and to the command line.
Effect(c, own, rate, w, x, onu, y) ==
    /\ IF c = "remove" \/ w.at = own
       THEN /\ c \in {"delete", "remove"} => ~y.known
            /\ c \notin {"delete", "remove"} =>
                 /\ y.known <=> onu.known \/ c = "add" \/ (c = "commit" /\ "register" \in w.staged)
                 /\ y.down = IF c = "down" \/ (c = "commit" /\ "flow" \in w.staged) THEN rate
                             ELSE onu.down
                 /\ y.up = IF c = "up" \/ (c = "commit" /\ "flow" \in w.staged) THEN rate
                           ELSE onu.up
       ELSE y = onu
    /\ c \notin {"add", "delete", "remove", "down", "up", "commit"} => y = onu
    /\ x.at = IF c = "port" \/ (c = "enter" /\ onu.known) THEN own
              ELSE IF c = "leave" THEN None ELSE w.at
    /\ x.staged = IF c = "leave" THEN {} ELSE w.staged \cup ({c} \cap {"register", "flow"})

\* A command has the effect its name stands for, and only on the ONU its line is at.
LEMMA EffectOfExecuted ==
    ASSUME NEW c, NEW own \in Onus, NEW rate, NEW w, w.dev \in [Onus -> Onu],
           NEW x, x = Executed(c, rate, own, w)
    PROVE  /\ Effect(c, own, rate, w, x, w.dev[own], x.dev[own])
           /\ w.at \in {own, None} => \A n \in Onus \ {own} : x.dev[n] = w.dev[n]
<1>1. /\ x.at = IF c = "port" \/ (c = "enter" /\ w.dev[own].known) THEN own
                ELSE IF c = "leave" THEN None ELSE w.at
      /\ x.staged = IF c = "leave" THEN {} ELSE w.staged \cup ({c} \cap {"register", "flow"})
      /\ \A n \in Onus : x.dev[n] = IF n = (IF c = "remove" THEN own ELSE w.at)
                             THEN OnuAfter(c, rate, w.staged, w.dev[n]) ELSE w.dev[n]
  BY DEF Executed
<1>2. ASSUME NEW onu \in Onu, NEW y, y = OnuAfter(c, rate, w.staged, onu)
      PROVE  /\ c \in {"delete", "remove"} => ~y.known
             /\ c \notin {"delete", "remove"} =>
                  /\ y.known <=> onu.known \/ c = "add" \/ (c = "commit" /\ "register" \in w.staged)
                  /\ y.down = IF c = "down" \/ (c = "commit" /\ "flow" \in w.staged) THEN rate
                              ELSE onu.down
                  /\ y.up = IF c = "up" \/ (c = "commit" /\ "flow" \in w.staged) THEN rate
                            ELSE onu.up
             /\ c \notin {"add", "delete", "remove", "down", "up", "commit"} => y = onu
  BY <1>2 DEF OnuAfter, Removed, Unknown, Onu
<1>3. None \notin Onus
  BY OltAccessAssumption
<1> QED
  BY <1>1, <1>2, <1>3 DEF Effect

\* What the i-th command of a dialogue takes forward.
Proceeds(k, v, i, own, rate, w, x, onu, y) ==
    /\ i < Len(Commands(k, v)) => SoFar(k, v, i + 1, own, rate, x.at, x.staged, y)
    /\ i = Len(Commands(k, v)) => Reached(k, v, rate, y)
    /\ k = "speed" /\ onu.known => y.known
    /\ Clean(k, v, i, own, w.at, onu) =>
          /\ i < Len(Commands(k, v)) => Clean(k, v, i + 1, own, x.at, y)
          /\ i = Len(Commands(k, v)) => x.at = None
          /\ w.at \in {own, None}

\* The step of a dialogue from one command to the next.
LEMMA CommandGoesOn ==
    ASSUME NEW k \in Talks, NEW v \in {"huawei", "zte", "fiberhome"}, NEW i,
           i \in 1 .. Len(Commands(k, v)),
           NEW own, own # None, NEW rate, NEW w, NEW x,
           NEW onu, onu.known \in BOOLEAN, NEW y, y.known \in BOOLEAN,
           Effect(Commands(k, v)[i], own, rate, w, x, onu, y),
           SoFar(k, v, i, own, rate, w.at, w.staged, onu)
    PROVE  Proceeds(k, v, i, own, rate, w, x, onu, y)
<1> DEFINE D == Commands(k, v)
<1>0. D = Commands(k, v) /\ i \in 1 .. Len(D) /\ Effect(D[i], own, rate, w, x, onu, y)
  OBVIOUS
<1> HIDE DEF D
<1> USE <1>0
<1>13. SUFFICES
           /\ i < Len(D) => SoFar(k, v, i + 1, own, rate, x.at, x.staged, y)
           /\ i = Len(D) => Reached(k, v, rate, y)
           /\ k = "speed" /\ onu.known => y.known
           /\ Clean(k, v, i, own, w.at, onu) =>
                 /\ i < Len(D) => Clean(k, v, i + 1, own, x.at, y)
                 /\ i = Len(D) => x.at = None
                 /\ w.at \in {own, None}
  BY DEF Proceeds
<1>1. CASE v = "huawei" /\ k = "reboot"
  <2>1. D = <<"other">> /\ Len(D) = 1
    BY <1>1 DEF Commands, Dialogue, HuaweiCommands, ZteCommands, FiberhomeCommands
  <2>2. ASSUME i < 1 PROVE SoFar(k, v, i + 1, own, rate, x.at, x.staged, y)
    BY <1>1, <2>1, <2>2 DEF Effect, SoFar, Inside
  <2>3. i = 1 => Reached(k, v, rate, y)
    BY <1>1, <2>1 DEF Effect, SoFar, Inside, Reached
  <2>4. k = "speed" /\ onu.known => y.known
    BY <1>1, <2>1 DEF Effect
  <2>5. ASSUME Clean(k, v, i, own, w.at, onu)
        PROVE  /\ i < 1 => Clean(k, v, i + 1, own, x.at, y)
               /\ i = 1 => x.at = None
               /\ w.at \in {own, None}
    BY <1>1, <2>1, <2>5 DEF Effect, SoFar, Inside, Clean
  <2> QED
    BY <2>1, <2>2, <2>3, <2>4, <2>5
<1>2. CASE v = "huawei" /\ k = "speed"
  <2>1. D = <<"other", "port", "other", "leave">> /\ Len(D) = 4
    BY <1>2 DEF Commands, Dialogue, HuaweiCommands, ZteCommands, FiberhomeCommands
  <2>2. ASSUME i < 4 PROVE SoFar(k, v, i + 1, own, rate, x.at, x.staged, y)
    BY <1>2, <2>1, <2>2 DEF Effect, SoFar, Inside
  <2>3. i = 4 => Reached(k, v, rate, y)
    BY <1>2, <2>1 DEF Effect, SoFar, Inside, Reached
  <2>4. k = "speed" /\ onu.known => y.known
    BY <1>2, <2>1 DEF Effect
  <2>5. ASSUME Clean(k, v, i, own, w.at, onu)
        PROVE  /\ i < 4 => Clean(k, v, i + 1, own, x.at, y)
               /\ i = 4 => x.at = None
               /\ w.at \in {own, None}
    BY <1>2, <2>1, <2>5 DEF Effect, SoFar, Inside, Clean
  <2> QED
    BY <2>1, <2>2, <2>3, <2>4, <2>5
<1>3. CASE v = "huawei" /\ k = "provision"
  <2>1. D = <<"port", "add", "leave", "other">> /\ Len(D) = 4
    BY <1>3 DEF Commands, Dialogue, HuaweiCommands, ZteCommands, FiberhomeCommands
  <2>2. ASSUME i < 4 PROVE SoFar(k, v, i + 1, own, rate, x.at, x.staged, y)
    BY <1>3, <2>1, <2>2 DEF Effect, SoFar, Inside
  <2>3. i = 4 => Reached(k, v, rate, y)
    BY <1>3, <2>1 DEF Effect, SoFar, Inside, Reached
  <2>4. k = "speed" /\ onu.known => y.known
    BY <1>3, <2>1 DEF Effect
  <2>5. ASSUME Clean(k, v, i, own, w.at, onu)
        PROVE  /\ i < 4 => Clean(k, v, i + 1, own, x.at, y)
               /\ i = 4 => x.at = None
               /\ w.at \in {own, None}
    BY <1>3, <2>1, <2>5 DEF Effect, SoFar, Inside, Clean
  <2> QED
    BY <2>1, <2>2, <2>3, <2>4, <2>5
<1>4. CASE v = "huawei" /\ k = "deprovision"
  <2>1. D = <<"port", "delete", "leave">> /\ Len(D) = 3
    BY <1>4 DEF Commands, Dialogue, HuaweiCommands, ZteCommands, FiberhomeCommands
  <2>2. ASSUME i < 3 PROVE SoFar(k, v, i + 1, own, rate, x.at, x.staged, y)
    BY <1>4, <2>1, <2>2 DEF Effect, SoFar, Inside
  <2>3. i = 3 => Reached(k, v, rate, y)
    BY <1>4, <2>1 DEF Effect, SoFar, Inside, Reached
  <2>4. k = "speed" /\ onu.known => y.known
    BY <1>4, <2>1 DEF Effect
  <2>5. ASSUME Clean(k, v, i, own, w.at, onu)
        PROVE  /\ i < 3 => Clean(k, v, i + 1, own, x.at, y)
               /\ i = 3 => x.at = None
               /\ w.at \in {own, None}
    BY <1>4, <2>1, <2>5 DEF Effect, SoFar, Inside, Clean
  <2> QED
    BY <2>1, <2>2, <2>3, <2>4, <2>5
<1>5. CASE v = "zte" /\ k = "reboot"
  <2>1. D = <<"other">> /\ Len(D) = 1
    BY <1>5 DEF Commands, Dialogue, HuaweiCommands, ZteCommands, FiberhomeCommands
  <2>2. ASSUME i < 1 PROVE SoFar(k, v, i + 1, own, rate, x.at, x.staged, y)
    BY <1>5, <2>1, <2>2 DEF Effect, SoFar, Inside
  <2>3. i = 1 => Reached(k, v, rate, y)
    BY <1>5, <2>1 DEF Effect, SoFar, Inside, Reached
  <2>4. k = "speed" /\ onu.known => y.known
    BY <1>5, <2>1 DEF Effect
  <2>5. ASSUME Clean(k, v, i, own, w.at, onu)
        PROVE  /\ i < 1 => Clean(k, v, i + 1, own, x.at, y)
               /\ i = 1 => x.at = None
               /\ w.at \in {own, None}
    BY <1>5, <2>1, <2>5 DEF Effect, SoFar, Inside, Clean
  <2> QED
    BY <2>1, <2>2, <2>3, <2>4, <2>5
<1>6. CASE v = "zte" /\ k = "speed"
  <2>1. D = <<"enter", "other", "other", "down", "up", "leave">> /\ Len(D) = 6
    BY <1>6 DEF Commands, Dialogue, HuaweiCommands, ZteCommands, FiberhomeCommands
  <2>2. ASSUME i < 6 PROVE SoFar(k, v, i + 1, own, rate, x.at, x.staged, y)
    BY <1>6, <2>1, <2>2 DEF Effect, SoFar, Inside
  <2>3. i = 6 => Reached(k, v, rate, y)
    BY <1>6, <2>1 DEF Effect, SoFar, Inside, Reached
  <2>4. k = "speed" /\ onu.known => y.known
    BY <1>6, <2>1 DEF Effect
  <2>5. ASSUME Clean(k, v, i, own, w.at, onu)
        PROVE  /\ i < 6 => Clean(k, v, i + 1, own, x.at, y)
               /\ i = 6 => x.at = None
               /\ w.at \in {own, None}
    BY <1>6, <2>1, <2>5 DEF Effect, SoFar, Inside, Clean
  <2> QED
    BY <2>1, <2>2, <2>3, <2>4, <2>5
<1>7. CASE v = "zte" /\ k = "provision"
  <2>1. D = <<"port", "add", "leave", "enter", "other", "leave">> /\ Len(D) = 6
    BY <1>7 DEF Commands, Dialogue, HuaweiCommands, ZteCommands, FiberhomeCommands
  <2>2. ASSUME i < 6 PROVE SoFar(k, v, i + 1, own, rate, x.at, x.staged, y)
    BY <1>7, <2>1, <2>2 DEF Effect, SoFar, Inside
  <2>3. i = 6 => Reached(k, v, rate, y)
    BY <1>7, <2>1 DEF Effect, SoFar, Inside, Reached
  <2>4. k = "speed" /\ onu.known => y.known
    BY <1>7, <2>1 DEF Effect
  <2>5. ASSUME Clean(k, v, i, own, w.at, onu)
        PROVE  /\ i < 6 => Clean(k, v, i + 1, own, x.at, y)
               /\ i = 6 => x.at = None
               /\ w.at \in {own, None}
    BY <1>7, <2>1, <2>5 DEF Effect, SoFar, Inside, Clean
  <2> QED
    BY <2>1, <2>2, <2>3, <2>4, <2>5
<1>8. CASE v = "zte" /\ k = "deprovision"
  <2>1. D = <<"port", "delete", "leave">> /\ Len(D) = 3
    BY <1>8 DEF Commands, Dialogue, HuaweiCommands, ZteCommands, FiberhomeCommands
  <2>2. ASSUME i < 3 PROVE SoFar(k, v, i + 1, own, rate, x.at, x.staged, y)
    BY <1>8, <2>1, <2>2 DEF Effect, SoFar, Inside
  <2>3. i = 3 => Reached(k, v, rate, y)
    BY <1>8, <2>1 DEF Effect, SoFar, Inside, Reached
  <2>4. k = "speed" /\ onu.known => y.known
    BY <1>8, <2>1 DEF Effect
  <2>5. ASSUME Clean(k, v, i, own, w.at, onu)
        PROVE  /\ i < 3 => Clean(k, v, i + 1, own, x.at, y)
               /\ i = 3 => x.at = None
               /\ w.at \in {own, None}
    BY <1>8, <2>1, <2>5 DEF Effect, SoFar, Inside, Clean
  <2> QED
    BY <2>1, <2>2, <2>3, <2>4, <2>5
<1>9. CASE v = "fiberhome" /\ k = "reboot"
  <2>1. D = <<"other">> /\ Len(D) = 1
    BY <1>9 DEF Commands, Dialogue, HuaweiCommands, ZteCommands, FiberhomeCommands
  <2>2. ASSUME i < 1 PROVE SoFar(k, v, i + 1, own, rate, x.at, x.staged, y)
    BY <1>9, <2>1, <2>2 DEF Effect, SoFar, Inside
  <2>3. i = 1 => Reached(k, v, rate, y)
    BY <1>9, <2>1 DEF Effect, SoFar, Inside, Reached
  <2>4. k = "speed" /\ onu.known => y.known
    BY <1>9, <2>1 DEF Effect
  <2>5. ASSUME Clean(k, v, i, own, w.at, onu)
        PROVE  /\ i < 1 => Clean(k, v, i + 1, own, x.at, y)
               /\ i = 1 => x.at = None
               /\ w.at \in {own, None}
    BY <1>9, <2>1, <2>5 DEF Effect, SoFar, Inside, Clean
  <2> QED
    BY <2>1, <2>2, <2>3, <2>4, <2>5
<1>10. CASE v = "fiberhome" /\ k = "speed"
  <2>1. D = <<"port", "flow", "commit", "leave">> /\ Len(D) = 4
    BY <1>10 DEF Commands, Dialogue, HuaweiCommands, ZteCommands, FiberhomeCommands
  <2>2. ASSUME i < 4 PROVE SoFar(k, v, i + 1, own, rate, x.at, x.staged, y)
    <3>1. CASE i = 1
      <4>1. D[i] = "port"
        BY <2>1, <3>1
      <4> QED
        BY <1>10, <3>1, <4>1 DEF Effect, SoFar, Inside
    <3>2. CASE i = 2
      <4>1. D[i] = "flow"
        BY <2>1, <3>2
      <4>2. w.at = own
        BY <1>10, <3>2 DEF SoFar
      <4>3. x.at = own /\ "flow" \in x.staged
        BY <4>1, <4>2 DEF Effect
      <4> QED
        BY <1>10, <3>2, <4>3 DEF SoFar
    <3>3. CASE i = 3
      <4>1. D[i] = "commit"
        BY <2>1, <3>3
      <4> QED
        BY <1>10, <3>3, <4>1 DEF Effect, SoFar, Inside
    <3> QED
      BY <2>1, <2>2, <3>1, <3>2, <3>3
  <2>3. i = 4 => Reached(k, v, rate, y)
    BY <1>10, <2>1 DEF Effect, SoFar, Inside, Reached
  <2>4. k = "speed" /\ onu.known => y.known
    BY <1>10, <2>1 DEF Effect
  <2>5. ASSUME Clean(k, v, i, own, w.at, onu)
        PROVE  /\ i < 4 => Clean(k, v, i + 1, own, x.at, y)
               /\ i = 4 => x.at = None
               /\ w.at \in {own, None}
    BY <1>10, <2>1, <2>5 DEF Effect, SoFar, Inside, Clean
  <2> QED
    BY <2>1, <2>2, <2>3, <2>4, <2>5
<1>11. CASE v = "fiberhome" /\ k = "provision"
  <2>1. D = <<"port", "register", "other", "commit", "leave">> /\ Len(D) = 5
    BY <1>11 DEF Commands, Dialogue, HuaweiCommands, ZteCommands, FiberhomeCommands
  <2>2. ASSUME i < 5 PROVE SoFar(k, v, i + 1, own, rate, x.at, x.staged, y)
    <3>1. CASE i = 1
      <4>1. D[i] = "port"
        BY <2>1, <3>1
      <4> QED
        BY <1>11, <3>1, <4>1 DEF Effect, SoFar, Inside
    <3>2. CASE i = 2
      <4>1. D[i] = "register"
        BY <2>1, <3>2
      <4>2. w.at = own
        BY <1>11, <3>2 DEF SoFar, Inside
      <4>3. x.at = own /\ "register" \in x.staged
        BY <4>1, <4>2 DEF Effect
      <4> QED
        BY <1>11, <3>2, <4>3 DEF SoFar
    <3>3. CASE i = 3
      <4>1. D[i] = "other"
        BY <2>1, <3>3
      <4> QED
        BY <1>11, <3>3, <4>1 DEF Effect, SoFar, Inside
    <3>4. CASE i = 4
      <4>1. D[i] = "commit"
        BY <2>1, <3>4
      <4> QED
        BY <1>11, <3>4, <4>1 DEF Effect, SoFar, Inside
    <3> QED
      BY <2>1, <2>2, <3>1, <3>2, <3>3, <3>4
  <2>3. i = 5 => Reached(k, v, rate, y)
    BY <1>11, <2>1 DEF Effect, SoFar, Inside, Reached
  <2>4. k = "speed" /\ onu.known => y.known
    BY <1>11, <2>1 DEF Effect
  <2>5. ASSUME Clean(k, v, i, own, w.at, onu)
        PROVE  /\ i < 5 => Clean(k, v, i + 1, own, x.at, y)
               /\ i = 5 => x.at = None
               /\ w.at \in {own, None}
    BY <1>11, <2>1, <2>5 DEF Effect, SoFar, Inside, Clean
  <2> QED
    BY <2>1, <2>2, <2>3, <2>4, <2>5
<1>12. CASE v = "fiberhome" /\ k = "deprovision"
  <2>1. D = <<"remove">> /\ Len(D) = 1
    BY <1>12 DEF Commands, Dialogue, HuaweiCommands, ZteCommands, FiberhomeCommands
  <2>2. ASSUME i < 1 PROVE SoFar(k, v, i + 1, own, rate, x.at, x.staged, y)
    BY <1>12, <2>1, <2>2 DEF Effect, SoFar, Inside
  <2>3. i = 1 => Reached(k, v, rate, y)
    BY <1>12, <2>1 DEF Effect, SoFar, Inside, Reached
  <2>4. k = "speed" /\ onu.known => y.known
    BY <1>12, <2>1 DEF Effect
  <2>5. ASSUME Clean(k, v, i, own, w.at, onu)
        PROVE  /\ i < 1 => Clean(k, v, i + 1, own, x.at, y)
               /\ i = 1 => x.at = None
               /\ w.at \in {own, None}
    BY <1>12, <2>1, <2>5 DEF Effect, SoFar, Inside, Clean
  <2> QED
    BY <2>1, <2>2, <2>3, <2>4, <2>5
<1> QED
  BY <1>1, <1>2, <1>3, <1>4, <1>5, <1>6, <1>7, <1>8, <1>9, <1>10, <1>11, <1>12 DEF Talks

\* The dialogue a request is in, by kind and in full.
Talk(j) == IF j.pc = "profile" \/ j.kind \in {"suspend", "resume"} THEN "speed" ELSE j.kind
Script(j) == Commands(Talk(j), Vendor[j.olt])
RateOf(j) == IF j.kind = "suspend" THEN "slow" ELSE "full"

\* Where a request j stands in its dialogue on connection c with its ONU as it is, if calm (where nothing times
\* out) in a clean interface.
At(j, c, onu, calm) ==
    \E i \in 1 .. Len(Script(j)) :
       /\ j.commands = Left(Script(j), i)
       /\ c.alive => SoFar(Talk(j), Vendor[j.olt], i, j.onu, RateOf(j), c.at, c.staged, onu)
       /\ c.alive /\ calm => Clean(Talk(j), Vendor[j.olt], i, j.onu, c.at, onu)

\* A dialogue of a search, and one for a profile, is about an ONU its OLT knows.
Found(j, onu) == j.pc = "profile" \/ j.kind \in {"suspend", "resume"} => onu.known

\* What a request that succeeds has made of its ONU.
Gained(j, onu) ==
    /\ j.kind \in {"suspend", "resume"} /\ Vendor[j.olt] # "huawei" =>
          onu.down = RateOf(j) /\ onu.up = RateOf(j)
    /\ j.kind = "provision" => onu.known
    /\ j.kind = "deprovision" => ~onu.known

\* The dialogue a request is in has commands.
LEMMA ScriptForms ==
    ASSUME NEW j, j.olt \in Olts, Talk(j) \in Talks
    PROVE  /\ Vendor[j.olt] \in {"huawei", "zte", "fiberhome"}
           /\ Script(j) \in Seq(CommandNames) /\ Len(Script(j)) \in Nat /\ Len(Script(j)) > 0
<1>1. Vendor[j.olt] \in {"huawei", "zte", "fiberhome"}
  BY OltAccessAssumption
<1>2. Script(j) \in Seq(CommandNames) /\ Script(j) # <<>>
  BY <1>1, DialoguesAreNamed DEF Script, Talks, Kinds, Searching
<1>3. \A s \in Seq(CommandNames) : s # <<>> => Len(s) \in Nat /\ Len(s) > 0
  OBVIOUS
<1> QED
  BY <1>1, <1>2, <1>3

\* A request at the start of its dialogue is at its place in it.
LEMMA Begins ==
    ASSUME NEW j, j.olt \in Olts, Talk(j) \in Talks, j.commands = Script(j),
           NEW c, NEW onu, NEW calm, c.alive /\ calm => c.at = None
    PROVE  At(j, c, onu, calm)
<1> DEFINE v == Vendor[j.olt]
           k == Talk(j)
<1>1. v \in {"huawei", "zte", "fiberhome"} /\ 1 \in 1 .. Len(Script(j))
        /\ Script(j) \in Seq(CommandNames)
  BY ScriptForms
<1>2. j.commands = Left(Script(j), 1)
  BY <1>1, LeftForms
<1> HIDE DEF v, k
<1>3. 1 \notin Inside(k, v)
  BY DEF Inside
<1>4. SoFar(k, v, 1, j.onu, RateOf(j), c.at, c.staged, onu)
  BY <1>3 DEF SoFar
<1>5. c.alive /\ calm => Clean(k, v, 1, j.onu, c.at, onu)
  BY <1>3 DEF Clean
<1> QED
  BY <1>1, <1>2, <1>4, <1>5 DEF At, v, k

\* What a command takes forward: the dialogue goes on, or has achieved what it is for.
Follows(j, calm, w, x, e, g) ==
    /\ g.pc \in {"commands", "profile"} =>
          At(g, e, x.dev[j.onu], calm) /\ Found(g, x.dev[j.onu])
    /\ g.pc = "done" => Gained(j, x.dev[j.onu])
    /\ j.pc = "profile" => x.dev[j.onu].known
    /\ calm => w.at \in {j.onu, None}
    /\ calm /\ g.pc = "done" => x.at = None

\* A command brings a request to the next place of its dialogue, or to its end with the ONU as
\* the request wanted it.
LEMMA Goes ==
    ASSUME NEW j \in Job, j.pc \in {"commands", "profile"}, j.olt \in Olts, j.onu \in Onus,
           Talk(j) \in Talks, j.pc = "profile" => j.kind = "provision",
           NEW w, w.dev \in [Onus -> Onu],
           NEW calm, NEW c, c.alive, c.at = w.at, c.staged = w.staged,
           At(j, c, w.dev[j.onu], calm), Found(j, w.dev[j.onu]),
           NEW x, x = Executed(Head(j.commands), RateOf(j), j.onu, w), x.dev \in [Onus -> Onu],
           NEW e, e.alive, e.at = x.at, e.staged = x.staged,
           NEW g, g = AfterCommand(j)
    PROVE  Follows(j, calm, w, x, e, g)
<1> USE DEF Follows
<1> DEFINE v == Vendor[j.olt]
           k == Talk(j)
           D == Script(j)
           onu == w.dev[j.onu]
           y == x.dev[j.onu]
<1>1. /\ v \in {"huawei", "zte", "fiberhome"} /\ D \in Seq(CommandNames)
      /\ Len(D) \in Nat /\ D = Commands(k, v)
  BY ScriptForms DEF Script
<1>2. PICK i \in 1 .. Len(D) :
        /\ j.commands = Left(D, i)
        /\ SoFar(k, v, i, j.onu, RateOf(j), c.at, c.staged, onu)
        /\ calm => Clean(k, v, i, j.onu, c.at, onu)
  BY DEF At
<1>3. /\ Len(j.commands) = Len(D) - i + 1 /\ Head(j.commands) = D[i]
      /\ i < Len(D) => Tail(j.commands) = Left(D, i + 1)
  <2> HIDE DEF D
  <2>1. /\ Len(Left(D, i)) = Len(D) - i + 1 /\ Head(Left(D, i)) = D[i]
        /\ i < Len(D) => Tail(Left(D, i)) = Left(D, i + 1)
    BY <1>1, LeftForms
  <2> QED
    BY <1>2, <2>1
<1>4. Effect(D[i], j.onu, RateOf(j), w, x, onu, y)
  BY <1>3, EffectOfExecuted
<1>5. onu \in Onu /\ y \in Onu /\ onu.known \in BOOLEAN /\ y.known \in BOOLEAN /\ j.onu # None
  BY OltAccessAssumption DEF Onu
<1>6. k \in Talks /\ i \in Nat /\ SoFar(k, v, i, j.onu, RateOf(j), w.at, w.staged, onu)
  BY <1>1, <1>2
<1> HIDE DEF v, k, D, onu, y
<1>7. /\ i < Len(D) => SoFar(k, v, i + 1, j.onu, RateOf(j), x.at, x.staged, y)
      /\ i = Len(D) => Reached(k, v, RateOf(j), y)
      /\ k = "speed" /\ onu.known => y.known
      /\ Clean(k, v, i, j.onu, w.at, onu) =>
                 /\ i < Len(D) => Clean(k, v, i + 1, j.onu, x.at, y)
                 /\ i = Len(D) => x.at = None
                 /\ w.at \in {j.onu, None}
  <2>1. i \in 1 .. Len(Commands(k, v)) /\ Effect(Commands(k, v)[i], j.onu, RateOf(j), w, x, onu, y)
    BY <1>1, <1>2, <1>4
  <2>2. Proceeds(k, v, i, j.onu, RateOf(j), w, x, onu, y)
    BY <1>1, <1>5, <1>6, <2>1, CommandGoesOn
  <2> QED
    BY <1>1, <2>2 DEF Proceeds
<1>8. j.pc = "profile" \/ j.kind \in {"suspend", "resume"} => k = "speed" /\ y.known
  BY <1>7 DEF Found, Talk, k, onu
<1>9. calm => w.at \in {j.onu, None} /\ (i = Len(D) => x.at = None)
  BY <1>2, <1>7
<1>10. CASE i < Len(D)
  <2>0. Len(j.commands) > 1
    BY <1>1, <1>2, <1>3, <1>10
  <2>1. g = [j EXCEPT !.commands = Left(D, i + 1)]
    BY <1>3, <1>10, <2>0 DEF AfterCommand
  <2>2. /\ g.pc = j.pc /\ g.kind = j.kind /\ g.onu = j.onu /\ g.olt = j.olt
        /\ g.commands = Left(D, i + 1)
    BY <2>1 DEF Job
  <2>3. Talk(g) = k /\ Script(g) = D /\ RateOf(g) = RateOf(j) /\ Vendor[g.olt] = v
    BY <2>2 DEF Talk, Script, RateOf, k, D, v
  <2>4. i + 1 \in 1 .. Len(D)
    BY <1>1, <1>10
  <2>5. SoFar(k, v, i + 1, j.onu, RateOf(j), e.at, e.staged, y)
          /\ (calm => Clean(k, v, i + 1, j.onu, e.at, y))
    BY <1>2, <1>7, <1>10
  <2>6. At(g, e, y, calm)
    BY <2>2, <2>3, <2>4, <2>5 DEF At
  <2>7. Found(g, y)
    BY <1>8, <2>2 DEF Found
  <2> QED
    BY <1>8, <1>9, <2>2, <2>6, <2>7 DEF y
<1>11. CASE i = Len(D) /\ j.kind = "provision" /\ j.pc = "commands"
  <2>1. g = [j EXCEPT !.pc = "profile", !.commands = Commands("speed", v)]
    BY <1>1, <1>3, <1>11 DEF AfterCommand, v
  <2>2. g.pc = "profile" /\ g.olt = j.olt /\ g.commands = Commands("speed", v)
    BY <2>1 DEF Job
  <2>3. Talk(g) = "speed" /\ Script(g) = g.commands /\ Talk(g) \in Talks
    BY <2>2 DEF Talk, Script, v, Talks
  <2>4. k = "provision"
    BY <1>11 DEF k, Talk
  <2>5. y.known
    BY <1>7, <1>11, <2>4 DEF Reached
  <2>6. At(g, e, y, calm)
    BY <1>9, <1>11, <2>2, <2>3, Begins
  <2> QED
    BY <1>9, <1>11, <2>2, <2>5, <2>6 DEF y, Found
<1>12. CASE i = Len(D) /\ ~(j.kind = "provision" /\ j.pc = "commands")
  <2>1. g.pc = "done"
    BY <1>1, <1>3, <1>12 DEF AfterCommand, Answered, IdleJob
  <2>2. Gained(j, y)
    BY <1>7, <1>8, <1>12 DEF Reached, Gained, k, v, Talk
  <2> QED
    BY <1>8, <1>9, <1>12, <2>1, <2>2 DEF y
<1> QED
  BY <1>1, <1>10, <1>11, <1>12

InDialogue(r) == job[r].pc \in {"commands", "profile"}

\* Requests, drivers and ONUs keep to the OLT they belong to.
Sited(j) ==
    /\ j.driver # None => conn[j.driver].olt = j.olt
    /\ j.pc \in {"commands", "profile"} => j.olt = Home[j.onu]
    /\ j.pc \in Steps \ {"idle"} /\ j.kind \notin Searching =>
          /\ j.todo \subseteq {Home[j.onu]}
          /\ j.pc = "connect" => j.olt = Home[j.onu]
Lined(d) ==
    /\ conn[d].at # None => Home[conn[d].at] = conn[d].olt
    /\ ~conn[d].alive => conn[d].at = None
PlacesKept ==
    /\ \A o \in Olts : pool[o] # None => conn[pool[o]].olt = o
    /\ \A d \in Drivers : Lined(d)
    /\ \A r \in NetRequests : Sited(job[r])

\* Where requests of one OLT do not overlap, they are alone there, each stands somewhere in
\* its dialogue, and, without timeouts, an interface is entered only during a dialogue.
Exclusive ==
    \A q, r \in NetRequests :
       Active(q) /\ Active(r) /\ Home[job[q].onu] = Home[job[r].onu] => q = r
Underway(r) ==
    InDialogue(r) => /\ At(job[r], conn[job[r].driver], device[job[r].onu], ~Timeouts)
                     /\ Found(job[r], device[job[r].onu])
Entered(d) == conn[d].at # None => \E r \in NetRequests : InDialogue(r) /\ job[r].driver = d
DialoguesKept ==
    ~Overlapping => /\ Exclusive
                    /\ \A r \in NetRequests : Underway(r)
                    /\ ~Timeouts => \A d \in Drivers : Entered(d)

\* At the start no request is in a dialogue.
LEMMA PlacesInit == OltInit => PlacesKept /\ DialoguesKept
BY DEF OltInit, PlacesKept, DialoguesKept, Sited, Lined, Exclusive, Underway, Entered, InDialogue,
       Active, Steps, Unconnected, IdleJob

\* A request that moves on, on connections that stay where they are.
LEMMA PlacesMove ==
    ASSUME OltInv, PlacesKept, NEW r \in NetRequests, NEW g, job' = [job EXCEPT ![r] = g],
           g.driver \in Drivers \cup {None}, pool' = pool,
           \A d \in Drivers : conn'[d].olt = conn[d].olt,
           \A d \in Drivers : Lined(d)', Sited(g)
    PROVE  PlacesKept'
<1>1. job'[r] = g /\ \A q \in NetRequests \ {r} : job'[q] = job[q]
  BY DEF OltInv, OltTypeOK
<1>2. \A o \in Olts : pool[o] \in Drivers \cup {None}
  BY DEF OltInv, OltTypeOK
<1>3. \A q \in NetRequests : job[q].driver \in Drivers \cup {None}
  BY DEF OltInv, OltTypeOK, Job
<1>4. ASSUME NEW q \in NetRequests PROVE Sited(job[q])'
  <2>1. CASE q = r
    BY <1>1, <2>1 DEF Sited
  <2>2. CASE q # r
    BY <1>1, <1>3, <2>2 DEF Sited, PlacesKept
  <2> QED
    BY <2>1, <2>2
<1>5. \A o \in Olts : pool'[o] # None => conn'[pool'[o]].olt = o
  BY <1>2 DEF PlacesKept
<1> QED
  BY <1>4, <1>5 DEF PlacesKept

\* Requests that go on at other OLTs are not disturbed.
LEMMA ActiveMove ==
    ASSUME OltInv, Exclusive, NEW r \in NetRequests, NEW g, job' = [job EXCEPT ![r] = g],
           g.pc \in Steps \ {"idle"} => Active(r) /\ g.onu = job[r].onu
    PROVE  Exclusive'
<1>1. job'[r] = g /\ \A q \in NetRequests \ {r} : job'[q] = job[q]
  BY DEF OltInv, OltTypeOK
<1>2. \A q \in NetRequests : Active(q)' => Active(q) /\ job'[q].onu = job[q].onu
  BY <1>1 DEF Active
<1> QED
  BY <1>2 DEF Exclusive

\* Two requests in dialogue, or one about to begin, are on connections of their own.
LEMMA OwnDriver ==
    ASSUME OltInv, PlacesKept, Exclusive, NEW r \in NetRequests, Active(r),
           NEW q \in NetRequests, q # r, InDialogue(q)
    PROVE  /\ job[q].driver \in Drivers /\ job[q].onu \in Onus
           /\ conn[job[q].driver].olt = Home[job[q].onu]
           /\ Home[job[q].onu] # Home[job[r].onu] /\ job[q].onu # job[r].onu
<1>1. job[q].driver \in Drivers /\ Active(q) /\ job[q].onu \in Onus
  BY DEF OltInv, JobHolds, Holds, InDialogue, Active, Steps
<1>2. job[q].driver # None
  BY <1>1, OltAccessAssumption
<1>3. Sited(job[q])
  BY DEF PlacesKept
<1> QED
  BY <1>1, <1>2, <1>3 DEF Exclusive, Sited, InDialogue

\* A request whose job, line and ONU a step leaves alone stays at its place.
LEMMA Stands ==
    ASSUME NEW q \in NetRequests, Underway(q), job'[q] = job[q], UNCHANGED allowed,
           InDialogue(q) => /\ \/ conn'[job[q].driver] = conn[job[q].driver]
                               \/ ~conn'[job[q].driver].alive
                            /\ device'[job[q].onu] = device[job[q].onu]
    PROVE  Underway(q)'
<1>1. InDialogue(q)' <=> InDialogue(q)
  BY DEF InDialogue
<1>2. ASSUME InDialogue(q)
      PROVE  Underway(q)'
  <2> DEFINE j == job[q]
             c == conn[job[q].driver]
             n == device[job[q].onu]
             e == conn'[job[q].driver]
             calm == ~Timeouts
  <2>1. At(j, c, n, calm) /\ Found(j, n) /\ (e = c \/ ~e.alive)
    BY <1>2 DEF Underway
  <2>2. At(j, e, n, calm)
    <3> HIDE DEF j, c, n, e, calm
    <3> QED
      BY <2>1 DEF At
  <2>3. job'[q] = j /\ conn'[job'[q].driver] = e /\ device'[job'[q].onu] = n /\ (~Timeouts') = calm
    BY <1>2 DEF Timeouts, May
  <2>4. At(job'[q], conn'[job'[q].driver], device'[job'[q].onu], ~Timeouts')
          /\ Found(job'[q], device'[job'[q].onu])
    <3> HIDE DEF j, c, n, e, calm
    <3> QED
      BY <2>1, <2>2, <2>3
  <2> QED
    BY <2>4 DEF Underway
<1> QED
  BY <1>1, <1>2 DEF Underway

\* A step of one request keeps the places of all, if the moved one is at its own and the lines
\* and the ONUs of the others are left alone.
LEMMA DialoguesMove ==
    ASSUME OltInv, PlacesKept, DialoguesKept, UNCHANGED allowed,
           NEW r \in NetRequests, NEW g, job' = [job EXCEPT ![r] = g],
           ~Overlapping => /\ g.pc \in Steps \ {"idle"} => Active(r) /\ g.onu = job[r].onu
                           /\ \A q \in NetRequests \ {r} :
                                 InDialogue(q) =>
                                    /\ \/ conn'[job[q].driver] = conn[job[q].driver]
                                       \/ ~conn'[job[q].driver].alive
                                    /\ device'[job[q].onu] = device[job[q].onu]
                           /\ Underway(r)',
           ~Overlapping /\ ~Timeouts => \A d \in Drivers : Entered(d)'
    PROVE  DialoguesKept'
<1>1. (Overlapping' <=> Overlapping) /\ (Timeouts' <=> Timeouts)
  BY DEF Overlapping, Timeouts, May
<1>2. ASSUME ~Overlapping
      PROVE  Exclusive' /\ \A q \in NetRequests : Underway(q)'
  <2>1. Exclusive'
    BY <1>2, ActiveMove DEF DialoguesKept
  <2>2. ASSUME NEW q \in NetRequests \ {r} PROVE Underway(q)'
    <3>1. job'[q] = job[q]
      BY DEF OltInv, OltTypeOK
    <3> QED
      BY <1>2, <3>1, Stands DEF DialoguesKept
  <2> QED
    BY <1>2, <2>1, <2>2
<1> QED
  BY <1>1, <1>2 DEF DialoguesKept

\* An interface stays entered as long as its dialogue lasts.
LEMMA EnteredMove ==
    ASSUME OltInv, NEW r \in NetRequests, NEW g, job' = [job EXCEPT ![r] = g],
           NEW d \in Drivers, Entered(d), conn'[d].at = conn[d].at,
           InDialogue(r) /\ job[r].driver = d => g.pc \in {"commands", "profile"} /\ g.driver = d
    PROVE  Entered(d)'
<1>1. job'[r] = g /\ \A q \in NetRequests \ {r} : job'[q] = job[q]
  BY DEF OltInv, OltTypeOK
<1>2. CASE conn[d].at = None
  BY <1>2 DEF Entered
<1>3. CASE conn[d].at # None
  <2>1. PICK q \in NetRequests : InDialogue(q) /\ job[q].driver = d
    BY <1>3 DEF Entered
  <2>2. InDialogue(q)' /\ job'[q].driver = d
    BY <1>1, <2>1 DEF InDialogue
  <2> QED
    BY <2>2 DEF Entered
<1> QED
  BY <1>2, <1>3

\* A dialogue begins outside all interfaces.
LEMMA FreshLine ==
    ASSUME OltInv, PlacesKept, Exclusive, NEW r \in NetRequests, Active(r), ~InDialogue(r),
           NEW d \in Drivers, Entered(d), conn[d].olt = Home[job[r].onu]
    PROVE  conn[d].at = None
<1> SUFFICES ASSUME conn[d].at # None PROVE FALSE
  OBVIOUS
<1>1. PICK q \in NetRequests : InDialogue(q) /\ job[q].driver = d
  BY DEF Entered
<1>2. Home[job[q].onu] # Home[job[r].onu] /\ conn[job[q].driver].olt = Home[job[q].onu]
  BY <1>1, OwnDriver
<1> QED
  BY <1>1, <1>2

\* A request that was not in a dialogue and changes nothing but itself.
LEMMA QuietMove ==
    ASSUME OltInv, PlacesKept, DialoguesKept, UNCHANGED allowed,
           NEW r \in NetRequests, NEW g, g.driver \in Drivers \cup {None},
           job' = [job EXCEPT ![r] = g], UNCHANGED <<pool, conn, device>>,
           g.pc \in Steps \ {"idle"} => Active(r) /\ g.onu = job[r].onu,
           Sited(g),
           g.pc \in {"commands", "profile"} =>
              /\ ~Overlapping => /\ At(g, conn[g.driver], device[g.onu], ~Timeouts)
                                 /\ Found(g, device[g.onu]),
           InDialogue(r) => g.driver = job[r].driver /\ g.pc \in {"commands", "profile"}
    PROVE  PlacesKept' /\ DialoguesKept'
<1>1. job'[r] = g
  BY DEF OltInv, OltTypeOK
<1>2. PlacesKept'
  <2>1. \A d \in Drivers : Lined(d)'
    BY DEF PlacesKept, Lined
  <2> QED
    BY <2>1, PlacesMove
<1>3. ASSUME ~Overlapping PROVE Underway(r)'
  BY <1>1, <1>3 DEF Underway, InDialogue, Timeouts, May
<1>4. ASSUME ~Overlapping, ~Timeouts PROVE \A d \in Drivers : Entered(d)'
  BY <1>4, EnteredMove DEF DialoguesKept
<1> QED
  BY <1>2, <1>3, <1>4, DialoguesMove

\* A request that goes on searching keeps every place.
LEMMA SearchStands ==
    ASSUME OltInv, PlacesKept, DialoguesKept, UNCHANGED allowed, NEW r \in NetRequests, Search(r)
    PROVE  PlacesKept' /\ DialoguesKept'
<1>0. /\ job[r] \in Job /\ Holds(r) /\ Sited(job[r]) /\ Active(r) /\ ~InDialogue(r)
      /\ job[r].pc = "search" /\ job[r].kind \in Kinds /\ job[r].onu \in Onus
      /\ pool \in [Olts -> Drivers \cup {None}] /\ job[r].driver = None
      /\ UNCHANGED <<pool, conn, device>>
  BY DEF OltInv, OltTypeOK, JobHolds, Holds, PlacesKept, Search, Active, Steps, InDialogue
<1>1. PICK o \in job[r].todo :
           job' = [job EXCEPT ![r] =
                    IF pool[o] # None THEN WithDriver([job[r] EXCEPT !.todo = @ \ {o}], pool[o], o)
                    ELSE [[job[r] EXCEPT !.todo = @ \ {o}] EXCEPT !.olt = o, !.pc = "connect"]]
  BY Zenon DEF Search
<1> DEFINE j == [job[r] EXCEPT !.todo = @ \ {o}]
<1>2. /\ j \in Job /\ j.kind = job[r].kind /\ j.onu = job[r].onu /\ j.driver = None
      /\ j.todo = job[r].todo \ {o} /\ o \in Olts
      /\ j.kind \notin Searching => o = Home[j.onu] /\ j.todo \subseteq {Home[j.onu]}
  BY <1>0 DEF Job, Sited, Steps
<1> HIDE DEF j
<1>3. CASE pool[o] # None
  <2> DEFINE g == WithDriver(j, pool[o], o)
  <2>1. job' = [job EXCEPT ![r] = g] /\ pool[o] \in Drivers /\ conn[pool[o]].olt = o
    BY <1>0, <1>1, <1>2, <1>3 DEF j, PlacesKept
  <2>2. /\ g.kind = j.kind /\ g.onu = j.onu /\ g.driver = pool[o] /\ g.olt = o /\ g.todo = j.todo
        /\ j.kind \in Searching => g.pc = "locate"
        /\ j.kind \notin Searching => g.pc = "commands" /\ g.commands = Commands(j.kind, Vendor[o])
    BY <1>0, <1>2, <2>1, WithDriverForm
  <2> HIDE DEF g
  <2>3. Sited(g)
    BY <1>2, <2>1, <2>2 DEF Sited
  <2>4. ASSUME g.pc \in {"commands", "profile"}, ~Overlapping
        PROVE  At(g, conn[g.driver], device[g.onu], ~Timeouts) /\ Found(g, device[g.onu])
    <3>1. j.kind \notin Searching /\ g.pc = "commands"
      BY <2>2, <2>4, <1>0, <1>2
    <3>2. Talk(g) = j.kind /\ Talk(g) \in Talks /\ Script(g) = g.commands
      BY <1>0, <1>2, <2>2, <3>1 DEF Talk, Talks, Kinds, Searching, Script
    <3>3. conn[g.driver].alive /\ ~Timeouts => conn[g.driver].at = None
      BY <1>0, <1>2, <2>1, <2>2, <2>4, <3>1, FreshLine DEF DialoguesKept
    <3>4. At(g, conn[g.driver], device[g.onu], ~Timeouts)
      BY <1>2, <2>2, <3>2, <3>3, Begins
    <3> QED
      BY <2>2, <3>1, <3>4 DEF Found, Searching
  <2>5. Active(r) /\ g.onu = job[r].onu /\ g.driver \in Drivers
    BY <1>0, <1>2, <2>1, <2>2
  <2> QED
    BY <1>0, <2>1, <2>3, <2>4, <2>5, QuietMove
<1>4. CASE pool[o] = None
  <2> DEFINE g == [j EXCEPT !.olt = o, !.pc = "connect"]
  <2>1. job' = [job EXCEPT ![r] = g]
    BY <1>1, <1>4 DEF j
  <2>2. /\ g.kind = j.kind /\ g.onu = j.onu /\ g.driver = None /\ g.olt = o /\ g.todo = j.todo
        /\ g.pc = "connect"
    BY <1>2 DEF Job
  <2> HIDE DEF g
  <2>3. Sited(g)
    BY <1>2, <2>2 DEF Sited
  <2> QED
    BY <1>0, <1>2, <2>1, <2>2, <2>3, QuietMove
<1> QED
  BY <1>3, <1>4

\* An answer has no place in a dialogue.
LEMMA AnswerStands ==
    ASSUME NEW a \in Answers
    PROVE  Sited(Answered(a)) /\ Answered(a).pc \notin Steps
BY DEF Answered, IdleJob, Sited, Answers, Steps

\* A request that finds no OLT keeps every place.
LEMMA NotFoundStands ==
    ASSUME OltInv, PlacesKept, DialoguesKept, UNCHANGED allowed, NEW r \in NetRequests, NotFound(r)
    PROVE  PlacesKept' /\ DialoguesKept'
<1>1. "notfound" \in Answers
  BY DEF Answers
<1> DEFINE g == Answered("notfound")
<1>2. g.driver = None /\ Sited(g) /\ g.pc \notin Steps
  BY <1>1, AnsweredForm, AnswerStands
<1>3. job' = [job EXCEPT ![r] = g] /\ UNCHANGED <<pool, conn, device>> /\ ~InDialogue(r)
  BY DEF NotFound, InDialogue
<1> HIDE DEF g
<1> QED
  BY <1>2, <1>3, QuietMove DEF Steps

\* After an error a request is in no dialogue; it answers or searches on.
LEMMA FailureStands ==
    ASSUME NEW j \in Job, NEW error \in Answers
    PROVE  LET g == AfterFailure(j, error) IN
           /\ Sited(g) /\ g.driver = None /\ g.pc \notin {"commands", "profile"}
           /\ g.pc \in Steps \ {"idle"} => g.onu = j.onu /\ g.pc = "search" /\ j.kind \in Searching
           /\ g.pc \in {"search", "done", error}
           /\ g.pc = "done" => j.pc = "profile" \/ error = "done"
<1> DEFINE g == AfterFailure(j, error)
<1>0. "done" \in Answers
  BY DEF Answers
<1>1. CASE j.kind \in Searching
  <2>1. g = Searchable(j)
    BY <1>1 DEF AfterFailure
  <2>2. g.pc = "search" /\ g.driver = None /\ g.onu = j.onu /\ g.kind = j.kind
    BY <2>1, SearchableForm
  <2> HIDE DEF g
  <2> QED
    BY <1>1, <2>2 DEF Sited, Steps, g
<1>2. CASE j.kind \notin Searching
  <2>1. PICK a \in Answers : g = Answered(a) /\ (a = "done" \/ a = error)
             /\ (a = "done" => j.pc = "profile" \/ error = "done")
    BY <1>0, <1>2 DEF AfterFailure
  <2>2. g.pc = a /\ g.driver = None /\ Sited(g) /\ g.pc \notin Steps
    BY <2>1, AnsweredForm, AnswerStands
  <2> HIDE DEF g
  <2> QED
    BY <2>1, <2>2 DEF Steps, g
<1> QED
  BY <1>1, <1>2

\* A request that gets or fails to get a connection keeps every place.
LEMMA ConnectStands ==
    ASSUME OltInv, PlacesKept, DialoguesKept, UNCHANGED allowed, NEW r \in NetRequests, Connect(r)
    PROVE  PlacesKept' /\ DialoguesKept'
<1>0. /\ job[r] \in Job /\ Holds(r) /\ Sited(job[r]) /\ Active(r) /\ ~InDialogue(r)
      /\ job[r].pc = "connect" /\ job[r].kind \in Kinds /\ job[r].onu \in Onus
      /\ job[r].olt \in Olts /\ job[r].driver = None /\ device' = device
      /\ pool \in [Olts -> Drivers \cup {None}] /\ conn \in [Drivers -> Driver]
  BY DEF OltInv, OltTypeOK, JobHolds, Holds, PlacesKept, Connect, Active, Steps, InDialogue
<1>1. CASE /\ Drops
           /\ job' = [job EXCEPT ![r] = AfterFailure(job[r], "unavailable")]
           /\ UNCHANGED <<pool, conn>>
  <2> DEFINE g == AfterFailure(job[r], "unavailable")
  <2>1. "unavailable" \in Answers
    BY DEF Answers
  <2>2. /\ Sited(g) /\ g.driver = None /\ g.pc \notin {"commands", "profile"}
        /\ g.pc \in Steps \ {"idle"} => g.onu = job[r].onu
    BY <1>0, <2>1, FailureStands
  <2>3. job' = [job EXCEPT ![r] = g] /\ UNCHANGED <<pool, conn, device>>
    BY <1>0, <1>1
  <2> HIDE DEF g
  <2> QED
    BY <1>0, <2>2, <2>3, QuietMove
<1>2. CASE LET d == CHOOSE d \in Drivers : Free(d) IN
            /\ conn' = [conn EXCEPT ![d] = [Unconnected EXCEPT !.olt = job[r].olt,
                                                               !.alive = TRUE]]
            /\ pool' = [pool EXCEPT ![job[r].olt] = d]
            /\ job' = [job EXCEPT ![r] = WithDriver(job[r], d, job[r].olt)]
  <2> DEFINE d == CHOOSE d \in Drivers : Free(d)
             c == [Unconnected EXCEPT !.olt = job[r].olt, !.alive = TRUE]
             j == job[r]
             g == WithDriver(j, d, j.olt)
  <2>1. d \in Drivers /\ Free(d)
    BY <1>0, DriverIsFree DEF OltInv
  <2>2. /\ conn' = [conn EXCEPT ![d] = c] /\ pool' = [pool EXCEPT ![j.olt] = d]
        /\ job' = [job EXCEPT ![r] = g]
    BY <1>2
  <2>3. c.olt = j.olt /\ c.alive /\ c.at = None
    BY DEF Unconnected
  <2> HIDE DEF d, c
  <2>4. /\ g.kind = j.kind /\ g.onu = j.onu /\ g.driver = d /\ g.olt = j.olt /\ g.todo = j.todo
        /\ j.kind \in Searching => g.pc = "locate"
        /\ j.kind \notin Searching => g.pc = "commands" /\ g.commands = Commands(j.kind, Vendor[j.olt])
    BY <1>0, <2>1, WithDriverForm
  <2> HIDE DEF g
  <2>5. /\ conn'[d] = c /\ \A e \in Drivers \ {d} : conn'[e] = conn[e]
        /\ job'[r] = g /\ \A q \in NetRequests \ {r} : job'[q] = job[q]
        /\ pool'[j.olt] = d /\ \A o \in Olts \ {j.olt} : pool'[o] = pool[o]
    BY <1>0, <2>1, <2>2 DEF OltInv, OltTypeOK
  <2>6. /\ \A o \in Olts : pool[o] # d
        /\ \A q \in NetRequests : job[q].driver # d
    BY <2>1 DEF Free
  <2>7. PlacesKept'
    <3>1. ASSUME NEW o \in Olts, pool'[o] # None PROVE conn'[pool'[o]].olt = o
      <4>1. CASE o = j.olt
        BY <2>3, <2>5, <4>1
      <4>2. CASE o # j.olt
        <5>1. pool'[o] = pool[o] /\ pool[o] \in Drivers \ {d}
          BY <1>0, <2>5, <2>6, <3>1, <4>2
        <5> QED
          BY <2>5, <3>1, <5>1 DEF PlacesKept
      <4> QED
        BY <4>1, <4>2
    <3>2. ASSUME NEW e \in Drivers PROVE Lined(e)'
      BY <2>3, <2>5 DEF Lined, PlacesKept
    <3>3. ASSUME NEW q \in NetRequests PROVE Sited(job[q])'
      <4>1. CASE q = r
        <5>1. conn'[g.driver].olt = g.olt
          BY <2>3, <2>4, <2>5
        <5> QED
          BY <1>0, <2>4, <2>5, <4>1, <5>1 DEF Sited, Steps
      <4>2. CASE q # r
        <5>1. job'[q] = job[q] /\ job[q].driver \in (Drivers \cup {None}) \ {d}
          BY <2>5, <2>6, <4>2 DEF OltInv, OltTypeOK, Job
        <5>2. Sited(job[q])
          BY DEF PlacesKept
        <5> QED
          BY <2>5, <5>1, <5>2 DEF Sited
      <4> QED
        BY <4>1, <4>2
    <3> QED
      BY <3>1, <3>2, <3>3 DEF PlacesKept
  <2>8. Underway(r)'
    <3>1. ASSUME g.pc \in {"commands", "profile"}
          PROVE  At(g, c, device[g.onu], ~Timeouts) /\ Found(g, device[g.onu])
      <4>1. j.kind \notin Searching /\ g.pc = "commands"
        BY <2>4, <1>0, <3>1
      <4>2. Talk(g) = j.kind /\ Talk(g) \in Talks /\ Script(g) = g.commands
        BY <1>0, <2>4, <4>1 DEF Talk, Talks, Kinds, Searching, Script
      <4>3. At(g, c, device[g.onu], ~Timeouts)
        BY <1>0, <2>3, <2>4, <4>2, Begins
      <4> QED
        BY <2>4, <4>1, <4>3 DEF Found, Searching
    <3> QED
      BY <1>0, <2>4, <2>5, <3>1 DEF Underway, InDialogue, Timeouts, May
  <2>9. ASSUME NEW q \in NetRequests \ {r}, InDialogue(q)
        PROVE  conn'[job[q].driver] = conn[job[q].driver]
    <3>1. job[q].driver \in Drivers
      BY <2>9 DEF InDialogue, OltInv, JobHolds, Holds
    <3> QED
      BY <2>5, <2>6, <3>1
  <2>10. ASSUME ~Overlapping, ~Timeouts, NEW e \in Drivers PROVE Entered(e)'
    <3>1. CASE e = d
      BY <2>3, <2>5, <3>1 DEF Entered
    <3>2. CASE e # d
      <4>1. Entered(e) /\ conn'[e].at = conn[e].at
        BY <2>5, <2>10, <3>2 DEF DialoguesKept
      <4> QED
        BY <1>0, <2>2, <4>1, EnteredMove
    <3> QED
      BY <3>1, <3>2
  <2>11. Active(r) /\ g.onu = job[r].onu
    BY <1>0, <2>4
  <2> HIDE DEF j
  <2> QED
    BY <1>0, <2>2, <2>7, <2>8, <2>9, <2>10, <2>11, DialoguesMove
<1> QED
  BY <1>1, <1>2 DEF Connect

\* A search on an OLT keeps every place.
LEMMA LocateStands ==
    ASSUME OltInv, PlacesKept, DialoguesKept, UNCHANGED allowed, NEW r \in NetRequests, Locate(r)
    PROVE  PlacesKept' /\ DialoguesKept'
<1>0. /\ job[r] \in Job /\ Holds(r) /\ Sited(job[r]) /\ Active(r) /\ ~InDialogue(r)
      /\ job[r].pc = "locate" /\ job[r].kind \in Searching /\ job[r].onu \in Onus
      /\ job[r].olt \in Olts /\ job[r].driver \in Drivers /\ UNCHANGED <<pool, conn, device>>
      /\ conn[job[r].driver].olt = job[r].olt
  BY OltAccessAssumption
  DEF OltInv, OltTypeOK, JobHolds, Holds, PlacesKept, Locate, Active, Steps, InDialogue, Sited
<1>1. CASE job' = [job EXCEPT ![r] = Searchable(job[r])]
  <2> DEFINE g == Searchable(job[r])
  <2>1. g.pc = "search" /\ g.driver = None /\ g.onu = job[r].onu /\ g.kind = job[r].kind
    BY <1>0, SearchableForm
  <2> HIDE DEF g
  <2>2. Sited(g)
    BY <1>0, <2>1 DEF Sited
  <2>3. job' = [job EXCEPT ![r] = g]
    BY <1>1 DEF g
  <2> QED
    BY <1>0, <2>1, <2>2, <2>3, QuietMove
<1>2. CASE job' = [job EXCEPT ![r] = Answered("done")]
  <2> DEFINE g == Answered("done")
  <2>1. "done" \in Answers
    BY DEF Answers
  <2>2. g.driver = None /\ Sited(g) /\ g.pc \notin Steps
    BY <2>1, AnsweredForm, AnswerStands
  <2>3. job' = [job EXCEPT ![r] = g]
    BY <1>2
  <2> HIDE DEF g
  <2> QED
    BY <1>0, <2>2, <2>3, QuietMove DEF Steps
<1>3. CASE /\ Home[job[r].onu] = job[r].olt /\ device[job[r].onu].known
           /\ job[r].kind # "status"
           /\ job' = [job EXCEPT ![r].pc = "commands",
                                 ![r].commands = Commands(job[r].kind, Vendor[job[r].olt])]
  <2> DEFINE j == job[r]
             g == [j EXCEPT !.pc = "commands", !.commands = Commands(j.kind, Vendor[j.olt])]
  <2>1. /\ g.pc = "commands" /\ g.driver = j.driver /\ g.onu = j.onu /\ g.kind = j.kind
        /\ g.olt = j.olt /\ g.commands = Commands(j.kind, Vendor[j.olt])
    BY <1>0 DEF Job
  <2>2. job' = [job EXCEPT ![r] = g]
    BY <1>3
  <2> HIDE DEF g
  <2>3. Talk(g) = "speed" /\ Talk(g) \in Talks /\ Script(g) = g.commands
    BY <1>0, <1>3, <2>1 DEF Talk, Talks, Searching, Script, Commands
  <2>4. Sited(g)
    BY <1>0, <1>3, <2>1 DEF Sited
  <2>5. ASSUME ~Overlapping
        PROVE  At(g, conn[g.driver], device[g.onu], ~Timeouts) /\ Found(g, device[g.onu])
    <3>1. ~Timeouts => conn[j.driver].at = None
      BY <1>0, <1>3, <2>5, FreshLine DEF DialoguesKept
    <3>2. At(g, conn[g.driver], device[g.onu], ~Timeouts)
      BY <1>0, <2>1, <2>3, <3>1, Begins
    <3> QED
      BY <1>3, <2>1, <3>2 DEF Found
  <2>6. g.driver \in Drivers /\ g.onu = job[r].onu
    BY <1>0, <2>1
  <2> HIDE DEF j
  <2> QED
    BY <1>0, <2>2, <2>4, <2>5, <2>6, QuietMove
<1> QED
  BY <1>1, <1>2, <1>3 DEF Locate

\* What a command of request r makes of its ONU, where requests of one OLT do not overlap.
Effective(r, w, x) ==
    LET j == job[r]
        g == AfterCommand(job[r])
    IN /\ g.pc = "done" => Gained(j, x.dev[j.onu])
       /\ j.pc = "profile" => x.dev[j.onu].known
       /\ ~Timeouts => w.at \in {j.onu, None}
       /\ ~Timeouts /\ g.pc = "done" => x.at = None
       /\ \A e : e.alive /\ e.at = x.at /\ e.staged = x.staged /\ g.pc \in {"commands", "profile"} =>
             At(g, e, x.dev[j.onu], ~Timeouts) /\ Found(g, x.dev[j.onu])
       /\ \A n \in Onus \ {j.onu} : n # w.at => x.dev[n] = w.dev[n]

CommandLine(d) == [at |-> conn[d].at, staged |-> conn[d].staged, dev |-> device]

\* While requests for one OLT do not overlap, a command has its effect on the ONU of its request
\* alone.
LEMMA Effects ==
    ASSUME OltInv, PlacesKept, DialoguesKept, ~Overlapping, NEW r \in NetRequests, InDialogue(r),
           conn[job[r].driver].alive,
           NEW w, w = CommandLine(job[r].driver),
           NEW x, x = Executed(Head(job[r].commands), Rate(r), job[r].onu, w)
    PROVE  Effective(r, w, x)
<1> DEFINE j == job[r]
           c == conn[j.driver]
           g == AfterCommand(j)
           calm == ~Timeouts
<1>1. /\ j \in Job /\ j.pc \in {"commands", "profile"} /\ j.olt \in Olts /\ j.onu \in Onus
      /\ Talk(j) \in Talks /\ (j.pc = "profile" => j.kind = "provision") /\ j.driver \in Drivers
      /\ Rate(r) \in Rates /\ Rate(r) = RateOf(j)
  BY DEF OltInv, OltTypeOK, JobHolds, Holds, InDialogue, Active, Steps, Talk, Talks, Kinds,
         Searching, Rate, RateOf, Rates
<1>2. /\ w.at = c.at /\ w.staged = c.staged /\ w.dev = device /\ device \in [Onus -> Onu]
  BY DEF CommandLine, OltInv, OltTypeOK
<1>3. x.dev \in [Onus -> Onu]
  BY <1>1, ExecutedForms DEF OltInv, CommandLine
<1>4. c.alive /\ At(j, c, device[j.onu], calm) /\ Found(j, device[j.onu])
  BY DEF DialoguesKept, Underway
<1>5. x = Executed(Head(j.commands), RateOf(j), j.onu, w)
  BY <1>1
<1>6. \A n \in Onus \ {j.onu} : n # w.at => x.dev[n] = w.dev[n]
  BY <1>1 DEF Executed
<1>7. Effective(r, w, x) <=>
       /\ g.pc = "done" => Gained(j, x.dev[j.onu])
       /\ j.pc = "profile" => x.dev[j.onu].known
       /\ calm => w.at \in {j.onu, None}
       /\ calm /\ g.pc = "done" => x.at = None
       /\ \A e : e.alive /\ e.at = x.at /\ e.staged = x.staged /\ g.pc \in {"commands", "profile"} =>
             At(g, e, x.dev[j.onu], calm) /\ Found(g, x.dev[j.onu])
       /\ \A n \in Onus \ {j.onu} : n # w.at => x.dev[n] = w.dev[n]
  BY DEF Effective
<1>8. ASSUME NEW e, e.alive, e.at = x.at, e.staged = x.staged
      PROVE  Follows(j, calm, w, x, e, g)
  <2> DEFINE n == device[j.onu]
  <2>1. w.dev[j.onu] = n /\ w.dev \in [Onus -> Onu] /\ c.at = w.at /\ c.staged = w.staged
    BY <1>2
  <2>2. At(j, c, w.dev[j.onu], calm) /\ Found(j, w.dev[j.onu])
    BY <1>4, <2>1
  <2>3. g = AfterCommand(j)
    OBVIOUS
  <2> HIDE DEF n, j, c, g, calm
  <2> QED
    BY <1>1, <1>3, <1>4, <1>5, <1>8, <2>1, <2>2, <2>3, Goes
<1>9. LET e == [alive |-> TRUE, at |-> x.at, staged |-> x.staged]
      IN e.alive /\ e.at = x.at /\ e.staged = x.staged
  OBVIOUS
<1> HIDE DEF j, c, g, calm
<1> QED
  BY <1>6, <1>7, <1>8, <1>9 DEF Follows

\* A command keeps every place.
LEMMA CommandStands ==
    ASSUME OltInv, PlacesKept, DialoguesKept, UNCHANGED allowed, NEW r \in NetRequests, Command(r)
    PROVE  PlacesKept' /\ DialoguesKept'
<1> DEFINE j == job[r]
           d == job[r].driver
           w == CommandLine(d)
           x == Executed(Head(j.commands), Rate(r), j.onu, w)
           e == [conn[d] EXCEPT !.at = x.at, !.staged = x.staged]
<1>0. /\ j \in Job /\ Holds(r) /\ Sited(j) /\ Active(r) /\ InDialogue(r)
      /\ j.onu \in Onus /\ j.olt \in Olts /\ d \in Drivers /\ pool' = pool
      /\ conn[d].olt = j.olt /\ j.olt = Home[j.onu] /\ conn \in [Drivers -> Driver]
      /\ j.commands # <<>>
  BY OltAccessAssumption, Zenon
  DEF OltInv, OltTypeOK, JobHolds, Holds, PlacesKept, Command, Active, Steps, InDialogue, Sited
<1>1. \/ /\ conn[d].alive /\ job' = [job EXCEPT ![r] = AfterCommand(j)]
         /\ device' = x.dev /\ conn' = [conn EXCEPT ![d] = e]
      \/ /\ conn[d].alive /\ Timeouts /\ job' = [job EXCEPT ![r] = AfterFailure(j, "failed")]
         /\ device' = x.dev /\ conn' = [conn EXCEPT ![d] = e]
      \/ /\ ~conn[d].alive \/ Timeouts
         /\ job' = [job EXCEPT ![r] = AfterFailure(j, "failed")] /\ UNCHANGED <<device, conn>>
  BY DEF Command, CommandLine
<1>2. /\ conn' = [conn EXCEPT ![d] = e] => conn'[d] = e
      /\ \A f \in Drivers \ {d} : conn'[f] = conn[f]
      /\ e.olt = conn[d].olt /\ e.alive = conn[d].alive /\ e.at = x.at /\ e.staged = x.staged
  BY <1>0, <1>1 DEF Driver
<1>3. x.at \in {conn[d].at, j.onu, None}
  <2>1. Rate(r) \in Rates
    BY DEF Rate, Rates
  <2> QED
    BY <1>0, <2>1, ExecutedForms, Zenon DEF OltInv, CommandLine
<1>4. ~Overlapping /\ conn[d].alive => Effective(r, w, x)
  BY <1>0, Effects
<1> HIDE DEF x, e
<1>5. ASSUME NEW f \in Drivers PROVE conn'[f].olt = conn[f].olt /\ Lined(f)'
  <2>1. Lined(f)
    BY DEF PlacesKept
  <2>2. CASE f # d
    BY <1>2, <2>1, <2>2 DEF Lined
  <2>3. CASE f = d /\ conn' = conn
    BY <2>1, <2>3 DEF Lined
  <2>4. CASE f = d /\ conn' # conn
    BY <1>0, <1>1, <1>2, <1>3, <2>1, <2>4 DEF Lined
  <2> QED
    BY <2>2, <2>3, <2>4
<1>6. ASSUME ~Overlapping, NEW q \in NetRequests \ {r}, InDialogue(q)
      PROVE  conn'[job[q].driver] = conn[job[q].driver] /\ device'[job[q].onu] = device[job[q].onu]
  <2>1. /\ job[q].driver \in Drivers /\ job[q].onu \in Onus
        /\ conn[job[q].driver].olt = Home[job[q].onu]
        /\ Home[job[q].onu] # Home[j.onu] /\ job[q].onu # j.onu
    BY <1>0, <1>6, OwnDriver DEF DialoguesKept
  <2>2. job[q].driver # d
    BY <1>0, <2>1
  <2>3. job[q].onu # conn[d].at
    BY <1>0, <2>1, OltAccessAssumption DEF PlacesKept, Lined
  <2>4. device' = device \/ (device' = x.dev /\ Effective(r, w, x))
    BY <1>1, <1>4, <1>6
  <2>5. w.at = conn[d].at /\ w.dev = device
    BY DEF CommandLine
  <2> HIDE DEF w, d
  <2>6. device'[job[q].onu] = device[job[q].onu]
    BY <2>1, <2>3, <2>4, <2>5 DEF Effective, j
  <2> QED
    BY <1>2, <2>1, <2>2, <2>6
<1>7. CASE job' = [job EXCEPT ![r] = AfterFailure(j, "failed")] /\ (~conn[d].alive \/ Timeouts)
  <2> DEFINE g == AfterFailure(j, "failed")
  <2>1. "failed" \in Answers
    BY DEF Answers
  <2>2. /\ Sited(g) /\ g.driver = None /\ g.pc \notin {"commands", "profile"}
        /\ g.pc \in Steps \ {"idle"} => g.onu = j.onu
    BY <1>0, <2>1, FailureStands
  <2>3. job' = [job EXCEPT ![r] = g] /\ job'[r] = g
    BY <1>7 DEF OltInv, OltTypeOK
  <2> HIDE DEF g
  <2>4. PlacesKept'
    BY <1>0, <1>5, <2>2, <2>3, PlacesMove
  <2>5. Underway(r)'
    BY <2>2, <2>3 DEF Underway, InDialogue
  <2>6. ASSUME ~Overlapping, ~Timeouts, NEW f \in Drivers PROVE Entered(f)'
    <3>1. ~conn[d].alive
      BY <1>7, <2>6
    <3>2. conn'[f].at = conn[f].at /\ Entered(f)
      BY <1>1, <1>2, <2>6, <3>1 DEF DialoguesKept
    <3>3. CASE f = d
      BY <3>1, <3>2, <3>3 DEF PlacesKept, Lined, Entered
    <3>4. CASE f # d
      BY <2>3, <3>2, <3>4, EnteredMove
    <3> QED
      BY <3>3, <3>4
  <2> QED
    BY <1>0, <1>6, <2>2, <2>3, <2>4, <2>5, <2>6, DialoguesMove
<1>8. CASE /\ conn[d].alive /\ job' = [job EXCEPT ![r] = AfterCommand(j)]
           /\ device' = x.dev /\ conn' = [conn EXCEPT ![d] = e]
  <2> DEFINE g == AfterCommand(j)
  <2>1. /\ g \in Job /\ g.pc \in {"commands", "profile", "done"}
        /\ g.pc # "done" => g.kind = j.kind /\ g.onu = j.onu /\ g.olt = j.olt /\ g.driver = d
                          /\ g.todo = j.todo
        /\ g.pc = "done" => g.driver = None
    BY <1>0, CommandForms DEF InDialogue
  <2>2. job' = [job EXCEPT ![r] = g] /\ job'[r] = g
    BY <1>8 DEF OltInv, OltTypeOK
  <2>3. ~Overlapping => Effective(r, w, x)
    BY <1>4, <1>8
  <2>4. Effective(r, w, x) =>
          /\ ~Timeouts /\ g.pc = "done" => x.at = None
          /\ \A f : f.alive /\ f.at = x.at /\ f.staged = x.staged /\ g.pc \in {"commands", "profile"} =>
                At(g, f, x.dev[j.onu], ~Timeouts) /\ Found(g, x.dev[j.onu])
    BY DEF Effective
  <2> HIDE DEF g, w
  <2>5. Sited(g)
    BY <1>0, <2>1 DEF Sited, Steps, InDialogue
  <2>6. PlacesKept'
    BY <1>0, <1>5, <2>1, <2>2, <2>5, PlacesMove
  <2>7. conn'[d] = e /\ e.alive /\ e.at = x.at /\ e.staged = x.staged
    BY <1>2, <1>8
  <2>8. ASSUME ~Overlapping PROVE Underway(r)'
    <3>1. CASE g.pc = "done"
      BY <2>2, <3>1 DEF Underway, InDialogue
    <3>2. CASE g.pc # "done"
      <4>1. At(g, e, x.dev[j.onu], ~Timeouts) /\ Found(g, x.dev[j.onu])
        BY <2>1, <2>3, <2>4, <2>7, <2>8, <3>2
      <4> QED
        BY <1>8, <2>1, <2>2, <2>7, <3>2, <4>1 DEF Underway, Timeouts, May
    <3> QED
      BY <3>1, <3>2
  <2>9. ASSUME ~Overlapping, ~Timeouts, NEW f \in Drivers PROVE Entered(f)'
    <3>1. CASE f # d
      BY <1>2, <2>2, <2>9, <3>1, EnteredMove DEF DialoguesKept
    <3>2. CASE f = d /\ g.pc = "done"
      BY <2>3, <2>4, <2>7, <2>9, <3>2 DEF Entered
    <3>3. CASE f = d /\ g.pc # "done"
      <4>1. InDialogue(r)' /\ job'[r].driver = d
        BY <2>1, <2>2, <3>3 DEF InDialogue
      <4> QED
        BY <3>3, <4>1 DEF Entered
    <3> QED
      BY <3>1, <3>2, <3>3
  <2>10. g.pc \in Steps \ {"idle"} => g.onu = j.onu
    BY <2>1 DEF Steps
  <2> QED
    BY <1>0, <1>6, <2>2, <2>6, <2>8, <2>9, <2>10, DialoguesMove
<1> QED
  BY <1>1, <1>7, <1>8, Zenon

\* A request taken on keeps every place.
LEMMA AcceptStands ==
    ASSUME OltInv, PlacesKept, DialoguesKept, UNCHANGED allowed,
           NEW r \in NetRequests, NEW k \in Kinds, NEW n \in Onus, Accept(r, k, n)
    PROVE  PlacesKept' /\ DialoguesKept'
<1> DEFINE g == [IdleJob EXCEPT !.pc = "search", !.kind = k, !.onu = n,
                 !.todo = IF k \in Searching THEN Olts ELSE {Home[n]}]
<1>1. /\ g.pc = "search" /\ g.kind = k /\ g.onu = n /\ g.driver = None
      /\ k \notin Searching => g.todo = {Home[n]}
  BY DEF IdleJob
<1>2. job' = [job EXCEPT ![r] = g] /\ UNCHANGED <<pool, conn, device>> /\ ~Active(r) /\ ~InDialogue(r)
  BY DEF Accept, Active, InDialogue, Steps
<1> HIDE DEF g
<1>3. Sited(g)
  BY <1>1 DEF Sited
<1>4. job'[r] = g /\ \A q \in NetRequests \ {r} : job'[q] = job[q]
  BY <1>2 DEF OltInv, OltTypeOK
<1>5. PlacesKept'
  <2>1. \A d \in Drivers : Lined(d)'
    BY <1>2 DEF PlacesKept, Lined
  <2> QED
    BY <1>1, <1>2, <1>3, <2>1, PlacesMove
<1>6. (Overlapping' <=> Overlapping) /\ (Timeouts' <=> Timeouts)
  BY DEF Overlapping, Timeouts, May
<1>7. ASSUME ~Overlapping PROVE Exclusive'
  <2>1. \A q \in NetRequests \ {r} : Active(q)' => Home[job'[q].onu] # Home[n]
    BY <1>4, <1>7 DEF Accept, Active
  <2>2. \A q \in NetRequests \ {r} : (Active(q)' <=> Active(q)) /\ job'[q].onu = job[q].onu
    BY <1>4 DEF Active
  <2>3. job'[r].onu = n
    BY <1>1, <1>4
  <2> QED
    BY <1>7, <2>1, <2>2, <2>3 DEF Exclusive, DialoguesKept
<1>8. ASSUME ~Overlapping, NEW q \in NetRequests PROVE Underway(q)'
  <2>1. CASE q = r
    BY <1>1, <1>4, <2>1 DEF Underway, InDialogue
  <2>2. CASE q # r
    BY <1>2, <1>4, <1>8, <2>2, Stands DEF DialoguesKept
  <2> QED
    BY <2>1, <2>2
<1>9. ASSUME ~Overlapping, ~Timeouts, NEW d \in Drivers PROVE Entered(d)'
  BY <1>2, <1>9, EnteredMove DEF DialoguesKept
<1> QED
  BY <1>5, <1>6, <1>7, <1>8, <1>9 DEF DialoguesKept

\* A lost connection keeps every place.
LEMMA ConnectionLostStands ==
    ASSUME OltInv, PlacesKept, DialoguesKept, UNCHANGED allowed, NEW d \in Drivers, ConnectionLost(d)
    PROVE  PlacesKept' /\ DialoguesKept'
<1> DEFINE c == [conn[d] EXCEPT !.alive = FALSE, !.at = None, !.staged = {}]
<1>1. /\ conn' = [conn EXCEPT ![d] = c] /\ UNCHANGED <<pool, device, job>>
      /\ conn \in [Drivers -> Driver]
  BY DEF ConnectionLost, OltInv, OltTypeOK
<1>2. ~c.alive /\ c.at = None /\ c.olt = conn[d].olt
  BY <1>1 DEF Driver
<1> HIDE DEF c
<1>3. conn'[d] = c /\ \A e \in Drivers \ {d} : conn'[e] = conn[e]
  BY <1>1
<1>4. PlacesKept'
  <2>1. \A e \in Drivers : conn'[e].olt = conn[e].olt /\ Lined(e)'
    BY <1>2, <1>3 DEF PlacesKept, Lined
  <2>2. \A o \in Olts : pool[o] \in Drivers \cup {None}
    BY DEF OltInv, OltTypeOK
  <2>3. ASSUME NEW r \in NetRequests PROVE Sited(job[r])'
    <3>1. Sited(job[r]) /\ job[r].driver \in Drivers \cup {None} /\ job'[r] = job[r]
      BY <1>1 DEF PlacesKept, OltInv, OltTypeOK, Job
    <3> QED
      BY <2>1, <3>1 DEF Sited
  <2> QED
    BY <1>1, <2>1, <2>2, <2>3 DEF PlacesKept
<1>5. (Overlapping' <=> Overlapping) /\ (Timeouts' <=> Timeouts)
  BY DEF Overlapping, Timeouts, May
<1>6. Exclusive => Exclusive'
  BY <1>1 DEF Exclusive, Active
<1>7. ASSUME ~Overlapping, NEW q \in NetRequests PROVE Underway(q)'
  <2>1. InDialogue(q) => job[q].driver \in Drivers
    BY DEF InDialogue, OltInv, JobHolds, Holds
  <2> QED
    BY <1>1, <1>2, <1>3, <1>7, <2>1, Stands DEF DialoguesKept
<1>8. ASSUME ~Overlapping, ~Timeouts, NEW e \in Drivers PROVE Entered(e)'
  <2>1. Entered(e)
    BY <1>8 DEF DialoguesKept
  <2> QED
    BY <1>1, <1>2, <1>3, <2>1 DEF Entered, InDialogue
<1> QED
  BY <1>4, <1>5, <1>6, <1>7, <1>8 DEF DialoguesKept

\* A restart keeps every place.
LEMMA RestartStands ==
    ASSUME OltInv, PlacesKept, DialoguesKept, UNCHANGED allowed, RestartService
    PROVE  PlacesKept' /\ DialoguesKept'
<1>1. "lost" \in Answers
  BY DEF Answers
<1>2. Answered("lost").pc = "lost" /\ Answered("lost").driver = None
  BY <1>1, AnsweredForm
<1>3. /\ \A r \in NetRequests : job'[r] = IF Active(r) THEN Answered("lost") ELSE job[r]
      /\ \A d \in Drivers : conn'[d] = Unconnected
      /\ \A o \in Olts : pool'[o] = None
  BY DEF RestartService
<1>4. ASSUME NEW r \in NetRequests
      PROVE  ~Active(r)' /\ ~InDialogue(r)' /\ job'[r].driver = None
  <2>1. CASE Active(r)
    BY <1>2, <1>3, <2>1 DEF Active, InDialogue, Steps
  <2>2. CASE ~Active(r)
    <3>1. job[r].pc \in {"idle"} \cup Answers
      BY <2>2 DEF Active, OltInv, OltTypeOK, Job, Steps
    <3>2. job[r].driver = None
      BY <3>1 DEF OltInv, JobHolds, Holds
    <3> QED
      BY <1>3, <2>2, <3>1, <3>2 DEF Active, InDialogue, Answers
  <2> QED
    BY <2>1, <2>2
<1>5. PlacesKept'
  BY <1>3, <1>4 DEF PlacesKept, Lined, Sited, Unconnected, Active, InDialogue
<1> QED
  BY <1>3, <1>4, <1>5 DEF DialoguesKept, Exclusive, Underway, Entered, Unconnected

OltDeep == OltInv /\ PlacesKept /\ DialoguesKept

\* Every step of a request keeps all that is known of the network service.
LEMMA ServeDeep ==
    ASSUME OltDeep, UNCHANGED allowed, NEW r \in NetRequests, Serve(r)
    PROVE  OltDeep'
<1>1. OltInv'
  BY ServeKeeps DEF OltDeep
<1>2. PlacesKept' /\ DialoguesKept'
  BY SearchStands, NotFoundStands, ConnectStands, LocateStands, CommandStands DEF OltDeep, Serve
<1> QED
  BY <1>1, <1>2 DEF OltDeep

\* While requests for one OLT do not overlap, a command that ends a dialogue leaves the ONU as
\* the answer says.
LEMMA CommandIsTrue ==
    ASSUME OltDeep, ~Overlapping, NEW r \in NetRequests, Command(r)
    PROVE  /\ job'[r].pc = "done" => Achieved(r, device')
           /\ ~Timeouts => \A n \in Onus : device'[n] # device[n] => n = job[r].onu
<1> DEFINE j == job[r]
           d == job[r].driver
           w == CommandLine(d)
           x == Executed(Head(j.commands), Rate(r), j.onu, w)
<1>0. /\ j \in Job /\ Holds(r) /\ Sited(j) /\ InDialogue(r) /\ Rate(r) = RateOf(j)
      /\ j.onu \in Onus /\ d \in Drivers /\ j.olt = Home[j.onu] /\ w.dev = device /\ j.pc \in Steps
      /\ device \in [Onus -> Onu] /\ (j.pc = "profile" => j.kind = "provision")
  BY Zenon DEF OltDeep, OltInv, OltTypeOK, JobHolds, Holds, PlacesKept, Command, Active, Steps,
         InDialogue, Sited, Rate, RateOf, CommandLine
<1>1. \/ /\ conn[d].alive /\ job' = [job EXCEPT ![r] = AfterCommand(j)] /\ device' = x.dev
      \/ /\ conn[d].alive /\ device' = x.dev
         /\ job' = [job EXCEPT ![r] = AfterFailure(j, "failed")]
      \/ /\ job' = [job EXCEPT ![r] = AfterFailure(j, "failed")] /\ UNCHANGED device
  BY DEF Command, CommandLine
<1>2. conn[d].alive => Effective(r, w, x)
  BY <1>0, Effects DEF OltDeep
<1> HIDE DEF x, w
<1>3. /\ job' = [job EXCEPT ![r] = AfterCommand(j)] => job'[r] = AfterCommand(j)
      /\ job' = [job EXCEPT ![r] = AfterFailure(j, "failed")] => job'[r] = AfterFailure(j, "failed")
  BY DEF OltDeep, OltInv, OltTypeOK
<1>4. AfterFailure(j, "failed").pc = "done" => j.pc = "profile"
  <2>1. "failed" \in Answers
    BY DEF Answers
  <2> QED
    BY <1>0, <2>1, FailureStands
<1>5. Found(j, device[j.onu])
  BY <1>0 DEF OltDeep, DialoguesKept, Underway
<1>6. ASSUME job'[r].pc = "done" PROVE Achieved(r, device')
  <2>1. CASE j.pc = "profile" /\ device'[j.onu].known
    BY <1>0, <2>1 DEF Achieved
  <2>2. CASE Gained(j, device'[j.onu])
    BY <1>0, <2>2 DEF Achieved, Gained
  <2> QED
    BY <1>0, <1>1, <1>2, <1>3, <1>4, <1>5, <1>6, <2>1, <2>2 DEF Effective, Found
<1>7. ASSUME ~Timeouts, NEW n \in Onus, device'[n] # device[n] PROVE n = j.onu
  <2>1. device' = x.dev /\ Effective(r, w, x)
    BY <1>1, <1>2, <1>7
  <2>2. w.at # n \/ n = j.onu
    BY <1>7, <2>1, OltAccessAssumption DEF Effective
  <2> QED
    BY <1>0, <1>7, <2>1, <2>2 DEF Effective
<1> QED
  BY <1>6, <1>7, Zenon

\* One step of the service: the two action properties.
LEMMA ServeIsTrue ==
    ASSUME OltDeep, ~Overlapping, NEW r \in NetRequests, Serve(r)
    PROVE  /\ \A q \in NetRequests : Active(q) /\ job'[q].pc = "done" => Achieved(q, device')
           /\ ~Timeouts => \A n \in Onus : device'[n] # device[n] =>
                 \E q \in NetRequests : Active(q) /\ job[q].onu = n
<1>0. /\ job[r] \in Job /\ Holds(r) /\ OltInv
  BY Zenon DEF OltDeep, OltInv, OltTypeOK, JobHolds
<1>1. \A q \in NetRequests \ {r} : job'[q] = job[q]
  BY <1>0, Zenon DEF OltInv, OltTypeOK, Serve, Search, NotFound, Connect, Locate, Command
<1>2. \A q \in NetRequests \ {r} : ~(Active(q) /\ job'[q].pc = "done")
  BY <1>1 DEF Active, Steps
<1>3. CASE Command(r)
  <2>1. Active(r)
    BY <1>3 DEF Command, Active, Steps
  <2> QED
    BY <1>2, <1>3, <2>1, CommandIsTrue
<1>4. CASE ~Command(r)
  <2>1. device' = device
    BY <1>4, Zenon DEF Serve, Search, NotFound, Connect, Locate
  <2>2. ASSUME job'[r].pc = "done" PROVE Achieved(r, device')
    <3>1. CASE Locate(r)
      <4>1. CASE job' = [job EXCEPT ![r] = Searchable(job[r])]
        BY <1>0, <2>2, <4>1, SearchableForm DEF OltInv, OltTypeOK
      <4>2. CASE job[r].kind = "status"
        BY <4>2 DEF Achieved
      <4>3. CASE job' = [job EXCEPT ![r].pc = "commands",
                                    ![r].commands = Commands(job[r].kind, Vendor[job[r].olt])]
        <5>1. job'[r].pc = "commands"
          BY <1>0, <4>3 DEF OltInv, OltTypeOK, Job
        <5> QED
          BY <2>2, <5>1
      <4> QED
        BY <3>1, <4>1, <4>2, <4>3 DEF Locate
    <3>2. CASE Search(r)
      <4>1. (PlacesKept /\ DialoguesKept) /\ job[r].kind \in Kinds
        BY <1>0, <3>2 DEF OltDeep, Search, Holds, Active, Steps
      <4>2. PICK o \in job[r].todo :
           job' = [job EXCEPT ![r] =
                    IF pool[o] # None THEN WithDriver([job[r] EXCEPT !.todo = @ \ {o}], pool[o], o)
                    ELSE [[job[r] EXCEPT !.todo = @ \ {o}] EXCEPT !.olt = o, !.pc = "connect"]]
        BY <3>2, Zenon DEF Search
      <4> DEFINE i == [job[r] EXCEPT !.todo = @ \ {o}]
      <4>3. i \in Job /\ i.kind \in Kinds /\ o \in Olts
        BY <1>0, <4>1 DEF Job
      <4> HIDE DEF i
      <4>4. CASE pool[o] # None
        <5>1. pool[o] \in Drivers /\ job'[r] = WithDriver(i, pool[o], o)
          BY <1>0, <4>2, <4>3, <4>4 DEF OltInv, OltTypeOK, i
        <5>2. job'[r].pc \in {"locate", "commands"}
          BY <4>3, <5>1, WithDriverForm
        <5> QED
          BY <2>2, <5>2
      <4>5. CASE pool[o] = None
        <5>1. job'[r] = [i EXCEPT !.olt = o, !.pc = "connect"]
          BY <1>0, <4>2, <4>5 DEF OltInv, OltTypeOK, i
        <5> QED
          BY <2>2, <4>3, <5>1 DEF Job
      <4> QED
        BY <4>4, <4>5
    <3>3. CASE NotFound(r)
      <4>1. job'[r] = Answered("notfound")
        BY <1>0, <3>3 DEF NotFound, OltInv, OltTypeOK
      <4> QED
        BY <2>2, <4>1 DEF Answered, IdleJob
    <3>4. CASE Connect(r)
      <4>1. job[r].kind \in Kinds /\ job[r].olt \in Olts /\ job[r].pc = "connect" /\ job[r].driver = None
        BY <1>0, <3>4 DEF Connect, Holds, Active, Steps
      <4>2. \/ job'[r] = AfterFailure(job[r], "unavailable")
            \/ job'[r] = WithDriver(job[r], CHOOSE d \in Drivers : Free(d), job[r].olt)
        BY <1>0, <3>4 DEF Connect, OltInv, OltTypeOK
      <4>3. (CHOOSE d \in Drivers : Free(d)) \in Drivers
        BY <1>0, <4>1, DriverIsFree DEF OltInv
      <4>4. "unavailable" \in Answers
        BY DEF Answers
      <4>5. AfterFailure(job[r], "unavailable").pc # "done"
        BY <1>0, <4>1, <4>4, FailureStands
      <4>6. WithDriver(job[r], CHOOSE d \in Drivers : Free(d), job[r].olt).pc \in {"locate", "commands"}
        BY <1>0, <4>1, <4>3, WithDriverForm
      <4> QED
        BY <2>2, <4>2, <4>5, <4>6
    <3> QED
      BY <1>4, <3>1, <3>2, <3>3, <3>4 DEF Serve
  <2> QED
    BY <1>2, <2>1, <2>2, Zenon
<1> QED
  BY <1>3, <1>4

-----------------------------------------------------------------------------
(* Subscriber administration, where it relies on the network service: the suspension of *)
(* a customer is pending until the ONU is settled.                                      *)

\* An ONU needs no throttling any more.
Settled(n) ==
    device[n].known /\ Vendor[Home[n]] # "huawei" => device[n].down = "slow" /\ device[n].up = "slow"

\* What holds at the OLTs where nothing fails and only the backend asks for anything.
Seeks(r) ==
    Active(r) =>
       /\ job[r].kind = "suspend"
       /\ device[job[r].onu].known =>
             /\ job[r].pc = "search" => Home[job[r].onu] \in job[r].todo
             /\ job[r].pc \in {"connect", "locate"} =>
                   Home[job[r].onu] \in job[r].todo \/ job[r].olt = Home[job[r].onu]
Unbroken ==
    /\ \A o \in Olts : pool[o] # None => conn[pool[o]].alive
    /\ \A r \in NetRequests : job[r].driver # None => conn[job[r].driver].alive
    /\ \A d \in Drivers : "register" \notin conn[d].staged
SmoothOlt == Unbroken /\ \A r \in NetRequests : Seeks(r)

SpeedNames == {"other", "port", "enter", "leave", "flow", "commit", "down", "up"}

\* The dialogue that sets a speed has no command that adds or removes an ONU.
LEMMA SpeedIsNoMore ==
    ASSUME NEW v \in {"huawei", "zte", "fiberhome"}, NEW i, i \in 1 .. Len(Commands("speed", v))
    PROVE  Commands("speed", v)[i] \in SpeedNames
<1> DEFINE D == Commands("speed", v)
<1>1. \/ D = <<"other", "port", "other", "leave">>
      \/ D = <<"enter", "other", "other", "down", "up", "leave">>
      \/ D = <<"port", "flow", "commit", "leave">>
  <2>1. CASE v = "huawei"
    BY <2>1 DEF Commands, Dialogue, HuaweiCommands, ZteCommands, FiberhomeCommands
  <2>2. CASE v = "zte"
    BY <2>2 DEF Commands, Dialogue, HuaweiCommands, ZteCommands, FiberhomeCommands
  <2>3. CASE v = "fiberhome"
    BY <2>3 DEF Commands, Dialogue, HuaweiCommands, ZteCommands, FiberhomeCommands
  <2> QED
    BY <2>1, <2>2, <2>3
<1>2. i \in 1 .. Len(D)
  OBVIOUS
<1> HIDE DEF D
<1>3. D[i] \in SpeedNames
  BY <1>1, <1>2 DEF SpeedNames
<1> QED
  BY <1>3 DEF D

\* A command of a suspension: it registers nothing, and sets no rate but the slow one.
LEMMA SuspensionSlows ==
    ASSUME OltDeep, ~Overlapping, Unbroken, NEW r \in NetRequests, InDialogue(r), job[r].kind = "suspend",
           NEW x, x = Executed(Head(job[r].commands), Rate(r), job[r].onu, CommandLine(job[r].driver))
    PROVE  /\ \A n \in Onus : /\ x.dev[n].known = device[n].known
                              /\ x.dev[n].down \in {device[n].down, "slow"}
                              /\ x.dev[n].up \in {device[n].up, "slow"}
           /\ "register" \notin x.staged
<1> DEFINE j == job[r]
           c == Head(job[r].commands)
<1>1. /\ j.olt \in Olts /\ j.driver \in Drivers /\ j.pc \in {"commands", "profile"}
      /\ Vendor[j.olt] \in {"huawei", "zte", "fiberhome"}
      /\ device \in [Onus -> Onu] /\ Rate(r) = "slow" /\ Talk(j) = "speed"
  BY OltAccessAssumption DEF InDialogue, OltDeep, OltInv, OltTypeOK, JobHolds, Holds, Rate, Talk
<1>2. PICK i \in 1 .. Len(Script(j)) : j.commands = Left(Script(j), i)
  <2>1. At(j, conn[j.driver], device[j.onu], ~Timeouts)
    BY DEF OltDeep, DialoguesKept, Underway
  <2> QED
    BY <2>1 DEF At
<1>3. c = Script(j)[i]
  <2>1. Script(j) \in Seq(CommandNames)
    BY <1>1, ScriptForms DEF Talks
  <2> QED
    BY <1>2, <2>1, LeftForms
<1>4. c \in SpeedNames
  BY <1>1, <1>2, <1>3, SpeedIsNoMore DEF Script
<1>5. "register" \notin conn[j.driver].staged
  BY <1>1 DEF Unbroken
<1> HIDE DEF c
<1>6. ASSUME NEW onu \in Onu
      PROVE  LET y == OnuAfter(c, "slow", conn[j.driver].staged, onu) IN
             y.known = onu.known /\ y.down \in {onu.down, "slow"} /\ y.up \in {onu.up, "slow"}
  BY <1>4, <1>5 DEF OnuAfter, Removed, Onu, SpeedNames
<1>7. ASSUME NEW n \in Onus
      PROVE  x.dev[n] \in {device[n], OnuAfter(c, "slow", conn[j.driver].staged, device[n])}
  BY <1>1 DEF Executed, CommandLine, c
<1>8. "register" \notin x.staged
  <2>1. x.staged \subseteq conn[j.driver].staged \cup ({c} \cap {"register", "flow"})
    BY DEF Executed, CommandLine, c
  <2> QED
    BY <1>4, <1>5, <2>1 DEF SpeedNames
<1> QED
  BY <1>1, <1>6, <1>7, <1>8

\* Where nothing fails, a request is answered only when its ONU needs no throttling any more.
Advances(r) ==
    /\ SmoothOlt'
    /\ \A n \in Onus : Settled(n) => Settled(n)'
    /\ \A q \in NetRequests \ {r} : job'[q] = job[q]
    /\ job'[r].pc \in Steps \ {"idle"} => job'[r].onu = job[r].onu
    /\ job'[r].pc \in Steps \ {"idle"} \/ \A n \in Onus : n = job[r].onu => Settled(n)'

\* A request that moves on without changing an ONU.
LEMMA SeekMoves ==
    ASSUME OltDeep, SmoothOlt, NEW r \in NetRequests, NEW g, job' = [job EXCEPT ![r] = g],
           device' = device, Unbroken',
           g.pc \in Steps \ {"idle"} =>
              /\ g.onu = job[r].onu /\ g.kind = "suspend"
              /\ device[g.onu].known =>
                    /\ g.pc = "search" => Home[g.onu] \in g.todo
                    /\ g.pc \in {"connect", "locate"} =>
                          Home[g.onu] \in g.todo \/ g.olt = Home[g.onu],
           g.pc \in Steps \ {"idle"} \/ Settled(job[r].onu)
    PROVE  Advances(r)
<1>1. job'[r] = g /\ \A q \in NetRequests \ {r} : job'[q] = job[q]
  BY DEF OltDeep, OltInv, OltTypeOK
<1>2. ASSUME NEW q \in NetRequests PROVE Seeks(q)'
  <2>1. CASE q = r
    BY <1>1, <2>1 DEF Seeks, Active
  <2>2. CASE q # r
    BY <1>1, <2>2 DEF Seeks, Active, SmoothOlt
  <2> QED
    BY <2>1, <2>2
<1>3. SmoothOlt'
  BY <1>2 DEF SmoothOlt
<1>4. \A n : Settled(n)' <=> Settled(n)
  BY DEF Settled
<1> QED
  BY <1>1, <1>3, <1>4 DEF Advances

\* A step that opens no dead line keeps the lines of requests alive.
LEMMA UnbrokenMove ==
    ASSUME OltInv, Unbroken, NEW r \in NetRequests, NEW g, job' = [job EXCEPT ![r] = g],
           UNCHANGED <<pool, conn>>, g.driver # None => conn[g.driver].alive
    PROVE  Unbroken'
<1>1. job'[r] = g /\ \A q \in NetRequests \ {r} : job'[q] = job[q]
  BY DEF OltInv, OltTypeOK
<1> QED
  BY <1>1 DEF Unbroken

\* Where nothing fails, a command of a suspension advances it.
LEMMA SmoothCommand ==
    ASSUME OltDeep, SmoothOlt, Smooth, NEW r \in NetRequests, Command(r)
    PROVE  Advances(r)
<1> DEFINE j == job[r]
           d == job[r].driver
           g == AfterCommand(j)
           x == Executed(Head(j.commands), Rate(r), j.onu, CommandLine(d))
           e == [conn[d] EXCEPT !.at = x.at, !.staged = x.staged]
<1>0. /\ j \in Job /\ InDialogue(r) /\ j.onu \in Onus /\ d \in Drivers /\ j.olt \in Olts
      /\ j.commands # <<>> /\ conn \in [Drivers -> Driver] /\ j.kind = "suspend"
      /\ conn[d].alive /\ OltInv /\ Active(r) /\ d # None
      /\ ~Overlapping /\ ~Timeouts
  BY OltAccessAssumption, Zenon
  DEF Command, InDialogue, OltDeep, OltInv, OltTypeOK, JobHolds, Holds, Active, Steps, SmoothOlt, Seeks,
      Unbroken, Smooth, Overlapping, Timeouts, May
<1>1. /\ job' = [job EXCEPT ![r] = g] /\ device' = x.dev /\ conn' = [conn EXCEPT ![d] = e]
      /\ pool' = pool
  BY <1>0 DEF Command, CommandLine
<1>2. /\ \A n \in Onus : /\ device'[n].known = device[n].known
                         /\ device'[n].down \in {device[n].down, "slow"}
                         /\ device'[n].up \in {device[n].up, "slow"}
      /\ "register" \notin x.staged
  BY <1>0, <1>1, SuspensionSlows DEF SmoothOlt
<1> HIDE DEF x
<1>3. /\ g.pc \in {"commands", "done"}
      /\ g.pc # "done" => g.kind = j.kind /\ g.onu = j.onu /\ g.driver = d
      /\ g.pc = "done" => g.driver = None
  <2>1. j.pc = "commands"
    BY <1>0 DEF InDialogue, OltInv, JobHolds, Holds
  <2> QED
    BY <1>0, <2>1, CommandForms
<1>4. job'[r] = g /\ \A q \in NetRequests \ {r} : job'[q] = job[q]
  BY <1>0, <1>1 DEF OltInv, OltTypeOK
<1>5. Achieved(r, device') \/ g.pc # "done"
  BY <1>0, <1>4, CommandIsTrue
<1>6. conn'[d].alive /\ "register" \notin conn'[d].staged /\ \A f \in Drivers \ {d} : conn'[f] = conn[f]
  BY <1>0, <1>1, <1>2 DEF Driver
<1> HIDE DEF e, g
<1>7. Unbroken'
  <2>1. \A f \in Drivers : conn[f].alive => conn'[f].alive
    BY <1>0, <1>6
  <2>2. \A o \in Olts : pool[o] \in Drivers \cup {None}
    BY <1>0 DEF OltInv, OltTypeOK
  <2>3. \A q \in NetRequests : job'[q].driver \in {None, job[q].driver}
    BY <1>3, <1>4
  <2>4. \A q \in NetRequests : job[q].driver \in Drivers \cup {None}
    BY <1>0 DEF OltInv, OltTypeOK, Job
  <2>5. \A q \in NetRequests : job'[q].driver # None => conn'[job'[q].driver].alive
    BY <2>1, <2>3, <2>4 DEF SmoothOlt, Unbroken
  <2>6. \A o \in Olts : pool'[o] # None => conn'[pool'[o]].alive
    BY <1>1, <2>1, <2>2 DEF SmoothOlt, Unbroken
  <2>7. \A f \in Drivers : "register" \notin conn'[f].staged
    BY <1>6 DEF SmoothOlt, Unbroken
  <2> QED
    BY <2>5, <2>6, <2>7 DEF Unbroken
<1>8. ASSUME NEW q \in NetRequests PROVE Seeks(q)'
  <2>1. CASE q = r
    BY <1>0, <1>3, <1>4, <2>1 DEF Seeks, Active, Steps
  <2>2. CASE q # r
    <3>1. Active(q)' => Active(q) /\ job[q].onu \in Onus /\ job'[q] = job[q]
      BY <1>0, <1>4, <2>2 DEF Active, OltInv, JobHolds, Holds
    <3> QED
      BY <1>2, <3>1 DEF Seeks, SmoothOlt
  <2> QED
    BY <2>1, <2>2
<1>9. ASSUME NEW n \in Onus, Settled(n) PROVE Settled(n)'
  BY <1>2, <1>9 DEF Settled
<1>10. g.pc \in Steps \ {"idle"} => g.onu = j.onu
  BY <1>3 DEF Steps
<1>11. g.pc \in Steps \ {"idle"} \/ \A n \in Onus : n = j.onu => Settled(n)'
  <2>1. Achieved(r, device') => \A n \in Onus : n = j.onu => Settled(n)'
    BY <1>0 DEF Achieved, Settled, Rate
  <2> QED
    BY <1>3, <1>5, <2>1 DEF Steps
<1> QED
  BY <1>4, <1>7, <1>8, <1>9, <1>10, <1>11, Zenon DEF Advances, SmoothOlt

\* Where nothing fails, so does a search on an OLT.
LEMMA SmoothLocate ==
    ASSUME OltDeep, SmoothOlt, Smooth, NEW r \in NetRequests, Locate(r)
    PROVE  Advances(r)
<1> DEFINE j == job[r]
<1>0. /\ j \in Job /\ j.onu \in Onus /\ j.driver \in Drivers /\ j.olt \in Olts /\ OltInv
      /\ conn[j.driver].alive /\ j.kind = "suspend" /\ Active(r) /\ UNCHANGED <<pool, conn, device>>
      /\ j.pc = "locate" /\ ~Timeouts /\ Unbroken
      /\ device[j.onu].known => Home[j.onu] \in j.todo \/ j.olt = Home[j.onu]
  BY OltAccessAssumption
  DEF Locate, OltDeep, OltInv, OltTypeOK, JobHolds, Holds, Active, Steps, SmoothOlt, Seeks, Unbroken,
      Smooth, Timeouts, May
<1>1. CASE /\ ~(Home[j.onu] = j.olt /\ device[j.onu].known)
           /\ job' = [job EXCEPT ![r] = Searchable(j)]
  <2> DEFINE g == Searchable(j)
  <2>1. g.pc = "search" /\ g.driver = None /\ g.onu = j.onu /\ g.kind = j.kind /\ g.todo = j.todo
    BY <1>0, SearchableForm
  <2>2. job' = [job EXCEPT ![r] = g]
    BY <1>1
  <2> HIDE DEF g
  <2>3. Unbroken'
    BY <1>0, <2>1, <2>2, UnbrokenMove
  <2> HIDE DEF j
  <2> QED
    BY <1>0, <1>1, <2>1, <2>2, <2>3, SeekMoves DEF Steps, j
<1>2. CASE job' = [job EXCEPT ![r].pc = "commands",
                              ![r].commands = Commands(j.kind, Vendor[j.olt])]
  <2> DEFINE g == [j EXCEPT !.pc = "commands", !.commands = Commands(j.kind, Vendor[j.olt])]
  <2>1. g.pc = "commands" /\ g.driver = j.driver /\ g.onu = j.onu /\ g.kind = j.kind
    BY <1>0 DEF Job
  <2>2. job' = [job EXCEPT ![r] = g]
    BY <1>2
  <2> HIDE DEF g
  <2>3. Unbroken'
    BY <1>0, <2>1, <2>2, UnbrokenMove
  <2> QED
    BY <1>0, <2>1, <2>2, <2>3, SeekMoves DEF Steps
<1> QED
  BY <1>0, <1>1, <1>2 DEF Locate

\* Where nothing fails, so does the turn to the next OLT.
LEMMA SmoothSearch ==
    ASSUME OltDeep, SmoothOlt, Smooth, NEW r \in NetRequests, Search(r)
    PROVE  Advances(r)
<1>0. /\ job[r] \in Job /\ job[r].onu \in Onus /\ job[r].driver = None /\ OltInv
      /\ job[r].kind = "suspend" /\ Active(r) /\ UNCHANGED <<pool, conn, device>>
      /\ job[r].pc = "search" /\ Unbroken /\ pool \in [Olts -> Drivers \cup {None}]
      /\ device[job[r].onu].known => Home[job[r].onu] \in job[r].todo
  BY DEF Search, OltDeep, OltInv, OltTypeOK, JobHolds, Holds, Active, Steps, SmoothOlt, Seeks
<1>1. PICK o \in job[r].todo :
           job' = [job EXCEPT ![r] =
                    IF pool[o] # None THEN WithDriver([job[r] EXCEPT !.todo = @ \ {o}], pool[o], o)
                    ELSE [[job[r] EXCEPT !.todo = @ \ {o}] EXCEPT !.olt = o, !.pc = "connect"]]
  BY Zenon DEF Search
<1> DEFINE j == [job[r] EXCEPT !.todo = @ \ {o}]
<1>2. /\ j \in Job /\ j.kind = "suspend" /\ j.onu = job[r].onu /\ j.driver = None /\ o \in Olts
      /\ j.todo = job[r].todo \ {o} /\ j.kind \in Searching /\ j.kind \in Kinds
  BY <1>0 DEF Job, Searching, Kinds
<1> HIDE DEF j
<1>3. CASE pool[o] # None
  <2> DEFINE g == WithDriver(j, pool[o], o)
  <2>1. job' = [job EXCEPT ![r] = g] /\ pool[o] \in Drivers /\ conn[pool[o]].alive
    BY <1>0, <1>1, <1>2, <1>3 DEF j, Unbroken
  <2>2. /\ g.kind = "suspend" /\ g.onu = j.onu /\ g.driver = pool[o] /\ g.olt = o /\ g.todo = j.todo
        /\ g.pc = "locate"
    BY <1>2, <2>1, WithDriverForm
  <2> HIDE DEF g
  <2>3. Unbroken'
    BY <1>0, <2>1, <2>2, UnbrokenMove
  <2> QED
    BY <1>0, <1>2, <2>1, <2>2, <2>3, SeekMoves DEF Steps
<1>4. CASE pool[o] = None
  <2> DEFINE g == [j EXCEPT !.olt = o, !.pc = "connect"]
  <2>1. job' = [job EXCEPT ![r] = g]
    BY <1>1, <1>4 DEF j
  <2>2. /\ g.kind = "suspend" /\ g.onu = j.onu /\ g.driver = None /\ g.olt = o /\ g.todo = j.todo
        /\ g.pc = "connect"
    BY <1>2 DEF Job
  <2> HIDE DEF g
  <2>3. Unbroken'
    BY <1>0, <2>1, <2>2, UnbrokenMove
  <2> QED
    BY <1>0, <1>2, <2>1, <2>2, <2>3, SeekMoves DEF Steps
<1> QED
  BY <1>3, <1>4

\* Where nothing fails, a suspension that meets no OLT any more has met that of its ONU, where
\* the ONU is not known.
LEMMA SmoothNotFound ==
    ASSUME OltDeep, SmoothOlt, Smooth, NEW r \in NetRequests, NotFound(r)
    PROVE  Advances(r)
<1> DEFINE g == Answered("notfound")
<1>0. /\ OltInv /\ Unbroken /\ UNCHANGED <<pool, conn, device>> /\ job' = [job EXCEPT ![r] = g]
      /\ ~device[job[r].onu].known
  BY DEF NotFound, OltDeep, SmoothOlt, Seeks, Active, Steps
<1>1. g.pc = "notfound" /\ g.driver = None
  BY DEF Answered, IdleJob
<1> HIDE DEF g
<1>2. Unbroken'
  BY <1>0, <1>1, UnbrokenMove
<1>3. Settled(job[r].onu)
  BY <1>0 DEF Settled
<1> QED
  BY <1>0, <1>1, <1>2, <1>3, SeekMoves DEF Steps

\* Where nothing fails, a connection is opened.
LEMMA SmoothConnect ==
    ASSUME OltDeep, SmoothOlt, Smooth, NEW r \in NetRequests, Connect(r)
    PROVE  Advances(r)
<1> DEFINE d == CHOOSE d \in Drivers : Free(d)
           c == [Unconnected EXCEPT !.olt = job[r].olt, !.alive = TRUE]
           j == job[r]
           g == WithDriver(j, d, j.olt)
<1>0. /\ j \in Job /\ j.onu \in Onus /\ j.driver = None /\ OltInv /\ j.olt \in Olts
      /\ j.kind = "suspend" /\ j.kind \in Searching /\ j.kind \in Kinds /\ Active(r)
      /\ j.pc = "connect" /\ Unbroken /\ device' = device /\ ~Drops
      /\ pool \in [Olts -> Drivers \cup {None}] /\ conn \in [Drivers -> Driver]
      /\ device[j.onu].known => Home[j.onu] \in j.todo \/ j.olt = Home[j.onu]
  BY DEF Connect, OltDeep, OltInv, OltTypeOK, JobHolds, Holds, Active, Steps, SmoothOlt, Seeks, Smooth,
         Drops, May, Kinds, Searching
<1>1. /\ conn' = [conn EXCEPT ![d] = c] /\ pool' = [pool EXCEPT ![j.olt] = d]
      /\ job' = [job EXCEPT ![r] = g]
  BY <1>0 DEF Connect
<1>2. d \in Drivers
  BY <1>0, DriverIsFree DEF OltInv
<1>3. c.alive /\ c.staged = {}
  BY DEF Unconnected
<1> HIDE DEF d, c
<1>4. /\ g.kind = "suspend" /\ g.onu = j.onu /\ g.driver = d /\ g.olt = j.olt /\ g.todo = j.todo
      /\ g.pc = "locate"
  BY <1>0, <1>2, WithDriverForm
<1> HIDE DEF g
<1>5. /\ conn'[d] = c /\ \A e \in Drivers \ {d} : conn'[e] = conn[e]
      /\ job'[r] = g /\ \A q \in NetRequests \ {r} : job'[q] = job[q]
      /\ pool'[j.olt] = d /\ \A o \in Olts \ {j.olt} : pool'[o] = pool[o]
  BY <1>0, <1>1, <1>2 DEF OltInv, OltTypeOK
<1>6. Unbroken'
  <2>1. \A f \in Drivers : conn[f].alive => conn'[f].alive
    BY <1>3, <1>5
  <2>2. \A f \in Drivers : "register" \notin conn'[f].staged
    BY <1>0, <1>3, <1>5 DEF Unbroken
  <2>3. \A o \in Olts : pool[o] \in Drivers \cup {None}
    BY <1>0
  <2>4. \A q \in NetRequests : job[q].driver \in Drivers \cup {None}
    BY <1>0 DEF OltInv, OltTypeOK, Job
  <2>5. \A o \in Olts : pool'[o] # None => conn'[pool'[o]].alive
    BY <1>0, <1>3, <1>5, <2>1, <2>3 DEF Unbroken
  <2>6. \A q \in NetRequests : job'[q].driver # None => conn'[job'[q].driver].alive
    BY <1>0, <1>3, <1>4, <1>5, <2>1, <2>4 DEF Unbroken
  <2> QED
    BY <2>2, <2>5, <2>6 DEF Unbroken
<1> QED
  BY <1>0, <1>1, <1>4, <1>6, SeekMoves DEF Steps

\* Where nothing fails, every step of the service advances the suspension it is about.
LEMMA SmoothServe ==
    ASSUME OltDeep, SmoothOlt, Smooth, NEW r \in NetRequests, Serve(r)
    PROVE  Advances(r)
BY SmoothSearch, SmoothNotFound, SmoothConnect, SmoothLocate, SmoothCommand DEF Serve

AccessTypeOK ==
    /\ status \in [Customers -> {"active", "suspended"}]
    /\ audited \in [Customers -> {"active", "suspended"}]
    /\ call \in [AdminCalls -> Call]

\* What a call relies on in each of its steps.
AdminHolds(a) ==
    /\ call[a].pc \notin Ended =>
          call[a].customer \in Customers /\ call[a].kind \in {"suspend", "resume", "reboot"}
    /\ call[a].pc = "post" /\ call[a].kind = "suspend" => OnuOf[call[a].customer] # None
    /\ call[a].pc = "waiting" => call[a].kind = "suspend" /\ OnuOf[call[a].customer] # None

\* Where calls for one customer come one after the other, and every insert succeeds.
InStep == allowed \cap {"writes", "crash", "concurrent"} = {}
AuditFollows ==
    /\ \A a, b \in AdminCalls :
          call[a].pc \notin Ended /\ call[b].pc \notin Ended
            /\ call[a].customer = call[b].customer => a = b
    /\ \A a \in AdminCalls :
          call[a].pc = "audit" => status[call[a].customer] = NewStatus(call[a].kind)
    /\ \A c \in Customers :
          audited[c] # status[c] =>
             \E a \in AdminCalls : call[a].pc = "audit" /\ call[a].customer = c

\* A suspended customer's ONU needs no throttling any more, or a call is about to see to it.
Pending(a, c) ==
    /\ call[a].customer = c /\ call[a].kind = "suspend"
    /\ call[a].pc \in {"audit", "mapping", "post", "waiting"}
Throttling ==
    /\ \A c \in Customers :
          status[c] = "suspended" /\ OnuOf[c] # None =>
             Settled(OnuOf[c]) \/ \E a \in AdminCalls : Pending(a, c)
    /\ \A a \in AdminCalls :
          call[a].pc = "waiting" =>
             Settled(OnuOf[call[a].customer])
               \/ (Active(a) /\ job[a].onu = OnuOf[call[a].customer])
SmoothHolds == Smooth => SmoothOlt /\ Throttling

SubInv ==
    /\ OltDeep /\ AccessTypeOK /\ (\A a \in AdminCalls : AdminHolds(a))
    /\ (InStep => AuditFollows) /\ SmoothHolds

\* The invariant of subscriber administration holds at the start.
LEMMA SubInitHolds == SubscriberInit => SubInv
<1> SUFFICES ASSUME SubscriberInit PROVE SubInv
  OBVIOUS
<1>1. OltDeep
  BY OltInitHolds, PlacesInit DEF SubscriberInit, OltDeep
<1>2. AccessTypeOK /\ (\A a \in AdminCalls : AdminHolds(a)) /\ AuditFollows
  <2>1. IdleCall \in Call /\ IdleCall.pc = "idle"
    BY DEF IdleCall, Call
  <2>2. AccessTypeOK
    BY <2>1 DEF SubscriberInit, AccessInit, AccessTypeOK
  <2>3. \A a \in AdminCalls : call[a].pc = "idle"
    BY <2>1 DEF SubscriberInit, AccessInit
  <2>4. \A c \in Customers : audited[c] = status[c]
    BY DEF SubscriberInit, AccessInit
  <2>5. \A a \in AdminCalls : AdminHolds(a)
    BY <2>3 DEF AdminHolds, Ended
  <2>6. \A a \in AdminCalls : call[a].pc \in Ended /\ call[a].pc # "audit"
    BY <2>3 DEF Ended
  <2>7. AuditFollows
    BY <2>4, <2>6 DEF AuditFollows
  <2> QED
    BY <2>2, <2>5, <2>7
<1>3. SmoothOlt /\ Throttling
  BY DEF SubscriberInit, OltInit, AccessInit, SmoothOlt, Unbroken, Seeks, Throttling, IdleCall, IdleJob,
         Unconnected, Active, Steps
<1> QED
  BY <1>1, <1>2, <1>3 DEF SubInv, SmoothHolds

\* It implies what the run checks of subscribers.
LEMMA SubSafe == SubInv => SubscriberTypeOK /\ SuspendedIsThrottled /\ AuditIsCurrent
<1> SUFFICES ASSUME SubInv PROVE SubscriberTypeOK /\ SuspendedIsThrottled /\ AuditIsCurrent
  OBVIOUS
<1>1. SubscriberTypeOK
  BY DEF SubInv, AccessTypeOK, SubscriberTypeOK, OltDeep, OltInv
<1>2. SuspendedIsThrottled
  <2> SUFFICES ASSUME Smooth, NEW c \in Customers, status[c] = "suspended", Quiet(c), OnuOf[c] # None,
                      device[OnuOf[c]].known, Vendor[Home[OnuOf[c]]] # "huawei"
               PROVE  device[OnuOf[c]].down = "slow" /\ device[OnuOf[c]].up = "slow"
    BY DEF SuspendedIsThrottled
  <2>1. \A a \in AdminCalls : ~Pending(a, c)
    BY DEF Quiet, Pending, Ended
  <2>2. Settled(OnuOf[c])
    BY <2>1 DEF SubInv, SmoothHolds, Throttling
  <2> QED
    BY <2>2 DEF Settled
<1>3. AuditIsCurrent
  BY DEF AuditIsCurrent, SubInv, InStep, AuditFollows, Quiet, Ended
<1> QED
  BY <1>1, <1>2, <1>3

\* A call that moves on where no status and no ONU changes.
LEMMA CallMoves ==
    ASSUME SubInv, UNCHANGED allowed, NEW a \in AdminCalls, NEW k \in Call,
           call' = [call EXCEPT ![a] = k], UNCHANGED <<status, oltVars>>,
           \/ audited' = audited
           \/ /\ call[a].pc = "audit" /\ call[a].customer \in Customers
              /\ audited' = [audited EXCEPT ![call[a].customer] = NewStatus(call[a].kind)],
           audited' \in [Customers -> {"active", "suspended"}],
           k.pc \notin Ended => k.customer \in Customers /\ k.kind \in {"suspend", "resume", "reboot"},
           k.pc = "post" /\ k.kind = "suspend" => OnuOf[k.customer] # None,
           k.pc \notin {"waiting", "audit"},
           InStep /\ k.pc \notin Ended => \A b \in AdminCalls \ {a} :
                                             call[b].pc \notin Ended => call[b].customer # k.customer,
           InStep /\ call[a].pc = "audit" => audited'[call[a].customer] = status[call[a].customer],
           Smooth /\ (\E c \in Customers : Pending(a, c) /\ OnuOf[c] # None) =>
              \/ k.customer = call[a].customer /\ k.kind = "suspend" /\ k.pc \in {"mapping", "post"}
              \/ Settled(OnuOf[call[a].customer]) 
    PROVE  SubInv'
<1>1. call'[a] = k /\ \A b \in AdminCalls \ {a} : call'[b] = call[b]
  BY DEF SubInv, AccessTypeOK
<1>2. (InStep' <=> InStep) /\ (Smooth' <=> Smooth) /\ (ReadsMayFail' <=> ReadsMayFail)
  BY DEF InStep, Smooth, ReadsMayFail, May
<1>3. AccessTypeOK'
  BY DEF SubInv, AccessTypeOK
<1>4. OltDeep'
  <2>1. OltInv' /\ PlacesKept'
    BY DEF SubInv, OltDeep, OltInv, OltTypeOK, JobHolds, Holds, Active, PlacesKept, Lined, Sited, oltVars
  <2>2. DialoguesKept'
    BY DEF SubInv, OltDeep, DialoguesKept, Exclusive, Underway, Entered, InDialogue, Active, Overlapping,
           Timeouts, May, oltVars
  <2> QED
    BY <2>1, <2>2 DEF OltDeep
<1>5. ASSUME NEW b \in AdminCalls PROVE AdminHolds(b)'
  <2>1. CASE b = a
    BY <1>1, <1>2, <2>1 DEF AdminHolds
  <2>2. CASE b # a
    BY <1>1, <1>2, <2>2 DEF AdminHolds, SubInv
  <2> QED
    BY <2>1, <2>2
<1>6. ASSUME InStep PROVE AuditFollows'
  <2>1. AuditFollows
    BY <1>6 DEF SubInv
  <2>2. ASSUME NEW b \in AdminCalls, NEW d \in AdminCalls, call'[b].pc \notin Ended,
               call'[d].pc \notin Ended, call'[b].customer = call'[d].customer
        PROVE  b = d
    <3>1. CASE b # a /\ d # a
      BY <1>1, <2>2, <2>1, <3>1 DEF AuditFollows
    <3>2. CASE b = a /\ d # a
      BY <1>1, <2>2, <1>6, <3>2
    <3>3. CASE b # a /\ d = a
      BY <1>1, <2>2, <1>6, <3>3
    <3> QED
      BY <3>1, <3>2, <3>3
  <2>3. \A b \in AdminCalls :
          call'[b].pc = "audit" => status'[call'[b].customer] = NewStatus(call'[b].kind)
    BY <1>1, <2>1 DEF AuditFollows
  <2>4. ASSUME NEW c \in Customers, audited'[c] # status'[c]
        PROVE  \E b \in AdminCalls : call'[b].pc = "audit" /\ call'[b].customer = c
    <3>1. audited[c] # status[c] /\ (call[a].pc = "audit" => c # call[a].customer)
      BY <1>6, <2>4 DEF SubInv, AccessTypeOK
    <3> QED
      BY <1>1, <2>1, <3>1 DEF AuditFollows
  <2> QED
    BY <2>2, <2>3, <2>4 DEF AuditFollows
<1>7. ASSUME Smooth PROVE SmoothOlt' /\ Throttling'
  <2>1. SmoothOlt /\ Throttling
    BY <1>7 DEF SubInv, SmoothHolds
  <2>2. SmoothOlt' /\ (\A n : Settled(n)' <=> Settled(n)) /\ (\A r : Active(r)' <=> Active(r)) /\ job' = job
    BY <2>1 DEF SmoothOlt, Unbroken, Seeks, Settled, Active, oltVars
  <2>3. ASSUME NEW c \in Customers, status'[c] = "suspended", OnuOf[c] # None
        PROVE  Settled(OnuOf[c])' \/ \E b \in AdminCalls : Pending(b, c)'
    <3>1. CASE \E b \in AdminCalls \ {a} : Pending(b, c)
      BY <1>1, <3>1 DEF Pending
    <3>2. CASE Pending(a, c)
      <4>1. call[a].customer = c
        BY <3>2 DEF Pending
      <4>2. \/ k.customer = c /\ k.kind = "suspend" /\ k.pc \in {"mapping", "post"}
            \/ Settled(OnuOf[c])
        BY <1>7, <2>3, <3>2, <4>1
      <4> QED
        BY <1>1, <2>2, <4>2 DEF Pending
    <3>3. CASE ~\E b \in AdminCalls : Pending(b, c)
      BY <2>1, <2>2, <2>3, <3>3 DEF Throttling
    <3> QED
      BY <3>1, <3>2, <3>3
  <2>4. ASSUME NEW b \in AdminCalls, call'[b].pc = "waiting"
        PROVE  \/ Settled(OnuOf[call[b].customer])' /\ call'[b].customer = call[b].customer
               \/ Active(b)' /\ job'[b].onu = OnuOf[call'[b].customer]
    BY <1>1, <2>1, <2>2, <2>4 DEF Throttling
  <2> QED
    BY <2>1, <2>2, <2>3, <2>4 DEF Throttling
<1> QED
  BY <1>2, <1>3, <1>4, <1>5, <1>6, <1>7 DEF SubInv, SmoothHolds

\* A call that goes on keeps what it is about.
LEMMA GotoForms ==
    ASSUME AccessTypeOK, NEW a \in AdminCalls,
           NEW pc \in {"write", "mapping", "post", "waiting", "done", "refused"}, Goto(a, pc)
    PROVE  \E k \in Call : /\ call' = [call EXCEPT ![a] = k] /\ k.pc = pc
                           /\ pc \notin Ended => k.kind = call[a].kind /\ k.customer = call[a].customer
<1>1. call[a] \in Call
  BY DEF AccessTypeOK
<1>2. CASE pc \in Ended
  <2>1. [IdleCall EXCEPT !.pc = pc] \in Call /\ [IdleCall EXCEPT !.pc = pc].pc = pc
    BY <1>2 DEF IdleCall, Call, Ended
  <2> QED
    BY <1>2, <2>1 DEF Goto
<1>3. CASE pc \notin Ended
  <2> DEFINE k == [call[a] EXCEPT !.pc = pc]
  <2>1. /\ k \in Call /\ k.pc = pc /\ k.kind = call[a].kind /\ k.customer = call[a].customer
    BY <1>1 DEF Call
  <2>2. call' = [call EXCEPT ![a] = k]
    BY <1>3 DEF Goto
  <2> QED
    BY <2>1, <2>2
<1> QED
  BY <1>2, <1>3

\* Where calls for a customer come one after the other, other calls are about other customers.
LEMMA OthersElsewhere ==
    ASSUME SubInv, InStep, NEW a \in AdminCalls, call[a].pc \notin Ended,
           NEW b \in AdminCalls \ {a}, call[b].pc \notin Ended
    PROVE  call[b].customer # call[a].customer
BY DEF SubInv, AuditFollows

\* The count of the overdue invoices keeps the invariant.
LEMMA CheckInvoicesKeeps ==
    ASSUME SubInv, UNCHANGED allowed, NEW a \in AdminCalls, CheckInvoices(a)
    PROVE  SubInv'
<1>0. /\ call[a].pc = "check" /\ UNCHANGED <<status, audited, oltVars>> /\ AdminHolds(a)
      /\ AccessTypeOK /\ audited' \in [Customers -> {"active", "suspended"}] /\ call[a].pc \notin Ended
      /\ Goto(a, "write")
  BY DEF CheckInvoices, SubInv, AccessTypeOK, Ended
<1>1. \A c : ~Pending(a, c)
  BY <1>0 DEF Pending
<1>2. PICK k \in Call : /\ call' = [call EXCEPT ![a] = k] /\ k.pc = "write"
                        /\ k.kind = call[a].kind /\ k.customer = call[a].customer
  BY <1>0, GotoForms DEF Ended
<1>3. k.customer \in Customers /\ k.kind \in {"suspend", "resume", "reboot"}
  BY <1>0, <1>2 DEF AdminHolds
<1>4. InStep => \A b \in AdminCalls \ {a} : call[b].pc \notin Ended => call[b].customer # k.customer
  BY <1>0, <1>2, OthersElsewhere
<1> QED
  BY <1>0, <1>1, <1>2, <1>3, <1>4, CallMoves

\* The insert of the audit row keeps it.
LEMMA WriteAuditKeeps ==
    ASSUME SubInv, UNCHANGED allowed, NEW a \in AdminCalls, WriteAudit(a)
    PROVE  SubInv'
<1>0. /\ call[a].pc = "audit" /\ UNCHANGED <<status, oltVars>> /\ AdminHolds(a)
      /\ AccessTypeOK /\ call[a].customer \in Customers /\ call[a].pc \notin Ended
      /\ call[a].kind \in {"suspend", "resume", "reboot"} /\ Goto(a, "mapping")
  BY DEF WriteAudit, SubInv, AccessTypeOK, Ended, AdminHolds
<1>1. NewStatus(call[a].kind) \in {"active", "suspended"}
  BY DEF NewStatus
<1>2. /\ audited' \in [Customers -> {"active", "suspended"}]
      /\ \/ audited' = audited /\ May("writes")
         \/ audited' = [audited EXCEPT ![call[a].customer] = NewStatus(call[a].kind)]
  BY <1>0, <1>1 DEF WriteAudit, AccessTypeOK
<1>3. PICK k \in Call : /\ call' = [call EXCEPT ![a] = k] /\ k.pc = "mapping"
                        /\ k.kind = call[a].kind /\ k.customer = call[a].customer
  BY <1>0, GotoForms DEF Ended
<1>4. InStep => \A b \in AdminCalls \ {a} : call[b].pc \notin Ended => call[b].customer # k.customer
  BY <1>0, <1>3, OthersElsewhere
<1>5. InStep => audited'[call[a].customer] = status[call[a].customer]
  BY <1>0, <1>2 DEF InStep, May, SubInv, AuditFollows, AccessTypeOK
<1>6. \A c : Pending(a, c) => k.kind = "suspend"
  BY <1>3 DEF Pending
<1> QED
  BY <1>0, <1>2, <1>3, <1>4, <1>5, <1>6, CallMoves

\* The look-up of the customer's ONU keeps it.
LEMMA ReadMappingKeeps ==
    ASSUME SubInv, UNCHANGED allowed, NEW a \in AdminCalls, ReadMapping(a)
    PROVE  SubInv'
<1>0. /\ call[a].pc = "mapping" /\ UNCHANGED <<status, audited, oltVars>> /\ AdminHolds(a)
      /\ AccessTypeOK /\ audited' \in [Customers -> {"active", "suspended"}]
      /\ call[a].customer \in Customers /\ call[a].pc \notin Ended
      /\ call[a].kind \in {"suspend", "resume", "reboot"}
  BY DEF ReadMapping, SubInv, AccessTypeOK, Ended, AdminHolds
<1>1. CASE OnuOf[call[a].customer] # None /\ Goto(a, "post")
  <2>1. PICK k \in Call : /\ call' = [call EXCEPT ![a] = k] /\ k.pc = "post"
                          /\ k.kind = call[a].kind /\ k.customer = call[a].customer
    BY <1>0, <1>1, GotoForms DEF Ended
  <2>2. InStep => \A b \in AdminCalls \ {a} : call[b].pc \notin Ended => call[b].customer # k.customer
    BY <1>0, <2>1, OthersElsewhere
  <2>3. \A c : Pending(a, c) => k.kind = "suspend"
    BY <2>1 DEF Pending
  <2> QED
    BY <1>0, <1>1, <2>1, <2>2, <2>3, CallMoves
<1>2. CASE (OnuOf[call[a].customer] = None \/ ReadsMayFail) /\ Goto(a, "done")
  <2>1. PICK k \in Call : call' = [call EXCEPT ![a] = k] /\ k.pc = "done"
    BY <1>0, <1>2, GotoForms
  <2>2. Smooth => \A c : Pending(a, c) => OnuOf[c] = None
    BY <1>2 DEF Smooth, ReadsMayFail, May, Pending
  <2> QED
    BY <1>0, <2>1, <2>2, CallMoves DEF Ended
<1> QED
  BY <1>1, <1>2 DEF ReadMapping

\* The answer of the network service keeps it.
LEMMA Answered200Keeps ==
    ASSUME SubInv, UNCHANGED allowed, NEW a \in AdminCalls, Answered200(a)
    PROVE  SubInv'
<1>0. /\ call[a].pc = "waiting" /\ UNCHANGED <<status, audited, oltVars>>
      /\ AccessTypeOK /\ audited' \in [Customers -> {"active", "suspended"}]
      /\ Goto(a, "done") /\ job[a].pc \in Answers
  BY DEF Answered200, SubInv, AccessTypeOK
<1>1. PICK k \in Call : call' = [call EXCEPT ![a] = k] /\ k.pc = "done"
  BY <1>0, GotoForms
<1>2. ~Active(a)
  BY <1>0 DEF Active, Answers, Steps
<1>3. Smooth => Settled(OnuOf[call[a].customer])
  BY <1>0, <1>2 DEF SubInv, SmoothHolds, Throttling
<1> QED
  BY <1>0, <1>1, <1>3, CallMoves DEF Ended

\* A new call keeps it.
LEMMA BeginCallKeeps ==
    ASSUME SubInv, UNCHANGED allowed, NEW a \in AdminCalls, NEW kind \in {"suspend", "resume", "reboot"},
           NEW role \in Roles, NEW c \in Customers, BeginCall(a, kind, role, c)
    PROVE  SubInv'
<1>0. /\ call[a].pc = "idle" /\ UNCHANGED <<status, audited, oltVars>> /\ AccessTypeOK
      /\ audited' \in [Customers -> {"active", "suspended"}]
      /\ May("concurrent") \/ Quiet(c)
  BY DEF BeginCall, SubInv, AccessTypeOK
<1>1. \A b : ~Pending(a, b)
  BY <1>0 DEF Pending
<1>2. CASE ~MayRun(kind, role)
  <2> DEFINE k == [IdleCall EXCEPT !.pc = "refused"]
  <2>1. call' = [call EXCEPT ![a] = k]
    BY <1>2 DEF BeginCall
  <2>2. k \in Call /\ k.pc = "refused"
    BY DEF IdleCall, Call
  <2> HIDE DEF k
  <2> QED
    BY <1>0, <1>1, <2>1, <2>2, CallMoves DEF Ended
<1>3. CASE MayRun(kind, role)
  <2> DEFINE pc == CASE kind = "reboot" -> "post"
                     [] kind = "resume" /\ role = "finance" -> "check"
                     [] OTHER -> "write"
             k == [pc |-> pc, kind |-> kind, customer |-> c]
  <2>1. call' = [call EXCEPT ![a] = k]
    BY <1>3 DEF BeginCall
  <2>2. /\ kind = "reboot" => pc = "post"
        /\ kind = "resume" /\ role = "finance" => pc = "check"
        /\ kind # "reboot" /\ ~(kind = "resume" /\ role = "finance") => pc = "write"
    <3>1. ASSUME kind = "reboot" PROVE pc = "post"
      BY <3>1, Zenon
    <3>2. ASSUME kind = "resume", role = "finance" PROVE pc = "check"
      BY <3>2, Zenon
    <3>3. ASSUME kind # "reboot", ~(kind = "resume" /\ role = "finance") PROVE pc = "write"
      BY <3>3, Zenon
    <3> QED
      BY <3>1, <3>2, <3>3
  <2> HIDE DEF pc
  <2>3. k \in Call /\ k.pc = pc /\ k.kind = kind /\ k.customer = c
    BY <2>2 DEF Call
  <2> HIDE DEF k
  <2>4. /\ k.pc = "post" => k.kind = "reboot"
        /\ k.pc \in {"check", "write", "post"}
    BY <2>2, <2>3
  <2>5. InStep => \A b \in AdminCalls \ {a} : call[b].pc \notin Ended => call[b].customer # k.customer
    BY <1>0, <2>3 DEF InStep, May, Quiet
  <2> QED
    BY <1>0, <1>1, <2>1, <2>3, <2>4, <2>5, CallMoves
<1> QED
  BY <1>2, <1>3

\* Nothing at the OLTs changes.
LEMMA OltUnchanged ==
    ASSUME OltDeep, UNCHANGED allowed, UNCHANGED oltVars
    PROVE  /\ OltDeep' /\ (SmoothOlt => SmoothOlt')
           /\ \A n : Settled(n)' <=> Settled(n)
           /\ \A r : Active(r)' <=> Active(r)
<1>1. OltInv' /\ PlacesKept'
  BY DEF OltDeep, OltInv, OltTypeOK, JobHolds, Holds, Active, PlacesKept, Lined, Sited, oltVars
<1>2. DialoguesKept'
  BY DEF OltDeep, DialoguesKept, Exclusive, Underway, Entered, InDialogue, Active, Overlapping,
         Timeouts, May, oltVars
<1>3. SmoothOlt => SmoothOlt'
  BY DEF SmoothOlt, Unbroken, Seeks, Active, oltVars
<1>4. \A n : Settled(n)' <=> Settled(n)
  BY DEF Settled, oltVars
<1>5. \A r : Active(r)' <=> Active(r)
  BY DEF Active, oltVars
<1> QED
  BY <1>1, <1>2, <1>3, <1>4, <1>5 DEF OltDeep

\* The write of the customer's status keeps it: from here a suspension is pending.
LEMMA WriteStatusKeeps ==
    ASSUME SubInv, UNCHANGED allowed, NEW a \in AdminCalls, WriteStatus(a)
    PROVE  SubInv'
<1> DEFINE c == call[a].customer
           k == [call[a] EXCEPT !.pc = "audit"]
           new == NewStatus(call[a].kind)
<1>0. /\ call[a].pc = "write" /\ UNCHANGED <<audited, oltVars>> /\ AccessTypeOK
      /\ status' = [status EXCEPT ![c] = new] /\ call' = [call EXCEPT ![a] = k]
      /\ c \in Customers /\ call[a].kind \in {"suspend", "resume", "reboot"}
      /\ call[a].pc \notin Ended /\ call[a] \in Call
  BY DEF WriteStatus, Goto, SubInv, AccessTypeOK, AdminHolds, Ended
<1>1. /\ k \in Call /\ k.pc = "audit" /\ k.customer = c /\ k.kind = call[a].kind
      /\ new \in {"active", "suspended"} /\ (new = "suspended" <=> k.kind = "suspend")
  BY <1>0 DEF Call, NewStatus
<1>2. /\ call'[a] = k /\ \A b \in AdminCalls \ {a} : call'[b] = call[b]
      /\ status'[c] = new /\ \A d \in Customers \ {c} : status'[d] = status[d]
  BY <1>0 DEF AccessTypeOK
<1>3. new = NewStatus(k.kind)
  BY <1>1
<1> HIDE DEF k, c, new
<1>4. (InStep' <=> InStep) /\ (Smooth' <=> Smooth) /\ (ReadsMayFail' <=> ReadsMayFail)
  BY DEF InStep, Smooth, ReadsMayFail, May
<1>5. AccessTypeOK'
  BY <1>0, <1>1 DEF AccessTypeOK
<1>6. /\ OltDeep' /\ (SmoothOlt => SmoothOlt') /\ job' = job
      /\ \A n : Settled(n)' <=> Settled(n)
      /\ \A r : Active(r)' <=> Active(r)
  BY <1>0, OltUnchanged DEF SubInv, oltVars
<1>7. ASSUME NEW b \in AdminCalls PROVE AdminHolds(b)'
  <2>1. CASE b = a
    BY <1>0, <1>1, <1>2, <2>1 DEF AdminHolds
  <2>2. CASE b # a
    BY <1>0, <1>2, <1>4, <2>2 DEF AdminHolds, SubInv
  <2> QED
    BY <2>1, <2>2
<1>8. ASSUME InStep PROVE AuditFollows'
  <2>1. AuditFollows
    BY <1>8 DEF SubInv
  <2>2. \A b \in AdminCalls \ {a} : call[b].pc \notin Ended => call[b].customer # c
    BY <1>0, <1>8, OthersElsewhere DEF c
  <2>3. ASSUME NEW b \in AdminCalls, NEW d \in AdminCalls, call'[b].pc \notin Ended,
               call'[d].pc \notin Ended, call'[b].customer = call'[d].customer
        PROVE  b = d
    BY <1>1, <1>2, <2>1, <2>2, <2>3 DEF AuditFollows
  <2>4. ASSUME NEW b \in AdminCalls, call'[b].pc = "audit"
        PROVE  status'[call'[b].customer] = NewStatus(call'[b].kind)
    <3>1. CASE b = a
      BY <1>1, <1>2, <1>3, <3>1
    <3>2. CASE b # a
      <4>1. call'[b] = call[b] /\ call[b].pc \notin Ended /\ AdminHolds(b)
        BY <1>2, <2>4, <3>2 DEF Ended, SubInv
      <4>2. call[b].customer \in Customers \ {c}
        BY <2>2, <3>2, <4>1 DEF AdminHolds
      <4> QED
        BY <1>2, <2>1, <2>4, <4>1, <4>2 DEF AuditFollows
    <3> QED
      BY <3>1, <3>2
  <2>5. ASSUME NEW d \in Customers, audited'[d] # status'[d]
        PROVE  \E b \in AdminCalls : call'[b].pc = "audit" /\ call'[b].customer = d
    <3>1. CASE d = c
      BY <1>1, <1>2, <3>1
    <3>2. CASE d # c
      <4>1. PICK b \in AdminCalls : call[b].pc = "audit" /\ call[b].customer = d
        BY <1>0, <1>2, <2>1, <2>5, <3>2 DEF AuditFollows
      <4> QED
        BY <1>0, <1>2, <4>1
    <3> QED
      BY <3>1, <3>2
  <2> QED
    BY <2>3, <2>4, <2>5 DEF AuditFollows
<1>9. ASSUME Smooth PROVE SmoothOlt' /\ Throttling'
  <2>1. SmoothOlt /\ Throttling
    BY <1>9 DEF SubInv, SmoothHolds
  <2>2. ASSUME NEW d \in Customers, status'[d] = "suspended", OnuOf[d] # None
        PROVE  Settled(OnuOf[d])' \/ \E b \in AdminCalls : Pending(b, d)'
    <3>1. CASE d = c
      <4>1. Pending(a, d)'
        BY <1>1, <1>2, <2>2, <3>1 DEF Pending
      <4> QED
        BY <4>1
    <3>2. CASE d # c
      <4>1. status[d] = "suspended"
        BY <1>2, <2>2, <3>2
      <4>2. CASE Settled(OnuOf[d])
        BY <1>6, <4>2
      <4>3. CASE \E b \in AdminCalls : Pending(b, d)
        <5>1. PICK b \in AdminCalls : Pending(b, d)
          BY <4>3
        <5>2. b # a
          BY <1>0, <5>1 DEF Pending
        <5> QED
          BY <1>2, <5>1, <5>2 DEF Pending
      <4> QED
        BY <2>1, <2>2, <4>1, <4>2, <4>3 DEF Throttling
    <3> QED
      BY <3>1, <3>2
  <2>3. ASSUME NEW b \in AdminCalls, call'[b].pc = "waiting"
        PROVE  \/ Settled(OnuOf[call[b].customer])' /\ call'[b].customer = call[b].customer
               \/ Active(b)' /\ job'[b].onu = OnuOf[call'[b].customer]
    <3>1. b # a /\ call'[b] = call[b]
      BY <1>1, <1>2, <2>3
    <3> QED
      BY <1>6, <2>1, <2>3, <3>1 DEF Throttling
  <2> QED
    BY <1>6, <2>1, <2>2, <2>3 DEF Throttling
<1> QED
  BY <1>4, <1>5, <1>6, <1>7, <1>8, <1>9 DEF SubInv, SmoothHolds

\* Calls change, what they are about does not.
LEMMA OnlyCallsChange ==
    ASSUME SubInv, UNCHANGED allowed, UNCHANGED <<status, audited, oltVars>>,
           AccessTypeOK', \A a \in AdminCalls : AdminHolds(a)',
           \A a \in AdminCalls :
              call'[a].pc \notin Ended =>
                 /\ call'[a].pc = call[a].pc /\ call'[a].customer = call[a].customer
                 /\ call'[a].kind = call[a].kind,
           ~May("crash") => \A a \in AdminCalls : call'[a].pc = call[a].pc
    PROVE  SubInv'
<1>1. (InStep' <=> InStep) /\ (Smooth' <=> Smooth)
  BY DEF InStep, Smooth
<1>2. /\ OltDeep' /\ (SmoothOlt => SmoothOlt') /\ job' = job
      /\ \A n : Settled(n)' <=> Settled(n)
      /\ \A r : Active(r)' <=> Active(r)
  BY OltUnchanged DEF SubInv, oltVars
<1>3. ~May("crash") => \A a \in AdminCalls :
              call[a].pc \notin Ended =>
                 /\ call'[a].pc = call[a].pc /\ call'[a].customer = call[a].customer
                 /\ call'[a].kind = call[a].kind
  OBVIOUS
<1>4. ASSUME InStep PROVE AuditFollows'
  <2>1. AuditFollows /\ ~May("crash")
    BY <1>4 DEF SubInv, InStep, May
  <2>2. ASSUME NEW a \in AdminCalls, NEW b \in AdminCalls, call'[a].pc \notin Ended,
               call'[b].pc \notin Ended, call'[a].customer = call'[b].customer
        PROVE  a = b
    BY <2>1, <2>2 DEF AuditFollows
  <2>3. ASSUME NEW a \in AdminCalls, call'[a].pc = "audit"
        PROVE  status'[call'[a].customer] = NewStatus(call'[a].kind)
    <3>1. call'[a].pc \notin Ended
      BY <2>3 DEF Ended
    <3> QED
      BY <2>1, <2>3, <3>1 DEF AuditFollows
  <2>4. ASSUME NEW c \in Customers, audited'[c] # status'[c]
        PROVE  \E a \in AdminCalls : call'[a].pc = "audit" /\ call'[a].customer = c
    <3>1. PICK a \in AdminCalls : call[a].pc = "audit" /\ call[a].customer = c
      BY <2>1, <2>4 DEF AuditFollows
    <3> QED
      BY <1>3, <2>1, <3>1 DEF Ended
  <2> QED
    BY <2>2, <2>3, <2>4 DEF AuditFollows
<1>5. ASSUME Smooth PROVE SmoothOlt' /\ Throttling'
  <2>1. SmoothOlt /\ Throttling /\ ~May("crash")
    BY <1>5 DEF SubInv, SmoothHolds, Smooth, May
  <2>2. ASSUME NEW c \in Customers, status'[c] = "suspended", OnuOf[c] # None
        PROVE  Settled(OnuOf[c])' \/ \E b \in AdminCalls : Pending(b, c)'
    <3>1. CASE \E b \in AdminCalls : Pending(b, c)
      <4>1. PICK b \in AdminCalls : Pending(b, c)
        BY <3>1
      <4>2. Pending(b, c)'
        BY <1>3, <2>1, <4>1 DEF Pending, Ended
      <4> QED
        BY <4>2
    <3>2. CASE Settled(OnuOf[c])
      BY <1>2, <3>2
    <3> QED
      BY <2>1, <2>2, <3>1, <3>2 DEF Throttling
  <2>3. ASSUME NEW a \in AdminCalls, call'[a].pc = "waiting"
        PROVE  \/ Settled(OnuOf[call[a].customer])' /\ call'[a].customer = call[a].customer
               \/ Active(a)' /\ job'[a].onu = OnuOf[call'[a].customer]
    <3>1. call'[a].pc \notin Ended
      BY <2>3 DEF Ended
    <3> QED
      BY <1>2, <2>1, <2>3, <3>1 DEF Throttling
  <2> QED
    BY <1>2, <2>1, <2>2, <2>3 DEF Throttling
<1> QED
  BY <1>1, <1>2, <1>4, <1>5 DEF SubInv, SmoothHolds

\* The death of the backend keeps it.
LEMMA BackendDiesKeeps ==
    ASSUME SubInv, UNCHANGED allowed, BackendDies
    PROVE  SubInv'
<1>0. AccessTypeOK /\ UNCHANGED <<status, audited, oltVars>> /\ May("crash")
  BY DEF SubInv, BackendDies
<1> DEFINE k == [IdleCall EXCEPT !.pc = "died"]
<1>1. k \in Call /\ k.pc = "died"
  BY DEF IdleCall, Call
<1>2. call' = [a \in AdminCalls |-> IF call[a].pc \in Ended THEN call[a] ELSE k]
  BY DEF BackendDies
<1> HIDE DEF k
<1>3. AccessTypeOK'
  BY <1>0, <1>1, <1>2 DEF AccessTypeOK
<1>4. \A a \in AdminCalls : call'[a].pc \in Ended
  BY <1>1, <1>2 DEF Ended
<1>5. \A a \in AdminCalls : AdminHolds(a)'
  BY <1>4 DEF AdminHolds, Ended
<1> QED
  BY <1>0, <1>3, <1>4, <1>5, OnlyCallsChange

\* The network service moves, the backend does not.
LEMMA OnlyOltMoves ==
    ASSUME SubInv, UNCHANGED allowed, UNCHANGED accessVars, OltDeep',
           Smooth => /\ SmoothOlt'
                     /\ \A n \in Onus : Settled(n) => Settled(n)'
                     /\ \A r \in NetRequests : Active(r) =>
                           \/ Active(r)' /\ job'[r].onu = job[r].onu
                           \/ \A n \in Onus : n = job[r].onu => Settled(n)'
    PROVE  SubInv'
<1>1. /\ (InStep' <=> InStep) /\ (Smooth' <=> Smooth) /\ (ReadsMayFail' <=> ReadsMayFail)
      /\ status' = status /\ audited' = audited /\ call' = call
  BY DEF InStep, Smooth, ReadsMayFail, May, accessVars
<1>2. AccessTypeOK' /\ \A a \in AdminCalls : AdminHolds(a)'
  BY <1>1 DEF SubInv, AccessTypeOK, AdminHolds
<1>3. InStep => AuditFollows'
  BY <1>1 DEF SubInv, AuditFollows
<1>4. ASSUME Smooth PROVE SmoothOlt' /\ Throttling'
  <2>1. SmoothOlt /\ Throttling
    BY <1>4 DEF SubInv, SmoothHolds
  <2>2. ASSUME NEW c \in Customers, status'[c] = "suspended", OnuOf[c] # None
        PROVE  Settled(OnuOf[c])' \/ \E b \in AdminCalls : Pending(b, c)'
    <3>1. CASE \E b \in AdminCalls : Pending(b, c)
      BY <1>1, <3>1 DEF Pending
    <3>2. CASE Settled(OnuOf[c])
      BY <1>4, <2>2, <3>2, SubscriberAccessAssumption
    <3> QED
      BY <1>1, <2>1, <2>2, <3>1, <3>2 DEF Throttling
  <2>3. ASSUME NEW a \in AdminCalls, call'[a].pc = "waiting"
        PROVE  \/ Settled(OnuOf[call[a].customer])' /\ call'[a].customer = call[a].customer
               \/ Active(a)' /\ job'[a].onu = OnuOf[call'[a].customer]
    <3> DEFINE n == OnuOf[call[a].customer]
    <3>1. n \in Onus /\ a \in NetRequests
      <4>1. AdminHolds(a) /\ call[a].pc = "waiting" /\ call[a].pc \notin Ended
        BY <1>1, <2>3 DEF SubInv, Ended
      <4> QED
        BY <4>1, SubscriberAccessAssumption DEF AdminHolds
    <3>2. Settled(n) \/ (Active(a) /\ job[a].onu = n)
      BY <1>1, <2>1, <2>3 DEF Throttling
    <3> HIDE DEF n
    <3>3. (\A m \in Onus : m = n => Settled(m)') \/ (Active(a)' /\ job'[a].onu = n)
      BY <1>4, <3>1, <3>2
    <3>4. (\A m \in Onus : m = n => Settled(m)') => Settled(OnuOf[call[a].customer])'
      BY <1>1, <3>1 DEF n, Settled
    <3> QED
      BY <1>1, <3>3, <3>4 DEF n
  <2> QED
    BY <1>1, <1>4, <2>2, <2>3 DEF Throttling
<1> QED
  BY <1>1, <1>2, <1>3, <1>4 DEF SubInv, SmoothHolds

\* The steps of the network service keep it.
LEMMA OthersKeep ==
    ASSUME SubInv, UNCHANGED allowed, UNCHANGED accessVars,
           (\E r \in NetRequests : Serve(r)) \/ (\E d \in Drivers : ConnectionLost(d)) \/ RestartService
    PROVE  SubInv'
<1>0. OltDeep /\ (Smooth => SmoothOlt /\ Throttling)
  BY DEF SubInv, SmoothHolds
<1>1. CASE \E r \in NetRequests : Serve(r)
  <2>1. PICK r \in NetRequests : Serve(r)
    BY <1>1
  <2>2. OltDeep'
    BY <1>0, <2>1, ServeDeep
  <2>3. Smooth => Advances(r)
    BY <1>0, <2>1, SmoothServe
  <2>4. ASSUME Smooth, NEW q \in NetRequests, Active(q)
        PROVE  \/ Active(q)' /\ job'[q].onu = job[q].onu
               \/ \A n \in Onus : n = job[q].onu => Settled(n)'
    BY <2>3, <2>4 DEF Advances, Active
  <2> QED
    BY <2>2, <2>3, <2>4, OnlyOltMoves DEF Advances
<1>2. CASE \E d \in Drivers : ConnectionLost(d)
  <2>1. OltDeep'
    BY <1>0, <1>2, ConnectionLostKeeps, ConnectionLostStands DEF OltDeep
  <2>2. ~Smooth
    BY <1>2, Zenon DEF ConnectionLost, Drops, Smooth, May
  <2> QED
    BY <2>1, <2>2, OnlyOltMoves
<1>3. CASE RestartService
  <2>1. OltDeep'
    BY <1>0, <1>3, RestartKeeps, RestartStands DEF OltDeep
  <2>2. ~Smooth
    BY <1>3 DEF RestartService, Smooth, May
  <2> QED
    BY <2>1, <2>2, OnlyOltMoves
<1> QED
  BY <1>1, <1>2, <1>3

\* Taking on a request keeps all that is known of the network service.
LEMMA AcceptDeep ==
    ASSUME OltDeep, UNCHANGED allowed, NEW r \in NetRequests, NEW k \in Kinds, NEW n \in Onus, Accept(r, k, n)
    PROVE  OltDeep'
BY AcceptKeeps, AcceptStands DEF OltDeep

\* The requests of other clients keep it.
LEMMA OtherClientKeeps ==
    ASSUME SubInv, UNCHANGED allowed, OtherClient
    PROVE  SubInv'
<1>1. PICK r \in NetRequests, k \in ClientKinds, n \in Onus :
         /\ r = CHOOSE q \in NetRequests :
                  job[q].pc = "idle" /\ (q \in AdminCalls => call[q].pc = "idle")
         /\ Accept(r, k, n)
  BY DEF OtherClient
<1>2. k \in Kinds
  BY DEF ClientKinds, Kinds, Searching
<1>3. OltDeep'
  BY <1>1, <1>2, AcceptDeep DEF SubInv
<1>4. ~Smooth /\ UNCHANGED accessVars
  BY DEF OtherClient, Smooth, May
<1> QED
  BY <1>3, <1>4, OnlyOltMoves

\* A suspension that is accepted searches every OLT.
LEMMA AcceptSmooth ==
    ASSUME OltDeep, SmoothOlt, NEW r \in NetRequests, NEW n \in Onus, Accept(r, "suspend", n)
    PROVE  /\ SmoothOlt' /\ Active(r)' /\ job'[r].onu = n
           /\ \A m : Settled(m)' <=> Settled(m)
           /\ \A q \in NetRequests \ {r} : job'[q] = job[q]
<1> DEFINE g == [IdleJob EXCEPT !.pc = "search", !.kind = "suspend", !.onu = n,
                 !.todo = IF "suspend" \in Searching THEN Olts ELSE {Home[n]}]
<1>1. g.pc = "search" /\ g.kind = "suspend" /\ g.onu = n /\ g.driver = None /\ g.todo = Olts
  BY DEF IdleJob, Searching
<1>2. job' = [job EXCEPT ![r] = g] /\ UNCHANGED <<pool, conn, device>>
  BY DEF Accept
<1> HIDE DEF g
<1>3. job'[r] = g /\ \A q \in NetRequests \ {r} : job'[q] = job[q]
  BY <1>2 DEF OltDeep, OltInv, OltTypeOK
<1>4. Unbroken'
  BY <1>1, <1>2, UnbrokenMove DEF OltDeep, SmoothOlt
<1>5. ASSUME NEW q \in NetRequests PROVE Seeks(q)'
  <2>1. CASE q = r
    BY <1>1, <1>3, <2>1, OltAccessAssumption DEF Seeks
  <2>2. CASE q # r
    BY <1>2, <1>3, <2>2 DEF Seeks, Active, SmoothOlt
  <2> QED
    BY <2>1, <2>2
<1>6. \A m : Settled(m)' <=> Settled(m)
  BY <1>2 DEF Settled
<1>7. Active(r)' /\ job'[r].onu = n
  BY <1>1, <1>3 DEF Active, Steps
<1>8. SmoothOlt'
  BY <1>4, <1>5 DEF SmoothOlt
<1> QED
  BY <1>3, <1>6, <1>7, <1>8

\* The request to the network service keeps it.
LEMMA PostKeeps ==
    ASSUME SubInv, UNCHANGED allowed, NEW a \in AdminCalls, Post(a)
    PROVE  SubInv'
<1>0. /\ call[a].pc = "post" /\ UNCHANGED <<status, audited>> /\ AdminHolds(a)
      /\ AccessTypeOK /\ audited' \in [Customers -> {"active", "suspended"}]
      /\ call[a].pc \notin Ended /\ call[a].customer \in Customers
      /\ call[a].kind \in {"suspend", "resume", "reboot"} /\ OltDeep /\ SmoothHolds
  BY DEF Post, SubInv, AccessTypeOK, Ended, AdminHolds
<1>1. CASE /\ ~Understood(call[a].kind) \/ May("unreachable")
           /\ Goto(a, IF call[a].kind = "reboot" THEN "refused" ELSE "done")
           /\ UNCHANGED oltVars
  <2>1. PICK k \in Call : call' = [call EXCEPT ![a] = k] /\ k.pc \in {"refused", "done"}
    <3>1. CASE call[a].kind = "reboot"
      BY <1>0, <1>1, <3>1, GotoForms
    <3>2. CASE call[a].kind # "reboot"
      BY <1>0, <1>1, <3>2, GotoForms
    <3> QED
      BY <3>1, <3>2
  <2>2. Smooth => \A c : ~Pending(a, c)
    BY <1>1 DEF Smooth, May, Pending, Understood
  <2> QED
    BY <1>0, <1>1, <2>1, <2>2, CallMoves DEF Ended
<1>2. CASE /\ Understood(call[a].kind) /\ Accept(a, "suspend", OnuOf[call[a].customer])
           /\ Goto(a, "waiting")
  <2> DEFINE n == OnuOf[call[a].customer]
  <2>0. n \in Onus /\ n # None /\ call[a].kind = "suspend" /\ "suspend" \in Kinds
          /\ Accept(a, "suspend", n) /\ a \in NetRequests
    BY <1>0, <1>2, SubscriberAccessAssumption DEF Understood, AdminHolds, Kinds, Searching
  <2>1. PICK k \in Call : /\ call' = [call EXCEPT ![a] = k] /\ k.pc = "waiting"
                          /\ k.kind = call[a].kind /\ k.customer = call[a].customer
    BY <1>0, <1>2, GotoForms DEF Ended
  <2>2. call'[a] = k /\ \A b \in AdminCalls \ {a} : call'[b] = call[b]
    BY <1>0, <2>1 DEF AccessTypeOK
  <2>3. OltDeep'
    BY <1>0, <2>0, AcceptDeep
  <2>4. (InStep' <=> InStep) /\ (Smooth' <=> Smooth) /\ (ReadsMayFail' <=> ReadsMayFail)
    BY DEF InStep, Smooth, ReadsMayFail, May
  <2>5. AccessTypeOK'
    BY <1>0, <2>1 DEF AccessTypeOK
  <2>6. ASSUME NEW b \in AdminCalls PROVE AdminHolds(b)'
    <3>1. CASE b = a
      BY <1>0, <2>0, <2>1, <2>2, <3>1 DEF AdminHolds
    <3>2. CASE b # a
      BY <1>0, <2>2, <2>4, <3>2 DEF AdminHolds, SubInv
    <3> QED
      BY <3>1, <3>2
  <2>7. ASSUME InStep PROVE AuditFollows'
    <3>1. AuditFollows
      BY <2>7 DEF SubInv
    <3>2. \A b \in AdminCalls : call'[b].pc \notin Ended =>
             call[b].pc \notin Ended /\ call'[b].customer = call[b].customer
      BY <1>0, <2>1, <2>2
    <3>3. \A b \in AdminCalls : call'[b].pc = "audit" <=> b # a /\ call[b].pc = "audit"
      BY <1>0, <2>1, <2>2
    <3>4. ASSUME NEW b \in AdminCalls, NEW d \in AdminCalls, call'[b].pc \notin Ended,
                 call'[d].pc \notin Ended, call'[b].customer = call'[d].customer
          PROVE  b = d
      BY <3>1, <3>2, <3>4 DEF AuditFollows
    <3>5. \A b \in AdminCalls :
             call'[b].pc = "audit" => status'[call'[b].customer] = NewStatus(call'[b].kind)
      BY <1>0, <2>2, <3>1, <3>3 DEF AuditFollows
    <3>6. \A c \in Customers : audited'[c] # status'[c] =>
             \E b \in AdminCalls : call'[b].pc = "audit" /\ call'[b].customer = c
      BY <1>0, <2>2, <3>1, <3>3 DEF AuditFollows
    <3> QED
      BY <3>4, <3>5, <3>6 DEF AuditFollows
  <2>8. ASSUME Smooth PROVE SmoothOlt' /\ Throttling'
    <3>1. SmoothOlt /\ Throttling
      BY <1>0, <2>8 DEF SmoothHolds
    <3>2. /\ SmoothOlt' /\ Active(a)' /\ job'[a].onu = n
          /\ \A m : Settled(m)' <=> Settled(m)
          /\ \A q \in NetRequests \ {a} : job'[q] = job[q]
      BY <1>0, <2>0, <3>1, AcceptSmooth
    <3>3. ASSUME NEW c \in Customers, status'[c] = "suspended", OnuOf[c] # None
          PROVE  Settled(OnuOf[c])' \/ \E b \in AdminCalls : Pending(b, c)'
      <4>1. CASE \E b \in AdminCalls : Pending(b, c)
        <5>1. PICK b \in AdminCalls : Pending(b, c)
          BY <4>1
        <5>2. Pending(b, c)'
          BY <2>0, <2>1, <2>2, <5>1 DEF Pending
        <5> QED
          BY <5>2
      <4>2. CASE Settled(OnuOf[c])
        BY <3>2, <4>2
      <4> QED
        BY <1>0, <3>1, <3>3, <4>1, <4>2 DEF Throttling
    <3>4. ASSUME NEW b \in AdminCalls, call'[b].pc = "waiting"
          PROVE  \/ Settled(OnuOf[call[b].customer])' /\ call'[b].customer = call[b].customer
                 \/ Active(b)' /\ job'[b].onu = OnuOf[call'[b].customer]
      <4>1. CASE b = a
        BY <2>1, <2>2, <3>2, <4>1
      <4>2. CASE b # a
        <5>1. call'[b] = call[b] /\ job'[b] = job[b]
          BY <2>2, <3>2, <4>2, SubscriberAccessAssumption
        <5>2. Active(b)' <=> Active(b)
          BY <5>1 DEF Active
        <5> QED
          BY <3>1, <3>2, <3>4, <5>1, <5>2 DEF Throttling
      <4> QED
        BY <4>1, <4>2
    <3> QED
      BY <3>2, <3>3, <3>4 DEF Throttling
  <2> QED
    BY <2>3, <2>4, <2>5, <2>6, <2>7, <2>8 DEF SubInv, SmoothHolds
<1> QED
  BY <1>1, <1>2 DEF Post

\* Every step of subscriber administration keeps its invariant.
LEMMA SubStep ==
    ASSUME SubInv, UNCHANGED allowed, SubscriberNext
    PROVE  SubInv'
<1>1. ASSUME NEW a \in AdminCalls, CallStep(a) PROVE SubInv'
  BY <1>1, CheckInvoicesKeeps, WriteStatusKeeps, WriteAuditKeeps, ReadMappingKeeps, PostKeeps,
     Answered200Keeps DEF CallStep
<1> QED
  BY <1>1, BeginCallKeeps, BackendDiesKeeps, OtherClientKeeps, OthersKeep
  DEF SubscriberNext

\* The steps that the action properties are about.
LEMMA SubStepIsSound ==
    ASSUME SubInv, SubscriberNext
    PROVE  /\ ~Overlapping => \A r \in NetRequests :
                 Active(r) /\ job'[r].pc = "done" => Achieved(r, device')
           /\ ~Overlapping /\ ~Timeouts => \A n \in Onus :
                 device'[n] # device[n] => \E r \in NetRequests : Active(r) /\ job[r].onu = n
<1>1. CASE \E r \in NetRequests : Serve(r)
  BY <1>1, ServeIsTrue DEF SubInv
<1>2. CASE UNCHANGED oltVars
  BY <1>2 DEF Active, Steps, oltVars
<1>3. CASE \E r \in NetRequests, k \in Kinds \cup {"suspend"}, n \in Onus \cup {None} : Accept(r, k, n)
  <2>1. PICK r \in NetRequests, k \in Kinds \cup {"suspend"}, n \in Onus \cup {None} : Accept(r, k, n)
    BY <1>3
  <2>2. device' = device /\ ~Active(r) /\ \A q \in NetRequests \ {r} : job'[q] = job[q]
    BY <2>1 DEF Accept, Active, Steps, SubInv, OltDeep, OltInv, OltTypeOK
  <2> QED
    BY <2>2 DEF Active, Steps
<1>4. CASE \E d \in Drivers : ConnectionLost(d)
  BY <1>4 DEF ConnectionLost, Active, Steps
<1>5. CASE RestartService
  <2>1. device' = device /\ \A r \in NetRequests : Active(r) => job'[r].pc = "lost"
    BY <1>5 DEF RestartService, Answered, IdleJob
  <2> QED
    BY <2>1
<1>6. ASSUME NEW a \in AdminCalls, CallStep(a)
      PROVE  \/ UNCHANGED oltVars
             \/ \E r \in NetRequests, k \in Kinds \cup {"suspend"}, n \in Onus \cup {None} : Accept(r, k, n)
  <2>1. CASE Post(a) /\ ~UNCHANGED oltVars
    <3>1. Accept(a, "suspend", OnuOf[call[a].customer]) /\ call[a].kind = "suspend" /\ call[a].pc = "post"
      BY <2>1 DEF Post, Understood
    <3>2. a \in NetRequests /\ OnuOf[call[a].customer] \in Onus \cup {None}
      BY <3>1, SubscriberAccessAssumption DEF SubInv, AdminHolds, Ended
    <3> QED
      BY <3>1, <3>2
  <2>2. CASE ~Post(a)
    BY <1>6, <2>2 DEF CallStep, CheckInvoices, WriteStatus, WriteAudit, ReadMapping, Answered200
  <2> QED
    BY <2>1, <2>2
<1>7. ASSUME OtherClient
      PROVE  \E r \in NetRequests, k \in Kinds \cup {"suspend"}, n \in Onus \cup {None} : Accept(r, k, n)
  BY <1>7 DEF OtherClient, ClientKinds, Kinds, Searching
<1> QED
  BY <1>1, <1>2, <1>3, <1>4, <1>5, <1>6, <1>7
  DEF SubscriberNext, BeginCall, BackendDies

-----------------------------------------------------------------------------
(* Tickets and messages.                                                                *)

\* A request for a message: its row is there from the insert on, what a gateway is said to have
\* sent it took, and a request that has ended left no row pending.
NoticeHolds ==
    \A n \in Notices :
       /\ notice[n].pc \in {"idle", "template", "contact", "insert"} => log[n] = "none"
       /\ notice[n].pc \in {"deliver", "update"} => log[n] # "none"
       /\ Channel = "gateway" /\ notice[n].pc = "update" /\ notice[n].outcome = "sent" => n \in accepted

\* A call for the ticket: what it read still holds while it is alone.
CallHolds ==
    /\ \A c \in CareCalls :
          /\ care[c].pc \in {"insert", "update"} =>
                care[c].kind \in CareKinds /\ ticket.status # "none"
          /\ care[c].pc = "update" => care[c].kind \in {"status", "reply", "message"}
          /\ care[c].pc = "done" => care[c].kind # "message"
    /\ ~May("overlap") =>
         /\ \A c, d \in CareCalls : care[c].pc \in {"insert", "update"} /\ care[d].pc \in {"insert", "update"} => c = d
         /\ \A c \in CareCalls :
               /\ care[c].pc = "insert" /\ care[c].kind = "message" =>
                     care[c].seen = ticket.status /\ care[c].seen # "closed"
               /\ care[c].pc = "update" /\ care[c].kind = "message" => last = "customer"

CareInv == CareTypeOK /\ SentWasAccepted /\ NoticesAreSettled /\ NoticeHolds /\ CallHolds

\* The invariant of tickets and messages holds at the start.
LEMMA CareInitHolds == CareInit => CareInv
<1> SUFFICES ASSUME CareInit PROVE CareInv
  OBVIOUS
<1>1. CareTypeOK
  <2>1. [pc |-> "idle", kind |-> None, seen |-> "none"] \in CareCall
        /\ [pc |-> "idle", outcome |-> "failed"] \in Notice
    BY DEF CareCall, CareKinds, TicketStatus, Notice
  <2> QED
    BY <2>1 DEF CareInit, CareTypeOK, TicketStatus, LogStatus
<1>2. SentWasAccepted /\ NoticesAreSettled /\ NoticeHolds
  BY DEF CareInit, SentWasAccepted, NoticesAreSettled, NoticeHolds
<1>3. CallHolds
  BY DEF CareInit, CallHolds
<1> QED
  BY <1>1, <1>2, <1>3 DEF CareInv

\* The steps of tickets keep it, and a message whose call is done is not left waiting.
LEMMA TicketsKeep ==
    ASSUME CareInv, UNCHANGED noticeVars, UNCHANGED allowed,
           CreateTicket \/ (\E c \in CareCalls, kind \in CareKinds : BeginCare(c, kind))
             \/ (\E c \in CareCalls : TicketStep(c))
    PROVE  /\ CareInv'
           /\ ~May("overlap") /\ ~CareWritesFail =>
                 \A c \in CareCalls :
                    care[c].kind = "message" /\ care'[c].pc = "done" =>
                       last' = "customer" /\ ticket'.status \notin {"waiting_customer", "closed"}
<1>0. /\ (SentWasAccepted /\ NoticesAreSettled /\ NoticeHolds)'
      /\ log' = log /\ accepted' = accepted /\ notice' = notice /\ reminders' = reminders
        /\ allowed' = allowed
  BY DEF CareInv, SentWasAccepted, NoticesAreSettled, NoticeHolds, noticeVars, CareWritesFail, NoticeReadsFail, May
<1>t. /\ ticket \in [status : TicketStatus, closed : BOOLEAN]
      /\ last \in {None, "customer", "agent"} /\ care \in [CareCalls -> CareCall] /\ CallHolds
  BY DEF CareInv, CareTypeOK
<1>1. CASE CreateTicket
  <2>1. ticket' \in [status : TicketStatus, closed : BOOLEAN] /\ last' \in {None, "customer", "agent"}
          /\ care' = care
    BY <1>1 DEF CreateTicket, TicketStatus
  <2>2. CallHolds'
    BY <1>0, <1>1, <1>t, <2>1 DEF CreateTicket, CallHolds, May, CareKinds
  <2> QED
    BY <1>0, <1>1, <1>t, <2>1, <2>2 DEF CreateTicket, CareInv, CareTypeOK, CallHolds
<1>2. CASE \E c \in CareCalls, kind \in CareKinds : BeginCare(c, kind)
  <2>1. PICK c \in CareCalls, kind \in CareKinds : BeginCare(c, kind)
    BY <1>2
  <2> DEFINE g == [pc |-> IF kind = "message" /\ ticket.status = "closed" THEN "refused"
                 ELSE IF kind = "status" THEN "update" ELSE "insert",
          kind |-> kind, seen |-> IF kind = "message" THEN ticket.status ELSE "none"]
  <2>2. g \in CareCall
    BY <1>t DEF CareCall, TicketStatus
  <2>3. care' = [care EXCEPT ![c] = g] /\ ticket' = ticket /\ last' = last
    BY <2>1 DEF BeginCare
  <2>4. CallHolds'
    BY <1>0, <1>t, <2>1, <2>3 DEF BeginCare, CallHolds, May, CareKinds, CareCall
  <2> QED
    BY <1>0, <1>t, <2>2, <2>3, <2>4 DEF CareInv, CareTypeOK, CallHolds
<1>3. CASE \E c \in CareCalls : TicketStep(c)
  <2>1. PICK c \in CareCalls : TicketStep(c)
    BY <1>3
  <2> DEFINE done == [pc |-> "done", kind |-> None, seen |-> "none"]
  <2>2. done \in CareCall /\ [care[c] EXCEPT !.pc = "update"] \in CareCall
    BY <1>t DEF CareCall, TicketStatus
  <2>3. CASE InsertMessage(c)
    <3>1. \/ Moves(care[c].kind, care[c].seen) /\ care' = [care EXCEPT ![c] = [care[c] EXCEPT !.pc = "update"]]
          \/ ~Moves(care[c].kind, care[c].seen) /\ care' = [care EXCEPT ![c] = done]
      BY <2>3 DEF InsertMessage, CareGoto
    <3>2. /\ care[c].kind = "message" => last' = "customer"
          /\ care[c].kind = "reply" => last' = "agent"
          /\ care[c].kind \notin {"message", "reply"} => last' = last
          /\ ticket' = ticket /\ care[c].pc = "insert"
      BY <2>3, Z3 DEF InsertMessage
    <3>3. CallHolds'
      BY <1>0, <1>t, <3>1, <3>2, CustomerCareAssumption DEF CallHolds, May, CareKinds, CareCall, Moves
    <3> QED
      BY <1>0, <1>t, <2>2, <3>1, <3>2, <3>3 DEF CareInv, CareTypeOK, CallHolds, Moves, CareCall
  <2>4. CASE UpdateAfterMessage(c)
    <3>1. care' = [care EXCEPT ![c] = done] /\ last' = last /\ care[c].pc = "update" /\ care[c].kind # "status"
      BY <2>4 DEF UpdateAfterMessage, CareGoto
    <3>2. ticket' \in [status : TicketStatus, closed : BOOLEAN]
            /\ (ticket.status # "none" => ticket'.status # "none")
      BY <1>t, <2>4 DEF UpdateAfterMessage, TicketStatus
    <3>3. CallHolds'
      BY <1>0, <1>t, <3>1, <3>2, CustomerCareAssumption DEF CallHolds, May, CareKinds, CareCall
    <3> QED
      BY <1>0, <1>t, <2>2, <2>4, <3>1, <3>2, <3>3 DEF CareInv, CareTypeOK, CallHolds, UpdateAfterMessage
  <2>5. CASE UpdateTicketStatus(c)
    <3>1. care' = [care EXCEPT ![c] = done] /\ last' = last /\ care[c].pc = "update" /\ care[c].kind = "status"
      BY <2>5 DEF UpdateTicketStatus, CareGoto
    <3>2. ticket' \in [status : TicketStatus, closed : BOOLEAN] /\ ticket'.status # "none"
      BY <1>t, <2>5 DEF UpdateTicketStatus
    <3>3. CallHolds'
      BY <1>0, <1>t, <3>1, <3>2, CustomerCareAssumption DEF CallHolds, May, CareKinds, CareCall
    <3> QED
      BY <1>0, <1>t, <2>2, <2>5, <3>1, <3>2, <3>3 DEF CareInv, CareTypeOK, CallHolds, UpdateTicketStatus
  <2> QED
    BY <2>1, <2>3, <2>4, <2>5 DEF TicketStep
<1> QED
  BY <1>1, <1>2, <1>3

\* The steps of the requests for messages keep it: one of them moves, and what it did so far
\* says where its row and the gateway stand.
LEMMA NoticesKeep ==
    ASSUME CareInv, UNCHANGED ticketVars, UNCHANGED allowed,
           \/ \E n \in Notices : BeginNotice(n) \/ NoticeStep(n)
           \/ SendOverdueReminders \/ CareDies
    PROVE  CareInv'
<1>0. /\ CallHolds' /\ ticket' = ticket /\ last' = last /\ care' = care
      /\ (CareWritesFail' <=> CareWritesFail) /\ (NoticeReadsFail' <=> NoticeReadsFail)
  BY DEF CareInv, CallHolds, ticketVars, CareWritesFail, NoticeReadsFail, May
<1>t. /\ log \in [Notices -> LogStatus] /\ accepted \subseteq Notices
      /\ notice \in [Notices -> Notice] /\ reminders \in BOOLEAN
      /\ SentWasAccepted /\ NoticesAreSettled /\ NoticeHolds
      /\ ticket \in [status : TicketStatus, closed : BOOLEAN]
      /\ last \in {None, "customer", "agent"} /\ care \in [CareCalls -> CareCall]
  BY DEF CareInv, CareTypeOK
<1>1. SUFFICES /\ log' \in [Notices -> LogStatus] /\ accepted' \subseteq Notices
               /\ notice' \in [Notices -> Notice] /\ reminders' \in BOOLEAN
               /\ (SentWasAccepted /\ NoticesAreSettled /\ NoticeHolds)'
  BY <1>0, <1>t DEF CareInv, CareTypeOK
<1>2. CASE SendOverdueReminders
  BY <1>0, <1>2, <1>t DEF SendOverdueReminders, SentWasAccepted, NoticesAreSettled, NoticeHolds
<1>3. CASE CareDies
  <2>1. /\ \A n \in Notices : /\ notice'[n].pc = notice[n].pc \/ notice'[n].pc = "died"
                             /\ notice'[n].outcome = notice[n].outcome /\ notice'[n] \in Notice
        /\ notice' \in [Notices -> Notice]
        /\ log' = log /\ accepted' = accepted /\ reminders' = reminders
    BY <1>3, <1>t DEF CareDies, Notice
  <2> QED
    BY <1>0, <1>t, <2>1 DEF SentWasAccepted, NoticesAreSettled, NoticeHolds
<1>4. ASSUME NEW n \in Notices, BeginNotice(n) \/ NoticeStep(n)
      PROVE  /\ log' \in [Notices -> LogStatus] /\ accepted' \subseteq Notices
             /\ notice' \in [Notices -> Notice] /\ reminders' \in BOOLEAN
             /\ (SentWasAccepted /\ NoticesAreSettled /\ NoticeHolds)'
  <2>1. /\ \A m \in Notices \ {n} : notice'[m] = notice[m] /\ log'[m] = log[m]
                                        /\ (m \in accepted' <=> m \in accepted)
        /\ notice' \in [Notices -> Notice] /\ log' \in [Notices -> LogStatus]
        /\ accepted' \subseteq Notices /\ reminders' = reminders
    <3>1. ASSUME NEW pc \in {"template", "contact", "insert", "deliver", "done"}, NoticeGoto(n, pc)
          PROVE  /\ \A m \in Notices \ {n} : notice'[m] = notice[m]
                 /\ notice' \in [Notices -> Notice]
      BY <1>t, <3>1 DEF NoticeGoto, Notice
    <3>2. CASE BeginNotice(n) \/ FindTemplate(n) \/ FindContact(n)
      BY <1>t, <3>1, <3>2 DEF BeginNotice, FindTemplate, FindContact
    <3>3. CASE InsertLog(n)
      BY <1>t, <3>1, <3>3 DEF InsertLog, LogStatus
    <3>4. CASE Deliver(n)
      <4>1. ASSUME NEW o \in {"sent", "failed"}, Delivered(n, o)
            PROVE  /\ \A m \in Notices \ {n} : notice'[m] = notice[m]
                   /\ notice' \in [Notices -> Notice]
        BY <1>t, <4>1 DEF Delivered, Notice
      <4> QED
        BY <1>t, <3>4, <4>1 DEF Deliver
    <3>5. CASE UpdateLog(n)
      <4>1. notice[n].outcome \in LogStatus
        BY <1>t DEF Notice, LogStatus
      <4> QED
        BY <1>t, <3>1, <3>5, <4>1 DEF UpdateLog
    <3> QED
      BY <1>4, <3>2, <3>3, <3>4, <3>5 DEF NoticeStep
  <2>2. /\ notice'[n].pc \in {"idle", "template", "contact", "insert"} => log'[n] = "none"
        /\ notice'[n].pc \in {"deliver", "update"} => log'[n] # "none"
        /\ Channel = "gateway" /\ notice'[n].pc = "update" /\ notice'[n].outcome = "sent" =>
              n \in accepted'
        /\ Channel = "gateway" => /\ log'[n] = "sent" => n \in accepted'
                                  /\ n \in accepted' => log'[n] # "none"
        /\ notice'[n].pc = "done" /\ ~CareWritesFail =>
              /\ log'[n] # "pending"
              /\ n \in Reachable /\ ~NoticeReadsFail => log'[n] # "none"
    <3>1. CASE BeginNotice(n) \/ FindTemplate(n) \/ FindContact(n)
      BY <1>t, <3>1 DEF BeginNotice, FindTemplate, FindContact, NoticeGoto, Notice, NoticeHolds,
                        SentWasAccepted, NoticesAreSettled
    <3>2. CASE InsertLog(n)
      BY <1>t, <3>2 DEF InsertLog, NoticeGoto, Notice, NoticeHolds, SentWasAccepted, NoticesAreSettled
    <3>3. CASE Deliver(n)
      BY <1>t, <3>3 DEF Deliver, Delivered, Notice, NoticeHolds, SentWasAccepted, NoticesAreSettled
    <3>4. CASE UpdateLog(n)
      BY <1>t, <3>4 DEF UpdateLog, NoticeGoto, Notice, NoticeHolds, SentWasAccepted, NoticesAreSettled
    <3> QED
      BY <1>4, <3>1, <3>2, <3>3, <3>4 DEF NoticeStep
  <2> QED
    BY <1>0, <1>t, <2>1, <2>2 DEF SentWasAccepted, NoticesAreSettled, NoticeHolds
<1> QED
  BY <1>2, <1>3, <1>4

-----------------------------------------------------------------------------
(* Exports of audit data: the runs and their files.                                     *)

\* The files a run may still record.
Ahead(e) ==
    IF maker[e].pc \in {"idle", "log", "start", "fetch"} THEN Parts
    ELSE IF maker[e].pc \in {"upload", "record"}
         THEN IF maker[e].part = "zip" THEN Parts ELSE {"single"}
         ELSE {}

\* A row is there before anything else of a run is.
RowFirst ==
    /\ \A e \in Exports : run[e].status = "none" <=> maker[e].pc = "idle"
    /\ \A c \in Cancels : cancel[c] # None => run[cancel[c]].status # "none"
    /\ \A e \in Exports : run[e].status # "none" => run[e].began <= now

\* A clean-up removes what was recorded, of one run, and nothing that a call is about to record.
CleanupIsOld ==
    /\ \A f \in cleanup.paths : f[1] = cleanup.run
    /\ \A e \in Exports : \A p \in Ahead(e) : <<e, p>> \notin files \cup cleanup.paths
    /\ ~May("cleanup") => cleanup.pc = "idle"
    /\ cleanup.pc = "idle" => cleanup.run = None /\ cleanup.paths = {}

\* An object is there before its row is.
ObjectFirst ==
    /\ FilesAreStored
    /\ allowed \cap {"crash", "writes"} = {} \/ ~May("cleanup") =>
          \A e \in Exports : maker[e].pc = "record" => <<e, maker[e].part>> \in bucket

\* Files come before the completion.
FilesFirst ==
    /\ CompletedIsStored
    /\ ~May("cleanup") => \A e \in Exports :
          /\ maker[e].pc \in {"upload", "record"} /\ maker[e].part = "single" =>
                <<e, "zip">> \in files /\ run[e].format # "all"
          /\ maker[e].pc = "complete" /\ maker[e].data # {} =>
                <<e, "zip">> \in files /\ (run[e].format # "all" => <<e, "single">> \in files)

\* What a call has fetched of a range that had ended is all there will ever be.
FetchedIsAll ==
    /\ ExportIsComplete
    /\ \A e \in Exports :
          maker[e].pc \in {"upload", "record", "complete"} /\ run[e].to < run[e].began
            /\ run[e].source = "created" =>
               maker[e].data = LoggedRecords(run[e].from, run[e].to)

RunsInv == RunsTypeOK /\ RowFirst /\ CleanupIsOld /\ ObjectFirst /\ FilesFirst /\ FetchedIsAll

\* The invariant of the runs of exports holds at the start.
LEMMA RunsInit == ExportInit => RunsInv
BY AuditExportAssumption
DEF ExportInit, RunsInv, RunsTypeOK, RowFirst, CleanupIsOld, ObjectFirst, FilesFirst, FetchedIsAll,
    NoRun, IdleMaker, AuditExportRun, Maker, ExportRunStatus, Sources, ExportFormats, Hours, Parts,
    FilesAreStored, CompletedIsStored, ExportIsComplete, May

\* A bundle shows nothing but what was fetched, and all of it unless it is a PDF.
LEMMA BundleIsData ==
    ASSUME NEW format, NEW data
    PROVE  /\ GenerateExportBundle(format, data) \subseteq data
           /\ format # "pdf" => GenerateExportBundle(format, data) = data
BY DEF GenerateExportBundle, GeneratePdf, GenerateCsv

\* MakerAt moves one call and keeps its data.
LEMMA MakerMoves ==
    ASSUME RunsTypeOK, NEW e \in Exports,
           NEW pc \in {"log", "start", "died", "fetch", "record", "fail", "done"}, MakerAt(e, pc)
    PROVE  /\ maker' \in [Exports -> Maker]
           /\ maker'[e].pc = pc
           /\ maker'[e].data = maker[e].data /\ maker'[e].part = maker[e].part
           /\ \A f \in Exports \ {e} : maker'[f] = maker[f]
BY DEF RunsTypeOK, MakerAt, Maker

\* SetStatus changes the status of one run and nothing else of it.
LEMMA StatusMoves ==
    ASSUME RunsTypeOK, NEW e \in Exports, NEW new \in ExportRunStatus, SetStatus(e, new)
    PROVE  /\ run' \in [Exports -> AuditExportRun]
           /\ run'[e].status = new
           /\ run'[e].source = run[e].source /\ run'[e].format = run[e].format
           /\ run'[e].from = run[e].from /\ run'[e].to = run[e].to
           /\ run'[e].bundle = run[e].bundle /\ run'[e].began = run[e].began
           /\ \A f \in Exports \ {e} : run'[f] = run[f]
BY DEF RunsTypeOK, SetStatus, AuditExportRun

\* Every step of an export, a cancellation or a clean-up keeps the invariant of runs.
LEMMA RunsStep ==
    ASSUME RunsInv, allowed' = allowed, RunsNext
    PROVE  RunsInv'
<1> USE DEF RunsInv, May, MakerAt, SetStatus, RunsTypeOK, Hours, Parts
<1>1. ASSUME NEW e \in Exports, NEW source \in Sources, NEW format \in ExportFormats,
             NEW from \in Int, NEW to \in Int, CreateRun(e, source, format, from, to)
      PROVE  RunsInv'
  <2>1. RunsTypeOK'
    <3>1. maker' \in [Exports -> Maker]
      BY <1>1, MakerMoves, Zenon DEF CreateRun
    <3>2. [status |-> "PENDING", source |-> source, format |-> format, from |-> from, to |-> to,
           bundle |-> {}, began |-> now] \in AuditExportRun
      BY <1>1 DEF AuditExportRun, ExportRunStatus
    <3>3. run' \in [Exports -> AuditExportRun]
      BY <1>1, <3>2, Zenon DEF CreateRun
    <3> QED
      BY <1>1, <3>1, <3>3, Zenon DEF CreateRun
  <2>2. RowFirst'
    BY <1>1 DEF CreateRun, RowFirst, Maker, AuditExportRun
  <2>3. CleanupIsOld'
    BY <1>1 DEF CreateRun, CleanupIsOld, Ahead, Maker, RowFirst
  <2>4. ObjectFirst'
    BY <1>1 DEF CreateRun, ObjectFirst, FilesAreStored, Maker
  <2>5. FilesFirst'
    BY <1>1 DEF CreateRun, FilesFirst, CompletedIsStored, Maker, AuditExportRun
  <2>6. FetchedIsAll'
    BY <1>1 DEF CreateRun, FetchedIsAll, ExportIsComplete, LoggedRecords, Maker, AuditExportRun
  <2> QED
    BY <2>1, <2>2, <2>3, <2>4, <2>5, <2>6
<1>2. ASSUME NEW e \in Exports, CreateExportRun(e)
      PROVE  RunsInv'
  BY <1>1, <1>2, AuditExportAssumption DEF CreateExportRun
<1>3. ASSUME NEW e \in Exports, NEW f \in Exports, RetryExportRun(e, f)
      PROVE  RunsInv'
  <2>1. run[f].source \in Sources /\ run[f].format \in ExportFormats /\ run[f].from \in Int
        /\ run[f].to \in Int
    BY DEF AuditExportRun
  <2> QED
    BY <1>1, <1>3, <2>1 DEF RetryExportRun
<1>4. ASSUME NEW e \in Exports, LogCreation(e) \/ MarkProcessing(e)
      PROVE  RunsInv'
  <2>0. /\ run' \in [Exports -> AuditExportRun]
        /\ run'[e].status \in {run[e].status, "PROCESSING"}
        /\ run'[e].source = run[e].source /\ run'[e].format = run[e].format
        /\ run'[e].from = run[e].from /\ run'[e].to = run[e].to
        /\ run'[e].bundle = run[e].bundle /\ run'[e].began = run[e].began
        /\ \A f \in Exports \ {e} : run'[f] = run[f]
        /\ maker[e].pc \notin {"idle", "complete"}
        /\ maker' \in [Exports -> Maker] /\ maker'[e].pc \in {"start", "died", "fetch", "fail"}
        /\ maker'[e].data = maker[e].data /\ maker'[e].part = maker[e].part
        /\ \A f \in Exports \ {e} : maker'[f] = maker[f]
        /\ UNCHANGED <<now, records, files, bucket, cancel, cleanup>>
        /\ maker[e].pc \in {"log", "start"}
    <3>1. CASE LogCreation(e)
      BY <3>1, MakerMoves DEF LogCreation
    <3>2. CASE MarkProcessing(e)
      BY <3>2, MakerMoves, StatusMoves DEF MarkProcessing, ExportRunStatus
    <3> QED
      BY <1>4, <3>1, <3>2
  <2>2. RowFirst'
    BY <2>0 DEF RowFirst
  <2>3. CleanupIsOld'
    BY <2>0 DEF CleanupIsOld, Ahead
  <2>4. ObjectFirst'
    BY <2>0 DEF ObjectFirst, FilesAreStored
  <2>5. FilesFirst'
    BY <2>0 DEF FilesFirst, CompletedIsStored
  <2>6. FetchedIsAll'
    BY <2>0 DEF FetchedIsAll, ExportIsComplete, LoggedRecords
  <2> QED
    BY <2>0, <2>2, <2>3, <2>4, <2>5, <2>6
<1>5. ASSUME NEW e \in Exports, FetchExportData(e)
      PROVE  RunsInv'
  <2>0. SourceRecords(run[e].source, run[e].from, run[e].to) \subseteq records
    BY DEF SourceRecords, IpdrRecords, LoggedRecords
  <2>1. RunsTypeOK'
    BY <1>5, <2>0 DEF FetchExportData, Maker
  <2>2. RowFirst'
    <3>1. maker'[e].pc # "idle" /\ maker[e].pc # "idle"
            /\ \A f \in Exports \ {e} : maker'[f] = maker[f]
      <4>1. CASE MakerAt(e, "fail")
        BY <1>5, <4>1, MakerMoves DEF FetchExportData
      <4>2. CASE ~MakerAt(e, "fail")
        BY <1>5, <4>2 DEF FetchExportData
      <4> QED
        BY <4>1, <4>2
    <3> QED
      BY <1>5, <3>1 DEF FetchExportData, RowFirst
  <2>3. CleanupIsOld'
    BY <1>5 DEF FetchExportData, CleanupIsOld, Ahead, Maker
  <2>4. ObjectFirst'
    BY <1>5 DEF FetchExportData, ObjectFirst, FilesAreStored, Maker
  <2>5. FilesFirst'
    BY <1>5 DEF FetchExportData, FilesFirst, CompletedIsStored, Maker
  <2>6. FetchedIsAll'
    BY <1>5 DEF FetchExportData, FetchedIsAll, ExportIsComplete, LoggedRecords, SourceRecords, Maker
  <2> QED
    BY <2>1, <2>2, <2>3, <2>4, <2>5, <2>6
<1>6. ASSUME NEW e \in Exports, Upload(e)
      PROVE  RunsInv'
  <2>1. RunsTypeOK'
    <3>1. maker' \in [Exports -> Maker]
      BY <1>6, MakerMoves, Zenon DEF Upload
    <3>2. <<e, maker[e].part>> \in Exports \X Parts
      BY <1>6 DEF Maker
    <3>3. bucket' \subseteq Exports \X Parts
      BY <1>6, <3>2, Zenon DEF Upload
    <3> QED
      BY <1>6, <3>1, <3>3, Zenon DEF Upload
  <2>2. RowFirst'
    BY <1>6 DEF Upload, RowFirst, Maker
  <2>3. CleanupIsOld'
    BY <1>6 DEF Upload, CleanupIsOld, Ahead, Maker
  <2>4. ObjectFirst'
    BY <1>6 DEF Upload, ObjectFirst, FilesAreStored, Maker
  <2>5. FilesFirst'
    BY <1>6 DEF Upload, FilesFirst, CompletedIsStored, Maker
  <2>6. FetchedIsAll'
    BY <1>6 DEF Upload, FetchedIsAll, ExportIsComplete, LoggedRecords, Maker
  <2> QED
    BY <2>1, <2>2, <2>3, <2>4, <2>5, <2>6
<1>7. ASSUME NEW e \in Exports, RecordFile(e)
      PROVE  RunsInv'
  <2>0. maker[e].part \in Parts /\ maker[e].pc = "record" /\ AfterPart(e) \in {"upload", "complete"}
    BY <1>7 DEF RecordFile, Maker, AfterPart
  <2>1. RunsTypeOK'
    BY <1>7, <2>0 DEF RecordFile, Maker
  <2>2. RowFirst'
    BY <1>7, <2>0 DEF RecordFile, RowFirst, Maker
  <2>3. CleanupIsOld'
    BY <1>7, <2>0 DEF RecordFile, CleanupIsOld, Ahead, Maker, AfterPart
  <2>4. ObjectFirst'
    BY <1>7, <2>0 DEF RecordFile, ObjectFirst, FilesAreStored, Maker
  <2>5. FilesFirst'
    BY <1>7, <2>0 DEF RecordFile, FilesFirst, CompletedIsStored, Maker, AfterPart
  <2>6. FetchedIsAll'
    BY <1>7, <2>0 DEF RecordFile, FetchedIsAll, ExportIsComplete, LoggedRecords, Maker
  <2> QED
    BY <2>1, <2>2, <2>3, <2>4, <2>5, <2>6
<1>8. ASSUME NEW e \in Exports, Complete(e)
      PROVE  RunsInv'
  <2>1. CASE MakerAt(e, "fail") /\ UNCHANGED <<now, records, run, files, bucket, cancel, cleanup>>
    <3>1. /\ maker[e].pc = "complete"
          /\ maker' \in [Exports -> Maker] /\ \A f \in Exports \ {e} : maker'[f] = maker[f]
          /\ maker'[e].pc = "fail"
      BY <1>8, <2>1, MakerMoves DEF Complete
    <3> QED
      BY <2>1, <3>1 DEF RowFirst, CleanupIsOld, Ahead, ObjectFirst, FilesAreStored, FilesFirst,
        CompletedIsStored, FetchedIsAll, ExportIsComplete, LoggedRecords
  <2>2. CASE run' # run
    <3> DEFINE bundle == GenerateExportBundle(run[e].format, maker[e].data)
    <3>0. /\ bundle \subseteq maker[e].data /\ (run[e].format # "pdf" => bundle = maker[e].data)
      BY BundleIsData
    <3>1. /\ run' = [run EXCEPT ![e].status = "COMPLETED", ![e].bundle = bundle]
          /\ maker[e].pc = "complete" /\ MakerAt(e, "done")
          /\ UNCHANGED <<now, records, files, bucket, cancel, cleanup>>
      BY <1>8, <2>2 DEF Complete
    <3> HIDE DEF bundle
    <3>2. bundle \in SUBSET Hours
      BY <3>0 DEF Maker
    <3>3. /\ run' \in [Exports -> AuditExportRun]
          /\ run'[e].status = "COMPLETED" /\ run'[e].bundle = bundle
          /\ run'[e].source = run[e].source /\ run'[e].format = run[e].format
          /\ run'[e].from = run[e].from /\ run'[e].to = run[e].to
          /\ run'[e].began = run[e].began
          /\ \A f \in Exports \ {e} : run'[f] = run[f]
      BY <3>1, <3>2 DEF AuditExportRun, ExportRunStatus
    <3>4. /\ maker' \in [Exports -> Maker] /\ maker'[e].pc = "done"
          /\ \A f \in Exports \ {e} : maker'[f] = maker[f]
      BY <3>1, MakerMoves
    <3>5. RunsTypeOK'
      BY <3>1, <3>3, <3>4
    <3>6. RowFirst'
      BY <3>1, <3>3, <3>4 DEF RowFirst
    <3>7. CleanupIsOld'
      BY <3>1, <3>3, <3>4 DEF CleanupIsOld, Ahead
    <3>8. ObjectFirst'
      BY <3>1, <3>3, <3>4 DEF ObjectFirst, FilesAreStored
    <3>9. FilesFirst'
      BY <3>0, <3>1, <3>3, <3>4 DEF FilesFirst, CompletedIsStored
    <3>10. FetchedIsAll'
      BY <3>0, <3>1, <3>3, <3>4 DEF FetchedIsAll, ExportIsComplete, LoggedRecords
    <3> QED
      BY <3>5, <3>6, <3>7, <3>8, <3>9, <3>10
  <2>3. CASE run' = run /\ MakerAt(e, "done")
    <3>1. /\ maker[e].pc = "complete"
          /\ maker' \in [Exports -> Maker] /\ maker'[e].pc = "done"
          /\ \A f \in Exports \ {e} : maker'[f] = maker[f]
          /\ UNCHANGED <<now, records, files, bucket, cancel, cleanup>>
      BY <1>8, <2>3, MakerMoves DEF Complete
    <3> QED
      BY <2>3, <3>1 DEF RowFirst, CleanupIsOld, Ahead, ObjectFirst, FilesAreStored, FilesFirst,
        CompletedIsStored, FetchedIsAll, ExportIsComplete, LoggedRecords
  <2> QED
    BY <1>8, <2>1, <2>2, <2>3 DEF Complete
<1>9. ASSUME NEW e \in Exports, MarkFailed(e)
      PROVE  RunsInv'
  <2>0. /\ run' \in [Exports -> AuditExportRun]
        /\ run'[e].status \in {run[e].status, "FAILED"}
        /\ run'[e].source = run[e].source /\ run'[e].format = run[e].format
        /\ run'[e].from = run[e].from /\ run'[e].to = run[e].to
        /\ run'[e].bundle = run[e].bundle /\ run'[e].began = run[e].began
        /\ \A f \in Exports \ {e} : run'[f] = run[f]
        /\ maker[e].pc \notin {"idle", "complete"}
        /\ maker' \in [Exports -> Maker] /\ maker'[e].pc \in {"done"}
        /\ maker'[e].data = maker[e].data /\ maker'[e].part = maker[e].part
        /\ \A f \in Exports \ {e} : maker'[f] = maker[f]
        /\ UNCHANGED <<now, records, files, bucket, cancel, cleanup>>
    BY <1>9, MakerMoves, StatusMoves DEF MarkFailed, ExportRunStatus
  <2>2. RowFirst'
    BY <2>0 DEF RowFirst
  <2>3. CleanupIsOld'
    BY <2>0 DEF CleanupIsOld, Ahead
  <2>4. ObjectFirst'
    BY <2>0 DEF ObjectFirst, FilesAreStored
  <2>5. FilesFirst'
    BY <2>0 DEF FilesFirst, CompletedIsStored
  <2>6. FetchedIsAll'
    BY <2>0 DEF FetchedIsAll, ExportIsComplete, LoggedRecords
  <2> QED
    BY <2>0, <2>2, <2>3, <2>4, <2>5, <2>6
<1>10. ASSUME NEW c \in Cancels, NEW e \in Exports, CancelRead(c, e)
       PROVE  RunsInv'
  BY <1>10 DEF CancelRead, RowFirst, CleanupIsOld, Ahead, ObjectFirst, FilesAreStored, FilesFirst,
    CompletedIsStored, FetchedIsAll, ExportIsComplete, LoggedRecords
<1>11. ASSUME NEW c \in Cancels, CancelWrite(c)
       PROVE  RunsInv'
  <2> DEFINE e == cancel[c]
  <2>0. /\ e \in Exports /\ run[e].status # "none"
        /\ run' \in [Exports -> AuditExportRun]
        /\ run'[e].status = "CANCELLED"
        /\ run'[e].source = run[e].source /\ run'[e].format = run[e].format
        /\ run'[e].from = run[e].from /\ run'[e].to = run[e].to
        /\ run'[e].bundle = run[e].bundle /\ run'[e].began = run[e].began
        /\ \A f \in Exports \ {e} : run'[f] = run[f]
        /\ cancel' \in [Cancels -> Exports \cup {None}]
        /\ \A d \in Cancels : cancel'[d] \in {cancel[d], None}
        /\ UNCHANGED <<now, records, maker, files, bucket, cleanup>>
    <3>1. e \in Exports /\ run[e].status # "none"
      BY <1>11 DEF CancelWrite, RowFirst
    <3>2. cancel' \in [Cancels -> Exports \cup {None}] /\ \A d \in Cancels : cancel'[d] \in {cancel[d], None}
      BY <1>11 DEF CancelWrite
    <3>3. "CANCELLED" \in ExportRunStatus
      BY DEF ExportRunStatus
    <3>4. SetStatus(e, "CANCELLED") /\ UNCHANGED <<now, records, maker, files, bucket, cleanup>>
      BY <1>11 DEF CancelWrite
    <3> HIDE DEF e
    <3> QED
      BY <3>1, <3>2, <3>3, <3>4, StatusMoves
  <2> HIDE DEF e
  <2>2. RowFirst'
    BY <2>0 DEF RowFirst
  <2>3. CleanupIsOld'
    BY <2>0 DEF CleanupIsOld, Ahead
  <2>4. ObjectFirst'
    BY <2>0 DEF ObjectFirst, FilesAreStored
  <2>5. FilesFirst'
    BY <2>0 DEF FilesFirst, CompletedIsStored
  <2>6. FetchedIsAll'
    BY <2>0 DEF FetchedIsAll, ExportIsComplete, LoggedRecords
  <2> QED
    BY <2>0, <2>2, <2>3, <2>4, <2>5, <2>6
<1>12. ASSUME NEW e \in Exports, ListFiles(e)
       PROVE  RunsInv'
  <2>1. RunsTypeOK'
    BY <1>12 DEF ListFiles, Of
  <2>2. CleanupIsOld'
    BY <1>12 DEF ListFiles, CleanupIsOld, Ahead, Of
  <2>3. ObjectFirst'
    <3>1. cleanup.run = None /\ cleanup.pc = "idle"
      BY <1>12 DEF ListFiles, CleanupIsOld
    <3>2. \A f \in files : f[1] \in Exports
      OBVIOUS
    <3> QED
      BY <1>12, <3>1, <3>2, AuditExportAssumption DEF ListFiles, ObjectFirst, FilesAreStored
  <2> QED
    BY <1>12, <2>1, <2>2, <2>3 DEF ListFiles, RowFirst, FilesFirst,
    CompletedIsStored, FetchedIsAll, ExportIsComplete, LoggedRecords
<1>13. CASE RemoveObjects
  <2>1. RunsTypeOK'
    BY <1>13 DEF RemoveObjects
  <2>2. CleanupIsOld'
    BY <1>13 DEF RemoveObjects, CleanupIsOld, Ahead
  <2>3. ObjectFirst'
    BY <1>13 DEF RemoveObjects, ObjectFirst, FilesAreStored, CleanupIsOld, Ahead, Maker
  <2> QED
    BY <1>13, <2>1, <2>2, <2>3 DEF RemoveObjects, RowFirst, FilesFirst,
    CompletedIsStored, FetchedIsAll, ExportIsComplete, LoggedRecords
<1>14. CASE MarkDeleted
  <2>1. RunsTypeOK'
    BY <1>14 DEF MarkDeleted, Of
  <2>2. CleanupIsOld'
    BY <1>14 DEF MarkDeleted, CleanupIsOld, Ahead, Of
  <2>3. ObjectFirst'
    BY <1>14 DEF MarkDeleted, ObjectFirst, FilesAreStored, CleanupIsOld, Of
  <2>4. FilesFirst'
    BY <1>14 DEF MarkDeleted, FilesFirst, CompletedIsStored, CleanupIsOld
  <2> QED
    BY <1>14, <2>1, <2>2, <2>3, <2>4 DEF MarkDeleted, RowFirst,
    FetchedIsAll, ExportIsComplete, LoggedRecords
<1>15. CASE HourPasses
  <2>1. RunsTypeOK'
    BY <1>15, AuditExportAssumption DEF HourPasses
  <2>2. RowFirst'
    BY <1>15 DEF HourPasses, RowFirst, AuditExportRun
  <2>3. ASSUME NEW e \in Exports, run[e].status # "none", run[e].to < run[e].began
        PROVE  LoggedRecords(run[e].from, run[e].to)' = LoggedRecords(run[e].from, run[e].to)
    <3>1. run[e].to < now
      BY <2>3 DEF RowFirst, AuditExportRun
    <3>2. ~(now <= run[e].to)
      BY <3>1 DEF AuditExportRun
    <3> QED
      BY <1>15, <3>2 DEF HourPasses, LoggedRecords
  <2>4. FetchedIsAll'
    BY <1>15, <2>3 DEF HourPasses, FetchedIsAll, ExportIsComplete, RowFirst
  <2> QED
    BY <1>15, <2>1, <2>2, <2>4 DEF HourPasses, CleanupIsOld, Ahead, ObjectFirst, FilesAreStored,
      FilesFirst, CompletedIsStored
<1>16. CASE ExporterDies
  <2>0. \A e \in Exports : \/ maker'[e] = maker[e]
                           \/ maker'[e] = [maker[e] EXCEPT !.pc = "died"] /\ maker[e].pc # "idle"
    BY <1>16 DEF ExporterDies
  <2>1. RunsTypeOK'
    <3>1. maker' \in [Exports -> Maker]
      <4>1. ASSUME NEW e \in Exports PROVE maker'[e] \in Maker
        BY <2>0, <4>1 DEF Maker
      <4>2. DOMAIN maker' = Exports /\ maker' = [e \in Exports |-> maker'[e]]
        BY <1>16, Zenon DEF ExporterDies
      <4> QED
        BY <4>1, <4>2, Zenon
    <3> QED
      BY <1>16, <3>1 DEF ExporterDies
  <2>2. \A e \in Exports : /\ maker'[e].pc \in {maker[e].pc, "died"}
                           /\ maker[e].pc = "idle" <=> maker'[e].pc = "idle"
                           /\ maker'[e].part = maker[e].part /\ maker'[e].data = maker[e].data
    <3> SUFFICES ASSUME NEW e \in Exports
                 PROVE  /\ maker'[e].pc \in {maker[e].pc, "died"}
                        /\ maker[e].pc = "idle" <=> maker'[e].pc = "idle"
                        /\ maker'[e].part = maker[e].part /\ maker'[e].data = maker[e].data
      OBVIOUS
    <3>1. maker[e] \in Maker
      OBVIOUS
    <3> QED
      BY <2>0, <3>1 DEF Maker
  <2>3. RowFirst'
    BY <1>16, <2>2 DEF ExporterDies, RowFirst
  <2>4. CleanupIsOld'
    BY <1>16, <2>2 DEF ExporterDies, CleanupIsOld, Ahead
  <2>5. ObjectFirst'
    BY <1>16, <2>2, AuditExportAssumption DEF ExporterDies, ObjectFirst, FilesAreStored, CleanupIsOld
  <2>6. FilesFirst'
    BY <1>16, <2>2 DEF ExporterDies, FilesFirst, CompletedIsStored
  <2>7. FetchedIsAll'
    BY <1>16, <2>2 DEF ExporterDies, FetchedIsAll, ExportIsComplete, LoggedRecords
  <2> QED
    BY <2>1, <2>3, <2>4, <2>5, <2>6, <2>7
<1> QED
  BY <1>2, <1>3, <1>4, <1>5, <1>6, <1>7, <1>8, <1>9, <1>10, <1>11, <1>12, <1>13, <1>14, <1>15, <1>16
  DEF RunsNext, ExportStep

-----------------------------------------------------------------------------
(* Exports of audit data: who was handed what.                                          *)

\* Who is about to be handed something over has a row, and nobody has got anything before.
LoggedFirst ==
    \A x \in Accesses :
       /\ access[x].pc = "fetch" =>
             \E i \in DOMAIN chain : chain[i].by = x /\ chain[i].run = access[x].of
       /\ access[x].pc # "done" => access[x].got = "nothing"
       /\ access[x].pc # "idle" => access[x].of \in Exports

\* Where accesses come one after the other and the last row can be read, every row holds the
\* hash of the one before it, whatever their runs.
Linear ==
    May("serial") /\ ~May("reads") =>
       /\ \A x, y \in Accesses : ~AtRest(x) /\ ~AtRest(y) => x = y
       /\ \A x \in Accesses : access[x].pc = "insert" => access[x].prev = LastHash
       /\ \A i \in DOMAIN chain : i > 1 => chain[i].prev = RecordHash(chain[i - 1])

AccessesInv == AccessesTypeOK /\ HandedOverIsLogged /\ LoggedFirst /\ Linear

\* The invariant of accesses holds at the start.
LEMMA AccessesInit == ExportInit => AccessesInv
BY DEF ExportInit, AccessesInv, AccessesTypeOK, HandedOverIsLogged, LoggedFirst, Linear, AtRest,
       Request, May

\* A chain whose every row holds the hash of the one before verifies, for every run whose rows
\* are next to each other.
LEMMA LinearIsValid ==
    ASSUME AccessesInv
    PROVE  NoBreakIsReported
<1> SUFFICES ASSUME May("serial"), ~May("reads"), NEW e \in Exports, Unmixed(e),
                    NEW i \in RowsOf(e), NEW j \in RowsOf(e), i < j,
                    \A k \in RowsOf(e) : k <= i \/ j <= k
             PROVE  chain[j].prev = RecordHash(chain[i])
  BY DEF NoBreakIsReported, ChainValid
<1>1. i \in 1 .. Len(chain) /\ j \in 1 .. Len(chain)
  BY DEF RowsOf, AccessesInv, AccessesTypeOK
<1>2. j - 1 \in 1 .. Len(chain) /\ j - 1 \in DOMAIN chain
  BY <1>1 DEF AccessesInv, AccessesTypeOK
<1>3. j - 1 = i
  <2> SUFFICES ASSUME i < j - 1 PROVE FALSE
    BY <1>1
  <2>1. j - 1 \in RowsOf(e)
    BY <1>1, <1>2 DEF Unmixed
  <2> QED
    BY <1>1, <2>1
<1> QED
  BY <1>1, <1>3 DEF AccessesInv, Linear, AccessesTypeOK

\* The elements of a sequence.
LEMMA ElementType ==
    ASSUME NEW S, NEW s \in Seq(S), NEW i \in DOMAIN s
    PROVE  s[i] \in S
OBVIOUS

\* Every step of an access keeps the invariant of accesses.
LEMMA AccessesStep ==
    ASSUME AccessesInv, allowed' = allowed, AccessesNext
    PROVE  AccessesInv'
<1> USE DEF AccessesInv, AccessesTypeOK, May
<1>1. ASSUME NEW x \in Accesses, NEW kind \in {"create", "download", "url"}, NEW e \in Exports,
             BeginAccess(x, kind, e)
      PROVE  AccessesInv'
  <2>1. /\ access' \in [Accesses -> Request]
        /\ access[x].pc = "idle" /\ access'[x].pc = "last" /\ access'[x].of = e
        /\ access'[x].got = access[x].got
        /\ \A y \in Accesses \ {x} : access'[y] = access[y]
        /\ UNCHANGED <<object, chain>>
    <3>1. access[x] \in Request /\ kind \in {"create", "download", "url"} /\ access[x].pc = "idle"
      BY <1>1 DEF BeginAccess
    <3>2. access' = [access EXCEPT ![x] = [access[x] EXCEPT !.pc = "last", !.kind = kind, !.of = e]]
      BY <1>1 DEF BeginAccess
    <3>3. [access[x] EXCEPT !.pc = "last", !.kind = kind, !.of = e] \in Request
      BY <3>1 DEF Request
    <3> QED
      BY <1>1, <3>1, <3>2, <3>3 DEF BeginAccess, Request
  <2>2. HandedOverIsLogged' /\ LoggedFirst'
    BY <2>1 DEF HandedOverIsLogged, LoggedFirst
  <2>3. Linear'
    BY <1>1, <2>1 DEF BeginAccess, Linear, AtRest, LastHash, RecordHash
  <2> QED
    BY <2>1, <2>2, <2>3
<1>2. ASSUME NEW x \in Accesses, ReadLastAccess(x)
      PROVE  AccessesInv'
  <2>0. LastHash \in Exports \cup {"GENESIS"}
    <3>1. chain = <<>> \/ Len(chain) \in DOMAIN chain
      OBVIOUS
    <3>2. \A i \in DOMAIN chain : chain[i].run \in Exports
      <4> SUFFICES ASSUME NEW i \in DOMAIN chain PROVE chain[i].run \in Exports
        OBVIOUS
      <4>2. chain[i] \in [run : Exports, by : Accesses, prev : Exports \cup {"GENESIS"}]
        BY ElementType
      <4> QED
        BY <4>2
    <3> QED
      BY <3>1, <3>2 DEF LastHash, RecordHash
  <2>1. PICK prev \in {LastHash} \cup (IF May("reads") THEN {"GENESIS"} ELSE {}) :
           access' = [access EXCEPT ![x].pc = "insert", ![x].prev = prev]
    BY <1>2, Zenon DEF ReadLastAccess
  <2>2. /\ access' \in [Accesses -> Request]
        /\ access[x].pc = "last" /\ access'[x].pc = "insert" /\ access'[x].of = access[x].of
        /\ access'[x].got = access[x].got /\ access'[x].prev = prev
        /\ \A y \in Accesses \ {x} : access'[y] = access[y]
        /\ UNCHANGED <<object, chain>>
    <3>1. access[x] \in Request /\ prev \in Exports \cup {"GENESIS"}
      BY <2>0
    <3>2. access' = [access EXCEPT ![x] = [access[x] EXCEPT !.pc = "insert", !.prev = prev]]
      BY <2>1
    <3>3. [access[x] EXCEPT !.pc = "insert", !.prev = prev] \in Request
      BY <3>1 DEF Request
    <3> QED
      BY <1>2, <3>1, <3>2, <3>3 DEF ReadLastAccess, Request
  <2>3. HandedOverIsLogged' /\ LoggedFirst'
    BY <2>2 DEF HandedOverIsLogged, LoggedFirst
  <2>4. Linear'
    BY <2>1, <2>2 DEF Linear, AtRest, LastHash, RecordHash
  <2> QED
    BY <2>2, <2>3, <2>4
<1>3. ASSUME NEW x \in Accesses, InsertAccess(x)
      PROVE  AccessesInv'
  <2> DEFINE row == [run |-> access[x].of, by |-> x, prev |-> access[x].prev]
  <2>0. row \in [run : Exports, by : Accesses, prev : Exports \cup {"GENESIS"}]
    BY <1>3 DEF InsertAccess, LoggedFirst, Request
  <2> HIDE DEF row
  <2>1. /\ access' \in [Accesses -> Request]
        /\ access[x].pc = "insert" /\ access'[x].pc \in {"done", "fetch"}
        /\ access'[x].of = access[x].of
        /\ access'[x].got = access[x].got
        /\ \A y \in Accesses \ {x} : access'[y] = access[y]
        /\ object' = object
        /\ chain' = Append(chain, row) \/ (chain' = chain /\ access'[x].pc = "done")
    <3>1. PICK ends \in BOOLEAN : access' = Logged(x, ends)
      BY <1>3 DEF InsertAccess
    <3>2. access[x] \in Request
      OBVIOUS
    <3>3. access' = [access EXCEPT ![x] = [access[x] EXCEPT
                        !.pc = IF ends THEN "done" ELSE "fetch", !.prev = "GENESIS"]]
      BY <3>1 DEF Logged
    <3>4. [access[x] EXCEPT !.pc = IF ends THEN "done" ELSE "fetch", !.prev = "GENESIS"] \in Request
      BY <3>2 DEF Request
    <3>5. /\ access' \in [Accesses -> Request]
          /\ access'[x].pc \in {"done", "fetch"}
          /\ access'[x].of = access[x].of
          /\ access'[x].got = access[x].got
          /\ \A y \in Accesses \ {x} : access'[y] = access[y]
      BY <3>2, <3>3, <3>4 DEF Request
    <3>6. access[x].pc = "insert" /\ object' = object
      BY <1>3 DEF InsertAccess
    <3>7. chain' = Append(chain, row) \/ (chain' = chain /\ access'[x].pc = "done")
      <4>1. chain' = Append(chain, row) \/ (access' = Logged(x, TRUE) /\ chain' = chain)
        BY <1>3 DEF InsertAccess, row
      <4>2. access' = Logged(x, TRUE) => access'[x].pc = "done"
        BY <3>2 DEF Logged
      <4> QED
        BY <4>1, <4>2
    <3> QED
      BY <3>5, <3>6, <3>7
  <2>2. CASE chain' = Append(chain, row)
    <3>1. /\ chain' \in Seq([run : Exports, by : Accesses, prev : Exports \cup {"GENESIS"}])
          /\ DOMAIN chain' = 1 .. Len(chain) + 1 /\ DOMAIN chain = 1 .. Len(chain)
          /\ Len(chain) \in Nat
          /\ Len(chain') = Len(chain) + 1 /\ chain'[Len(chain) + 1] = row
          /\ \A i \in DOMAIN chain : chain'[i] = chain[i]
      BY <2>0, <2>2
    <3>2. Len(chain) + 1 \in DOMAIN chain' /\ chain'[Len(chain) + 1].by = x
            /\ chain'[Len(chain) + 1].run = access[x].of
      BY <3>1 DEF row
    <3>3. \A i \in DOMAIN chain : i \in DOMAIN chain'
      BY <3>1
    <3>4. HandedOverIsLogged' /\ LoggedFirst'
      <4>1. ASSUME NEW y \in Accesses,
                   \E i \in DOMAIN chain : chain[i].by = y /\ chain[i].run = access[y].of
            PROVE  \E i \in DOMAIN chain' : chain'[i].by = y /\ chain'[i].run = access'[y].of
        BY <2>1, <3>1, <3>3, <4>1
      <4>2. \E i \in DOMAIN chain' : chain'[i].by = x /\ chain'[i].run = access'[x].of
        BY <2>1, <3>2
      <4>3. HandedOverIsLogged'
        BY <2>1, <4>1, <4>2 DEF HandedOverIsLogged, LoggedFirst
      <4>4. LoggedFirst'
        <5>1. access[x].of \in Exports
          BY <2>1 DEF LoggedFirst
        <5>2. ASSUME NEW y \in Accesses, access'[y].pc = "fetch"
              PROVE  \E i \in DOMAIN chain' : chain'[i].by = y /\ chain'[i].run = access'[y].of
          <6>1. CASE y = x
            BY <4>2, <6>1, Zenon
          <6>2. CASE y # x
            <7>1. access[y].pc = "fetch"
              BY <2>1, <5>2, <6>2
            <7> QED
              BY <4>1, <5>2, <7>1, Zenon DEF LoggedFirst
          <6> QED
            BY <6>1, <6>2
        <5>3. ASSUME NEW y \in Accesses
              PROVE  /\ access'[y].pc # "done" => access'[y].got = "nothing"
                     /\ access'[y].pc # "idle" => access'[y].of \in Exports
          <6>1. CASE y = x
            BY <2>1, <5>1, <6>1 DEF LoggedFirst
          <6>2. CASE y # x
            BY <2>1, <6>2 DEF LoggedFirst
          <6> QED
            BY <6>1, <6>2
        <5> QED
          BY <5>2, <5>3, Zenon DEF LoggedFirst
      <4> QED
        BY <4>3, <4>4
    <3>5. ASSUME May("serial"), ~May("reads")
          PROVE  \A i \in DOMAIN chain' : i > 1 => chain'[i].prev = RecordHash(chain'[i - 1])
      <4> SUFFICES ASSUME NEW i \in DOMAIN chain', i > 1
                   PROVE  chain'[i].prev = RecordHash(chain'[i - 1])
        OBVIOUS
      <4>1. CASE i \in DOMAIN chain
        <5>1. i - 1 \in DOMAIN chain
          BY <3>1, <4>1
        <5> QED
          BY <3>1, <3>5, <4>1, <5>1 DEF Linear, RecordHash
      <4>2. CASE i = Len(chain) + 1
        <5>1. chain # <<>> /\ i - 1 = Len(chain) /\ Len(chain) \in DOMAIN chain
          BY <3>1, <4>2
        <5>2. access[x].prev = RecordHash(chain[Len(chain)])
          BY <2>1, <3>5, <5>1 DEF Linear, LastHash
        <5> QED
          BY <3>1, <4>2, <5>1, <5>2 DEF row, RecordHash
      <4> QED
        BY <3>1, <4>1, <4>2
    <3>6. Linear'
      BY <2>1, <3>5 DEF Linear, AtRest
    <3> QED
      BY <2>1, <3>1, <3>4, <3>6
  <2>3. CASE chain' = chain /\ access'[x].pc = "done"
    <3>1. HandedOverIsLogged' /\ LoggedFirst'
      BY <2>1, <2>3 DEF HandedOverIsLogged, LoggedFirst
    <3>2. Linear'
      BY <2>1, <2>3 DEF Linear, AtRest, LastHash, RecordHash
    <3> QED
      BY <2>1, <2>3, <3>1, <3>2
  <2> QED
    BY <2>1, <2>2, <2>3
<1>4. ASSUME NEW x \in Accesses, FetchObject(x)
      PROVE  AccessesInv'
  <2>1. PICK got \in {HandOver(x), "nothing"} :
           access' = [access EXCEPT ![x].pc = "done", ![x].got = got]
    BY <1>4 DEF FetchObject
  <2>2. access[x].pc = "fetch" /\ access[x].of \in Exports
    BY <1>4 DEF FetchObject, LoggedFirst
  <2>3. got \in {"nothing", "plain", "cipher", "altered"}
          /\ (access[x].kind = "download" => got \in {"plain", "nothing"})
    BY <2>1, <2>2 DEF HandOver
  <2>4. /\ access' \in [Accesses -> Request]
        /\ access'[x].pc = "done" /\ access'[x].of = access[x].of
        /\ access'[x].kind = access[x].kind /\ access'[x].got = got
        /\ \A y \in Accesses \ {x} : access'[y] = access[y]
        /\ UNCHANGED <<object, chain>>
    <3>1. access[x] \in Request
      OBVIOUS
    <3>2. access' = [access EXCEPT ![x] = [access[x] EXCEPT !.pc = "done", !.got = got]]
      BY <2>1
    <3>3. [access[x] EXCEPT !.pc = "done", !.got = got] \in Request
      BY <2>3, <3>1 DEF Request
    <3> QED
      BY <1>4, <3>1, <3>2, <3>3 DEF FetchObject, Request
  <2>5. HandedOverIsLogged' /\ LoggedFirst'
    BY <2>2, <2>3, <2>4 DEF HandedOverIsLogged, LoggedFirst
  <2>6. Linear'
    BY <2>2, <2>4 DEF Linear, AtRest, LastHash, RecordHash
  <2> QED
    BY <2>4, <2>5, <2>6
<1>5. ASSUME NEW x \in Accesses, ObjectAltered(x)
      PROVE  AccessesInv'
  BY <1>5 DEF ObjectAltered, HandedOverIsLogged, LoggedFirst, Linear, AtRest, LastHash, RecordHash
<1> QED
  BY <1>1, <1>2, <1>3, <1>4, <1>5 DEF AccessesNext

-----------------------------------------------------------------------------
(* Exports of audit data: schedules and their jobs.                                     *)

\* Where calls come one after the other, what the call under way still has to do to the jobs.
ApplyAlone ==
    May("serial") =>
       /\ \A c, d \in ScheduleCalls : change[c].pc = "apply" /\ change[d].pc = "apply" => c = d
       /\ \A c \in ScheduleCalls : change[c].pc = "apply" =>
             /\ schedule = change[c].rows
             /\ \A s \in Schedules \ change[c].of : registry[s] = Loaded[s]
             /\ \A s \in change[c].of :
                   /\ change[c].kind = "create" => registry[s] = None
                   /\ change[c].kind = "load" => registry[s] = Loaded[s] /\ IsActive(schedule[s])
                   /\ change[c].kind = "deactivate" => ~IsActive(schedule[s])

SchedulesInv == SchedulesTypeOK /\ JobsCanBeStopped /\ ApplyAlone /\ SchedulesAreServed

\* The invariant of schedules holds at the start.
LEMMA SchedulesInit == ExportInit => SchedulesInv
BY AuditExportAssumption
DEF ExportInit, SchedulesInv, SchedulesTypeOK, JobsCanBeStopped, ApplyAlone, SchedulesAreServed,
    NoSchedules, IdleChange, Change, AuditExportSchedule, Frequencies, Loaded, IsActive, May

\* The row that a change of a schedule writes keeps the invariant of schedules, and says what is
\* left to do to the jobs.
LEMMA BeginChangeKeeps ==
    ASSUME SchedulesInv, allowed' = allowed, NEW c \in ScheduleCalls, NEW kind, NEW S \in SUBSET Schedules,
           NEW rows \in [Schedules -> AuditExportSchedule],
           kind \in {"create", "update", "deactivate", "load"},
           BeginChange(c, kind, S, rows),
           \A s \in Schedules \ S : rows[s] = schedule[s],
           kind = "create" => \A s \in S : schedule[s].state = "none",
           kind = "load" => rows = schedule /\ \A s \in S : IsActive(rows[s]),
           kind = "deactivate" => \A s \in S : ~IsActive(rows[s])
    PROVE  SchedulesInv'
<1>1. SchedulesTypeOK'
  BY DEF SchedulesInv, SchedulesTypeOK, BeginChange, Change
<1>2. JobsCanBeStopped'
  BY DEF SchedulesInv, JobsCanBeStopped, BeginChange
<1>3. /\ change'[c].pc = "apply" /\ change'[c].kind = kind /\ change'[c].of = S
      /\ change'[c].rows = rows
      /\ \A d \in ScheduleCalls \ {c} : change'[d] = change[d]
      /\ schedule' = rows /\ registry' = registry
  BY DEF SchedulesInv, SchedulesTypeOK, BeginChange, Change
<1>4. SchedulesAreServed'
  BY <1>3 DEF SchedulesAreServed
<1>5. ASSUME May("serial")
      PROVE  /\ \A d \in ScheduleCalls : change[d].pc # "apply"
             /\ registry = Loaded
  BY <1>5 DEF BeginChange, SchedulesInv, SchedulesAreServed
<1>6. \A s \in Schedules \ S : Loaded'[s] = Loaded[s]
  BY <1>3 DEF Loaded
<1>7. \A s \in Schedules : schedule[s].state = "none" => Loaded[s] = None
  BY DEF Loaded, IsActive
<1>8. ApplyAlone'
  BY <1>3, <1>5, <1>6, <1>7 DEF ApplyAlone, Loaded, IsActive, May
<1> QED
  BY <1>1, <1>2, <1>4, <1>8 DEF SchedulesInv

\* The change of the jobs after it keeps that invariant.
LEMMA ApplyChangeKeeps ==
    ASSUME SchedulesInv, allowed' = allowed, NEW c \in ScheduleCalls, ApplyChange(c)
    PROVE  SchedulesInv'
<1>1. SchedulesTypeOK'
  BY DEF SchedulesInv, SchedulesTypeOK, ApplyChange, Change, IdleChange, NoSchedules, AuditExportSchedule, Frequencies
<1>2. JobsCanBeStopped'
  <2> SUFFICES ASSUME NEW s \in Schedules PROVE registry'[s] # None <=> s \in activeJobs'
    BY DEF JobsCanBeStopped
  <2>1. change[c].rows[s].frequency # None
    BY AuditExportAssumption DEF SchedulesInv, SchedulesTypeOK, Change, AuditExportSchedule, Frequencies
  <2>2. registry[s] # None <=> s \in activeJobs
    BY DEF SchedulesInv, JobsCanBeStopped
  <2> QED
    BY <2>1, <2>2 DEF ApplyChange, Enlisted, Unregistered
<1>3. /\ change'[c].pc = "idle" /\ schedule' = schedule
      /\ \A d \in ScheduleCalls \ {c} : change'[d] = change[d]
      /\ change[c].pc = "apply"
  BY DEF SchedulesInv, SchedulesTypeOK, ApplyChange, IdleChange
<1>4. ASSUME May("serial") PROVE registry' = Loaded'
  <2> SUFFICES ASSUME NEW s \in Schedules PROVE registry'[s] = Loaded[s]
    BY <1>3 DEF ApplyChange, Loaded
  <2>1. registry[s] # None <=> s \in activeJobs
    BY DEF SchedulesInv, JobsCanBeStopped
  <2>2. Loaded[s] = IF IsActive(schedule[s]) THEN schedule[s].frequency ELSE None
    BY DEF Loaded
  <2>3. schedule = change[c].rows
    BY <1>3, <1>4 DEF SchedulesInv, ApplyAlone
  <2>4. CASE s \notin change[c].of
    BY <1>3, <1>4, <2>4 DEF SchedulesInv, ApplyAlone, ApplyChange
  <2>5. CASE s \in change[c].of
    <3>1. CASE change[c].kind \in {"update", "deactivate"}
      <4>1. registry'[s] = IF Enlisted(c, s) THEN schedule[s].frequency ELSE None
        BY <2>1, <2>3, <2>5, <3>1 DEF ApplyChange, Unregistered
      <4> QED
        BY <2>2, <2>3, <2>5, <4>1 DEF Enlisted
    <3>2. CASE change[c].kind = "create"
      <4>1. registry[s] = None
        BY <1>3, <1>4, <2>5, <3>2 DEF SchedulesInv, ApplyAlone
      <4>2. registry'[s] = IF Enlisted(c, s) THEN schedule[s].frequency ELSE None
        BY <4>1, <2>3, <2>5, <3>2 DEF ApplyChange, Unregistered
      <4> QED
        BY <2>2, <2>3, <2>5, <4>2 DEF Enlisted
    <3>3. CASE change[c].kind = "load"
      <4>1. registry[s] = Loaded[s] /\ IsActive(schedule[s])
        BY <1>3, <1>4, <2>5, <3>3 DEF SchedulesInv, ApplyAlone
      <4> QED
        BY <2>2, <2>3, <2>5, <3>3, <4>1 DEF ApplyChange, Unregistered, Enlisted
    <3> QED
      BY <3>1, <3>2, <3>3 DEF SchedulesInv, SchedulesTypeOK, Change
  <2> QED
    BY <2>4, <2>5
<1>5. SchedulesAreServed'
  BY <1>4 DEF SchedulesAreServed, May
<1>6. ApplyAlone'
  BY <1>3 DEF SchedulesInv, ApplyAlone, May
<1> QED
  BY <1>1, <1>2, <1>5, <1>6 DEF SchedulesInv

\* Every step of the scheduler keeps it, a restart too.
LEMMA SchedulesStep ==
    ASSUME SchedulesInv, allowed' = allowed, SchedulesNext
    PROVE  SchedulesInv'
<1> USE DEF SchedulesTypeOK, AuditExportSchedule, Frequencies
<1>0. ASSUME NEW s \in Schedules, NEW state \in {"active", "inactive"}, NEW f \in Frequencies
      PROVE  /\ Row(s, state, f) \in [Schedules -> AuditExportSchedule]
             /\ \A t \in Schedules \ {s} : Row(s, state, f)[t] = schedule[t]
             /\ Row(s, state, f)[s] = [state |-> state, frequency |-> f]
  BY <1>0 DEF Row, SchedulesInv
<1>1. ASSUME NEW c \in ScheduleCalls, NEW s \in Schedules, NEW f \in Frequencies,
             CreateSchedule(c, s, f)
      PROVE  SchedulesInv'
  <2> DEFINE rows == Row(s, "active", f)
  <2>1. /\ rows \in [Schedules -> AuditExportSchedule]
        /\ \A t \in Schedules \ {s} : rows[t] = schedule[t]
    BY <1>0
  <2>2. schedule[s].state = "none" /\ BeginChange(c, "create", {s}, rows)
    BY <1>1 DEF CreateSchedule
  <2> HIDE DEF rows
  <2> QED
    BY <2>1, <2>2, BeginChangeKeeps
<1>2. ASSUME NEW c \in ScheduleCalls, NEW s \in Schedules, NEW f \in Frequencies,
             UpdateSchedule(c, s, f)
      PROVE  SchedulesInv'
  <2>1. PICK state \in {"active", "inactive"} : BeginChange(c, "update", {s}, Row(s, state, f))
    BY <1>2 DEF UpdateSchedule
  <2> DEFINE rows == Row(s, state, f)
  <2>2. /\ rows \in [Schedules -> AuditExportSchedule]
        /\ \A t \in Schedules \ {s} : rows[t] = schedule[t]
    BY <1>0
  <2>3. BeginChange(c, "update", {s}, rows)
    BY <2>1
  <2> HIDE DEF rows
  <2> QED
    BY <2>2, <2>3, BeginChangeKeeps
<1>3. ASSUME NEW c \in ScheduleCalls, NEW s \in Schedules, DeactivateSchedule(c, s)
      PROVE  SchedulesInv'
  <2>0. schedule[s].frequency \in Frequencies
    BY DEF SchedulesInv
  <2> DEFINE rows == Row(s, "inactive", schedule[s].frequency)
  <2>1. /\ rows \in [Schedules -> AuditExportSchedule]
        /\ \A t \in Schedules \ {s} : rows[t] = schedule[t]
        /\ ~IsActive(rows[s])
    BY <1>0, <2>0 DEF IsActive
  <2>2. BeginChange(c, "deactivate", {s}, rows)
    BY <1>3 DEF DeactivateSchedule
  <2> HIDE DEF rows
  <2> QED
    BY <2>1, <2>2, BeginChangeKeeps
<1>4. ASSUME NEW c \in ScheduleCalls, LoadActiveSchedules(c)
      PROVE  SchedulesInv'
  BY <1>4, BeginChangeKeeps DEF LoadActiveSchedules, SchedulesInv
<1>5. ASSUME NEW c \in ScheduleCalls, ApplyChange(c)
      PROVE  SchedulesInv'
  BY <1>5, ApplyChangeKeeps
<1>6. CASE RestartScheduler
  BY <1>6, AuditExportAssumption
  DEF RestartScheduler, Loaded, IsActive, IdleChange, NoSchedules, Change, May,
      SchedulesInv, JobsCanBeStopped, ApplyAlone, SchedulesAreServed
<1> QED
  BY <1>1, <1>2, <1>3, <1>4, <1>5, <1>6 DEF SchedulesNext

-----------------------------------------------------------------------------
(* The components together.                                                             *)

\* The inductive invariant: that of each component.
IndInv == SubInv /\ CareInv /\ RunsInv /\ AccessesInv /\ SchedulesInv

\* What a component knows is about its own variables: steps of the others keep it.
LEMMA OfficeAside ==
    ASSUME UNCHANGED allowed
    PROVE  /\ UNCHANGED careVars /\ CareInv => CareInv'
           /\ UNCHANGED runVars /\ RunsInv => RunsInv'
           /\ UNCHANGED chainVars /\ AccessesInv => AccessesInv'
           /\ UNCHANGED scheduleVars /\ SchedulesInv => SchedulesInv'
<1>1. UNCHANGED careVars /\ CareInv => CareInv'
  BY DEF careVars, ticketVars, noticeVars, CareInv, CareTypeOK, SentWasAccepted, NoticesAreSettled,
         NoticeHolds, CallHolds, CareWritesFail, NoticeReadsFail, May
<1>2. UNCHANGED runVars /\ RunsInv => RunsInv'
  BY DEF runVars, RunsInv, RunsTypeOK, RowFirst, CleanupIsOld, ObjectFirst, FilesFirst, FetchedIsAll,
         FilesAreStored, CompletedIsStored, ExportIsComplete, Ahead, LoggedRecords, May
<1>3. UNCHANGED chainVars /\ AccessesInv => AccessesInv'
  BY DEF chainVars, AccessesInv, AccessesTypeOK, HandedOverIsLogged, LoggedFirst, Linear, AtRest,
         LastHash, RecordHash, May
<1>4. UNCHANGED scheduleVars /\ SchedulesInv => SchedulesInv'
  BY DEF scheduleVars, SchedulesInv, SchedulesTypeOK, JobsCanBeStopped, ApplyAlone,
         SchedulesAreServed, Loaded, IsActive, May
<1> QED
  BY <1>1, <1>2, <1>3, <1>4

\* The same for subscribers and the network service.
LEMMA SubscribersAside ==
    ASSUME SubInv, UNCHANGED allowed, UNCHANGED subscriberVars
    PROVE  SubInv'
<1>1. UNCHANGED oltVars /\ UNCHANGED accessVars /\ OltDeep
  BY DEF subscriberVars, SubInv
<1>2. /\ OltDeep' /\ (SmoothOlt => SmoothOlt')
      /\ (\A n : Settled(n)' <=> Settled(n)) /\ (\A r : Active(r)' <=> Active(r))
  BY <1>1, OltUnchanged
<1>3. job' = job
  BY <1>1 DEF oltVars
<1> QED
  BY <1>1, <1>2, <1>3, OnlyOltMoves DEF SubInv, SmoothHolds

\* The inductive invariant holds at the start.
LEMMA InitHolds == Init => IndInv
  BY SubInitHolds, CareInitHolds, RunsInit, AccessesInit, SchedulesInit DEF Init, IndInv

\* It is inductive: a step is one of a component, which keeps its own invariant.
LEMMA StepHolds == IndInv /\ [Next]_vars => IndInv'
<1> SUFFICES ASSUME IndInv, [Next]_vars PROVE IndInv'
  OBVIOUS
<1>0. UNCHANGED allowed
  BY DEF Next, vars
<1>1. CASE SubscriberNext /\ UNCHANGED <<careVars, exportVars>>
  <2>1. SubInv'
    BY <1>0, <1>1, SubStep DEF IndInv
  <2> QED
    BY <1>0, <1>1, <2>1, OfficeAside DEF IndInv, exportVars
<1>2. CASE CareNext /\ UNCHANGED <<subscriberVars, exportVars>>
  <2>1. CareInv'
    BY <1>0, <1>2, TicketsKeep, NoticesKeep DEF IndInv, CareNext
  <2> QED
    BY <1>0, <1>2, <2>1, OfficeAside, SubscribersAside DEF IndInv, exportVars
<1>3. CASE ExportNext /\ UNCHANGED <<subscriberVars, careVars>>
  <2>1. RunsInv' /\ AccessesInv' /\ SchedulesInv'
    BY <1>0, <1>3, RunsStep, AccessesStep, SchedulesStep, OfficeAside DEF IndInv, ExportNext
  <2> QED
    BY <1>0, <1>3, <2>1, OfficeAside, SubscribersAside DEF IndInv
<1>4. CASE UNCHANGED vars
  BY <1>0, <1>4, OfficeAside, SubscribersAside DEF vars, exportVars, IndInv
<1> QED
  BY <1>1, <1>2, <1>3, <1>4 DEF Next

\* So it holds for good.
LEMMA Inductive == Spec => []IndInv
  BY InitHolds, StepHolds, PTL DEF Spec

\* Every variable keeps its type.
THEOREM OperationsTypes == Spec => []TypeOK
<1>1. IndInv => TypeOK
  BY SubSafe DEF IndInv, TypeOK, CareInv, RunsInv, AccessesInv, SchedulesInv, ExportTypeOK
<1> QED
  BY <1>1, Inductive, PTL

\* Where nothing fails, a suspended customer's ONU is throttled once the call for it has ended
\* (suspendSubscriber, the dialogues of the drivers); and the audit log ends with what is stored.
THEOREM SubscribersAreSafe == Spec => []SubscriberSafety
<1>1. IndInv => SubscriberSafety
  BY SubSafe DEF IndInv, SubscriberSafety
<1> QED
  BY <1>1, Inductive, PTL

\* Messages: what is logged as sent was taken, what was taken is logged, and a request that has
\* ended left its row settled where nothing fails.  Exports: files listed
\* are stored, completed runs have theirs and show all records, what is handed over is logged,
\* its chain verifies, and the jobs of the scheduler are those of its schedules.
THEOREM OfficeIsSafe == Spec => []OfficeSafety
<1>1. IndInv => OfficeSafety
  BY LinearIsValid
  DEF IndInv, OfficeSafety, CareInv, RunsInv, ObjectFirst, FilesFirst, FetchedIsAll, AccessesInv,
      SchedulesInv
<1> QED
  BY <1>1, Inductive, PTL

\* A request answered as done left the ONU as it says, its commands touched no other ONU, and an
\* answered ticket is not left waiting.
THEOREM OperationsStepsAreSound == Spec => StepsAreSound
<1>1. IndInv /\ [Next]_vars =>
        [~Overlapping => \A r \in NetRequests :
            Active(r) /\ job'[r].pc = "done" => Achieved(r, device')]_oltVars
  BY SubStepIsSound DEF IndInv, Next, vars, subscriberVars
<1>2. IndInv /\ [Next]_vars =>
        [~Overlapping /\ ~Timeouts => \A n \in Onus :
            device'[n] # device[n] => \E r \in NetRequests : Active(r) /\ job[r].onu = n]_oltVars
  BY SubStepIsSound DEF IndInv, Next, vars, subscriberVars
<1>3. IndInv /\ [Next]_vars =>
        [~May("overlap") /\ ~CareWritesFail =>
            \A c \in CareCalls :
               care[c].kind = "message" /\ care'[c].pc = "done" =>
                  last' = "customer" /\ ticket'.status \notin {"waiting_customer", "closed"}]_careVars
  <2> SUFFICES ASSUME IndInv, [Next]_vars, ~UNCHANGED careVars, ~May("overlap"), ~CareWritesFail,
                      NEW c \in CareCalls, care[c].kind = "message", care'[c].pc = "done"
               PROVE  last' = "customer" /\ ticket'.status \notin {"waiting_customer", "closed"}
    OBVIOUS
  <2>1. CareNext /\ UNCHANGED allowed /\ CareInv
    BY DEF IndInv, Next, vars
  <2>2. ~UNCHANGED ticketVars
    BY <2>1 DEF ticketVars, CareInv, CallHolds
  <2> QED
    BY <2>1, <2>2, TicketsKeep DEF CareNext
<1> QED
  BY <1>1, <1>2, <1>3, Inductive, PTL
  DEF Spec, StepsAreSound, AnswersAreTrue, OthersUntouched, AnswersAreNoticed
=============================================================================
