----------------------------- MODULE OltAccess ------------------------------
(***************************************************************************)
(* The network service: requests for an ONU become dialogues with an OLT   *)
(* (network-service/app/main.py and drivers/).                             *)
(*                                                                         *)
(* One driver, one connection, is kept per OLT and shared by all requests, *)
(* without a lock; every command is awaited.  As the drivers presume, the  *)
(* command line of a connection remembers which interface it has entered.  *)
(* An OLT that rejects a command prints an error and nothing notices       *)
(* (check=False); only a lost connection and a timeout raise.              *)
(***************************************************************************)
EXTENDS Histories, Integers, FiniteSets, Sequences

CONSTANTS
    Olts,       \* keys of settings.olts
    Vendor,     \* the vendor of each
    Onus,       \* ONUs, each with its serial number and position
    Home,       \* the OLT an ONU hangs on
    Registered, \* the ONUs known to their OLTs at the beginning
    Drivers,    \* driver objects, as many as OLTs and requests together
    NetRequests \* HTTP requests served in a history (bound)

ASSUME OltAccessAssumption ==
    /\ Vendor \in [Olts -> {"huawei", "zte", "fiberhome"}]
    /\ Home \in [Onus -> Olts] /\ Registered \subseteq Onus
    /\ IsFiniteSet(Olts) /\ IsFiniteSet(NetRequests) /\ IsFiniteSet(Drivers)
    /\ Cardinality(Drivers) >= Cardinality(Olts) + Cardinality(NetRequests)
    /\ None \notin Olts \cup Onus \cup Drivers

VARIABLES
    pool,       \* olt_connections
    conn,       \* driver objects: OLT, whether the connection lives, the
                \* interface entered, what is not committed
    device,     \* the ONUs as their OLTs have them (external)
    job         \* the requests

oltVars == <<pool, conn, device, job>>

\* Requests whose OLTs are the same may overlap; connections may be lost; commands may
\* time out, executed or not.
Overlapping == May("overlap")
Drops       == May("drops")
Timeouts    == May("timeouts")

Rates == {"none", "slow", "full"}
Searching == {"suspend", "resume", "status"}
Kinds == Searching \cup {"speed", "provision", "deprovision", "reboot"}
Answers == {"done", "notfound", "unavailable", "failed", "lost"}
CommandNames == {"other", "port", "enter", "leave", "add", "delete", "remove", "register", "flow",
                 "commit", "down", "up"}

\* What the drivers send, by what each command does.  'other' changes nothing here: VLANs,
\* descriptions, and huawei's traffic table, which no ONU is given.
HuaweiCommands ==
    [reboot |-> <<"other">>, speed |-> <<"other", "port", "other", "leave">>,
     provision |-> <<"port", "add", "leave", "other">>,
     deprovision |-> <<"port", "delete", "leave">>]
\* Mutated form: the upstream rate is not set.
ZteDownOnly ==
    [reboot |-> <<"other">>, speed |-> <<"enter", "other", "other", "down", "leave">>,
     provision |-> <<"port", "add", "leave", "enter", "other", "leave">>,
     deprovision |-> <<"port", "delete", "leave">>]
\* Mutated form: the interface is not left.
ZteNoLeave ==
    [reboot |-> <<"other">>, speed |-> <<"enter", "other", "other", "down", "up">>,
     provision |-> <<"port", "add", "leave", "enter", "other", "leave">>,
     deprovision |-> <<"port", "delete", "leave">>]
ZteCommands ==
    [reboot |-> <<"other">>, speed |-> <<"enter", "other", "other", "down", "up", "leave">>,
     provision |-> <<"port", "add", "leave", "enter", "other", "leave">>,
     deprovision |-> <<"port", "delete", "leave">>]
FiberhomeCommands ==
    [reboot |-> <<"other">>, speed |-> <<"port", "flow", "commit", "leave">>,
     provision |-> <<"port", "register", "other", "commit", "leave">>,
     deprovision |-> <<"remove">>]

Dialogue(v) == CASE v = "huawei" -> HuaweiCommands
                 [] v = "zte" -> ZteCommands
                 [] v = "fiberhome" -> FiberhomeCommands
Commands(kind, v) ==
    Dialogue(v)[IF kind \in {"suspend", "resume"} THEN "speed" ELSE kind]

-----------------------------------------------------------------------------
(* The rows: HTTP requests, drivers, ONUs.                                 *)

Onu == [known : BOOLEAN, down : Rates, up : Rates]
Driver == [olt : Olts \cup {None}, alive : BOOLEAN, at : Onus \cup {None},
           staged : SUBSET {"register", "flow"}]
Steps == {"idle", "search", "connect", "locate", "commands", "profile"}
Job == [pc : Steps \cup Answers, kind : Kinds \cup {None}, onu : Onus \cup {None},
        todo : SUBSET Olts, driver : Drivers \cup {None}, olt : Olts \cup {None},
        commands : Seq(CommandNames)]

Unknown == [known |-> FALSE, down |-> "none", up |-> "none"]
Unconnected == [olt |-> None, alive |-> FALSE, at |-> None, staged |-> {}]
IdleJob == [pc |-> "idle", kind |-> None, onu |-> None, todo |-> {}, driver |-> None,
            olt |-> None, commands |-> <<>>]

OltInit ==
    /\ pool = [o \in Olts |-> None]
    /\ conn = [d \in Drivers |-> Unconnected]
    /\ device = [n \in Onus |-> IF n \in Registered
                                THEN [known |-> TRUE, down |-> "full", up |-> "full"] ELSE Unknown]
    /\ job = [r \in NetRequests |-> IdleJob]

Active(r) == job[r].pc \in Steps \ {"idle"}
Rate(r) == IF job[r].kind = "suspend" THEN "slow" ELSE "full"

-----------------------------------------------------------------------------
(* The requests.                                                           *)

\* Requests that name a serial number search every OLT, the others one.
Accept(r, kind, n) ==
    /\ job[r].pc = "idle"
    /\ Overlapping \/ \A q \in NetRequests : ~(Active(q) /\ Home[job[q].onu] = Home[n])
    /\ job' = [job EXCEPT ![r] = [IdleJob EXCEPT !.pc = "search", !.kind = kind, !.onu = n,
                 !.todo = IF kind \in Searching THEN Olts ELSE {Home[n]}]]
    /\ UNCHANGED <<pool, conn, device>>

Answered(answer) == [IdleJob EXCEPT !.pc = answer]
Searchable(j) == [j EXCEPT !.pc = "search", !.driver = None, !.olt = None, !.commands = <<>>]

\* Where a failing request goes: a search to the next OLT, a profile that fails while an
\* ONU is provisioned is ignored, all else is an error.
AfterFailure(j, error) ==
    IF j.kind \in Searching THEN Searchable(j)
    ELSE Answered(IF j.pc = "profile" THEN "done" ELSE error)

\* A search looks its ONU up first, the others start their dialogue.
WithDriver(j, d, o) ==
    IF j.kind \in Searching THEN [j EXCEPT !.driver = d, !.olt = o, !.pc = "locate"]
    ELSE [j EXCEPT !.driver = d, !.olt = o, !.pc = "commands",
                   !.commands = Commands(j.kind, Vendor[o])]

\* get_olt_driver, up to its first await.  Mutated form: an OLT that failed is tried again.
SearchAgain(r) ==
    /\ job[r].pc = "search" /\ job[r].todo # {}
    /\ \E o \in job[r].todo :
          job' = [job EXCEPT ![r] =
                    IF pool[o] # None THEN WithDriver(job[r], pool[o], o)
                    ELSE [job[r] EXCEPT !.olt = o, !.pc = "connect"]]
    /\ UNCHANGED <<pool, conn, device>>
Search(r) ==
    /\ job[r].pc = "search" /\ job[r].todo # {}
    /\ \E o \in job[r].todo :
         LET j == [job[r] EXCEPT !.todo = @ \ {o}] IN
          job' = [job EXCEPT ![r] =
                    IF pool[o] # None THEN WithDriver(j, pool[o], o)
                    ELSE [j EXCEPT !.olt = o, !.pc = "connect"]]
    /\ UNCHANGED <<pool, conn, device>>

NotFound(r) ==
    /\ job[r].pc = "search" /\ job[r].todo = {}
    /\ job' = [job EXCEPT ![r] = Answered("notfound")]
    /\ UNCHANGED <<pool, conn, device>>

\* A driver that left the pool and that no request holds is of no use to anyone.
Free(d) == /\ \A o \in Olts : pool[o] # d
           /\ \A r \in NetRequests : job[r].driver # d

\* connect: the driver goes into the pool, over one that another request put there.
Connect(r) ==
    /\ job[r].pc = "connect"
    /\ \/ LET d == CHOOSE d \in Drivers : Free(d) IN
            /\ conn' = [conn EXCEPT ![d] = [Unconnected EXCEPT !.olt = job[r].olt,
                                                               !.alive = TRUE]]
            /\ pool' = [pool EXCEPT ![job[r].olt] = d]
            /\ job' = [job EXCEPT ![r] = WithDriver(job[r], d, job[r].olt)]
       \/ /\ Drops
          /\ job' = [job EXCEPT ![r] = AfterFailure(job[r], "unavailable")]
          /\ UNCHANGED <<pool, conn>>
    /\ UNCHANGED device

\* get_onu_by_serial: whatever goes wrong means 'not here'.  The second look, at the ONU's
\* state, never fails: it reports 'unknown' and the position found by the first.
Locate(r) ==
    /\ job[r].pc = "locate"
    /\ LET j == job[r]
           n == job[r].onu
           here == conn[j.driver].alive /\ Home[n] = j.olt /\ device[n].known
       IN \/ /\ ~here \/ Timeouts
             /\ job' = [job EXCEPT ![r] = Searchable(j)]
          \/ /\ here /\ j.kind = "status"
             /\ job' = [job EXCEPT ![r] = Answered("done")]
          \/ /\ here /\ j.kind # "status"
             /\ job' = [job EXCEPT ![r].pc = "commands",
                                   ![r].commands = Commands(j.kind, Vendor[j.olt])]
    /\ UNCHANGED <<pool, conn, device>>

\* What a command does at the OLT: to the ONU of the interface entered, or to nothing.
Removed(c) == c \in {"delete", "remove"}
OnuAfter(c, rate, staged, onu) ==
    LET sets(way) == c = way \/ (c = "commit" /\ "flow" \in staged) IN
    IF Removed(c) THEN Unknown
    ELSE [known |-> onu.known \/ c = "add" \/ (c = "commit" /\ "register" \in staged),
          down |-> IF sets("down") THEN rate ELSE onu.down,
          up |-> IF sets("up") THEN rate ELSE onu.up]
Executed(c, rate, own, w) ==
    [at |-> IF c = "port" \/ (c = "enter" /\ w.dev[own].known) THEN own
            ELSE IF c = "leave" THEN None ELSE w.at,
     staged |-> IF c = "leave" THEN {} ELSE w.staged \cup ({c} \cap {"register", "flow"}),
     dev |-> [n \in Onus |-> IF n = (IF c = "remove" THEN own ELSE w.at)
                             THEN OnuAfter(c, rate, w.staged, w.dev[n]) ELSE w.dev[n]]]

\* The dialogue goes on, or ends: with the answer, or, when an ONU has been registered,
\* with the dialogue for its profile.  Mutated form: one command too many is awaited.
AfterCommandOffByOne(j) ==
    IF Len(j.commands) >= 1 THEN [j EXCEPT !.commands = Tail(@)]
    ELSE IF j.kind = "provision" /\ j.pc = "commands"
         THEN [j EXCEPT !.pc = "profile", !.commands = Commands("speed", Vendor[j.olt])]
         ELSE Answered("done")
AfterCommand(j) ==
    IF Len(j.commands) > 1 THEN [j EXCEPT !.commands = Tail(@)]
    ELSE IF j.kind = "provision" /\ j.pc = "commands"
         THEN [j EXCEPT !.pc = "profile", !.commands = Commands("speed", Vendor[j.olt])]
         ELSE Answered("done")

\* _send_command.
Command(r) ==
    /\ job[r].pc \in {"commands", "profile"}
    /\ LET j == job[r]
           d == job[r].driver
           w == Executed(Head(j.commands), Rate(r), j.onu,
                         [at |-> conn[d].at, staged |-> conn[d].staged, dev |-> device])
       IN /\ \/ /\ conn[d].alive
                /\ device' = w.dev
                /\ conn' = [conn EXCEPT ![d].at = w.at, ![d].staged = w.staged]
                /\ job' = [job EXCEPT ![r] = AfterCommand(j)]
             \/ /\ conn[d].alive /\ Timeouts
                /\ device' = w.dev
                /\ conn' = [conn EXCEPT ![d].at = w.at, ![d].staged = w.staged]
                /\ job' = [job EXCEPT ![r] = AfterFailure(j, "failed")]
             \/ /\ ~conn[d].alive \/ Timeouts
                /\ job' = [job EXCEPT ![r] = AfterFailure(j, "failed")]
                /\ UNCHANGED <<device, conn>>
    /\ UNCHANGED pool

-----------------------------------------------------------------------------
(* What happens meanwhile.                                                 *)

\* The connection dies; its driver stays in the pool for ever.
ConnectionLost(d) ==
    /\ Drops /\ conn[d].alive
    /\ conn' = [conn EXCEPT ![d].alive = FALSE, ![d].at = None, ![d].staged = {}]
    /\ UNCHANGED <<pool, device, job>>

\* The service is restarted: lifespan closes every connection of the pool.
RestartService ==
    /\ May("restarts")
    /\ pool' = [o \in Olts |-> None]
    /\ conn' = [d \in Drivers |-> Unconnected]
    /\ job' = [r \in NetRequests |-> IF Active(r) THEN Answered("lost")
                                              ELSE job[r]]
    /\ UNCHANGED device

Serve(r) == Search(r) \/ NotFound(r) \/ Connect(r) \/ Locate(r) \/ Command(r)

-----------------------------------------------------------------------------
(* Properties.                                                             *)

OltTypeOK ==
    /\ pool \in [Olts -> Drivers \cup {None}]
    /\ conn \in [Drivers -> Driver]
    /\ device \in [Onus -> Onu]
    /\ job \in [NetRequests -> Job]
    /\ \A r \in NetRequests : job[r].pc \in {"commands", "profile"} <=> job[r].commands # <<>>

\* What a successful answer says.  Huawei's dialogue sets no rate at all; a change of
\* speed of an ONU the OLT does not know is answered with success as well.
Achieved(r, dev) ==
    LET n == job[r].onu IN
    /\ job[r].kind \in {"suspend", "resume"} /\ Vendor[Home[n]] # "huawei" =>
          dev[n].down = Rate(r) /\ dev[n].up = Rate(r)
    /\ job[r].kind = "provision" => dev[n].known
    /\ job[r].kind = "deprovision" => ~dev[n].known

\* Where requests of one OLT do not overlap, an answer of success means that the OLT has
\* the ONU as asked for, whatever timed out or broke before (reboot_onu ... resume_onu).
AnswersAreTrue ==
    [][~Overlapping => \A r \in NetRequests :
          Active(r) /\ job'[r].pc = "done" => Achieved(r, device')]_oltVars

\* Where moreover no command times out, a request never configures another ONU than its
\* own: no dialogue leaves its interface to the next one on the same connection.
OthersUntouched ==
    [][~Overlapping /\ ~Timeouts => \A n \in Onus :
          device'[n] # device[n] =>
             \E r \in NetRequests : Active(r) /\ job[r].onu = n]_oltVars

\* Every request is answered, unless the service is restarted meanwhile: searches run
\* out of OLTs and dialogues out of commands.
RequestsAreAnswered ==
    \A r \in NetRequests : Active(r) ~> job[r].pc \in Answers
=============================================================================
