-------------------------- MODULE RadiusAccounting --------------------------
(***************************************************************************)
(* Accounting-Requests at the Python RADIUS service                        *)
(* (radius-service/app/handlers.py, supabase_client.py): the access server *)
(* (NAS) reports the start, the progress and the end of a session, over    *)
(* UDP and again until it is answered; the service keeps a row of          *)
(* radius_sessions and rows of usage_logs.                                 *)
(*                                                                         *)
(* One event loop serves one packet at a time, query by query.  Octets are *)
(* those of one direction; a report counts them from the session's start.  *)
(***************************************************************************)
EXTENDS Histories, Naturals, Sequences, FiniteSets

CONSTANTS
    Sessions,    \* values of Acct-Session-Id
    MaxDeaths,   \* bound: deaths of the service
    MaxReports,  \* bound: reports of a session
    MaxOctets,   \* bound: octets of a session
    MaxRows,     \* bound: usage rows counted for one report
    Wrap         \* Acct-Output-Octets has this many values

ASSUME RadiusAccountingAssumption ==
    /\ MaxDeaths \in Nat /\ MaxReports \in Nat \ {0} /\ MaxOctets \in Nat
    /\ MaxRows \in Nat \ {0} /\ Wrap \in Nat \ {0}
    /\ None \notin Sessions

VARIABLES
    link,     \* what the NAS knows of a session
    moved,    \* octets of the session so far
    sent,     \* the reports of a session, oldest first
    acked,    \* the numbers of those whose answer came back
    row,      \* the session's row of radius_sessions
    usage,    \* how many rows of usage_logs stem from a report
    packet,   \* the packet being served
    deaths

accountingVars == <<link, moved, sent, acked, row, usage, packet, deaths, allowed>>

\* A copy of a report may arrive after a younger report; the NAS may send a report before
\* the last one is answered; a query may raise, which every helper swallows.
Late      == May("late")
Pipelined == May("pipelined")
DbMayFail == May("queries")

Kinds == {"start", "interim", "stop"}
Report == [kind : Kinds, octets : Nat]
Row == [status : {"none", "active", "closed"}, octets : Nat]
Reports == 1 .. MaxReports
Steps == {"customer", "duplicate", "insert", "update", "usage", "reply"}
Serving == [pc : Steps, session : Sessions, number : Reports]
Idle == [pc |-> "idle", session |-> None, number |-> 0]

AccountingInit ==
    /\ link = [s \in Sessions |-> "down"]
    /\ moved = [s \in Sessions |-> 0]
    /\ sent = [s \in Sessions |-> <<>>]
    /\ acked = [s \in Sessions |-> {}]
    /\ row = [s \in Sessions |-> [status |-> "none", octets |-> 0]]
    /\ usage = [s \in Sessions |-> [i \in Reports |-> 0]]
    /\ packet = Idle
    /\ deaths = 0
    /\ allowed \in Environments

-----------------------------------------------------------------------------
(* The NAS and the network (external).                                     *)

Send(s, kind) ==
    /\ Pipelined \/ acked[s] = 1 .. Len(sent[s])
    /\ sent' = [sent EXCEPT ![s] = Append(@, [kind |-> kind, octets |-> moved[s] % Wrap])]
    /\ UNCHANGED <<moved, acked, row, usage, packet, deaths>>

StartSession(s) ==
    /\ link[s] = "down"
    /\ link' = [link EXCEPT ![s] = "up"]
    /\ Send(s, "start")

Transfer(s) ==
    /\ link[s] = "up" /\ moved[s] < MaxOctets
    /\ moved' = [moved EXCEPT ![s] = @ + 1]
    /\ UNCHANGED <<link, sent, acked, row, usage, packet, deaths>>

SendInterim(s) ==
    /\ link[s] = "up" /\ Len(sent[s]) + 1 < MaxReports
    /\ Send(s, "interim")
    /\ UNCHANGED link

EndSession(s) ==
    /\ link[s] = "up" /\ Len(sent[s]) < MaxReports
    /\ link' = [link EXCEPT ![s] = "ended"]
    /\ Send(s, "stop")

\* A report arrives any number of times.
Receive(s, i) ==
    /\ packet = Idle
    /\ i \in 1 .. Len(sent[s]) /\ (Late \/ i = Len(sent[s]))
    /\ packet' = [pc |-> "customer", session |-> s, number |-> i]
    /\ UNCHANGED <<link, moved, sent, acked, row, usage, deaths>>

-----------------------------------------------------------------------------
(* handle_accounting.                                                      *)

Current == sent[packet.session][packet.number]
At(pc) == packet # Idle /\ packet.pc = pc
GotoQuery(pc) == packet' = [packet EXCEPT !.pc = pc]
Pass(pc) == GotoQuery(pc) /\ UNCHANGED <<link, moved, sent, acked, row, usage, deaths>>

\* An unknown subscriber's packet, and one whose query fails, is just answered.
GetSubscriberOfPacket ==
    /\ At("customer")
    /\ \/ Current.kind = "start" /\ Pass("duplicate")
       \/ Current.kind # "start" /\ Pass("update")
       \/ DbMayFail /\ Pass("reply")

IsSessionDuplicate ==
    /\ At("duplicate")
    /\ \/ row[packet.session].status # "none" /\ Pass("reply")
       \/ (row[packet.session].status = "none" \/ DbMayFail) /\ Pass("insert")

\* session_id is unique: a second row is refused, and the exception swallowed.
LogAccountingStart ==
    /\ At("insert")
    /\ \/ /\ row[packet.session].status = "none"
          /\ row' = [row EXCEPT ![packet.session] = [status |-> "active", octets |-> 0]]
          /\ GotoQuery("reply")
          /\ UNCHANGED <<link, moved, sent, acked, usage, deaths>>
       \/ (row[packet.session].status # "none" \/ DbMayFail) /\ Pass("reply")

\* What an interim or a stop report makes of the row.  Mutated forms: an interim report
\* opens the session again; any report closes it; a stop report leaves the count out, or
\* the status; the status is the kind of report; counts are added up.
StoredReopening(old, report) ==
    [status |-> IF report.kind = "stop" THEN "closed" ELSE "active", octets |-> report.octets]
StoredClosing(old, report) == [status |-> "closed", octets |-> report.octets]
StoredUncounted(old, report) ==
    IF report.kind = "stop" THEN [old EXCEPT !.status = "closed"]
    ELSE [old EXCEPT !.octets = report.octets]
StoredUnclosed(old, report) == [old EXCEPT !.octets = report.octets]
StoredKind(old, report) == [status |-> report.kind, octets |-> report.octets]
StoredAdding(old, report) ==
    [status |-> IF report.kind = "stop" THEN "closed" ELSE old.status,
     octets |-> old.octets + report.octets]
Stored(old, report) ==
    [status |-> IF report.kind = "stop" THEN "closed" ELSE old.status,
     octets |-> report.octets]

\* Without a row the update changes nothing and the select after it raises.
UpdateSession ==
    /\ At("update")
    /\ \/ /\ row[packet.session].status # "none"
          /\ row' = [row EXCEPT ![packet.session] = Stored(@, Current)]
          /\ GotoQuery("usage")
          /\ UNCHANGED <<link, moved, sent, acked, usage, deaths>>
       \/ (row[packet.session].status = "none" \/ DbMayFail) /\ Pass("reply")

CountedUp(rows, i) == [rows EXCEPT ![i] = IF @ < MaxRows THEN @ + 1 ELSE @]

InsertUsage ==
    /\ At("usage")
    /\ \/ /\ usage' = [usage EXCEPT ![packet.session] = CountedUp(@, packet.number)]
          /\ GotoQuery("reply")
          /\ UNCHANGED <<link, moved, sent, acked, row, deaths>>
       \/ DbMayFail /\ Pass("reply")

\* The answer may be lost on its way.
Reply ==
    /\ At("reply")
    /\ packet' = Idle
    /\ \/ acked' = [acked EXCEPT ![packet.session] = @ \cup {packet.number}]
       \/ acked' = acked
    /\ UNCHANGED <<link, moved, sent, row, usage, deaths>>

Die ==
    /\ packet # Idle /\ deaths < MaxDeaths
    /\ packet' = Idle
    /\ deaths' = deaths + 1
    /\ UNCHANGED <<link, moved, sent, acked, row, usage>>

Serve ==
    \/ GetSubscriberOfPacket \/ IsSessionDuplicate \/ LogAccountingStart
    \/ UpdateSession \/ InsertUsage \/ Reply

AccountingStep ==
    \/ \E s \in Sessions : \/ StartSession(s) \/ Transfer(s) \/ SendInterim(s) \/ EndSession(s)
                           \/ \E i \in Reports : Receive(s, i)
    \/ Serve
    \/ Die

AccountingNext == AccountingStep /\ UNCHANGED allowed

AccountingSpec == AccountingInit /\ [][AccountingNext]_accountingVars

\* The service takes its next step, and the NAS repeats its last report until it is
\* answered ('Accept anyway to avoid NAS retry storms').
AccountingFairness ==
    /\ WF_accountingVars(Serve /\ UNCHANGED allowed)
    /\ \A s \in Sessions :
          SF_accountingVars(/\ \E i \in Reports : i \notin acked[s] /\ Receive(s, i)
                            /\ UNCHANGED allowed)

-----------------------------------------------------------------------------

\* Every variable has its type.
AccountingTypeOK ==
    /\ link \in [Sessions -> {"down", "up", "ended"}]
    /\ moved \in [Sessions -> 0 .. MaxOctets]
    /\ sent \in [Sessions -> Seq(Report)]
    /\ \A s \in Sessions : Len(sent[s]) <= MaxReports
    /\ acked \in [Sessions -> SUBSET Reports]
    /\ row \in [Sessions -> Row]
    /\ usage \in [Sessions -> [Reports -> 0 .. MaxRows]]
    /\ packet \in Serving \cup {Idle}
    /\ deaths \in 0 .. MaxDeaths
    /\ allowed \in Environments

\* A closed session is never opened again, by no repeated, late or reordered report:
\* log_accounting_start inserts and log_accounting_interim leaves the status alone.
\* A run checks it as part of ImplementsMetering.
ClosedStaysClosed ==
    [][\A s \in Sessions : row[s].status = "closed" => row'[s].status = "closed"]_accountingVars

\* The row says nothing the NAS never knew: a closed session ended, and the octets
\* recorded are no more than went through.
RecordsAreTrue ==
    \A s \in Sessions :
        /\ row[s].status = "closed" => link[s] = "ended"
        /\ row[s].octets <= moved[s]

\* What was answered is in the tables: a usage row of every interim or stop report, and
\* for a stop report the closed session with the final count.
AcknowledgedIsStored ==
    \A s \in Sessions : \A i \in acked[s] :
        /\ sent[s][i].kind # "start" => usage[s][i] > 0
        /\ sent[s][i].kind = "stop" => row[s] = [status |-> "closed", octets |-> moved[s]]

\* The NAS waits for its answers, copies keep their order and no query fails.
Ordered == ~Late /\ ~Pipelined /\ ~DbMayFail

\* Then, and as long as no counter wraps, whenever the service died: what was answered is
\* in the tables (see AcknowledgedIsStored).
OrderedIsStored ==
    Ordered /\ (\A s \in Sessions : moved[s] < Wrap) => AcknowledgedIsStored

\* The service keeps the promise of Metering, through any deaths, repetitions and failing
\* queries and with a NAS that does not wait; only copies that come late and counters that
\* wrap (Acct-Output-Gigawords is not read) let a count go back.
Meter == INSTANCE Metering
           WITH used <- moved, over <- {s \in Sessions : link[s] = "ended"}, record <- row,
                plain <- {s \in Sessions : ~Late /\ moved[s] < Wrap}
ImplementsMetering == Meter!Spec

\* Then a session that ended is closed in the end.
EndedIsClosed ==
    \A s \in Sessions : Ordered /\ link[s] = "ended" ~> row[s].status = "closed"
=============================================================================
