------------------------------ MODULE Incidents -----------------------------
(***************************************************************************)
(* Security incidents, their timeline, and the evidence and cases of       *)
(* forensics (ctdisr/incident-response).  Every request is a read, a write *)
(* by what was read and, for incidents, a row of the timeline, without a   *)
(* transaction.  Flags "incidents", "custody", "activities", "cases": what *)
(* a history is about, with the kinds of requests for incidents ("status", *)
(* "items" ...) and "sla" where response times matter.  Nothing in the     *)
(* code keeps requests apart: where "overlap" is allowed any of them may   *)
(* overlap; in the other histories only those of different kinds, and not  *)
(* a check of a piece with its transfer.                                   *)
(***************************************************************************)
EXTENDS Histories, Integers, FiniteSets

CONSTANTS
    MaxIncidents,  \* bound: incidents of a year; a number identifies its row
    MaxLevel,      \* bound: escalation levels
    Items,         \* remediation actions to be added
    IncidentCalls, \* requests to the two services
    Evidence,      \* rows of digital_evidence
    Cases          \* rows of forensic_cases

VARIABLES
    incident,  \* security_incidents
    timeline,  \* incident_timeline: the last status told, a break in the statuses told
    informed,  \* incident_communications: incidents PTA was written about
    added,     \* items whose update was answered (history)
    evidence,  \* digital_evidence and its chain of custody
    case,      \* forensic_cases: status, evidence listed, evidence whose update was
               \* answered (history)
    incCall    \* requests under way

incidentVars == <<incident, timeline, informed, added, evidence, case, incCall>>

Numbers == 1..MaxIncidents
IncidentStatus == {"DETECTED", "TRIAGED", "CONTAINED", "ERADICATED", "RECOVERED", "CLOSED",
                   "REOPENED"}
ValidTransitions ==
    [DETECTED |-> {"TRIAGED", "CONTAINED"}, TRIAGED |-> {"CONTAINED", "CLOSED"},
     CONTAINED |-> {"ERADICATED", "REOPENED"}, ERADICATED |-> {"RECOVERED", "REOPENED"},
     RECOVERED |-> {"CLOSED", "REOPENED"}, CLOSED |-> {"REOPENED"},
     REOPENED |-> {"TRIAGED", "CONTAINED"}]
\* urgent: critical or high; sla: a playbook gives a response time; late: it is over.
SecurityIncident ==
    [status : IncidentStatus \cup {None}, urgent : BOOLEAN, level : 0..MaxLevel,
     items : SUBSET Items, commander : BOOLEAN, reported : BOOLEAN,
     sla : BOOLEAN, late : BOOLEAN, breached : BOOLEAN]
NoIncident == [status |-> None, urgent |-> FALSE, level |-> 0, items |-> {},
               commander |-> FALSE, reported |-> FALSE, sla |-> FALSE, late |-> FALSE,
               breached |-> FALSE]
IncidentTimeline == [last : IncidentStatus, gap : BOOLEAN]
\* altered: the file is not what was collected; started: the chain of custody begins with
\* the collection; untold: a transfer hides that the last check failed; activity: of the one
\* forensic activity about it that is considered.
DigitalEvidence == [exists : BOOLEAN, altered : BOOLEAN, verified : BOOLEAN,
                    hold : BOOLEAN, started : BOOLEAN, untold : BOOLEAN,
                    activity : {"none", "recorded", "reviewed"}, analyzed : BOOLEAN]
NoEvidence == [exists |-> FALSE, altered |-> FALSE, verified |-> FALSE, hold |-> FALSE,
               started |-> FALSE, untold |-> FALSE, activity |-> "none", analyzed |-> FALSE]
ForensicStatus == {"PENDING", "IN_PROGRESS", "COMPLETED", "ON_HOLD", "CANCELLED"}
ForensicCase == [status : ForensicStatus \cup {None}, begun : BOOLEAN,
                 listed : SUBSET Evidence, taken : SUBSET Evidence]

Amendments == {"status", "assign", "escalate", "items", "pta"}
Examinations == {"collect", "verify", "transfer", "list", "move", "activity"}
ASSUME IncidentsAssumption ==
    /\ MaxIncidents \in Nat /\ MaxLevel \in Nat
    /\ None \notin IncidentStatus \cup ForensicStatus \cup Amendments \cup Examinations
                \cup {"create", "indicators"}

\* on: the number, the piece or the case; arg, level, urgent: what is asked for; status,
\* listed, verified: what was read and is used later.
IncidentCall == [pc : {"idle", "number", "insert", "event", "team", "commander", "read",
                       "write", "comm", "custody", "mark"},
                 kind : Amendments \cup Examinations \cup {"create", "indicators", None},
                 on : Numbers \cup Evidence \cup Cases \cup {None},
                 arg : IncidentStatus \cup ForensicStatus \cup Items \cup Evidence
                         \cup {None},
                 level : 0..MaxLevel, urgent : BOOLEAN,
                 status : IncidentStatus \cup {None}, listed : SUBSET (Items \cup Evidence),
                 verified : BOOLEAN]
IdleIncCall == [pc |-> "idle", kind |-> None, on |-> None, arg |-> None,
                level |-> 0, urgent |-> FALSE,
                status |-> None, listed |-> {}, verified |-> FALSE]

IncidentInit ==
    /\ incident = [n \in Numbers |-> NoIncident]
    /\ timeline = [n \in Numbers |-> [last |-> "DETECTED", gap |-> FALSE]]
    /\ informed = {} /\ added = {}
    /\ evidence = [e \in Evidence |-> NoEvidence]
    /\ case = [f \in Cases |-> [status |-> None, begun |-> FALSE, listed |-> {}, taken |-> {}]]
    /\ incCall = [c \in IncidentCalls |-> IdleIncCall]

IncReadsFail == May("reads")
IncWritesFail == May("writes")
IncAt(c, pc) == incCall' = [incCall EXCEPT ![c].pc = pc]
IncEnds(c) == incCall' = [incCall EXCEPT ![c] = IdleIncCall]
Idle(c) == incCall[c].pc = "idle" /\ c = CHOOSE d \in IncidentCalls : incCall[d].pc = "idle"
Apart(kind, x) == \A d \in IncidentCalls : ~(incCall[d].kind = kind /\ incCall[d].on = x)
registerVars == <<incident, timeline, informed, added>>
forensicVars == <<evidence, case>>
MayBegin(kind, x) == May("overlap") \/ Apart(kind, x)
BeginInc(c, kind, x, arg, pc) ==
    /\ Idle(c) /\ MayBegin(kind, x)
    /\ incCall' = [incCall EXCEPT ![c] = [IdleIncCall EXCEPT !.kind = kind, !.on = x,
                                                             !.arg = arg, !.pc = pc]]
    /\ UNCHANGED <<registerVars, forensicVars>>

-----------------------------------------------------------------------------
(* createIncident.                                                         *)

CreateIncident(c, urgent) ==
    /\ Idle(c)
    /\ incCall' = [incCall EXCEPT ![c].kind = "create", ![c].urgent = urgent, ![c].pc = "number"]
    /\ UNCHANGED <<registerVars, forensicVars>>

\* generate_incident_number: the largest number plus one; an error leaves none, and the
\* insert fails.
GenerateIncidentNumber(c) ==
    /\ incCall[c].pc = "number"
    /\ LET used == {n \in Numbers : incident[n].status # None}
           n == Cardinality(used) + 1
       IN IF n \in Numbers THEN incCall' = [incCall EXCEPT ![c].pc = "insert", ![c].on = n]
          ELSE IncEnds(c)
    /\ UNCHANGED <<registerVars, forensicVars>>

\* findPlaybook may find none, or fail; another request may have taken the number.
InsertIncident(c) ==
    /\ incCall[c].pc = "insert"
    /\ LET n == incCall[c].on IN
       \/ /\ incident[n].status = None
          /\ \E sla \in IF May("sla") THEN BOOLEAN ELSE {FALSE} :
                incident' = [incident EXCEPT ![n] = [NoIncident EXCEPT
                    !.status = "DETECTED", !.urgent = incCall[c].urgent, !.sla = sla]]
          /\ IncAt(c, "event")
       \/ (incident[n].status # None \/ IncWritesFail) /\ IncEnds(c) /\ UNCHANGED incident
    /\ UNCHANGED <<timeline, informed, added, forensicVars>>

\* autoAssignOnCallTeam: nobody may be on call; the error of the write is not looked at.
\* Mutated form: a low severity is assigned, an urgent one not.
AssignsCalm(urgent) == ~urgent
Assigns(urgent) == urgent
GetOnCallTeam(c) ==
    /\ incCall[c].pc = "team"
    /\ \/ IncAt(c, "commander")
       \/ (May("unstaffed") \/ IncReadsFail) /\ IncEnds(c)
    /\ UNCHANGED <<registerVars, forensicVars>>
AutoAssignOnCallTeam(c) ==
    /\ incCall[c].pc = "commander"
    /\ \/ incident' = [incident EXCEPT ![incCall[c].on].commander = TRUE]
       \/ IncWritesFail /\ UNCHANGED incident
    /\ IncEnds(c)
    /\ UNCHANGED <<timeline, informed, added, forensicVars>>

-----------------------------------------------------------------------------
(* Requests about an incident: read, write by what was read, tell.         *)

\* What is asked for can be done to the incident as it was read.  Mutated form: any
\* status is taken.
AllowedAny(call, row) == row.status # None
Allowed(call, row) ==
    /\ row.status # None
    /\ call.kind = "status" => call.arg \in ValidTransitions[row.status]
    /\ call.kind = "escalate" => call.level > row.level

AmendIncident(c, kind, n, arg) == May(kind) /\ BeginInc(c, kind, n, arg, "read")
EscalateIncident(c, n, level) ==
    /\ May("escalate") /\ Idle(c) /\ MayBegin("escalate", n)
    /\ incCall' = [incCall EXCEPT ![c] = [IdleIncCall EXCEPT !.kind = "escalate", !.on = n,
                                                             !.level = level, !.pc = "read"]]
    /\ UNCHANGED <<registerVars, forensicVars>>
AddItem(c, n, t) ==
    /\ May("items") /\ t \notin added /\ \A d \in IncidentCalls : incCall[d].arg # t
    /\ BeginInc(c, "items", n, t, "read")

\* addIndicatorsOfCompromise: the column it spreads is no array by default, nothing makes it
\* one, and the request throws before it writes.
AddIndicators(c, n) == May("indicators") /\ BeginInc(c, "indicators", n, None, "read")
SpreadIndicators(c) ==
    /\ incCall[c].pc = "read" /\ incCall[c].kind = "indicators" /\ IncEnds(c)
    /\ UNCHANGED <<registerVars, forensicVars>>

GetIncident(c) ==
    /\ incCall[c].pc = "read" /\ incCall[c].kind \in Amendments
    /\ LET row == incident[incCall[c].on] IN
       \/ /\ Allowed(incCall[c], row)
          /\ incCall' = [incCall EXCEPT ![c].pc = "write",
                ![c].status = IF incCall[c].kind = "status" THEN row.status ELSE None,
                ![c].listed = IF incCall[c].kind = "items" THEN row.items ELSE {}]
       \/ (~Allowed(incCall[c], row) \/ IncReadsFail) /\ IncEnds(c)
    /\ UNCHANGED <<registerVars, forensicVars>>

\* check_incident_sla_breach, before every update of a row; triaged: triaged_at is set now.
Checked(row, triaged) ==
    [row EXCEPT !.breached = @ \/ (triaged /\ row.sla /\ row.late)]
\* The columns that are written: the list of items is the one read, with the new one.
\* Mutated form: it replaces the list.
AmendedAfresh(call, row) == [row EXCEPT !.items = {call.arg}]
Appended(call, row) == [row EXCEPT !.items = call.listed \cup {call.arg}]
Amended(call, row) ==
    CASE call.kind = "status" -> Checked([row EXCEPT !.status = call.arg], call.arg = "TRIAGED")
      [] call.kind = "assign" -> [row EXCEPT !.commander = TRUE]
      [] call.kind = "escalate" -> [row EXCEPT !.level = call.level]
      [] call.kind = "items" -> Appended(call, row)
      [] call.kind = "pta" -> [row EXCEPT !.reported = TRUE]
\* Only the report to PTA goes on when its write fails.
UpdateIncident(c) ==
    /\ incCall[c].pc = "write" /\ incCall[c].kind \in Amendments
    /\ \/ /\ incident' = [incident EXCEPT ![incCall[c].on] = Amended(incCall[c], @)]
          /\ added' = IF incCall[c].kind = "items" THEN added \cup {incCall[c].arg} ELSE added
          /\ IncAt(c, "event")
       \/ /\ IncWritesFail /\ UNCHANGED <<incident, added>>
          /\ IF incCall[c].kind = "pta" THEN IncAt(c, "event") ELSE IncEnds(c)
    /\ UNCHANGED <<timeline, informed, forensicVars>>

\* addTimelineEvent; a status is told with the one it was read to follow.  Mutated form:
\* it is told by the row as it is now.
ToldNow(call) == incident[call.on].status
ToldFrom(call) == call.status
AfterEvent(call) == IF call.kind = "create" /\ Assigns(call.urgent) THEN "team"
                    ELSE IF call.kind = "pta" THEN "comm" ELSE "idle"
AddTimelineEvent(c) ==
    /\ incCall[c].pc = "event"
    /\ LET call == incCall[c] IN
       \/ /\ timeline' = IF call.kind # "status" THEN timeline ELSE
                [timeline EXCEPT ![call.on] =
                    [last |-> call.arg, gap |-> @.gap \/ ToldFrom(call) # @.last]]
          /\ IF AfterEvent(call) = "idle" THEN IncEnds(c) ELSE IncAt(c, AfterEvent(call))
       \/ IncWritesFail /\ UNCHANGED timeline /\ IncEnds(c)
    /\ UNCHANGED <<incident, informed, added, forensicVars>>

LogCommunication(c) ==
    /\ incCall[c].pc = "comm"
    /\ \/ informed' = informed \cup {incCall[c].on}
       \/ IncWritesFail /\ UNCHANGED informed
    /\ IncEnds(c)
    /\ UNCHANGED <<incident, timeline, added, forensicVars>>

ResponseTimePasses(n) ==
    /\ incident[n].status # None /\ incident[n].sla /\ ~incident[n].late
    /\ incident' = [incident EXCEPT ![n].late = TRUE]
    /\ UNCHANGED <<timeline, informed, added, forensicVars, incCall>>

-----------------------------------------------------------------------------
(* Evidence and cases.                                                     *)

\* The row is the request's own.
CollectEvidence(c, e) ==
    ~evidence[e].exists /\ Apart("collect", e) /\ BeginInc(c, "collect", e, None, "write")
InsertEvidence(c) ==
    /\ incCall[c].pc = "write" /\ incCall[c].kind = "collect"
    /\ \/ /\ evidence' = [evidence EXCEPT ![incCall[c].on].exists = TRUE,
                                          ![incCall[c].on].verified = TRUE]
          /\ IncAt(c, "custody")
       \/ IncWritesFail /\ IncEnds(c) /\ UNCHANGED evidence
    /\ UNCHANGED <<registerVars, case>>
\* addChainOfCustodyEntry; its error is not looked at.
StartCustody(c) ==
    /\ incCall[c].pc = "custody"
    /\ \/ evidence' = [evidence EXCEPT ![incCall[c].on].started = TRUE]
       \/ IncWritesFail /\ UNCHANGED evidence
    /\ IncEnds(c)
    /\ UNCHANGED <<registerVars, case>>

\* verifyEvidenceIntegrity, transferCustody, addEvidenceToCase, updateForensicCaseStatus.
Examine(c, kind, x, arg) ==
    /\ kind = "verify" => MayBegin("transfer", x)
    /\ kind = "transfer" => MayBegin("verify", x)
    /\ BeginInc(c, kind, x, arg, "read")
Known(call) == IF call.kind \in {"verify", "transfer"} THEN evidence[call.on].exists
               ELSE case[call.on].status # None
ReadForExamination(c) ==
    /\ incCall[c].pc = "read" /\ incCall[c].kind \in Examinations
    /\ \/ /\ Known(incCall[c])
          /\ incCall' = [incCall EXCEPT ![c].pc = "write",
                ![c].verified = /\ incCall[c].kind = "transfer"
                                /\ evidence[incCall[c].on].verified,
                ![c].listed = IF incCall[c].kind = "list" THEN case[incCall[c].on].listed ELSE {}]
       \/ (~Known(incCall[c]) \/ IncReadsFail) /\ IncEnds(c)
    /\ UNCHANGED <<registerVars, forensicVars>>

\* The hash presented is that of the file; a transfer tells the last check as read.
\* Mutated form: a transfer always says that the evidence is intact.
TellsIntact(call) == TRUE
Tells(call) == call.verified
Examined(call, row) ==
    IF call.kind = "verify" THEN [row EXCEPT !.verified = ~row.altered]
    ELSE [row EXCEPT !.untold = @ \/ (Tells(call) /\ ~row.verified)]
WriteExamination(c) ==
    /\ incCall[c].pc = "write" /\ incCall[c].kind \in {"verify", "transfer"}
    /\ \/ evidence' = [evidence EXCEPT ![incCall[c].on] = Examined(incCall[c], @)]
       \/ IncWritesFail /\ UNCHANGED evidence
    /\ IncEnds(c)
    /\ UNCHANGED <<registerVars, case>>

SetLegalHold(e, hold) ==
    /\ evidence[e].exists /\ evidence[e].hold # hold
    /\ evidence' = [evidence EXCEPT ![e].hold = hold]
    /\ UNCHANGED <<registerVars, case, incCall>>
EvidenceIsAltered(e) ==
    /\ evidence[e].exists /\ ~evidence[e].altered
    /\ evidence' = [evidence EXCEPT ![e].altered = TRUE]
    /\ UNCHANGED <<registerVars, case, incCall>>

AddForensicActivity(c, e) ==
    /\ evidence[e].exists /\ evidence[e].activity = "none" /\ Apart("activity", e)
    /\ BeginInc(c, "activity", e, None, "write")
\* Mutated form: the error of the insert is not looked at.
InsertActivityBlind(c) ==
    /\ incCall[c].pc = "write" /\ incCall[c].kind = "activity"
    /\ \/ evidence' = [evidence EXCEPT ![incCall[c].on].activity = "recorded"]
       \/ IncWritesFail /\ UNCHANGED evidence
    /\ IncAt(c, "mark")
    /\ UNCHANGED <<registerVars, case>>
InsertActivity(c) ==
    /\ incCall[c].pc = "write" /\ incCall[c].kind = "activity"
    /\ \/ /\ evidence' = [evidence EXCEPT ![incCall[c].on].activity = "recorded"]
          /\ IncAt(c, "mark")
       \/ IncWritesFail /\ IncEnds(c) /\ UNCHANGED evidence
    /\ UNCHANGED <<registerVars, case>>
\* The error of this write is not looked at.
MarkAnalyzed(c) ==
    /\ incCall[c].pc = "mark"
    /\ \/ evidence' = [evidence EXCEPT ![incCall[c].on].analyzed = TRUE]
       \/ IncWritesFail /\ UNCHANGED evidence
    /\ IncEnds(c)
    /\ UNCHANGED <<registerVars, case>>
\* By anybody, the performer included.
PeerReviewActivity(e) ==
    /\ evidence[e].activity # "none"
    /\ evidence' = [evidence EXCEPT ![e].activity = "reviewed"]
    /\ UNCHANGED <<registerVars, case, incCall>>

CreateForensicCase(f) ==
    /\ case[f].status = None
    /\ \E E \in SUBSET Evidence :
          case' = [case EXCEPT ![f].status = "PENDING", ![f].listed = E, ![f].taken = E]
    /\ UNCHANGED <<registerVars, evidence, incCall>>
\* The list of evidence is the one read, with the new piece; a status is any.
Recorded(call, row) ==
    IF call.kind = "list"
    THEN [row EXCEPT !.listed = call.listed \cup {call.arg}, !.taken = @ \cup {call.arg}]
    ELSE [row EXCEPT !.status = call.arg, !.begun = @ \/ call.arg = "IN_PROGRESS"]
UpdateCase(c) ==
    /\ incCall[c].pc = "write" /\ incCall[c].kind \in {"list", "move"}
    /\ \/ case' = [case EXCEPT ![incCall[c].on] = Recorded(incCall[c], @)]
       \/ IncWritesFail /\ UNCHANGED case
    /\ IncEnds(c)
    /\ UNCHANGED <<registerVars, evidence>>

IncidentBackendDies ==
    /\ May("crash") /\ \E c \in IncidentCalls : incCall[c].pc # "idle"
    /\ incCall' = [c \in IncidentCalls |-> IdleIncCall]
    /\ UNCHANGED <<registerVars, forensicVars>>

IncidentStep(c) ==
    \/ GenerateIncidentNumber(c) \/ InsertIncident(c) \/ GetOnCallTeam(c)
    \/ AutoAssignOnCallTeam(c) \/ GetIncident(c) \/ SpreadIndicators(c) \/ UpdateIncident(c)
    \/ AddTimelineEvent(c) \/ LogCommunication(c) \/ InsertEvidence(c) \/ StartCustody(c)
    \/ ReadForExamination(c) \/ WriteExamination(c) \/ UpdateCase(c)
    \/ InsertActivity(c) \/ MarkAnalyzed(c)

IncidentNext ==
    \/ /\ May("incidents")
       /\ \/ \E c \in IncidentCalls, urgent \in BOOLEAN : CreateIncident(c, urgent)
          \/ \E c \in IncidentCalls, n \in Numbers :
                \/ \E s \in IncidentStatus : AmendIncident(c, "status", n, s)
                \/ \E l \in 1..MaxLevel : EscalateIncident(c, n, l)
                \/ AmendIncident(c, "assign", n, None) \/ AmendIncident(c, "pta", n, None)
                \/ AddIndicators(c, n) \/ \E t \in Items : AddItem(c, n, t)
          \/ \E n \in Numbers : ResponseTimePasses(n)
    \/ /\ May("custody")
       /\ \/ \E c \in IncidentCalls, e \in Evidence :
                \/ CollectEvidence(c, e)
                \/ Examine(c, "verify", e, None) \/ Examine(c, "transfer", e, None)
          \/ \E e \in Evidence : \/ EvidenceIsAltered(e)
                                 \/ \E hold \in BOOLEAN : SetLegalHold(e, hold)
    \/ /\ May("activities")
       /\ \E e \in Evidence :
             \/ \E c \in IncidentCalls : CollectEvidence(c, e) \/ AddForensicActivity(c, e)
             \/ PeerReviewActivity(e)
    \/ /\ May("cases")
       /\ \/ \E f \in Cases : CreateForensicCase(f)
          \/ \E c \in IncidentCalls, f \in Cases :
                \/ \E e \in Evidence : Examine(c, "list", f, e)
                \/ \E s \in ForensicStatus : Examine(c, "move", f, s)
    \/ IncidentBackendDies
    \/ \E c \in IncidentCalls : IncidentStep(c)

-----------------------------------------------------------------------------
(* Properties.                                                             *)

IncidentTypeOK ==
    /\ incident \in [Numbers -> SecurityIncident] /\ timeline \in [Numbers -> IncidentTimeline]
    /\ informed \subseteq Numbers /\ added \subseteq Items
    /\ evidence \in [Evidence -> DigitalEvidence] /\ case \in [Cases -> ForensicCase]
    /\ incCall \in [IncidentCalls -> IncidentCall]

CalmIncidents == ~IncWritesFail /\ ~IncReadsFail /\ ~May("crash")

\* Where nothing fails and changes of the status do not overlap, the timeline tells every
\* status an incident had, each after the one before, up to the present one, whatever else is
\* done to the incident meanwhile (updateIncidentStatus, 'Chronological record of all incident
\* activities').
TimelineIsComplete ==
    CalmIncidents /\ ~May("overlap") => \A n \in Numbers :
        /\ ~timeline[n].gap
        /\ incident[n].status # None
             /\ (\A c \in IncidentCalls : ~(incCall[c].kind = "status" /\ incCall[c].on = n
                                              /\ incCall[c].pc = "event"))
           => timeline[n].last = incident[n].status

\* An urgent incident has a commander once its creation is over, if somebody is on call
\* and nothing fails (autoAssignOnCallTeam).
UrgentIsCommanded ==
    CalmIncidents /\ ~May("unstaffed") => \A n \in Numbers :
        incident[n].status # None /\ incident[n].urgent
          /\ (\A c \in IncidentCalls : ~(incCall[c].kind = "create" /\ incCall[c].on = n))
        => incident[n].commander

\* Where additions to one row do not overlap, a remediation action or a piece of evidence
\* whose addition was answered stays, through changes of other kinds to the row that overlap
\* it, and whatever is lost or cut short (addRemediationAction, addEvidenceToCase).  Of two
\* additions to one row that overlap, the later write loses the other.
NothingAddedIsLost ==
    ~May("overlap") => /\ \A t \in added : \E n \in Numbers : t \in incident[n].items
                       /\ \A f \in Cases : case[f].taken \subseteq case[f].listed

\* The chain of custody tells every check that failed before a transfer, where checks and
\* transfers of the piece do not overlap; it begins with the collection unless its row is lost
\* (transferCustody, collectEvidence); what counts as analysed has an activity, whatever
\* overlaps and is lost on the way (addForensicActivity).
CustodyIsTrue ==
    \A e \in Evidence :
        /\ ~May("overlap") => ~evidence[e].untold
        /\ evidence[e].analyzed => evidence[e].activity # "none"
        /\ CalmIncidents /\ evidence[e].exists /\ Apart("collect", e) => evidence[e].started

Follows(n) == incident'[n].status \in {incident[n].status} \cup ValidTransitions[incident[n].status]

\* Where changes of one kind do not overlap, an incident moves along the valid transitions,
\* and its level of escalation never falls, through requests that fail or are cut short and
\* changes of other kinds (validateStatusTransition, escalateIncident).  Two changes of the
\* status that overlap are both checked on the old one, and the second may follow no more.
IncidentsMoveOn ==
    [][~May("overlap") => \A n \in Numbers :
         incident[n].status # None => Follows(n) /\ incident'[n].level >= incident[n].level
      ]_incidentVars
=============================================================================
