---------------------------- MODULE UserSessions ----------------------------
(***************************************************************************)
(* The sessions of one user, what is recorded of them and how they end     *)
(* (access-control.service.ts; startSession, updateSessionActivity and     *)
(* logSessionAction have no caller in the repository).  The flags          *)
(* "sessions", "ends" and "actions" say what a history is about.           *)
(***************************************************************************)
EXTENDS Histories, Integers, FiniteSets, Sequences, SequencesExt

CONSTANTS
    Logins,         \* calls of startSession; a session has the name of its login
    MaxConcurrent,  \* of the user's roles; startSession takes no more than 10
    SessionActions  \* calls of logSessionAction for one session

ASSUME UserSessionsAssumption ==
    IsFiniteSet(Logins) /\ MaxConcurrent \in 1..10 /\ None \notin Logins \cup SessionActions

VARIABLES
    session,   \* user_sessions: state, 30 minutes after last_activity_at, after
               \* expires_at, risk
    started,   \* the sessions by started_at, those not inserted (yet) included
    inserted,  \* the rows of user_sessions by their insert
    login,     \* the calls of startSession
    baseline,  \* total_logins, 0 without a row
    anomalies, \* sessions with rows in access_anomalies
    acts,      \* session_actions by id: the action and its previous_hash
    acting     \* the calls of logSessionAction

sessionVars == <<session, started, inserted, login, baseline, anomalies, acts, acting>>

FetchFails == May("reads")
PatchFails == May("writes")
SessionEndReason == {"none", "open", "FORCED", "LIMIT", "TIMEOUT", "EXPIRED"}
UserSession == [state : SessionEndReason, idle : BOOLEAN, late : BOOLEAN, risky : BOOLEAN]
Login == [pc : {"idle", "sessions", "end", "stamp", "insert", "detect", "risk", "anomaly",
                "baseline", "update", "done", "failed"},
          oldest : Logins \cup {None}, seen : Nat]
SessionAction == [act : SessionActions, prev : SessionActions \cup {None}]
Acting == [pc : {"idle", "read", "insert", "touch", "done"}, prev : SessionActions \cup {None}]

SessionInit ==
    /\ session = [s \in Logins |-> [state |-> "none", idle |-> FALSE, late |-> FALSE,
                                    risky |-> FALSE]]
    /\ started = <<>> /\ inserted = <<>>
    /\ login = [s \in Logins |-> [pc |-> "idle", oldest |-> None, seen |-> 0]]
    /\ baseline = 0 /\ anomalies = {}
    /\ acts = <<>>
    /\ acting = [x \in SessionActions |-> [pc |-> "idle", prev |-> None]]

\* What is still to come matters only to open sessions.
Ended(w, reason) == [w EXCEPT !.state = reason, !.idle = FALSE, !.late = FALSE]
Open == {s \in Logins : session[s].state = "open"}
AtRest == /\ \A s \in Logins : login[s].pc \in {"idle", "done", "failed"}
          /\ \A x \in SessionActions : acting[x].pc \in {"idle", "done"}
OneByOne == May("serial") => AtRest
\* Calls are interchangeable until they begin.
NextLogin(s) == s = CHOOSE t \in Logins : login[t].pc = "idle"
NextAction(x) == x = CHOOSE y \in SessionActions : acting[y].pc = "idle"

LoginAt(s, pc) == login' = [login EXCEPT ![s].pc = pc]
LoginEnds(s, pc) == login' = [login EXCEPT ![s] = [pc |-> pc, oldest |-> None, seen |-> 0]]

-----------------------------------------------------------------------------
(* startSession.                                                           *)

\* getUserRoles comes first; its failure ends the call.
StartSession(s) ==
    /\ login[s].pc = "idle" /\ NextLogin(s) /\ OneByOne
    /\ LoginAt(s, "sessions") \/ (FetchFails /\ LoginEnds(s, "failed"))
    /\ UNCHANGED <<session, started, inserted, baseline, anomalies, acts, acting>>

\* getActiveSessions: a session that is to go is the one that began first.
\* Mutated forms: one session too many; the newest goes.
StartedAt(open) == {i \in DOMAIN started : started[i] \in open}
First(open) == started[CHOOSE i \in StartedAt(open) : \A j \in StartedAt(open) : i <= j]
Newest(open) == started[CHOOSE i \in StartedAt(open) : \A j \in StartedAt(open) : i >= j]
ChosenOffByOne(open) == IF Cardinality(open) > MaxConcurrent THEN First(open) ELSE None
ChosenNewest(open) == IF Cardinality(open) >= MaxConcurrent THEN Newest(open) ELSE None
Chosen(open) == IF Cardinality(open) >= MaxConcurrent THEN First(open) ELSE None
ReadSessions(s) ==
    /\ login[s].pc = "sessions"
    /\ \/ login' = [login EXCEPT ![s].oldest = Chosen(Open),
                      ![s].pc = IF Chosen(Open) = None THEN "stamp" ELSE "end"]
       \/ FetchFails /\ LoginEnds(s, "failed")
    /\ UNCHANGED <<session, started, inserted, baseline, anomalies, acts, acting>>

\* endSession writes whatever the session has become since; its answer is not looked at.
EndOldest(s) ==
    /\ login[s].pc = "end"
    /\ session' = [session EXCEPT ![login[s].oldest] = Ended(@, "LIMIT")]
         \/ (PatchFails /\ UNCHANGED session)
    /\ LoginAt(s, "stamp")
    /\ UNCHANGED <<started, inserted, baseline, anomalies, acts, acting>>

\* started_at is this service's clock before the row is sent: where logins overlap, rows
\* arrive in another order.
StampSession(s) ==
    /\ login[s].pc = "stamp"
    /\ started' = Append(started, s)
    /\ LoginAt(s, "insert")
    /\ UNCHANGED <<session, inserted, baseline, anomalies, acts, acting>>

InsertSession(s) ==
    /\ login[s].pc = "insert"
    /\ \/ /\ session' = [session EXCEPT ![s].state = "open"]
          /\ inserted' = Append(inserted, s)
          /\ LoginAt(s, "detect")
       \/ PatchFails /\ LoginEnds(s, "failed") /\ UNCHANGED <<session, inserted>>
    /\ UNCHANGED <<started, baseline, anomalies, acts, acting>>

\* detectAnomalies: without a baseline or an ended session nothing is anomalous.
MayBeAnomalous == baseline > 0 \/ \E s \in Logins : session[s].state \notin {"none", "open"}
DetectAnomalies(s) ==
    /\ login[s].pc = "detect"
    /\ \/ May("anomalies") /\ MayBeAnomalous /\ LoginAt(s, "risk")
       \/ LoginAt(s, "baseline")
    /\ UNCHANGED <<session, started, inserted, baseline, anomalies, acts, acting>>

UpdateSessionRisk(s) ==
    /\ login[s].pc = "risk"
    /\ session' = [session EXCEPT ![s].risky = TRUE] \/ (PatchFails /\ UNCHANGED session)
    /\ LoginAt(s, "anomaly")
    /\ UNCHANGED <<started, inserted, baseline, anomalies, acts, acting>>

CreateAnomaly(s) ==
    /\ login[s].pc = "anomaly"
    /\ anomalies' = anomalies \cup {s} \/ (PatchFails /\ UNCHANGED anomalies)
    /\ LoginAt(s, "baseline")
    /\ UNCHANGED <<session, started, inserted, baseline, acts, acting>>

\* updateUserBaseline: a query that fails finds no baseline.
ReadBaseline(s) ==
    /\ login[s].pc = "baseline"
    /\ \E n \in {baseline} \cup (IF FetchFails THEN {0} ELSE {}) :
          login' = [login EXCEPT ![s].pc = "update", ![s].seen = n]
    /\ UNCHANGED <<session, started, inserted, baseline, anomalies, acts, acting>>

\* The new count; a second row for a user is refused.  Mutated form: the count of a new
\* row is left to its default.
CountedUnset(seen, total) == IF seen > 0 THEN seen + 1 ELSE total
Counted(seen, total) == IF seen > 0 THEN seen + 1 ELSE IF total = 0 THEN 1 ELSE total
UpdateBaseline(s) ==
    /\ login[s].pc = "update"
    /\ baseline' = Counted(login[s].seen, baseline) \/ (PatchFails /\ UNCHANGED baseline)
    /\ LoginEnds(s, "done")
    /\ UNCHANGED <<session, started, inserted, anomalies, acts, acting>>

LoginStep(s) == \/ ReadSessions(s) \/ EndOldest(s) \/ StampSession(s) \/ InsertSession(s)
                \/ DetectAnomalies(s) \/ UpdateSessionRisk(s) \/ CreateAnomaly(s) \/ ReadBaseline(s)
                \/ UpdateBaseline(s)

-----------------------------------------------------------------------------
(* How sessions end otherwise.                                             *)

ForceEnd(s) ==
    /\ session[s].state # "none"
    /\ session' = [session EXCEPT ![s] = Ended(@, "FORCED")] \/ (PatchFails /\ UNCHANGED session)
    /\ UNCHANGED <<started, inserted, login, baseline, anomalies, acts, acting>>

\* Half an hour without a write of last_activity_at, eight hours since the start.
TimePasses(s) ==
    /\ session[s].state = "open"
    /\ \/ ~session[s].idle /\ session' = [session EXCEPT ![s].idle = TRUE]
       \/ ~session[s].late /\ session' = [session EXCEPT ![s].late = TRUE]
    /\ UNCHANGED <<started, inserted, login, baseline, anomalies, acts, acting>>

\* expireStaleSessions: one transaction of two updates.  Mutated form: only the second.
ExpiredOnly(w) == IF w.state = "open" /\ w.late THEN Ended(w, "EXPIRED") ELSE w
Expired(w) == IF w.state = "open" /\ w.idle THEN Ended(w, "TIMEOUT")
              ELSE IF w.state = "open" /\ w.late THEN Ended(w, "EXPIRED") ELSE w
ExpireStaleSessions ==
    /\ \E s \in Open : session[s].idle \/ session[s].late
    /\ session' = [s \in Logins |-> Expired(session[s])]
    /\ UNCHANGED <<started, inserted, login, baseline, anomalies, acts, acting>>

-----------------------------------------------------------------------------
(* logSessionAction, for the session that was stored first.                *)

LogAction(x) ==
    /\ acting[x].pc = "idle" /\ NextAction(x) /\ inserted # <<>> /\ OneByOne
    /\ acting' = [acting EXCEPT ![x].pc = "read"]
    /\ UNCHANGED <<session, started, inserted, login, baseline, anomalies, acts>>

\* getLastSessionAction: a query that fails finds none.  Mutated form: the order is not
\* by id, so that any action may come first.
LastActionFirst == IF acts = <<>> THEN None ELSE acts[1].act
LastAction == IF acts = <<>> THEN None ELSE acts[Len(acts)].act
ReadLastAction(x) ==
    /\ acting[x].pc = "read"
    /\ \E h \in {LastAction} \cup (IF FetchFails THEN {None} ELSE {}) :
          acting' = [acting EXCEPT ![x] = [pc |-> "insert", prev |-> h]]
    /\ UNCHANGED <<session, started, inserted, login, baseline, anomalies, acts>>

InsertAction(x) ==
    /\ acting[x].pc = "insert"
    /\ acts' = Append(acts, [act |-> x, prev |-> acting[x].prev]) \/ (PatchFails /\ acts' = acts)
    /\ acting' = [acting EXCEPT ![x].pc = "touch", ![x].prev = None]
    /\ UNCHANGED <<session, started, inserted, login, baseline, anomalies>>

\* updateSessionActivity sends {increment: 1} for the integer actions_count: the database
\* takes no object for an integer and refuses the whole update.
ActivityUpdated(w) == w
UpdateSessionActivity(x) ==
    /\ acting[x].pc = "touch"
    /\ session' = [session EXCEPT ![inserted[1]] = ActivityUpdated(@)]
    /\ acting' = [acting EXCEPT ![x].pc = "done"]
    /\ UNCHANGED <<started, inserted, login, baseline, anomalies, acts>>

ActionStep(x) == ReadLastAction(x) \/ InsertAction(x) \/ UpdateSessionActivity(x)

SessionNext ==
    \/ /\ May("sessions") \/ (May("actions") /\ inserted = <<>> /\ AtRest)
       /\ \E s \in Logins : StartSession(s)
    \/ \E s \in Logins : LoginStep(s)
    \/ May("ends") /\ \E s \in Logins : ForceEnd(s) \/ TimePasses(s)
    \/ May("ends") /\ ExpireStaleSessions
    \/ May("actions") /\ \E x \in SessionActions : LogAction(x)
    \/ \E x \in SessionActions : ActionStep(x)

\* The job runs every five minutes.
SessionFairness == WF_sessionVars(May("ends") /\ ExpireStaleSessions)

-----------------------------------------------------------------------------
(* Properties.                                                             *)

SessionTypeOK ==
    /\ session \in [Logins -> UserSession]
    /\ started \in Seq(Logins) /\ inserted \in Seq(Logins)
    /\ login \in [Logins -> Login]
    /\ baseline \in Nat /\ anomalies \subseteq Logins
    /\ acts \in Seq(SessionAction)
    /\ acting \in [SessionActions -> Acting]

\* Where logins do not overlap and no write fails, a user never has more open sessions
\* than the roles allow, however sessions end in between (startSession).
SessionsBounded == May("serial") /\ ~PatchFails => Cardinality(Open) <= MaxConcurrent

\* A session that was ended for the limit began before every open one, where logins do not
\* overlap.  Where they do, and started_at and the order of the rows differ, it began or was
\* stored before each of them (startSession, getActiveSessions).
Precedes(order, s, t) ==
    \E i, j \in DOMAIN order : i < j /\ order[i] = s /\ order[j] = t
Older(s, t) == Precedes(started, s, t) \/ (~May("serial") /\ Precedes(inserted, s, t))
OldestGoesFirst ==
    \A s, t \in Logins : session[s].state = "LIMIT" /\ session[t].state = "open" => Older(s, t)

\* Where logins do not overlap and nothing fails, the baseline counts them all.
LoginsAreCounted ==
    May("serial") /\ ~FetchFails /\ ~PatchFails /\ AtRest =>
       baseline = Cardinality({s \in Logins : login[s].pc = "done"})

\* A session that is idle, or at the end of its time, ends (expireStaleSessions).
StaleSessionsEnd ==
    \A s \in Logins : session[s].state = "open" /\ (session[s].idle \/ session[s].late) ~>
                         session[s].state # "open"

\* Where actions of a session are logged one after the other, and no query fails, every
\* record names the one before it, also if inserts fail (logSessionAction).
ActionChainIsLinear ==
    May("serial") /\ ~FetchFails => \A i \in DOMAIN acts :
       acts[i].prev = IF i = 1 THEN None ELSE acts[i - 1].act

\* The record is a chain in every history: where calls overlap, actions may name the same
\* one, but never an action whose insert failed.
ActionLinks == {<<acts[i].act, acts[i].prev>> : i \in DOMAIN acts}
ActionsLinear == May("serial") /\ ~FetchFails
ActionChain == INSTANCE HashChain
    WITH links <- ActionLinks, linear <- ActionsLinear, Nothing <- None
ActionsAreChained == ActionChain!Spec
=============================================================================
