----------------------------- MODULE AuditTrail -----------------------------
(***************************************************************************)
(* The audit log's way to the SIEM systems (siem-forwarder.service.ts,     *)
(* audit-logging.service.ts) and alerts (alert.service.ts).  The flags     *)
(* "queue" and "alerts" say which of the two a history is about.           *)
(***************************************************************************)
EXTENDS Histories, Integers, FiniteSets, Sequences, SequencesExt

CONSTANTS
    Entries,       \* rows of siem_queue, each for one row of audit_log
    TargetOf,      \* siem_target
    Targets,       \* the configured targets in the order of siemConfigs; there may be none
    MaxRetries,    \* maxRetries of a target
    BatchSize,     \* batchSize
    Evaluations    \* events given to evaluateEvent (no caller in the repository)

ASSUME AuditTrailAssumption ==
    /\ TargetOf \in [Entries -> {"elasticsearch", "splunk", "sentinel"}]
    /\ Targets \in Seq({"elasticsearch", "splunk", "sentinel"})
    /\ MaxRetries \in [Range(Targets) -> Nat \ {0}] /\ BatchSize \in Nat \ {0}

VARIABLES
    queue,      \* siem_queue
    round,      \* processQueue; isProcessing is round.pc # "idle", but see Throws
    taken,      \* entries a SIEM received (external)
    marked,     \* audit_log rows marked forwarded_to_siem
    rule,       \* the row of the alert rule considered
    cache,      \* alertRulesCache with its rule, and whether younger than its TTL
    evaluation, \* calls of evaluateEvent
    alerts      \* rows of alert_history since the cooldown began, and since disabling

queueVars == <<queue, round, taken, marked>>
alertVars == <<rule, cache, evaluation, alerts>>
trailVars == <<queueVars, alertVars>>

SiemQueueStatus == {"none", "pending", "processing", "sent", "dead_letter"}
SiemQueueEntry == [status : SiemQueueStatus, retries : Nat, due : BOOLEAN]
Round == [pc : {"idle", "select", "mark", "send", "results", "audit"},
          left : Seq({"elasticsearch", "splunk", "sentinel"}), items : SUBSET Entries,
          read : [Entries -> Nat], ok : SUBSET Entries, entry : Entries \cup {None}]
IdleRound == [pc |-> "idle", left |-> <<>>, items |-> {}, read |-> [q \in Entries |-> 0],
              ok |-> {}, entry |-> None]
AlertRule == [active : BOOLEAN, cooling : BOOLEAN]
Evaluation == [pc : {"idle", "load", "cache", "count", "insert", "update", "notify", "done"},
               rule : AlertRule \cup {None}, early : BOOLEAN]

TrailInit ==
    /\ queue = [q \in Entries |-> [status |-> "none", retries |-> 0, due |-> FALSE]]
    /\ round = IdleRound
    /\ taken = {} /\ marked = {}
    /\ rule = [active |-> TRUE, cooling |-> FALSE]
    /\ cache = [rule |-> None, fresh |-> FALSE]
    /\ evaluation = [v \in Evaluations |-> [pc |-> "idle", rule |-> None, early |-> FALSE]]
    /\ alerts = [cooled |-> 0, disabled |-> FALSE]

-----------------------------------------------------------------------------
(* Rows come and become due.                                               *)

\* The trigger queue_for_siem, for what is logged as an error or of high risk, and
\* queueForSiem.
Enqueue(q) ==
    /\ queue[q].status = "none"
    /\ queue' = [queue EXCEPT ![q] = [status |-> "pending", retries |-> 0, due |-> TRUE]]
    /\ UNCHANGED <<round, taken, marked>>

RetryDelayPasses(q) ==
    /\ queue[q].status = "pending" /\ ~queue[q].due
    /\ queue' = [queue EXCEPT ![q].due = TRUE]
    /\ UNCHANGED <<round, taken, marked>>

RetryDeadLetterItems ==
    /\ May("again")
    /\ \E q \in Entries : queue[q].status = "dead_letter"
    /\ queue' = [q \in Entries |-> IF queue[q].status = "dead_letter"
                   THEN [status |-> "pending", retries |-> 0, due |-> TRUE] ELSE queue[q]]
    /\ UNCHANGED <<round, taken, marked>>

-----------------------------------------------------------------------------
(* processQueue.                                                           *)

ProcessQueue ==
    /\ round.pc = "idle" /\ Targets # <<>>
    /\ round' = [IdleRound EXCEPT !.pc = "select", !.left = Targets]
    /\ UNCHANGED <<queue, taken, marked>>

\* After a target comes the next; round' = IdleRound ends isProcessing.
NextTarget == IF Len(round.left) > 1 THEN [IdleRound EXCEPT !.pc = "select", !.left = Tail(round.left)]
              ELSE IdleRound
\* An exception leaves the loop over the targets.  Mutated form: without finally the flag
\* isProcessing stays.
ThrowsFlagged == round' = [round EXCEPT !.pc = "audit", !.entry = None]
Throws == round' = IdleRound

Due(t) == {q \in Entries : TargetOf[q] = t /\ queue[q].status = "pending" /\ queue[q].due}

\* The order of the batch, by priority and schedule, is left open.
SelectPending ==
    /\ round.pc = "select"
    /\ LET t == Head(round.left) IN
         \/ /\ Due(t) = {} \/ May("reads")
            /\ round' = NextTarget
         \/ \E S \in SUBSET Due(t) :
              /\ S # {} /\ Cardinality(S) <= BatchSize
              /\ S # Due(t) => Cardinality(S) = BatchSize
              /\ round' = [round EXCEPT !.pc = "mark", !.items = S,
                             !.read = [q \in Entries |-> IF q \in S THEN queue[q].retries ELSE 0]]
    /\ UNCHANGED <<queue, taken, marked>>

\* Errors of updates are not looked at.
MarkProcessing ==
    /\ round.pc = "mark"
    /\ \/ queue' = [q \in Entries |-> IF q \in round.items
                      THEN [queue[q] EXCEPT !.status = "processing"] ELSE queue[q]]
       \/ May("writes") /\ UNCHANGED queue
    /\ round' = [round EXCEPT !.pc = "send"]
    /\ UNCHANGED <<taken, marked>>

\* Elasticsearch and Splunk answer for every item, Sentinel for the batch; an answer may
\* be lost.  Sentinel's signature needs a key and is made outside the try.
Accepted(t, S) == IF t = "sentinel" THEN {{}, S} ELSE SUBSET S
SendToSiemTarget ==
    /\ round.pc = "send"
    /\ LET t == Head(round.left) IN
         IF t = "sentinel" /\ May("nokey") THEN Throws /\ UNCHANGED taken
         ELSE \E S \in Accepted(t, round.items) :
                 /\ taken' = taken \cup S
                 /\ \E ok \in {S} \cup (IF May("answers") THEN {{}} ELSE {}) :
                       round' = [round EXCEPT !.pc = "results", !.ok = ok]
    /\ UNCHANGED <<queue, marked>>

\* The outcome of a failing item.  Mutated forms: items are given up at once; they are
\* left in a status that no query looks for.
AfterSiemFailureFailed(q, n) == [status |-> "failed", retries |-> n, due |-> FALSE]
AfterFailureAtOnce(q, n) == [status |-> "dead_letter", retries |-> n, due |-> FALSE]
AfterSiemFailure(q, n) ==
    [status |-> IF n >= MaxRetries[TargetOf[q]] THEN "dead_letter" ELSE "pending",
     retries |-> n, due |-> FALSE]

\* One update per result; an accepted item has its audit_log row marked after it.
\* Mutated form: all results are taken for success.
OutcomeTrusting(q) == [queue[q] EXCEPT !.status = "sent"]
Outcome(q) == IF q \in round.ok THEN [queue[q] EXCEPT !.status = "sent"]
              ELSE AfterSiemFailure(q, round.read[q] + 1)
UpdateResult ==
    /\ round.pc = "results"
    /\ \E q \in round.items :
         /\ queue' = [queue EXCEPT ![q] = Outcome(q)] \/ (May("writes") /\ UNCHANGED queue)
         /\ round' = IF q \in round.ok THEN [round EXCEPT !.pc = "audit", !.entry = q]
                     ELSE IF round.items = {q} THEN NextTarget
                     ELSE [round EXCEPT !.items = @ \ {q}]
    /\ UNCHANGED <<taken, marked>>

MarkAuditLog ==
    /\ round.pc = "audit" /\ round.entry # None
    /\ marked' = marked \cup {round.entry} \/ (May("writes") /\ marked' = marked)
    /\ round' = IF round.items = {round.entry} THEN NextTarget
                ELSE [round EXCEPT !.pc = "results", !.items = @ \ {round.entry}, !.entry = None]
    /\ UNCHANGED <<queue, taken>>

ForwarderDies ==
    /\ May("crash") /\ round.pc # "idle"
    /\ round' = IdleRound
    /\ UNCHANGED <<queue, taken, marked>>

RoundStep == SelectPending \/ MarkProcessing \/ SendToSiemTarget \/ UpdateResult \/ MarkAuditLog

-----------------------------------------------------------------------------
(* Alerts.  Every event matches the rule and reaches its threshold.        *)

\* In serial histories calls do not overlap.
Resting(v) == evaluation[v].pc \in {"idle", "done"}
Serial == May("serial") => \A v \in Evaluations : Resting(v)
NoCache == [rule |-> None, fresh |-> FALSE]
EvalAt(v, pc) == evaluation' = [evaluation EXCEPT ![v].pc = pc]
EvalDone(v) == evaluation' = [evaluation EXCEPT ![v] = [pc |-> "done", rule |-> None, early |-> FALSE]]

\* evaluateEvent, getActiveRules: from the cache, or from the table.  early tells whether
\* the rule was active at any time since the call began (a history variable).
EvaluateEvent(v) ==
    /\ evaluation[v].pc = "idle" /\ Serial
    /\ evaluation' = [evaluation EXCEPT ![v] =
         IF cache.fresh /\ cache.rule # None
         THEN [pc |-> "count", rule |-> cache.rule, early |-> rule.active]
         ELSE [pc |-> "load", rule |-> None, early |-> rule.active]]
    /\ UNCHANGED <<rule, cache, alerts>>

LoadRules(v) ==
    /\ evaluation[v].pc = "load"
    /\ \/ evaluation' = [evaluation EXCEPT ![v] =
                            [pc |-> "cache", rule |-> IF rule.active THEN rule ELSE None,
                             early |-> evaluation[v].early]]
       \/ May("reads") /\ EvalDone(v)
    /\ UNCHANGED <<rule, cache, alerts>>

CacheRules(v) ==
    /\ evaluation[v].pc = "cache"
    /\ cache' = [rule |-> evaluation[v].rule, fresh |-> TRUE]
    /\ IF evaluation[v].rule = None THEN EvalDone(v) ELSE EvalAt(v, "count")
    /\ UNCHANGED <<rule, alerts>>

\* checkThresholdAndAlert: the cooldown by the rule as it was loaded, then the count.
CheckThreshold(v) ==
    /\ evaluation[v].pc = "count"
    /\ IF evaluation[v].rule.cooling THEN EvalDone(v)
       ELSE EvalAt(v, "insert") \/ (May("reads") /\ EvalDone(v))
    /\ UNCHANGED <<rule, cache, alerts>>

InsertAlert(v) ==
    /\ evaluation[v].pc = "insert"
    /\ \/ /\ alerts' = [cooled |-> IF alerts.cooled < 2 THEN alerts.cooled + 1 ELSE 2,
                        disabled |-> IF evaluation[v].early THEN alerts.disabled ELSE TRUE]
          /\ EvalAt(v, "update")
       \/ May("writes") /\ EvalDone(v) /\ UNCHANGED alerts
    /\ UNCHANGED <<rule, cache>>

\* Mutated form: the rules are not read again after an alert.
UpdateRuleCached(v) ==
    /\ evaluation[v].pc = "update"
    /\ rule' = [rule EXCEPT !.cooling = TRUE]
    /\ EvalAt(v, "notify")
    /\ UNCHANGED <<cache, alerts>>
UpdateRule(v) ==
    /\ evaluation[v].pc = "update"
    /\ rule' = [rule EXCEPT !.cooling = TRUE] \/ (May("writes") /\ UNCHANGED rule)
    /\ cache' = NoCache
    /\ EvalAt(v, "notify")
    /\ UNCHANGED alerts

\* sendNotifications: a channel that fails is noted, the others follow.
SendNotifications(v) ==
    evaluation[v].pc = "notify" /\ EvalDone(v) /\ UNCHANGED <<rule, cache, alerts>>

\* disableRule; its invalidateCache is separated from the update by no other work.
DisableRule ==
    /\ rule.active /\ Serial
    /\ rule' = [rule EXCEPT !.active = FALSE]
    /\ cache' = NoCache
    /\ UNCHANGED <<evaluation, alerts>>

\* CACHE_TTL_MS; the cooldown of the last alert.
CacheAges ==
    cache.fresh /\ cache' = [cache EXCEPT !.fresh = FALSE] /\ UNCHANGED <<rule, evaluation, alerts>>
CooldownEnds ==
    /\ rule.cooling
    /\ rule' = [rule EXCEPT !.cooling = FALSE]
    /\ alerts' = [alerts EXCEPT !.cooled = 0]
    /\ UNCHANGED <<cache, evaluation>>

EvaluationStep(v) == \/ LoadRules(v) \/ CacheRules(v) \/ CheckThreshold(v)
                     \/ InsertAlert(v) \/ UpdateRule(v) \/ SendNotifications(v)

TrailNext ==
    \/ /\ May("queue") /\ UNCHANGED alertVars
       /\ \/ \E q \in Entries : Enqueue(q) \/ RetryDelayPasses(q)
          \/ RetryDeadLetterItems
          \/ ProcessQueue
          \/ RoundStep
          \/ ForwarderDies
    \/ /\ May("alerts") /\ UNCHANGED queueVars
       /\ \/ \E v \in Evaluations : EvaluateEvent(v) \/ EvaluationStep(v)
          \/ DisableRule \/ CacheAges \/ CooldownEnds

\* The scheduler starts a round every 30 seconds; requests to a SIEM time out.
TrailFairness ==
    /\ WF_trailVars(May("queue") /\ ProcessQueue /\ UNCHANGED alertVars)
    /\ WF_trailVars(May("queue") /\ RoundStep /\ UNCHANGED alertVars)
    /\ \A q \in Entries : WF_trailVars(May("queue") /\ RetryDelayPasses(q) /\ UNCHANGED alertVars)

-----------------------------------------------------------------------------
(* Properties.                                                             *)

TrailTypeOK ==
    /\ queue \in [Entries -> SiemQueueEntry]
    /\ round \in Round
    /\ taken \subseteq Entries /\ marked \subseteq Entries
    /\ rule \in AlertRule
    /\ cache \in [rule : AlertRule \cup {None}, fresh : BOOLEAN]
    /\ evaluation \in [Evaluations -> Evaluation]
    /\ alerts \in [cooled : 0..2, disabled : BOOLEAN]

\* What is called sent, and what the audit log calls forwarded, was taken by the SIEM,
\* although answers are per item or per batch, may be lost, and writes may fail.
SentWasTaken ==
    /\ \A q \in Entries : queue[q].status = "sent" => q \in taken
    /\ marked \subseteq taken

\* An entry is given up only after as many failures as its target allows; what is asked
\* to be tried again begins anew (processQueueForTarget, retryDeadLetterItems).
GivenUpLate ==
    \A q \in Entries :
       queue[q].status = "dead_letter" => queue[q].retries = MaxRetries[TargetOf[q]]

\* Every entry is sent or given up, if the writes succeed, the forwarder lives on and
\* nobody revives given-up entries for ever, which may come first in every batch; a target
\* whose sending throws does not stop the rounds to come.
EntriesAreSettled ==
    \A q \in Entries :
       queue[q].status = "pending" ~>
          \/ queue[q].status \in {"sent", "dead_letter"}
          \/ allowed \cap {"writes", "reads", "crash", "again"} # {}
          \/ TargetOf[q] = "sentinel" /\ May("nokey")

\* Where calls do not overlap and writes succeed, a rule alerts once in a cooldown, and
\* not once it is disabled, although rules are cached for a minute.
RulesAreObeyed ==
    May("serial") /\ ~May("writes") => alerts.cooled <= 1 /\ ~alerts.disabled
=============================================================================
