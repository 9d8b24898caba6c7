---------------------------- MODULE SecurityLog -----------------------------
(***************************************************************************)
(* The security event log (security-events.service.ts): events are linked  *)
(* to the latest stored one, buffered in memory, inserted in batches and   *)
(* sent to a SIEM every minute.  Flag "events" makes it active.            *)
(***************************************************************************)
EXTENDS Histories, Integers, FiniteSets, Sequences, SequencesExt

CONSTANTS
    SecEvents,     \* events logged in a history (bound)
    BufferSize,    \* BUFFER_SIZE
    ForwardLimit   \* the limit of the forwarder's query

ASSUME SecurityLogAssumption ==
    BufferSize \in Nat \ {0} /\ ForwardLimit \in Nat \ {0} /\ None \notin SecEvents

VARIABLES
    logging,    \* calls of logEvent: where they are and the hash they read
    buffer,     \* eventBuffer
    timer,      \* flushTimeout: "none" (null), set and pending, or set although it fired
    flights,    \* the batches on their way to the database
    stored,     \* security_events by id: event, previous_hash, forwarded_to_siem
    forwarding, \* the forwarder: where it is and the ids it fetched
    siem        \* events the SIEM received (external)

logVars == <<logging, buffer, timer, flights, stored, forwarding, siem>>

\* The hash of a record stands for its event; the first record has none before it.
LogCall == [pc : {"idle", "read", "push", "done", "died"}, prev : SecEvents \cup {None}]
SecurityEvent == [event : SecEvents, prev : SecEvents \cup {None}, forwarded : BOOLEAN]

LogInit ==
    /\ logging = [e \in SecEvents |-> [pc |-> "idle", prev |-> None]]
    /\ buffer = <<>> /\ timer = "none" /\ flights = {}
    /\ stored = <<>>
    /\ forwarding = [pc |-> "idle", ids |-> {}]
    /\ siem = {}

Underway(e) == logging[e].pc \in {"read", "push"}
StoredEvents == {stored[i].event : i \in DOMAIN stored}

-----------------------------------------------------------------------------
(* logEvent.                                                               *)

\* In histories called "slow" an event is logged when the one before is stored.
LogEvent(e) ==
    /\ logging[e].pc = "idle"
    /\ May("slow") => /\ \A f \in SecEvents : ~Underway(f)
                      /\ buffer = <<>> /\ flights = {}
    /\ logging' = [logging EXCEPT ![e].pc = "read"]
    /\ UNCHANGED <<buffer, timer, flights, stored, forwarding, siem>>

\* getLatestEventHash; a failing query means no predecessor.
\* Mutated form: the query has no descending order.
FirstHash == IF stored = <<>> THEN None ELSE stored[1].event
LatestHash == IF stored = <<>> THEN None ELSE stored[Len(stored)].event
ReadLatest(e) ==
    /\ logging[e].pc = "read"
    /\ \E h \in {LatestHash} \cup (IF May("reads") THEN {None} ELSE {}) :
          logging' = [logging EXCEPT ![e] = [pc |-> "push", prev |-> h]]
    /\ UNCHANGED <<buffer, timer, flights, stored, forwarding, siem>>

\* The synchronous beginning of flushEventBuffer: the timer goes, a batch leaves.
\* Mutated form: flushTimeout keeps the timer that fired.
FlushKeepingTimer(events) ==
    /\ timer' = IF timer = "pending" THEN "fired" ELSE timer
    /\ buffer' = <<>>
    /\ flights' = flights \cup (IF events = <<>> THEN {} ELSE {events})
Flush(events) ==
    /\ timer' = "none"
    /\ buffer' = <<>>
    /\ flights' = flights \cup (IF events = <<>> THEN {} ELSE {events})

Push(e) ==
    /\ logging[e].pc = "push"
    /\ LET events == Append(buffer, e) IN
         IF Len(events) >= BufferSize THEN Flush(events)
         ELSE /\ buffer' = events /\ UNCHANGED flights
              /\ timer' = IF timer = "none" THEN "pending" ELSE timer
    /\ logging' = [logging EXCEPT ![e].pc = "done"]
    /\ UNCHANGED <<stored, forwarding, siem>>

TimerFires ==
    /\ timer = "pending" /\ Flush(buffer)
    /\ UNCHANGED <<logging, stored, forwarding, siem>>

\* The batch is inserted as a whole, or rejected as one that holds an event_id already
\* there, or the answer is lost; without an answer of success it goes back to the front.
Rows(batch) == [i \in DOMAIN batch |->
    [event |-> batch[i], prev |-> logging[batch[i]].prev, forwarded |-> FALSE]]
\* Mutated form: a batch that could not be inserted is given up.
ReturnToBufferDropped(batch) == UNCHANGED buffer
ReturnToBuffer(batch) == buffer' = batch \o buffer
Inserted(batch) ==
    /\ batch \in flights
    /\ flights' = flights \ {batch}
    /\ LET fresh == Range(batch) \cap StoredEvents = {} IN
          \/ fresh /\ stored' = stored \o Rows(batch) /\ UNCHANGED buffer
          \/ ~fresh /\ UNCHANGED stored /\ ReturnToBuffer(batch)
          \/ May("writes") /\ UNCHANGED stored /\ ReturnToBuffer(batch)
          \/ fresh /\ May("answers") /\ stored' = stored \o Rows(batch) /\ ReturnToBuffer(batch)
    /\ UNCHANGED <<logging, timer, forwarding, siem>>

-----------------------------------------------------------------------------
(* forwardToSiem.  Runs that overlap read and send as one run after the    *)
(* other does; one is considered.                                          *)

Unforwarded == {i \in DOMAIN stored : ~stored[i].forwarded}
Oldest(ids) == {i \in ids : Cardinality({j \in ids : j < i}) < ForwardLimit}

FetchUnforwarded ==
    /\ forwarding.pc = "idle" /\ Unforwarded # {}
    /\ forwarding' = [pc |-> "send", ids |-> Oldest(Unforwarded)]
    /\ UNCHANGED <<logging, buffer, timer, flights, stored, siem>>

SendToSiem ==
    /\ forwarding.pc = "send"
    /\ \/ /\ siem' = siem \cup {stored[i].event : i \in forwarding.ids}
          /\ forwarding' = [forwarding EXCEPT !.pc = "mark"]
       \/ /\ May("answers")
          /\ siem' \in {siem, siem \cup {stored[i].event : i \in forwarding.ids}}
          /\ forwarding' = [pc |-> "idle", ids |-> {}]
    /\ UNCHANGED <<logging, buffer, timer, flights, stored>>

\* The trigger immutable_security_events raises on every UPDATE of a row, whatever it
\* changes; the answer to the PATCH is not looked at.
UpdateRejected(ids) == UNCHANGED stored
MarkForwarded ==
    /\ forwarding.pc = "mark"
    /\ UpdateRejected(forwarding.ids)
    /\ forwarding' = [pc |-> "idle", ids |-> {}]
    /\ UNCHANGED <<logging, buffer, timer, flights, siem>>

LogServiceDies ==
    /\ May("crash")
    /\ logging' = [e \in SecEvents |-> IF Underway(e) THEN [logging[e] EXCEPT !.pc = "died"]
                                       ELSE logging[e]]
    /\ buffer' = <<>> /\ timer' = "none" /\ flights' = {}
    /\ forwarding' = [pc |-> "idle", ids |-> {}]
    /\ UNCHANGED <<stored, siem>>

LogStep == \/ \E e \in SecEvents : ReadLatest(e) \/ Push(e)
           \/ TimerFires
           \/ \E batch \in flights : Inserted(batch)
Forward == FetchUnforwarded \/ SendToSiem \/ MarkForwarded

LogNext ==
    /\ May("events")
    /\ \/ \E e \in SecEvents : LogEvent(e)
       \/ LogStep
       \/ May("siem") /\ Forward
       \/ LogServiceDies

LogFairness ==
    /\ \A e \in SecEvents : WF_logVars(May("events") /\ (ReadLatest(e) \/ Push(e)))
    /\ WF_logVars(May("events") /\ TimerFires)
    /\ WF_logVars(May("events") /\ \E batch \in flights : Inserted(batch))
    /\ WF_logVars(May("events") /\ May("siem") /\ Forward)

-----------------------------------------------------------------------------
(* Properties.                                                             *)

LogTypeOK ==
    /\ logging \in [SecEvents -> LogCall]
    /\ buffer \in Seq(SecEvents)
    /\ timer \in {"none", "pending", "fired"}
    /\ flights \subseteq Seq(SecEvents)
    /\ stored \in Seq(SecurityEvent)
    /\ forwarding \in [pc : {"idle", "send", "mark"}, ids : SUBSET DOMAIN stored]
    /\ siem \subseteq SecEvents

\* An event that was logged is stored or held for another attempt, whatever failed and
\* however flushes overlapped, until the process dies (flushEventBuffer).
LoggedIsKept ==
    ~May("crash") => \A e \in SecEvents : logging[e].pc = "done" =>
       \/ e \in StoredEvents
       \/ e \in Range(buffer)
       \/ \E batch \in flights : e \in Range(batch)

\* Where events come so slowly that each is stored before the next is logged, every record
\* names the one before it, over deaths of the process (getLatestEventHash).
SlowChainIsLinear ==
    May("slow") /\ ~May("reads") => \A i \in DOMAIN stored :
       stored[i].prev = IF i = 1 THEN None ELSE stored[i - 1].event

\* The log is a chain in every history: batches that overlap, fail or are inserted without
\* an answer store no event twice, and none names an event that was lost.
EventLinks == {<<stored[i].event, stored[i].prev>> : i \in DOMAIN stored}
EventsLinear == May("slow") /\ ~May("reads")
EventChain == INSTANCE HashChain
    WITH links <- EventLinks, linear <- EventsLinear, Nothing <- None
EventsAreChained == EventChain!Spec

\* An event that was logged is stored soon, if no insert fails: what arrives in the buffer
\* during a flush has a timer of its own.
EventsAreStored ==
    \A e \in SecEvents :
       logging[e].pc = "done" /\ allowed \cap {"writes", "answers"} = {} ~>
          e \in StoredEvents \/ May("crash")

\* What the SIEM integration is for: every stored event gets there (forwardToSiem).
EventsReachSiem ==
    \A e \in SecEvents : May("siem") /\ e \in StoredEvents ~> e \in siem
=============================================================================
