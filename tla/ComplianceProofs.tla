-------------------------- MODULE ComplianceProofs --------------------------
(***************************************************************************)
(* Theorems about MCCompliance for any number of events, queue entries,    *)
(* targets, logins, actions, roles, privileges, policies and requests.     *)
(***************************************************************************)
EXTENDS MCCompliance, FiniteSetTheorems, WellFoundedInduction, TLAPS

-----------------------------------------------------------------------------
(* The security event log.                                                              *)

\* Where events come slowly, one is under way at most, and names the latest stored one until it
\* is stored itself.
Waits(e) == \/ buffer = <<e>> /\ flights = {}
            \/ buffer = <<>> /\ flights = {<<e>>}
OneByOneIn ==
    May("slow") /\ ~May("reads") =>
       /\ SlowChainIsLinear
       /\ \A e, f \in SecEvents : Underway(e) /\ Underway(f) => e = f
       /\ \/ buffer = <<>> /\ flights = {}
          \/ /\ \A e \in SecEvents : ~Underway(e)
             /\ \E e \in SecEvents : Waits(e) /\ (e \in StoredEvents \/ logging[e].prev = LatestHash)
       /\ \A e \in SecEvents : logging[e].pc = "push" => logging[e].prev = LatestHash

LogInv == LogTypeOK /\ LoggedIsKept /\ OneByOneIn

\* Elements, ranges and concatenations of sequences.
LEMMA ElementsOf ==
    ASSUME NEW S, NEW s \in Seq(S)
    PROVE  /\ DOMAIN s = 1 .. Len(s) /\ Len(s) \in Nat /\ Range(s) \subseteq S
           /\ \A i \in 1 .. Len(s) : s[i] \in S /\ s[i] \in Range(s)
           /\ s # <<>> => Len(s) \in 1 .. Len(s)
<1>1. DOMAIN s = 1 .. Len(s) /\ Len(s) \in Nat /\ \A i \in 1 .. Len(s) : s[i] \in S
  OBVIOUS
<1>2. s # <<>> => Len(s) # 0
  OBVIOUS
<1> QED
  BY <1>1, <1>2 DEF Range

\* What Append does to the elements of a sequence.
LEMMA AppendOf ==
    ASSUME NEW S, NEW s \in Seq(S), NEW e \in S
    PROVE  /\ Append(s, e) \in Seq(S) /\ Len(Append(s, e)) = Len(s) + 1
           /\ (\A i \in 1 .. Len(s) : Append(s, e)[i] = s[i]) /\ Append(s, e)[Len(s) + 1] = e
           /\ Range(Append(s, e)) = Range(s) \cup {e}
           /\ Append(<<>>, e) = <<e>>
<1>1. /\ Append(s, e) \in Seq(S) /\ Len(Append(s, e)) = Len(s) + 1
      /\ (\A i \in 1 .. Len(s) : Append(s, e)[i] = s[i]) /\ Append(s, e)[Len(s) + 1] = e
  OBVIOUS
<1>2. /\ DOMAIN s = 1 .. Len(s) /\ DOMAIN Append(s, e) = 1 .. Len(s) + 1 /\ Len(s) \in Nat
  OBVIOUS
<1>3. Range(Append(s, e)) = Range(s) \cup {e}
  BY <1>1, <1>2 DEF Range
<1>4. Append(<<>>, e) = <<e>>
  OBVIOUS
<1> QED
  BY <1>1, <1>3, <1>4

\* What concatenation does to them.
LEMMA ConcatOf ==
    ASSUME NEW S, NEW s \in Seq(S), NEW t \in Seq(S)
    PROVE  /\ s \o t \in Seq(S) /\ Len(s \o t) = Len(s) + Len(t)
           /\ \A i \in 1 .. Len(s) : (s \o t)[i] = s[i]
           /\ \A i \in 1 .. Len(t) : (s \o t)[Len(s) + i] = t[i]
           /\ Range(s \o t) = Range(s) \cup Range(t)
<1>1. /\ s \o t \in Seq(S) /\ Len(s \o t) = Len(s) + Len(t)
      /\ \A i \in 1 .. Len(s) : (s \o t)[i] = s[i]
  OBVIOUS
<1>2. ASSUME NEW i \in 1 .. Len(t) PROVE (s \o t)[Len(s) + i] = t[i]
  OBVIOUS
<1>3. /\ DOMAIN s = 1 .. Len(s) /\ DOMAIN t = 1 .. Len(t) /\ DOMAIN (s \o t) = 1 .. Len(s) + Len(t)
      /\ Len(s) \in Nat /\ Len(t) \in Nat
  BY <1>1
<1>4. ASSUME NEW i \in 1 .. Len(s) + Len(t), i \notin 1 .. Len(s)
      PROVE  i - Len(s) \in 1 .. Len(t) /\ (s \o t)[i] = t[i - Len(s)]
  <2>1. i - Len(s) \in 1 .. Len(t) /\ Len(s) + (i - Len(s)) = i
    BY <1>3, <1>4
  <2> QED
    BY <1>2, <2>1
<1>5. ASSUME NEW i \in 1 .. Len(t) PROVE Len(s) + i \in 1 .. Len(s) + Len(t)
  BY <1>3
<1>6. Range(s) \subseteq Range(s \o t)
  BY <1>1, <1>3 DEF Range
<1>7. Range(t) \subseteq Range(s \o t)
  BY <1>2, <1>3, <1>5 DEF Range
<1>8. Range(s \o t) \subseteq Range(s) \cup Range(t)
  BY <1>1, <1>3, <1>4 DEF Range
<1> QED
  BY <1>1, <1>2, <1>6, <1>7, <1>8

\* What the insert of a batch adds to the table.
LEMMA RowsForm ==
    ASSUME LogTypeOK, NEW batch \in flights
    PROVE  /\ Rows(batch) \in Seq(SecurityEvent) /\ Len(Rows(batch)) = Len(batch)
           /\ \A i \in 1 .. Len(batch) : Rows(batch)[i].event = batch[i]
                                       /\ Rows(batch)[i].prev = logging[batch[i]].prev
           /\ stored \o Rows(batch) \in Seq(SecurityEvent)
           /\ Len(stored \o Rows(batch)) = Len(stored) + Len(batch)
           /\ DOMAIN stored \subseteq DOMAIN (stored \o Rows(batch))
           /\ \A i \in DOMAIN stored : (stored \o Rows(batch))[i] = stored[i]
           /\ \A i \in 1 .. Len(batch) : /\ Len(stored) + i \in DOMAIN (stored \o Rows(batch))
                                         /\ (stored \o Rows(batch))[Len(stored) + i] = Rows(batch)[i]
<1>1. /\ batch \in Seq(SecEvents) /\ stored \in Seq(SecurityEvent)
      /\ logging \in [SecEvents -> LogCall]
  BY DEF LogTypeOK
<1>2. DOMAIN batch = 1 .. Len(batch) /\ Len(batch) \in Nat /\ \A i \in 1 .. Len(batch) : batch[i] \in SecEvents
  BY <1>1, ElementsOf
<1>3. DOMAIN stored = 1 .. Len(stored) /\ Len(stored) \in Nat
  BY <1>1
<1>4. /\ Rows(batch) \in Seq(SecurityEvent) /\ Len(Rows(batch)) = Len(batch)
      /\ \A i \in 1 .. Len(batch) : Rows(batch)[i].event = batch[i]
                                  /\ Rows(batch)[i].prev = logging[batch[i]].prev
  <2>1. \A i \in 1 .. Len(batch) :
           [event |-> batch[i], prev |-> logging[batch[i]].prev, forwarded |-> FALSE] \in SecurityEvent
    BY <1>1, <1>2 DEF SecurityEvent, LogCall
  <2>2. Rows(batch) = [i \in 1 .. Len(batch) |->
            [event |-> batch[i], prev |-> logging[batch[i]].prev, forwarded |-> FALSE]]
    BY <1>2 DEF Rows
  <2> QED
    BY <1>2, <2>1, <2>2
<1> DEFINE new == Rows(batch)
<1> HIDE DEF new
<1>5. new \in Seq(SecurityEvent) /\ Len(new) = Len(batch)
  BY <1>4 DEF new
<1>6. /\ stored \o new \in Seq(SecurityEvent) /\ Len(stored \o new) = Len(stored) + Len(new)
      /\ \A i \in 1 .. Len(stored) : (stored \o new)[i] = stored[i]
  BY <1>1, <1>5
<1>c. \A i \in 1 .. Len(new) : (stored \o new)[Len(stored) + i] = new[i]
  BY <1>1, <1>5
<1>7. DOMAIN (stored \o new) = 1 .. Len(stored) + Len(batch)
  BY <1>5, <1>6
<1>8. \A i \in 1 .. Len(batch) : Len(stored) + i \in 1 .. Len(stored) + Len(batch)
  BY <1>2, <1>3
<1>9. 1 .. Len(stored) \subseteq 1 .. Len(stored) + Len(batch)
  BY <1>2, <1>3
<1>10. /\ stored \o new \in Seq(SecurityEvent)
       /\ Len(stored \o new) = Len(stored) + Len(batch)
       /\ DOMAIN stored \subseteq DOMAIN (stored \o new)
       /\ \A i \in DOMAIN stored : (stored \o new)[i] = stored[i]
  BY <1>3, <1>5, <1>6, <1>7, <1>9
<1>11. \A i \in 1 .. Len(batch) : /\ Len(stored) + i \in DOMAIN (stored \o new)
                                 /\ (stored \o new)[Len(stored) + i] = new[i]
  BY <1>5, <1>c, <1>7, <1>8
<1> QED
  BY <1>4, <1>10, <1>11 DEF new

\* At the start nothing is logged.
LEMMA LogInitHolds == LogInit => LogInv
BY DEF LogInit, LogInv, LogTypeOK, LoggedIsKept, OneByOneIn, SlowChainIsLinear, Underway, LogCall,
       LatestHash, Waits

\* Every step of the security event log keeps its invariant.
LEMMA LogKeeps ==
    ASSUME LogInv, UNCHANGED allowed, LogNext
    PROVE  LogInv'
<1>0. /\ logging \in [SecEvents -> LogCall] /\ buffer \in Seq(SecEvents)
      /\ timer \in {"none", "pending", "fired"} /\ flights \subseteq Seq(SecEvents)
      /\ stored \in Seq(SecurityEvent)
      /\ forwarding \in [pc : {"idle", "send", "mark"}, ids : SUBSET DOMAIN stored]
      /\ siem \subseteq SecEvents
  BY DEF LogInv, LogTypeOK
<1>s. /\ \A i \in DOMAIN stored : stored[i] \in SecurityEvent
      /\ DOMAIN stored = 1 .. Len(stored) /\ Len(stored) \in Nat
      /\ stored # <<>> => Len(stored) \in DOMAIN stored
  BY <1>0, ElementsOf
<1>1. ASSUME NEW e \in SecEvents, LogEvent(e) PROVE LogInv'
  <2>1. LogTypeOK'
    BY <1>0, <1>1 DEF LogEvent, LogTypeOK, LogCall
  <2>2. LoggedIsKept'
    BY <1>0, <1>1 DEF LogEvent, LogInv, LoggedIsKept, StoredEvents, May
  <2>3. OneByOneIn'
    BY <1>0, <1>1 DEF LogEvent, LogInv, OneByOneIn, SlowChainIsLinear, Underway, May
  <2> QED
    BY <2>1, <2>2, <2>3 DEF LogInv
<1>2. ASSUME NEW e \in SecEvents, ReadLatest(e) PROVE LogInv'
  <2>1. LogTypeOK'
    <3>1. LatestHash \in SecEvents \cup {None}
      BY <1>s DEF LatestHash, SecurityEvent
    <3> QED
      BY <1>0, <1>2, <3>1 DEF ReadLatest, LogTypeOK, LogCall
  <2>2. LoggedIsKept'
    BY <1>0, <1>2 DEF ReadLatest, LogInv, LoggedIsKept, StoredEvents, May
  <2>3. OneByOneIn'
    BY <1>0, <1>2 DEF ReadLatest, LogInv, OneByOneIn, SlowChainIsLinear, Underway, May, LatestHash
  <2> QED
    BY <2>1, <2>2, <2>3 DEF LogInv
<1>3. ASSUME NEW e \in SecEvents, Push(e) PROVE LogInv'
  <2> DEFINE events == Append(buffer, e)
  <2>1. /\ events \in Seq(SecEvents) /\ Len(events) = Len(buffer) + 1
        /\ Range(events) = Range(buffer) \cup {e}
        /\ (buffer = <<>> => events = <<e>>)
    <3>1. Append(<<>>, e) = <<e>>
      OBVIOUS
    <3>2. /\ events \in Seq(SecEvents) /\ Len(events) = Len(buffer) + 1
          /\ Range(events) = Range(buffer) \cup {e}
      BY <1>0, AppendOf
    <3>3. buffer = <<>> => events = <<e>>
      BY <3>1
    <3> QED
      BY <3>2, <3>3
  <2>2. /\ logging' = [logging EXCEPT ![e].pc = "done"] /\ stored' = stored
        /\ logging[e].pc = "push" /\ forwarding' = forwarding /\ siem' = siem
        /\ \/ timer' = "none" /\ buffer' = <<>> /\ flights' = flights \cup {events}
           \/ buffer' = events /\ flights' = flights /\ timer' \in {"none", "pending", "fired"}
    BY <1>0, <1>3, <2>1 DEF Push, Flush
  <2> HIDE DEF events
  <2>3. LogTypeOK'
    <3>1. logging' \in [SecEvents -> LogCall]
      BY <1>0, <2>2 DEF LogCall
    <3>0. <<>> \in Seq(SecEvents)
      OBVIOUS
    <3>2. buffer' \in Seq(SecEvents) /\ flights' \subseteq Seq(SecEvents)
      BY <1>0, <2>1, <2>2, <3>0, Zenon
    <3>3. timer' \in {"none", "pending", "fired"}
      BY <2>2
    <3> QED
      BY <1>0, <2>2, <3>1, <3>2, <3>3 DEF LogTypeOK
  <2>4. LoggedIsKept'
    BY <1>0, <2>1, <2>2 DEF LogInv, LoggedIsKept, StoredEvents, May
  <2>5. OneByOneIn'
    <3> SUFFICES ASSUME May("slow")', ~May("reads")' PROVE OneByOneIn'
      BY DEF OneByOneIn
    <3>1. May("slow") /\ ~May("reads") /\ OneByOneIn
      BY DEF May, LogInv
    <3>2. buffer = <<>> /\ flights = {} /\ logging[e].prev = LatestHash
      BY <2>2, <3>1 DEF OneByOneIn, Underway
    <3>3. \A f \in SecEvents : ~Underway(f)'
      BY <1>0, <2>2, <3>1 DEF OneByOneIn, Underway, LogCall
    <3>4. Waits(e)' /\ logging'[e].prev = LatestHash'
      BY <1>0, <2>1, <2>2, <3>2 DEF Waits, LatestHash, LogCall
    <3> QED
      BY <1>0, <2>2, <3>1, <3>3, <3>4 DEF OneByOneIn, SlowChainIsLinear, Underway
  <2> QED
    BY <2>3, <2>4, <2>5 DEF LogInv
<1>4. CASE TimerFires
  <2>1. /\ timer' = "none" /\ buffer' = <<>> /\ UNCHANGED <<logging, stored, forwarding, siem>>
        /\ flights' = flights \cup (IF buffer = <<>> THEN {} ELSE {buffer})
    BY <1>4 DEF TimerFires, Flush
  <2>2. LogTypeOK'
    BY <1>0, <2>1 DEF LogTypeOK
  <2>3. LoggedIsKept'
    BY <1>0, <2>1 DEF LogInv, LoggedIsKept, StoredEvents, May, Range
  <2>4. OneByOneIn'
    BY <1>0, <2>1 DEF LogInv, OneByOneIn, SlowChainIsLinear, Underway, May, LatestHash, Waits, StoredEvents
  <2> QED
    BY <2>2, <2>3, <2>4 DEF LogInv
<1>5. ASSUME NEW batch \in flights, Inserted(batch) PROVE LogInv'
  <2>1. /\ flights' = flights \ {batch} /\ UNCHANGED <<logging, timer, forwarding, siem>>
        /\ \/ stored' = stored /\ buffer' = batch \o buffer
           \/ /\ stored' = stored \o Rows(batch) /\ Range(batch) \cap StoredEvents = {}
              /\ buffer' = buffer \/ buffer' = batch \o buffer
    BY <1>5 DEF Inserted, ReturnToBuffer
  <2>2. /\ batch \in Seq(SecEvents) /\ batch \o buffer \in Seq(SecEvents)
        /\ Range(batch \o buffer) = Range(batch) \cup Range(buffer)
    BY <1>0, ConcatOf
  <2>3. /\ Rows(batch) \in Seq(SecurityEvent) /\ Len(Rows(batch)) = Len(batch)
        /\ \A i \in 1 .. Len(batch) : Rows(batch)[i].event = batch[i]
                                    /\ Rows(batch)[i].prev = logging[batch[i]].prev
    BY RowsForm DEF LogInv
  <2>4. /\ stored \o Rows(batch) \in Seq(SecurityEvent)
        /\ Len(stored \o Rows(batch)) = Len(stored) + Len(batch)
        /\ DOMAIN stored \subseteq DOMAIN (stored \o Rows(batch))
        /\ \A i \in DOMAIN stored : (stored \o Rows(batch))[i] = stored[i]
        /\ \A i \in 1 .. Len(batch) : /\ Len(stored) + i \in DOMAIN (stored \o Rows(batch))
                                      /\ (stored \o Rows(batch))[Len(stored) + i] = Rows(batch)[i]
    BY RowsForm DEF LogInv
  <2>5. LogTypeOK'
    BY <1>0, <2>1, <2>2, <2>4 DEF LogTypeOK
  <2>6. StoredEvents \subseteq StoredEvents'
    BY <2>1, <2>4 DEF StoredEvents
  <2>7. stored' = stored \o Rows(batch) => Range(batch) \subseteq StoredEvents'
    <3>1. DOMAIN batch = 1 .. Len(batch)
      BY <2>2, ElementsOf
    <3> QED
      <4> SUFFICES ASSUME stored' = stored \o Rows(batch), NEW i \in 1 .. Len(batch)
                   PROVE  batch[i] \in StoredEvents'
        BY <2>1, <3>1 DEF Range
      <4>1. /\ Len(stored) + i \in DOMAIN stored' /\ stored'[Len(stored) + i] = Rows(batch)[i]
            /\ Rows(batch)[i].event = batch[i]
        BY <2>3, <2>4
      <4> QED
        BY <4>1 DEF StoredEvents
  <2>8. LoggedIsKept'
    <3> SUFFICES ASSUME ~May("crash"), NEW e \in SecEvents, logging[e].pc = "done"
                 PROVE  \/ e \in StoredEvents' \/ e \in Range(buffer')
                        \/ \E f \in flights' : e \in Range(f)
      BY <2>1 DEF LoggedIsKept, May
    <3>1. e \in StoredEvents \/ e \in Range(buffer) \/ \E f \in flights : e \in Range(f)
      BY DEF LogInv, LoggedIsKept
    <3>2. \A f \in flights : f \in flights' \/ f = batch
      BY <2>1
    <3>3. Range(batch) \subseteq StoredEvents' \/ Range(batch) \subseteq Range(buffer')
      BY <2>1, <2>2, <2>7
    <3>4. Range(buffer) \subseteq Range(buffer')
      BY <2>1, <2>2
    <3> QED
      BY <2>6, <3>1, <3>2, <3>3, <3>4, Zenon
  <2>9. OneByOneIn'
    <3> SUFFICES ASSUME May("slow")', ~May("reads")' PROVE OneByOneIn'
      BY DEF OneByOneIn
    <3>1. May("slow") /\ ~May("reads") /\ OneByOneIn
      BY DEF May, LogInv
    <3>2. PICK e \in SecEvents : /\ buffer = <<>> /\ flights = {<<e>>}
                                 /\ e \in StoredEvents \/ logging[e].prev = LatestHash
      BY <3>1 DEF OneByOneIn, Waits
    <3>3. batch = <<e>> /\ flights' = {} /\ \A f \in SecEvents : ~Underway(f)'
      BY <2>1, <3>1, <3>2 DEF OneByOneIn, Underway
    <3>4. CASE stored' = stored /\ buffer' = batch \o buffer
      <4>1. buffer' = <<e>> /\ Waits(e)'
        <5>1. <<e>> \o <<>> = <<e>>
          OBVIOUS
        <5> QED
          BY <2>1, <3>2, <3>3, <3>4, <5>1 DEF Waits
      <4> QED
        BY <2>1, <3>1, <3>2, <3>3, <3>4, <4>1 DEF OneByOneIn, SlowChainIsLinear, StoredEvents, LatestHash, Underway
    <3>5. CASE stored' = stored \o Rows(batch) /\ Range(batch) \cap StoredEvents = {}
      <4>1. e \notin StoredEvents /\ logging[e].prev = LatestHash
        BY <2>1, <3>2, <3>3, <3>5 DEF Range
      <4>2. /\ Len(stored') = Len(stored) + 1 /\ stored' \in Seq(SecurityEvent)
            /\ stored'[Len(stored) + 1].prev = LatestHash
            /\ \A i \in DOMAIN stored : stored'[i] = stored[i]
        <5>1. Len(batch) = 1 /\ 1 \in 1 .. Len(batch) /\ batch[1] = e
          BY <3>3
        <5>2. stored' = stored \o Rows(batch)
          BY <2>1, <3>5
        <5>3. Len(stored') = Len(stored) + 1
          BY <2>4, <5>1, <5>2
        <5> QED
          BY <2>3, <2>4, <4>1, <5>1, <5>2, <5>3
      <4>3. SlowChainIsLinear'
        <5>1. DOMAIN stored' = 1 .. Len(stored) + 1
          BY <4>2
        <5>2. ASSUME NEW i \in DOMAIN stored
              PROVE  stored'[i].prev = IF i = 1 THEN None ELSE stored'[i - 1].event
          BY <1>s, <3>1, <4>2 DEF OneByOneIn, SlowChainIsLinear
        <5>3. stored'[Len(stored) + 1].prev =
                 IF Len(stored) + 1 = 1 THEN None ELSE stored'[Len(stored) + 1 - 1].event
          <6>1. (stored = <<>> <=> Len(stored) = 0) /\ Len(stored) + 1 - 1 = Len(stored)
            BY <1>0, <1>s
          <6>2. Len(stored) # 0 => stored'[Len(stored)] = stored[Len(stored)]
            BY <1>s, <4>2, <6>1
          <6> QED
            BY <1>s, <4>2, <6>1, <6>2 DEF LatestHash
        <5> QED
          BY <1>s, <5>1, <5>2, <5>3 DEF SlowChainIsLinear
      <4>4. e \in StoredEvents'
        BY <2>7, <3>3, <3>5 DEF Range
      <4>5. (buffer' = <<>> /\ flights' = {}) \/ Waits(e)'
        BY <2>1, <3>2, <3>3 DEF Waits
      <4>6. \A f \in SecEvents : ~(logging[f].pc = "push")
        BY <2>1, <3>3 DEF Underway
      <4> QED
        BY <2>1, <3>3, <4>3, <4>4, <4>5, <4>6 DEF OneByOneIn, Underway
    <3> QED
      BY <2>1, <3>4, <3>5
  <2> QED
    BY <2>5, <2>8, <2>9 DEF LogInv
<1>6. CASE Forward
  <2>1. /\ UNCHANGED <<logging, buffer, timer, flights, stored>>
        /\ forwarding' \in [pc : {"idle", "send", "mark"}, ids : SUBSET DOMAIN stored]
        /\ siem' \subseteq SecEvents
    <3>1. \A i \in DOMAIN stored : stored[i].event \in SecEvents
      BY <1>s DEF SecurityEvent
    <3>2. Oldest(Unforwarded) \subseteq DOMAIN stored
      BY DEF Oldest, Unforwarded
    <3> QED
      BY <1>0, <1>6, <3>1, <3>2
      DEF Forward, FetchUnforwarded, SendToSiem, MarkForwarded, UpdateRejected
  <2>2. LogTypeOK'
    BY <1>0, <2>1 DEF LogTypeOK
  <2> QED
    BY <2>1, <2>2 DEF LogInv, LoggedIsKept, StoredEvents, OneByOneIn, SlowChainIsLinear, Underway, LatestHash, Waits, May
<1>7. CASE LogServiceDies
  <2>1. /\ May("crash") /\ buffer' = <<>> /\ flights' = {} /\ timer' = "none" /\ UNCHANGED <<stored, siem>>
        /\ logging' \in [SecEvents -> LogCall] /\ \A e \in SecEvents : ~Underway(e)'
        /\ forwarding' = [pc |-> "idle", ids |-> {}]
    BY <1>0, <1>7 DEF LogServiceDies, Underway, LogCall
  <2>2. LogTypeOK'
    BY <1>0, <2>1 DEF LogTypeOK
  <2> QED
    BY <2>1, <2>2 DEF LogInv, LoggedIsKept, OneByOneIn, SlowChainIsLinear, Underway, May
<1> QED
  BY <1>1, <1>2, <1>3, <1>4, <1>5, <1>6, <1>7 DEF LogNext, LogStep

-----------------------------------------------------------------------------
(* The queue of audit entries for the SIEM, and the alert rules.                        *)

\* An entry of a configured target has been tried less often than it may be until it is given up.
Tried(q) ==
    /\ queue[q].status \in {"pending", "processing"} /\ TargetOf[q] \in Range(Targets) =>
          queue[q].retries < MaxRetries[TargetOf[q]]
    /\ queue[q].status = "dead_letter" =>
          TargetOf[q] \in Range(Targets) /\ queue[q].retries = MaxRetries[TargetOf[q]]

\* An entry of the batch that still waits for its result is as it was read.
Waiting(q) == /\ TargetOf[q] \in Range(Targets)
              /\ queue[q].status \in {"pending", "processing"} /\ round.read[q] = queue[q].retries

RoundHolds ==
    /\ round.pc # "idle" => round.left # <<>> /\ Range(round.left) \subseteq Range(Targets)
    /\ round.pc \in {"mark", "send", "results", "audit"} =>
          \A q \in round.items : (round.pc = "audit" /\ q = round.entry) \/ Waiting(q)
    /\ round.pc \in {"results", "audit"} => round.ok \subseteq taken
    /\ round.pc = "audit" => round.entry \in taken

QueueInv ==
    /\ queue \in [Entries -> SiemQueueEntry] /\ round \in Round
    /\ taken \subseteq Entries /\ marked \subseteq Entries
    /\ SentWasTaken /\ (\A q \in Entries : Tried(q)) /\ RoundHolds

\* The invariant of the queue implies what the run checks of it.
LEMMA QueueSafe == QueueInv => SentWasTaken /\ GivenUpLate
BY DEF QueueInv, GivenUpLate, Tried

\* Rounds of the forwarder, as they begin and end.
LEMMA IdleRoundForm ==
    /\ IdleRound \in Round /\ IdleRound.pc = "idle" /\ IdleRound.items = {}
    /\ \A left \in Seq({"elasticsearch", "splunk", "sentinel"}) :
          /\ [IdleRound EXCEPT !.pc = "select", !.left = left] \in Round
          /\ [IdleRound EXCEPT !.pc = "select", !.left = left].pc = "select"
          /\ [IdleRound EXCEPT !.pc = "select", !.left = left].left = left
<1>1. <<>> \in Seq({"elasticsearch", "splunk", "sentinel"})
  OBVIOUS
<1>2. [q \in Entries |-> 0] \in [Entries -> Nat]
  OBVIOUS
<1> DEFINE r == [q \in Entries |-> 0]
           T == Seq({"elasticsearch", "splunk", "sentinel"})
<1>3. r \in [Entries -> Nat] /\ <<>> \in T
  BY <1>1, <1>2
<1>4. /\ IdleRound = [pc |-> "idle", left |-> <<>>, items |-> {}, read |-> r, ok |-> {}, entry |-> None]
      /\ Round = [pc : {"idle", "select", "mark", "send", "results", "audit"}, left : T,
                  items : SUBSET Entries, read : [Entries -> Nat], ok : SUBSET Entries,
                  entry : Entries \cup {None}]
  BY DEF IdleRound, Round
<1> HIDE DEF r, T
<1>5. IdleRound \in Round /\ IdleRound.pc = "idle" /\ IdleRound.items = {}
  BY <1>3, <1>4
<1>6. \A left \in T :
          /\ [IdleRound EXCEPT !.pc = "select", !.left = left] \in Round
          /\ [IdleRound EXCEPT !.pc = "select", !.left = left].pc = "select"
          /\ [IdleRound EXCEPT !.pc = "select", !.left = left].left = left
  BY <1>3, <1>4
<1> QED
  BY <1>5, <1>6, Zenon DEF T

\* At the start no entry is queued and no round runs.
LEMMA TrailInitHolds == TrailInit => QueueInv
<1>1. \A q \in Entries : [status |-> "none", retries |-> 0, due |-> FALSE] \in SiemQueueEntry
  BY DEF SiemQueueEntry, SiemQueueStatus
<1> SUFFICES ASSUME TrailInit PROVE QueueInv
  OBVIOUS
<1>2. \A q \in Entries : queue[q].status = "none"
  BY DEF TrailInit
<1>3. round \in Round /\ round.pc = "idle" /\ taken = {} /\ marked = {}
  BY IdleRoundForm, Zenon DEF TrailInit
<1>4. queue \in [Entries -> SiemQueueEntry]
  BY <1>1 DEF TrailInit
<1> QED
  BY <1>2, <1>3, <1>4 DEF QueueInv, SentWasTaken, Tried, RoundHolds

\* A round goes on to the next target, or ends.
LEMMA NextTargetForm ==
    ASSUME QueueInv, round.pc # "idle"
    PROVE  /\ NextTarget \in Round /\ NextTarget.pc \in {"idle", "select"}
           /\ NextTarget.pc # "idle" =>
                 NextTarget.left # <<>> /\ Range(NextTarget.left) \subseteq Range(Targets)
<1> DEFINE L == round.left
<1>1. L \in Seq({"elasticsearch", "splunk", "sentinel"}) /\ Range(L) \subseteq Range(Targets)
  BY DEF QueueInv, RoundHolds, Round
<1> HIDE DEF L
<1>2. ASSUME Len(L) > 1
      PROVE  /\ Tail(L) \in Seq({"elasticsearch", "splunk", "sentinel"}) /\ Tail(L) # <<>>
             /\ Range(Tail(L)) \subseteq Range(L)
  <2>1. /\ L # <<>> /\ Tail(L) \in Seq({"elasticsearch", "splunk", "sentinel"})
        /\ Len(Tail(L)) = Len(L) - 1 /\ Len(L) \in Nat
    BY <1>1, <1>2
  <2>2. \A i \in 1 .. Len(L) - 1 : Tail(L)[i] = L[i + 1]
    BY <1>1, <1>2
  <2>3. DOMAIN Tail(L) = 1 .. Len(L) - 1 /\ DOMAIN L = 1 .. Len(L)
    BY <1>1, <2>1
  <2>4. \A i \in 1 .. Len(L) - 1 : i + 1 \in 1 .. Len(L)
    BY <2>1
  <2>5. Tail(L) # <<>>
    <3>1. Len(Tail(L)) # 0
      BY <1>2, <2>1
    <3>2. Len(<<>>) = 0
      OBVIOUS
    <3> QED
      BY <3>1, <3>2
  <2> QED
    BY <2>1, <2>2, <2>3, <2>4, <2>5 DEF Range
<1> QED
  BY <1>1, <1>2, IdleRoundForm, Zenon DEF NextTarget, L

\* Rows of the queue change while the round stays: who waits for a result stays as it was.
LEMMA RowsMove ==
    ASSUME QueueInv, UNCHANGED <<round, taken, marked>>,
           queue' \in [Entries -> SiemQueueEntry],
           \A q \in Entries :
              \/ queue'[q] = queue[q]
              \/ queue'[q].status = queue[q].status /\ queue'[q].retries = queue[q].retries
              \/ queue[q].status \in {"none", "dead_letter"} /\ queue'[q].status = "pending" /\ queue'[q].retries = 0
    PROVE  QueueInv'
<1>1. SentWasTaken'
  BY DEF QueueInv, SentWasTaken
<1>2. \A q \in Entries : Tried(q)'
  BY AuditTrailAssumption DEF QueueInv, Tried
<1>3. \A q \in Entries : Waiting(q) => Waiting(q)'
  BY DEF Waiting, QueueInv
<1>4. RoundHolds'
  BY <1>3 DEF RoundHolds, QueueInv, Round
<1> QED
  BY <1>1, <1>2, <1>4 DEF QueueInv

\* A round that moves on without any row.
LEMMA RoundMoves ==
    ASSUME QueueInv, UNCHANGED <<queue, taken, marked>>, round' \in Round, RoundHolds'
    PROVE  QueueInv'
BY DEF QueueInv, SentWasTaken, Tried

\* The selection of a batch keeps the invariant of the queue.
LEMMA SelectPendingKeeps ==
    ASSUME QueueInv, SelectPending
    PROVE  QueueInv'
<1>1. CASE round' = NextTarget
  BY <1>1, NextTargetForm, RoundMoves, Zenon DEF SelectPending, RoundHolds
<1>2. ASSUME NEW S \in SUBSET Due(Head(round.left)),
             round' = [round EXCEPT !.pc = "mark", !.items = S,
                             !.read = [q \in Entries |-> IF q \in S THEN queue[q].retries ELSE 0]]
      PROVE  QueueInv'
  <2>1. S \subseteq Entries /\ \A q \in S : TargetOf[q] = Head(round.left) /\ queue[q].status = "pending"
    BY DEF Due
  <2>2. Head(round.left) \in Range(Targets) /\ UNCHANGED <<queue, taken, marked>>
    <3>1. round.left \in Seq({"elasticsearch", "splunk", "sentinel"}) /\ round.left # <<>>
            /\ Range(round.left) \subseteq Range(Targets)
      BY Zenon DEF SelectPending, QueueInv, RoundHolds, Round
    <3>2. Head(round.left) \in Range(round.left)
      <4>1. Head(round.left) = round.left[1] /\ 1 \in DOMAIN round.left
        BY <3>1
      <4> QED
        BY <4>1 DEF Range
    <3> QED
      BY <3>1, <3>2, Zenon DEF SelectPending
  <2>3. [q \in Entries |-> IF q \in S THEN queue[q].retries ELSE 0] \in [Entries -> Nat]
    BY DEF QueueInv, SiemQueueEntry
  <2>4. round' \in Round /\ round'.pc = "mark" /\ round'.items = S /\ round'.left = round.left
         /\ \A q \in S : round'.read[q] = queue[q].retries
    BY <1>2, <2>1, <2>3, Zenon DEF QueueInv, Round
  <2>5. RoundHolds'
    BY <2>1, <2>2, <2>4, Zenon DEF RoundHolds, Waiting, SelectPending, QueueInv
  <2> QED
    BY <2>2, <2>4, <2>5, RoundMoves
<1> QED
  BY <1>1, <1>2, Zenon DEF SelectPending

\* Marking the batch as processing keeps it.
LEMMA MarkProcessingKeeps ==
    ASSUME QueueInv, MarkProcessing
    PROVE  QueueInv'
<1>1. round' = [round EXCEPT !.pc = "send"] /\ round.pc = "mark" /\ taken' = taken /\ marked' = marked
  BY DEF MarkProcessing
<1>2. /\ round' \in Round /\ round'.pc = "send" /\ round'.items = round.items /\ round'.read = round.read
      /\ round'.left = round.left /\ round.items \subseteq Entries
  BY <1>1 DEF QueueInv, Round
<1>3. /\ queue' \in [Entries -> SiemQueueEntry]
      /\ \A q \in Entries : /\ queue'[q].retries = queue[q].retries
                            /\ \/ queue'[q].status = queue[q].status
                               \/ q \in round.items /\ queue'[q].status = "processing"
  <2>1. CASE queue' = queue
    BY <2>1 DEF QueueInv
  <2>2. CASE queue' = [q \in Entries |-> IF q \in round.items
                      THEN [queue[q] EXCEPT !.status = "processing"] ELSE queue[q]]
    <3>1. \A q \in Entries : /\ [queue[q] EXCEPT !.status = "processing"] \in SiemQueueEntry
                             /\ [queue[q] EXCEPT !.status = "processing"].retries = queue[q].retries
                             /\ [queue[q] EXCEPT !.status = "processing"].status = "processing"
      BY DEF QueueInv, SiemQueueEntry, SiemQueueStatus
    <3> QED
      BY <2>2, <3>1 DEF QueueInv
  <2> QED
    BY <2>1, <2>2 DEF MarkProcessing
<1>4. \A q \in round.items : Waiting(q) /\ Waiting(q)'
  BY <1>1, <1>2, <1>3 DEF QueueInv, RoundHolds, Waiting
<1>5. SentWasTaken'
  BY <1>1, <1>3 DEF QueueInv, SentWasTaken
<1>6. \A q \in Entries : Tried(q)'
  BY <1>3, <1>4 DEF QueueInv, Tried, Waiting
<1>7. RoundHolds'
  BY <1>1, <1>2, <1>4 DEF QueueInv, RoundHolds
<1> QED
  BY <1>1, <1>2, <1>3, <1>5, <1>6, <1>7 DEF QueueInv

\* Sending the batch to its target keeps it.
LEMMA SendKeeps ==
    ASSUME QueueInv, SendToSiemTarget
    PROVE  QueueInv'
<1>0. round.pc = "send" /\ UNCHANGED <<queue, marked>>
  BY Zenon DEF SendToSiemTarget
<1>1. CASE round' = IdleRound /\ taken' = taken
  BY <1>0, <1>1, IdleRoundForm, RoundMoves, Zenon DEF RoundHolds
<1>2. ASSUME NEW S, S \subseteq round.items, taken' = taken \cup S, NEW ok, ok \subseteq S,
             round' = [round EXCEPT !.pc = "results", !.ok = ok]
      PROVE  QueueInv'
  <2>1. round.items \subseteq Entries
    BY DEF QueueInv, Round
  <2>2. /\ round' \in Round /\ round'.pc = "results" /\ round'.ok = ok /\ round'.items = round.items
        /\ round'.left = round.left /\ round'.read = round.read
    BY <1>2, <2>1 DEF QueueInv, Round
  <2>3. \A q \in Entries : (Waiting(q) => Waiting(q)') /\ Tried(q)'
    BY <1>0, <2>2 DEF Waiting, Tried, QueueInv
  <2>4. RoundHolds'
    BY <1>0, <1>2, <2>1, <2>2, <2>3 DEF RoundHolds, QueueInv
  <2> QED
    BY <1>0, <1>2, <2>1, <2>2, <2>3, <2>4 DEF QueueInv, SentWasTaken
<1> QED
  <2>1. \A t : \A S \in Accepted(t, round.items) : S \subseteq round.items
    BY DEF Accepted
  <2> QED
    BY <1>1, <1>2, <2>1, Zenon DEF SendToSiemTarget, Throws

\* What a result makes of a row.
LEMMA OutcomeForm ==
    ASSUME QueueInv, round.pc = "results", NEW q \in round.items
    PROVE  /\ q \in Entries /\ Outcome(q) \in SiemQueueEntry
           /\ q \in round.ok => Outcome(q).status = "sent" /\ q \in taken
           /\ q \notin round.ok =>
                 /\ Outcome(q).status \in {"pending", "dead_letter"}
                 /\ Outcome(q).status = "pending" => Outcome(q).retries < MaxRetries[TargetOf[q]]
                 /\ Outcome(q).status = "dead_letter" => Outcome(q).retries = MaxRetries[TargetOf[q]]
                 /\ TargetOf[q] \in Range(Targets)
<1>1. q \in Entries /\ queue[q] \in SiemQueueEntry /\ Waiting(q) /\ Tried(q) /\ round.ok \subseteq taken
  BY DEF QueueInv, RoundHolds, Round
<1> DEFINE n == round.read[q] + 1
           m == MaxRetries[TargetOf[q]]
<1>2. n \in Nat /\ m \in Nat /\ n - 1 < m
  BY <1>1, AuditTrailAssumption DEF Waiting, Tried, SiemQueueEntry
<1>3. AfterSiemFailure(q, n) = [status |-> IF n >= m THEN "dead_letter" ELSE "pending", retries |-> n, due |-> FALSE]
  BY DEF AfterSiemFailure
<1>4. Outcome(q) = IF q \in round.ok THEN [queue[q] EXCEPT !.status = "sent"] ELSE AfterSiemFailure(q, n)
  BY DEF Outcome
<1> HIDE DEF n, m
<1>7. n <= m /\ (n >= m <=> n = m) /\ (~(n >= m) <=> n < m)
  BY <1>2
<1>5. [queue[q] EXCEPT !.status = "sent"] \in SiemQueueEntry /\ [queue[q] EXCEPT !.status = "sent"].status = "sent"
  BY <1>1 DEF SiemQueueEntry, SiemQueueStatus
<1>6. /\ AfterSiemFailure(q, n) \in SiemQueueEntry
      /\ AfterSiemFailure(q, n).retries = n
      /\ \/ AfterSiemFailure(q, n).status = "dead_letter" /\ n = m
         \/ AfterSiemFailure(q, n).status = "pending" /\ n < m
  BY <1>2, <1>3, <1>7 DEF SiemQueueEntry, SiemQueueStatus
<1> QED
  BY <1>1, <1>4, <1>5, <1>6 DEF Waiting, m

\* Writing the result of one entry keeps it.
LEMMA UpdateResultKeeps ==
    ASSUME QueueInv, UpdateResult
    PROVE  QueueInv'
<1>1. PICK q \in round.items :
         /\ queue' = [queue EXCEPT ![q] = Outcome(q)] \/ queue' = queue
         /\ round' = IF q \in round.ok THEN [round EXCEPT !.pc = "audit", !.entry = q]
                     ELSE IF round.items = {q} THEN NextTarget
                     ELSE [round EXCEPT !.items = round.items \ {q}]
  BY Zenon DEF UpdateResult
<1>2. round.pc = "results" /\ UNCHANGED <<taken, marked>> /\ round.items \subseteq Entries
  BY DEF UpdateResult, QueueInv, Round
<1>3. /\ queue' \in [Entries -> SiemQueueEntry]
      /\ \A p \in Entries : p # q => queue'[p] = queue[p]
      /\ queue'[q] = queue[q] \/ queue'[q] = Outcome(q)
  BY <1>1, <1>2, OutcomeForm DEF QueueInv
<1>4. SentWasTaken'
  BY <1>2, <1>3, OutcomeForm DEF QueueInv, SentWasTaken
<1>5. \A p \in Entries : Tried(p)'
  BY <1>2, <1>3, OutcomeForm DEF QueueInv, Tried
<1>6. \A p \in round.items : p # q => (round'.read = round.read => Waiting(p)')
  BY <1>2, <1>3 DEF QueueInv, RoundHolds, Waiting
<1>7. round' \in Round /\ RoundHolds'
  <2>1. CASE q \in round.ok
    <3>1. /\ round' \in Round /\ round'.pc = "audit" /\ round'.entry = q /\ round'.items = round.items
          /\ round'.left = round.left /\ round'.read = round.read /\ round'.ok = round.ok
      BY <1>1, <1>2, <2>1 DEF QueueInv, Round
    <3> QED
      BY <1>2, <1>6, <2>1, <3>1 DEF QueueInv, RoundHolds
  <2>2. CASE q \notin round.ok /\ round.items = {q}
    BY <1>1, <1>2, <2>2, NextTargetForm DEF RoundHolds
  <2>3. CASE q \notin round.ok /\ round.items # {q}
    <3>1. /\ round' \in Round /\ round'.pc = "results" /\ round'.items = round.items \ {q}
          /\ round'.left = round.left /\ round'.read = round.read /\ round'.ok = round.ok
      BY <1>1, <1>2, <2>3 DEF QueueInv, Round
    <3> QED
      BY <1>2, <1>6, <3>1 DEF QueueInv, RoundHolds
  <2> QED
    BY <2>1, <2>2, <2>3
<1> QED
  BY <1>2, <1>3, <1>4, <1>5, <1>7 DEF QueueInv

\* Marking the audit log of a sent entry keeps it.
LEMMA MarkAuditLogKeeps ==
    ASSUME QueueInv, MarkAuditLog
    PROVE  QueueInv'
<1>1. /\ round.pc = "audit" /\ UNCHANGED <<queue, taken>> /\ round.entry \in taken
      /\ marked' \in {marked, marked \cup {round.entry}} /\ round.items \subseteq Entries
  BY DEF MarkAuditLog, QueueInv, RoundHolds, Round
<1>2. round' \in Round /\ RoundHolds'
  <2>1. CASE round.items = {round.entry}
    BY <1>1, <2>1, NextTargetForm DEF RoundHolds, MarkAuditLog
  <2>2. CASE round' = [round EXCEPT !.pc = "results", !.items = round.items \ {round.entry}, !.entry = None]
    <3>1. /\ round' \in Round /\ round'.pc = "results" /\ round'.items = round.items \ {round.entry}
          /\ round'.left = round.left /\ round'.read = round.read /\ round'.ok = round.ok
      BY <1>1, <2>2 DEF QueueInv, Round
    <3> QED
      BY <1>1, <3>1 DEF QueueInv, RoundHolds, Waiting
  <2> QED
    BY <2>1, <2>2 DEF MarkAuditLog
<1>3. marked' \subseteq taken
  BY <1>1 DEF QueueInv, SentWasTaken
<1> QED
  BY <1>1, <1>2, <1>3 DEF QueueInv, SentWasTaken, Tried

\* Every step of the queue keeps its invariant.
LEMMA QueueKeeps ==
    ASSUME QueueInv,
           \/ \E q \in Entries : Enqueue(q) \/ RetryDelayPasses(q)
           \/ RetryDeadLetterItems \/ ProcessQueue \/ RoundStep \/ ForwarderDies
    PROVE  QueueInv'
<1>0. queue \in [Entries -> SiemQueueEntry]
  BY DEF QueueInv
<1>n. [status |-> "pending", retries |-> 0, due |-> TRUE] \in SiemQueueEntry
  BY DEF SiemQueueEntry, SiemQueueStatus
<1>1. ASSUME NEW q \in Entries, Enqueue(q) PROVE QueueInv'
  <2>1. /\ UNCHANGED <<round, taken, marked>> /\ queue[q].status = "none"
        /\ queue' = [queue EXCEPT ![q] = [status |-> "pending", retries |-> 0, due |-> TRUE]]
    BY <1>1 DEF Enqueue
  <2> QED
    BY <1>0, <1>n, <2>1, RowsMove
<1>2. ASSUME NEW q \in Entries, RetryDelayPasses(q) PROVE QueueInv'
  <2>1. UNCHANGED <<round, taken, marked>> /\ queue' = [queue EXCEPT ![q] = [queue[q] EXCEPT !.due = TRUE]]
    BY <1>2 DEF RetryDelayPasses
  <2>2. /\ [queue[q] EXCEPT !.due = TRUE] \in SiemQueueEntry
        /\ [queue[q] EXCEPT !.due = TRUE].status = queue[q].status
        /\ [queue[q] EXCEPT !.due = TRUE].retries = queue[q].retries
    BY <1>0 DEF SiemQueueEntry
  <2> QED
    BY <1>0, <2>1, <2>2, RowsMove
<1>3. CASE RetryDeadLetterItems
  <2>1. UNCHANGED <<round, taken, marked>>
    BY <1>3 DEF RetryDeadLetterItems
  <2>2. queue' \in [Entries -> SiemQueueEntry]
    BY <1>0, <1>3, <1>n DEF RetryDeadLetterItems
  <2>3. \A q \in Entries :
          \/ queue'[q] = queue[q]
          \/ queue[q].status = "dead_letter" /\ queue'[q].status = "pending" /\ queue'[q].retries = 0
    BY <1>3 DEF RetryDeadLetterItems
  <2> QED
    BY <2>1, <2>2, <2>3, RowsMove
<1>4. CASE ProcessQueue
  <2>1. /\ UNCHANGED <<queue, taken, marked>> /\ Targets # <<>>
        /\ round' = [IdleRound EXCEPT !.pc = "select", !.left = Targets]
    BY <1>4 DEF ProcessQueue
  <2>2. round' \in Round /\ round'.pc = "select" /\ round'.left = Targets
    BY <2>1, IdleRoundForm, AuditTrailAssumption, Zenon
  <2> QED
    BY <2>1, <2>2, RoundMoves DEF RoundHolds
<1>5. CASE RoundStep
  BY <1>5, SelectPendingKeeps, MarkProcessingKeeps, SendKeeps, UpdateResultKeeps, MarkAuditLogKeeps
  DEF RoundStep
<1>6. CASE ForwarderDies
  BY <1>6, IdleRoundForm, RoundMoves, Zenon DEF ForwarderDies, RoundHolds
<1> QED
  BY <1>1, <1>2, <1>3, <1>4, <1>5, <1>6

\* Where calls do not overlap and writes succeed: a rule that is cached or loaded is active, and
\* does not miss a cooldown; what a call is about to record is the first of its cooldown.
Faithful(r) == r # None => rule.active /\ (rule.cooling => r.cooling)
AlertsInOrder ==
    May("serial") /\ ~May("writes") =>
       /\ \A u, v \in Evaluations : ~Resting(u) /\ ~Resting(v) => u = v
       /\ Faithful(cache.rule)
       /\ \A v \in Evaluations :
             /\ evaluation[v].pc \in {"cache", "count"} => Faithful(evaluation[v].rule)
             /\ evaluation[v].pc = "count" => evaluation[v].rule # None
             /\ ~Resting(v) => (rule.active => evaluation[v].early)
             /\ evaluation[v].pc \in {"insert", "update"} => rule.active /\ ~rule.cooling
             /\ evaluation[v].pc = "insert" => alerts.cooled = 0
       /\ alerts.cooled > 0 => rule.cooling \/ \E v \in Evaluations : evaluation[v].pc = "update"
       /\ alerts.cooled <= 1 /\ ~alerts.disabled

AlertInv ==
    /\ rule \in AlertRule /\ cache \in [rule : AlertRule \cup {None}, fresh : BOOLEAN]
    /\ evaluation \in [Evaluations -> Evaluation]
    /\ alerts \in [cooled : 0..2, disabled : BOOLEAN]
    /\ \A v \in Evaluations : evaluation[v].pc = "count" => evaluation[v].rule # None
    /\ AlertsInOrder

\* The invariant of alerts implies what the run checks of them.
LEMMA AlertSafe == AlertInv => RulesAreObeyed
BY DEF AlertInv, AlertsInOrder, RulesAreObeyed

\* At the start no alert is raised.
LEMMA AlertInitHolds == TrailInit => AlertInv
BY DEF TrailInit, AlertInv, AlertsInOrder, AlertRule, Evaluation, Faithful, Resting

\* What a call of evaluateEvent becomes.
LEMMA EvalForms ==
    ASSUME AlertInv, NEW v \in Evaluations
    PROVE  /\ \A pc \in {"count", "insert", "notify", "update"} :
                EvalAt(v, pc) => /\ evaluation' \in [Evaluations -> Evaluation] /\ evaluation'[v].pc = pc
                                 /\ evaluation'[v].rule = evaluation[v].rule
                                 /\ evaluation'[v].early = evaluation[v].early
                                 /\ \A u \in Evaluations \ {v} : evaluation'[u] = evaluation[u]
           /\ EvalDone(v) => /\ evaluation' \in [Evaluations -> Evaluation] /\ evaluation'[v].pc = "done"
                             /\ \A u \in Evaluations \ {v} : evaluation'[u] = evaluation[u]
<1>0. evaluation \in [Evaluations -> Evaluation] /\ evaluation[v] \in Evaluation
  BY DEF AlertInv
<1>1. ASSUME NEW pc \in {"count", "insert", "notify", "update"}, EvalAt(v, pc)
      PROVE  /\ evaluation' \in [Evaluations -> Evaluation] /\ evaluation'[v].pc = pc
             /\ evaluation'[v].rule = evaluation[v].rule
             /\ evaluation'[v].early = evaluation[v].early
             /\ \A u \in Evaluations \ {v} : evaluation'[u] = evaluation[u]
  <2> DEFINE g == [evaluation[v] EXCEPT !.pc = pc]
  <2>1. /\ g \in Evaluation /\ g.pc = pc /\ g.rule = evaluation[v].rule /\ g.early = evaluation[v].early
    BY <1>0 DEF Evaluation
  <2>2. evaluation' = [evaluation EXCEPT ![v] = g]
    BY <1>1 DEF EvalAt
  <2> HIDE DEF g
  <2> QED
    BY <1>0, <2>1, <2>2
<1>2. ASSUME EvalDone(v)
      PROVE  /\ evaluation' \in [Evaluations -> Evaluation] /\ evaluation'[v].pc = "done"
             /\ \A u \in Evaluations \ {v} : evaluation'[u] = evaluation[u]
  <2>1. [pc |-> "done", rule |-> None, early |-> FALSE] \in Evaluation
    BY DEF Evaluation
  <2> QED
    BY <1>0, <1>2, <2>1 DEF EvalDone
<1> QED
  BY <1>1, <1>2

\* Every step of an evaluation keeps the invariant of alerts.
LEMMA AlertKeeps ==
    ASSUME AlertInv, UNCHANGED allowed,
           \/ \E v \in Evaluations : EvaluateEvent(v) \/ EvaluationStep(v)
           \/ DisableRule \/ CacheAges \/ CooldownEnds
    PROVE  AlertInv'
<1>0. /\ rule \in AlertRule /\ cache \in [rule : AlertRule \cup {None}, fresh : BOOLEAN]
      /\ evaluation \in [Evaluations -> Evaluation]
      /\ alerts \in [cooled : 0..2, disabled : BOOLEAN]
      /\ \A v \in Evaluations : evaluation[v].pc = "count" => evaluation[v].rule # None
  BY DEF AlertInv
<1> USE DEF Resting
<1>1. ASSUME NEW v \in Evaluations, EvaluateEvent(v) PROVE AlertInv'
  <2>1. PICK g \in Evaluation :
           /\ evaluation' = [evaluation EXCEPT ![v] = g] /\ g.early = rule.active
           /\ \/ g.pc = "count" /\ g.rule = cache.rule /\ cache.rule # None
              \/ g.pc = "load"
    <3> DEFINE g1 == [pc |-> "count", rule |-> cache.rule, early |-> rule.active]
               g2 == [pc |-> "load", rule |-> None, early |-> rule.active]
    <3>1. g1 \in Evaluation /\ g1.early = rule.active /\ g1.pc = "count" /\ g1.rule = cache.rule
      BY <1>0 DEF Evaluation, AlertRule
    <3>2. g2 \in Evaluation /\ g2.early = rule.active /\ g2.pc = "load"
      BY <1>0 DEF Evaluation, AlertRule
    <3>3. \/ cache.rule # None /\ evaluation' = [evaluation EXCEPT ![v] = g1]
          \/ evaluation' = [evaluation EXCEPT ![v] = g2]
      BY <1>1 DEF EvaluateEvent
    <3> HIDE DEF g1, g2
    <3> QED
      BY <3>1, <3>2, <3>3
  <2>2. evaluation[v].pc = "idle" /\ Serial /\ UNCHANGED <<rule, cache, alerts>>
    BY <1>1 DEF EvaluateEvent
  <2>3. /\ evaluation' \in [Evaluations -> Evaluation] /\ evaluation'[v] = g
        /\ \A u \in Evaluations \ {v} : evaluation'[u] = evaluation[u]
    BY <1>0, <2>1
  <2>4. AlertsInOrder'
    BY <1>0, <2>1, <2>2, <2>3 DEF AlertInv, AlertsInOrder, Serial, Faithful, May
  <2> QED
    BY <1>0, <2>1, <2>2, <2>3, <2>4 DEF AlertInv
<1>2. ASSUME NEW v \in Evaluations, LoadRules(v) PROVE AlertInv'
  <2>1. /\ evaluation' \in [Evaluations -> Evaluation] /\ UNCHANGED <<rule, cache, alerts>>
        /\ \A u \in Evaluations \ {v} : evaluation'[u] = evaluation[u]
        /\ evaluation[v].pc = "load"
        /\ \/ /\ evaluation'[v].pc = "cache" /\ evaluation'[v].early = evaluation[v].early
              /\ evaluation'[v].rule = IF rule.active THEN rule ELSE None
           \/ evaluation'[v].pc = "done"
    <3>1. CASE EvalDone(v)
      BY <1>2, <3>1, EvalForms DEF LoadRules
    <3>2. CASE evaluation' = [evaluation EXCEPT ![v] =
                  [pc |-> "cache", rule |-> IF rule.active THEN rule ELSE None, early |-> evaluation[v].early]]
      <4> DEFINE g == [pc |-> "cache", rule |-> IF rule.active THEN rule ELSE None, early |-> evaluation[v].early]
      <4>1. g \in Evaluation
        BY <1>0 DEF Evaluation
      <4>2. evaluation' = [evaluation EXCEPT ![v] = g]
        BY <3>2
      <4> QED
        BY <1>0, <1>2, <4>1, <4>2 DEF LoadRules
    <3> QED
      BY <1>2, <3>1, <3>2 DEF LoadRules
  <2>2. AlertsInOrder'
    BY <1>0, <2>1 DEF AlertInv, AlertsInOrder, Faithful, May
  <2> QED
    BY <1>0, <2>1, <2>2 DEF AlertInv
<1>3. ASSUME NEW v \in Evaluations, CacheRules(v) PROVE AlertInv'
  <2>1. /\ evaluation[v].pc = "cache" /\ UNCHANGED <<rule, alerts>>
        /\ cache' = [rule |-> evaluation[v].rule, fresh |-> TRUE]
        /\ IF evaluation[v].rule = None THEN EvalDone(v) ELSE EvalAt(v, "count")
    BY <1>3 DEF CacheRules
  <2>2. /\ evaluation' \in [Evaluations -> Evaluation]
        /\ \A u \in Evaluations \ {v} : evaluation'[u] = evaluation[u]
        /\ \/ evaluation'[v].pc = "done"
           \/ /\ evaluation'[v].pc = "count" /\ evaluation'[v].early = evaluation[v].early
              /\ evaluation'[v].rule = evaluation[v].rule /\ evaluation[v].rule # None
    BY <2>1, EvalForms
  <2>3. cache' \in [rule : AlertRule \cup {None}, fresh : BOOLEAN] /\ cache'.rule = evaluation[v].rule
    BY <1>0, <2>1 DEF Evaluation
  <2>4. AlertsInOrder'
    BY <1>0, <2>1, <2>2, <2>3 DEF AlertInv, AlertsInOrder, Faithful, May
  <2> QED
    BY <1>0, <2>1, <2>2, <2>3, <2>4 DEF AlertInv
<1>4. ASSUME NEW v \in Evaluations, CheckThreshold(v) PROVE AlertInv'
  <2>1. /\ evaluation[v].pc = "count" /\ UNCHANGED <<rule, cache, alerts>>
        /\ IF evaluation[v].rule.cooling THEN EvalDone(v)
           ELSE EvalAt(v, "insert") \/ (May("reads") /\ EvalDone(v))
    BY <1>4 DEF CheckThreshold
  <2>2. /\ evaluation' \in [Evaluations -> Evaluation]
        /\ \A u \in Evaluations \ {v} : evaluation'[u] = evaluation[u]
        /\ \/ evaluation'[v].pc = "done"
           \/ /\ evaluation'[v].pc = "insert" /\ evaluation'[v].early = evaluation[v].early
              /\ ~evaluation[v].rule.cooling
    BY <2>1, EvalForms
  <2>3. AlertsInOrder'
    BY <1>0, <2>1, <2>2 DEF AlertInv, AlertsInOrder, Faithful, May, AlertRule
  <2> QED
    BY <1>0, <2>1, <2>2, <2>3 DEF AlertInv
<1>5. ASSUME NEW v \in Evaluations, InsertAlert(v) PROVE AlertInv'
  <2>1. /\ evaluation[v].pc = "insert" /\ UNCHANGED <<rule, cache>>
        /\ \/ /\ alerts' = [cooled |-> IF alerts.cooled < 2 THEN alerts.cooled + 1 ELSE 2,
                            disabled |-> IF evaluation[v].early THEN alerts.disabled ELSE TRUE]
              /\ EvalAt(v, "update")
           \/ May("writes") /\ EvalDone(v) /\ alerts' = alerts
    BY <1>5 DEF InsertAlert
  <2>2. /\ evaluation' \in [Evaluations -> Evaluation]
        /\ \A u \in Evaluations \ {v} : evaluation'[u] = evaluation[u]
        /\ \/ evaluation'[v].pc = "done" /\ May("writes")
           \/ evaluation'[v].pc = "update" /\ evaluation'[v].early = evaluation[v].early
    BY <2>1, EvalForms
  <2>3. /\ alerts' \in [cooled : 0..2, disabled : BOOLEAN]
        /\ \/ May("writes")
           \/ /\ alerts.cooled = 0 => alerts'.cooled = 1
              /\ evaluation[v].early => (alerts'.disabled => alerts.disabled)
    <3>1. CASE alerts' = alerts /\ May("writes")
      BY <1>0, <3>1
    <3>2. CASE alerts' = [cooled |-> IF alerts.cooled < 2 THEN alerts.cooled + 1 ELSE 2,
                          disabled |-> IF evaluation[v].early THEN alerts.disabled ELSE TRUE]
      <4> DEFINE c == IF alerts.cooled < 2 THEN alerts.cooled + 1 ELSE 2
                 d == IF evaluation[v].early THEN alerts.disabled ELSE TRUE
      <4>1. c \in 0..2 /\ (alerts.cooled = 0 => c = 1)
        BY <1>0
      <4>2. d \in BOOLEAN
        BY <1>0
      <4>3. evaluation[v].early => (d => alerts.disabled)
        OBVIOUS
      <4>4. alerts' = [cooled |-> c, disabled |-> d]
        BY <3>2
      <4> HIDE DEF c, d
      <4> QED
        BY <4>1, <4>2, <4>3, <4>4
    <3> QED
      BY <2>1, <3>1, <3>2
  <2>4. AlertsInOrder'
    <3> SUFFICES ASSUME May("serial"), ~May("writes") PROVE AlertsInOrder'
      BY DEF AlertsInOrder, May
    <3>1. alerts.cooled = 0 /\ ~alerts.disabled /\ evaluation[v].early /\ rule.active /\ ~rule.cooling
      BY <2>1 DEF AlertInv, AlertsInOrder
    <3>2. alerts'.cooled = 1 /\ ~alerts'.disabled /\ evaluation'[v].pc = "update"
           /\ evaluation'[v].early = evaluation[v].early
      <4>1. /\ alerts'.cooled = 1 /\ (alerts'.disabled => alerts.disabled)
            /\ evaluation'[v].pc = "update" /\ evaluation'[v].early = evaluation[v].early
        BY <2>1, <2>2, <2>3, <3>1
      <4> QED
        BY <3>1, <4>1
    <3>3. Faithful(cache.rule)' /\ rule'.active /\ ~rule'.cooling
      BY <2>1, <3>1 DEF AlertInv, AlertsInOrder, Faithful
    <3>4. ASSUME NEW u \in Evaluations \ {v}
          PROVE  evaluation'[u] = evaluation[u] /\ evaluation[u].pc \in {"idle", "done"}
      BY <2>1, <2>2 DEF AlertInv, AlertsInOrder
    <3>5. \A u, w \in Evaluations : ~Resting(u)' /\ ~Resting(w)' => u = w
      BY <3>4
    <3>6. ASSUME NEW u \in Evaluations
          PROVE  /\ evaluation'[u].pc \in {"cache", "count"} => Faithful(evaluation[u].rule)'
                 /\ evaluation'[u].pc = "count" => evaluation'[u].rule # None
                 /\ evaluation'[u].pc \notin {"idle", "done"} => (rule'.active => evaluation'[u].early)
                 /\ evaluation'[u].pc \in {"insert", "update"} => rule'.active /\ ~rule'.cooling
                 /\ evaluation'[u].pc = "insert" => alerts'.cooled = 0
      <4>1. CASE u = v
        BY <3>1, <3>2, <3>3, <4>1
      <4>2. CASE u # v
        BY <3>4, <4>2
      <4> QED
        BY <4>1, <4>2
    <3>7. May("serial")' /\ ~May("writes")'
      BY DEF May
    <3>8. alerts'.cooled <= 1 /\ ~alerts'.disabled /\ (\E u \in Evaluations : evaluation'[u].pc = "update")
      BY <3>2
    <3> QED
      BY <3>3, <3>5, <3>6, <3>8 DEF AlertsInOrder
  <2> QED
    BY <1>0, <2>1, <2>2, <2>3, <2>4 DEF AlertInv
<1>6. ASSUME NEW v \in Evaluations, UpdateRule(v) PROVE AlertInv'
  <2>1. /\ evaluation[v].pc = "update" /\ alerts' = alerts /\ cache' = NoCache /\ EvalAt(v, "notify")
        /\ \/ rule' = [rule EXCEPT !.cooling = TRUE]
           \/ May("writes") /\ rule' = rule
    BY <1>6 DEF UpdateRule
  <2>2. /\ evaluation' \in [Evaluations -> Evaluation] /\ evaluation'[v].pc = "notify"
        /\ evaluation'[v].early = evaluation[v].early
        /\ \A u \in Evaluations \ {v} : evaluation'[u] = evaluation[u]
    BY <2>1, EvalForms
  <2>3. /\ rule' \in AlertRule /\ rule'.active = rule.active /\ cache' \in [rule : AlertRule \cup {None}, fresh : BOOLEAN]
        /\ cache'.rule = None /\ (rule'.cooling \/ May("writes"))
    BY <1>0, <2>1 DEF AlertRule, NoCache
  <2>4. AlertsInOrder'
    BY <1>0, <2>1, <2>2, <2>3 DEF AlertInv, AlertsInOrder, Faithful, May
  <2> QED
    BY <1>0, <2>1, <2>2, <2>3, <2>4 DEF AlertInv
<1>7. ASSUME NEW v \in Evaluations, SendNotifications(v) PROVE AlertInv'
  <2>1. evaluation[v].pc = "notify" /\ UNCHANGED <<rule, cache, alerts>> /\ EvalDone(v)
    BY <1>7 DEF SendNotifications
  <2>2. /\ evaluation' \in [Evaluations -> Evaluation] /\ evaluation'[v].pc = "done"
        /\ \A u \in Evaluations \ {v} : evaluation'[u] = evaluation[u]
    BY <2>1, EvalForms
  <2>3. AlertsInOrder'
    BY <1>0, <2>1, <2>2 DEF AlertInv, AlertsInOrder, Faithful, May
  <2> QED
    BY <1>0, <2>1, <2>2, <2>3 DEF AlertInv
<1>8. CASE DisableRule
  <2>1. /\ Serial /\ UNCHANGED <<evaluation, alerts>> /\ cache' = NoCache
        /\ rule' = [rule EXCEPT !.active = FALSE]
    BY <1>8 DEF DisableRule
  <2>2. /\ rule' \in AlertRule /\ rule'.cooling = rule.cooling /\ cache' \in [rule : AlertRule \cup {None}, fresh : BOOLEAN]
        /\ cache'.rule = None
    BY <1>0, <2>1 DEF AlertRule, NoCache
  <2>3. AlertsInOrder'
    BY <1>0, <2>1, <2>2 DEF AlertInv, AlertsInOrder, Serial, Faithful, May
  <2> QED
    BY <1>0, <2>1, <2>2, <2>3 DEF AlertInv
<1>9. CASE CacheAges
  <2>1. /\ UNCHANGED <<rule, evaluation, alerts>> /\ cache' \in [rule : AlertRule \cup {None}, fresh : BOOLEAN]
        /\ cache'.rule = cache.rule
    BY <1>0, <1>9 DEF CacheAges
  <2> QED
    BY <1>0, <2>1 DEF AlertInv, AlertsInOrder, Faithful, May
<1>10. CASE CooldownEnds
  <2>1. /\ UNCHANGED <<cache, evaluation>> /\ rule.cooling
        /\ rule' \in AlertRule /\ rule'.active = rule.active /\ ~rule'.cooling
        /\ alerts' \in [cooled : 0..2, disabled : BOOLEAN] /\ alerts'.cooled = 0 /\ alerts'.disabled = alerts.disabled
    <3>1. UNCHANGED <<cache, evaluation>> /\ rule.cooling /\ rule' = [rule EXCEPT !.cooling = FALSE]
      BY <1>10 DEF CooldownEnds
    <3>2. alerts' = [alerts EXCEPT !.cooled = 0]
      BY <1>10 DEF CooldownEnds
    <3>3. rule' \in AlertRule /\ rule'.active = rule.active /\ ~rule'.cooling
      BY <1>0, <3>1 DEF AlertRule
    <3>4. alerts' \in [cooled : 0..2, disabled : BOOLEAN] /\ alerts'.cooled = 0 /\ alerts'.disabled = alerts.disabled
      BY <1>0, <3>2
    <3> QED
      BY <3>1, <3>3, <3>4
  <2> QED
    BY <1>0, <2>1 DEF AlertInv, AlertsInOrder, Faithful, May
<1> QED
  BY <1>1, <1>2, <1>3, <1>4, <1>5, <1>6, <1>7, <1>8, <1>9, <1>10 DEF EvaluationStep

-----------------------------------------------------------------------------
(* Sessions and their actions: where calls do not overlap, a place is free before an insert. *)

\* A non-empty set of numbers has a least one.
LEMMA LeastOf ==
    ASSUME NEW T, T \subseteq Nat, T # {}
    PROVE  \E x \in T : \A y \in T : x <= y
<1>1. \E x \in T : \A y \in T : ~(<<y, x>> \in OpToRel(<, Nat))
  BY NatLessThanWellFounded, WFMin, Zenon
<1>2. PICK x \in T : \A y \in T : ~(<<y, x>> \in OpToRel(<, Nat))
  BY <1>1, Zenon
<1>3. ASSUME NEW y \in T PROVE x <= y
  <2>1. ~(<<y, x>> \in {ss \in Nat \X Nat : ss[1] < ss[2]})
    BY <1>2 DEF OpToRel
  <2>2. ~(y < x)
    BY <2>1
  <2>3. x \in Nat /\ y \in Nat
    OBVIOUS
  <2> QED
    BY <2>2, <2>3
<1> QED
  BY <1>3

\* Calls that have begun and not ended.
Busy(s) == login[s].pc \notin {"idle", "done", "failed"}
Doing(x) == acting[x].pc \notin {"idle", "done"}
Alone == May("serial") => /\ \A s, t \in Logins : Busy(s) /\ Busy(t) => s = t
                          /\ \A x, y \in SessionActions : Doing(x) /\ Doing(y) => x = y

\* A stored session has its place in both orders, a stamped one the last by the clock where
\* logins do not overlap; the session a login is about to end is older than every open one.
Occurs(order, s) == \E i \in DOMAIN order : order[i] = s
MayGo(o) == /\ o \in Logins /\ session[o].state # "none"
           /\ \A t \in Logins : session[t].state = "open" => t = o \/ Older(o, t)
InOrder ==
    /\ \A s \in Logins : session[s].state # "none" => Occurs(started, s) /\ Occurs(inserted, s)
    /\ \A s \in Logins : login[s].pc = "insert" =>
          Occurs(started, s) /\ (May("serial") => started[Len(started)] = s)
    /\ \A s \in Logins : login[s].pc = "end" => MayGo(login[s].oldest)

\* One place is free before an insert, or will be once the oldest has gone.
PlaceIsFree ==
    May("serial") /\ ~PatchFails =>
       /\ Cardinality(Open) <= MaxConcurrent
       /\ \A s \in Logins : login[s].pc = "end" => Cardinality(Open \ {login[s].oldest}) < MaxConcurrent
       /\ \A s \in Logins : login[s].pc \in {"stamp", "insert"} => Cardinality(Open) < MaxConcurrent

LoggedIn == {s \in Logins : login[s].pc = "done"}
CountIsCurrent ==
    May("serial") /\ ~FetchFails /\ ~PatchFails =>
       /\ baseline = Cardinality(LoggedIn)
       /\ \A s \in Logins : login[s].pc = "update" => login[s].seen = baseline

LastIsKnown ==
    May("serial") /\ ~FetchFails =>
       /\ \A i \in DOMAIN acts : acts[i].prev = IF i = 1 THEN None ELSE acts[i - 1].act
       /\ \A x \in SessionActions : acting[x].pc = "insert" => acting[x].prev = LastAction

SessInv == /\ SessionTypeOK /\ Alone /\ InOrder /\ OldestGoesFirst
           /\ PlaceIsFree /\ CountIsCurrent /\ LastIsKnown

\* The invariant of sessions implies what the run checks of them.
LEMMA SessSafe ==
    SessInv => SessionsBounded /\ OldestGoesFirst /\ LoginsAreCounted /\ ActionChainIsLinear
BY DEF SessInv, PlaceIsFree, CountIsCurrent, LastIsKnown, LoggedIn, SessionsBounded, LoginsAreCounted,
       ActionChainIsLinear

\* At the start nobody is logged in.
LEMMA SessInitHolds == SessionInit => SessInv
<1> SUFFICES ASSUME SessionInit PROVE SessInv
  OBVIOUS
<1>1. <<>> \in Seq(Logins) /\ <<>> \in Seq(SessionAction) /\ DOMAIN <<>> = {}
  OBVIOUS
<1>2. SessionTypeOK
  BY <1>1 DEF SessionInit, SessionTypeOK, UserSession, SessionEndReason, Login, Acting
<1>3. Open = {} /\ LoggedIn = {}
  BY DEF SessionInit, Open, LoggedIn
<1>4. Cardinality(Open) = 0 /\ Cardinality(LoggedIn) = 0
  BY <1>3, FS_EmptySet
<1>5. Alone /\ InOrder /\ OldestGoesFirst /\ LastIsKnown
  BY <1>1 DEF SessionInit, Alone, Busy, Doing, InOrder, OldestGoesFirst, LastIsKnown
<1>6. PlaceIsFree /\ CountIsCurrent
  BY <1>4, UserSessionsAssumption DEF SessionInit, PlaceIsFree, CountIsCurrent
<1> QED
  BY <1>2, <1>5, <1>6 DEF SessInv

\* What a call of startSession becomes.
LEMMA LoginForms ==
    ASSUME login \in [Logins -> Login], NEW s \in Logins,
           NEW pc \in {"idle", "sessions", "end", "stamp", "insert", "detect", "risk", "anomaly",
                       "baseline", "update", "done", "failed"}
    PROVE  /\ LoginAt(s, pc) => /\ login' \in [Logins -> Login] /\ login'[s].pc = pc
                                /\ login'[s].oldest = login[s].oldest /\ login'[s].seen = login[s].seen
                                /\ \A t \in Logins \ {s} : login'[t] = login[t]
           /\ LoginEnds(s, pc) => /\ login' \in [Logins -> Login] /\ login'[s].pc = pc
                                  /\ \A t \in Logins \ {s} : login'[t] = login[t]
<1>1. ASSUME LoginAt(s, pc)
      PROVE  /\ login' \in [Logins -> Login] /\ login'[s].pc = pc
             /\ login'[s].oldest = login[s].oldest /\ login'[s].seen = login[s].seen
             /\ \A t \in Logins \ {s} : login'[t] = login[t]
  <2> DEFINE g == [login[s] EXCEPT !.pc = pc]
  <2>1. g \in Login /\ g.pc = pc /\ g.oldest = login[s].oldest /\ g.seen = login[s].seen
    BY DEF Login
  <2>2. login' = [login EXCEPT ![s] = g]
    BY <1>1 DEF LoginAt
  <2> HIDE DEF g
  <2> QED
    BY <2>1, <2>2
<1>2. ASSUME LoginEnds(s, pc)
      PROVE  /\ login' \in [Logins -> Login] /\ login'[s].pc = pc
             /\ \A t \in Logins \ {s} : login'[t] = login[t]
  <2>1. [pc |-> pc, oldest |-> None, seen |-> 0] \in Login
    BY DEF Login
  <2> QED
    BY <1>2, <2>1 DEF LoginEnds
<1> QED
  BY <1>1, <1>2

-----------------------------------------------------------------------------
\* The parts, where a step leaves alone what they are about.
LEMMA AloneStays ==
    ASSUME Alone, UNCHANGED allowed, \A t \in Logins : Busy(t)' => Busy(t),
           \A x \in SessionActions : Doing(x)' => Doing(x)
    PROVE  Alone'
BY DEF Alone, May

\* What came before comes before in a longer order, and before what is appended.
LEMMA AppendKeepsOrder ==
    ASSUME NEW S, NEW q \in Seq(S), NEW x \in S, NEW r, r = Append(q, x)
    PROVE  /\ r \in Seq(S) /\ r[Len(r)] = x /\ Occurs(r, x)
           /\ \A s : Occurs(q, s) => Occurs(r, s) /\ Precedes(r, s, x)
           /\ \A s, t : Precedes(q, s, t) => Precedes(r, s, t)
<1> DEFINE n == Len(q)
<1>1. /\ r \in Seq(S) /\ Len(r) = n + 1 /\ n \in Nat /\ DOMAIN q = 1 .. n /\ DOMAIN r = 1 .. n + 1
      /\ r[n + 1] = x /\ \A i \in 1 .. n : r[i] = q[i]
  OBVIOUS
<1> HIDE DEF n
<1>2. n + 1 \in DOMAIN r /\ \A i \in DOMAIN q : i \in DOMAIN r /\ i < n + 1
  BY <1>1
<1>3. r \in Seq(S) /\ r[Len(r)] = x /\ Occurs(r, x)
  BY <1>1, <1>2 DEF Occurs
<1>4. ASSUME NEW s, Occurs(q, s) PROVE Occurs(r, s) /\ Precedes(r, s, x)
  <2>1. PICK i \in DOMAIN q : q[i] = s
    BY <1>4 DEF Occurs
  <2>2. i \in DOMAIN r /\ i < n + 1 /\ r[i] = s
    BY <1>1, <1>2, <2>1
  <2> QED
    BY <1>1, <1>2, <2>2 DEF Occurs, Precedes
<1>5. ASSUME NEW s, NEW t, Precedes(q, s, t) PROVE Precedes(r, s, t)
  <2>1. PICK i, j \in DOMAIN q : i < j /\ q[i] = s /\ q[j] = t
    BY <1>5 DEF Precedes
  <2>2. i \in DOMAIN r /\ j \in DOMAIN r /\ r[i] = s /\ r[j] = t
    BY <1>1, <1>2, <2>1
  <2> QED
    BY <2>1, <2>2 DEF Precedes
<1> QED
  BY <1>3, <1>4, <1>5

\* Sessions end, and the open ones stay those of the same order.
LEMMA OrderStays ==
    ASSUME InOrder, OldestGoesFirst, UNCHANGED <<allowed, started, inserted>>,
           \A t \in Logins : \/ session'[t].state = session[t].state
                             \/ session[t].state # "none" /\ session'[t].state \notin {"none", "open"},
           \A t \in Logins : session'[t].state = "LIMIT" => session[t].state = "LIMIT" \/ MayGo(t),
           \A s \in Logins : login'[s].pc \in {"end", "insert"} => login'[s] = login[s]
    PROVE  InOrder' /\ OldestGoesFirst'
<1>1. \A s, t \in Logins : Older(s, t)' <=> Older(s, t)
  BY DEF Older, Precedes, May
<1>2. \A t \in Logins : session'[t].state = "open" => session[t].state = "open"
  OBVIOUS
<1>3. ASSUME NEW o, MayGo(o) PROVE MayGo(o)'
  BY <1>1, <1>2, <1>3 DEF MayGo
<1>4. ASSUME NEW s \in Logins, login'[s].pc = "end" PROVE MayGo(login[s].oldest)'
  <2>1. login'[s] = login[s] /\ MayGo(login[s].oldest)
    BY <1>4 DEF InOrder
  <2>2. login'[s].oldest = login[s].oldest
    BY <2>1
  <2> QED
    BY <1>1, <1>2, <2>1, <2>2 DEF MayGo
<1>5. ASSUME NEW s \in Logins, login'[s].pc = "insert"
      PROVE  (Occurs(started, s) /\ (May("serial") => started[Len(started)] = s))'
  BY <1>5 DEF InOrder, Occurs, May
<1>6. ASSUME NEW s \in Logins, session'[s].state # "none"
      PROVE  (Occurs(started, s) /\ Occurs(inserted, s))'
  <2>1. session[s].state # "none"
    BY <1>6
  <2> QED
    BY <2>1 DEF InOrder, Occurs
<1>7. InOrder'
  BY <1>4, <1>5, <1>6 DEF InOrder
<1>8. ASSUME NEW s \in Logins, NEW t \in Logins, session'[s].state = "LIMIT", session'[t].state = "open"
      PROVE  Older(s, t)
  <2>1. session[t].state = "open" /\ s # t
    BY <1>2, <1>8
  <2>2. session[s].state = "LIMIT" \/ MayGo(s)
    BY <1>8
  <2> QED
    BY <2>1, <2>2 DEF OldestGoesFirst, MayGo
<1> QED
  BY <1>1, <1>7, <1>8 DEF OldestGoesFirst

\* No session begins, and the calls at an insert had their place.
LEMMA PlaceStays ==
    ASSUME PlaceIsFree, UNCHANGED allowed, Open' \subseteq Open,
           \A t \in Logins : login'[t].pc = "end" => login'[t] = login[t],
           \A t \in Logins : login'[t].pc \in {"stamp", "insert"} =>
              login[t].pc \in {"stamp", "insert"} \/ PatchFails \/ (login[t].pc = "end" /\ login[t].oldest \notin Open')
    PROVE  PlaceIsFree'
<1> SUFFICES ASSUME May("serial"), ~PatchFails PROVE PlaceIsFree'
  BY DEF PlaceIsFree, May, PatchFails
<1>1. IsFiniteSet(Open)
  BY UserSessionsAssumption, FS_Subset DEF Open
<1>2. \A S \in SUBSET Open : \A T \in SUBSET S :
         Cardinality(T) \in Nat /\ Cardinality(S) \in Nat /\ Cardinality(T) <= Cardinality(S)
  BY <1>1, FS_Subset, FS_CardinalityType
<1>3. MaxConcurrent \in Nat
  BY UserSessionsAssumption
<1>4. Cardinality(Open') <= MaxConcurrent
  BY <1>2, <1>3 DEF PlaceIsFree
<1>5. ASSUME NEW t \in Logins, login'[t].pc = "end"
      PROVE  Cardinality(Open' \ {login'[t].oldest}) < MaxConcurrent
  <2>1. login'[t] = login[t] /\ Cardinality(Open \ {login[t].oldest}) < MaxConcurrent
    BY <1>5 DEF PlaceIsFree
  <2>2. Open' \ {login[t].oldest} \subseteq Open \ {login[t].oldest}
    OBVIOUS
  <2> QED
    BY <1>2, <1>3, <2>1, <2>2
<1>6. ASSUME NEW t \in Logins, login'[t].pc \in {"stamp", "insert"} PROVE Cardinality(Open') < MaxConcurrent
  <2>1. CASE login[t].pc \in {"stamp", "insert"}
    BY <1>2, <1>3, <2>1 DEF PlaceIsFree
  <2>2. CASE login[t].pc = "end" /\ login[t].oldest \notin Open'
    <3>1. Cardinality(Open \ {login[t].oldest}) < MaxConcurrent
      BY <2>2 DEF PlaceIsFree
    <3>2. Open' \subseteq Open \ {login[t].oldest}
      BY <2>2
    <3> QED
      BY <1>2, <1>3, <3>1, <3>2
  <2> QED
    BY <1>6, <2>1, <2>2
<1> QED
  BY <1>4, <1>5, <1>6 DEF PlaceIsFree

\* Neither the baseline nor who is logged in changes.
LEMMA CountStays ==
    ASSUME CountIsCurrent, UNCHANGED allowed, baseline' = baseline, LoggedIn' = LoggedIn,
           \A t \in Logins : login'[t].pc = "update" => login'[t] = login[t]
    PROVE  CountIsCurrent'
BY DEF CountIsCurrent, May, FetchFails, PatchFails

\* No action is logged.
LEMMA LastStays ==
    ASSUME LastIsKnown, UNCHANGED <<allowed, acts, acting>>
    PROVE  LastIsKnown'
BY DEF LastIsKnown, LastAction, May, FetchFails

\* A call goes on to an anomaly or the baseline, or fails; no session begins or ends.
LEMMA LoginMoves ==
    ASSUME SessInv, UNCHANGED <<allowed, started, inserted, baseline, acts, acting>>, anomalies' \subseteq Logins,
           session' \in [Logins -> UserSession], \A t \in Logins : session'[t].state = session[t].state,
           NEW s \in Logins, Busy(s), login' \in [Logins -> Login],
           \A t \in Logins \ {s} : login'[t] = login[t],
           login'[s].pc \in {"risk", "anomaly", "baseline", "failed"}
    PROVE  SessInv'
<1>1. SessionTypeOK'
  BY DEF SessInv, SessionTypeOK
<1>2. Alone'
  BY AloneStays DEF SessInv, Busy, Doing
<1>3. InOrder' /\ OldestGoesFirst'
  <2>1. \A t \in Logins : login'[t].pc \in {"end", "insert"} => login'[t] = login[t]
    OBVIOUS
  <2> QED
    BY <2>1, OrderStays DEF SessInv
<1>4. PlaceIsFree'
  <2>1. Open' \subseteq Open
    BY DEF Open
  <2>2. \A t \in Logins : login'[t].pc = "end" => login'[t] = login[t]
    OBVIOUS
  <2>3. \A t \in Logins : login'[t].pc \in {"stamp", "insert"} => login[t].pc = login'[t].pc
    OBVIOUS
  <2> QED
    BY <2>1, <2>2, <2>3, PlaceStays DEF SessInv
<1>5. CountIsCurrent'
  <2>1. LoggedIn' = LoggedIn
    BY DEF LoggedIn, Busy
  <2>2. \A t \in Logins : login'[t].pc = "update" => login'[t] = login[t]
    OBVIOUS
  <2> QED
    BY <2>1, <2>2, CountStays DEF SessInv
<1>6. LastIsKnown'
  BY LastStays DEF SessInv
<1> QED
  BY <1>1, <1>2, <1>3, <1>4, <1>5, <1>6 DEF SessInv

\* Sessions end; none for the limit.
LEMMA SessionsMove ==
    ASSUME SessInv, UNCHANGED <<allowed, started, inserted, login, baseline, anomalies, acts, acting>>,
           session' \in [Logins -> UserSession],
           \A t \in Logins : \/ session'[t].state = session[t].state
                             \/ session[t].state # "none" /\ session'[t].state \notin {"none", "open", "LIMIT"}
    PROVE  SessInv'
<1>1. SessionTypeOK'
  BY DEF SessInv, SessionTypeOK
<1>2. Alone'
  BY AloneStays DEF SessInv, Busy, Doing
<1>3. InOrder' /\ OldestGoesFirst'
  <2>1. \A t \in Logins : \/ session'[t].state = session[t].state
                          \/ session[t].state # "none" /\ session'[t].state \notin {"none", "open"}
    OBVIOUS
  <2>2. \A t \in Logins : session'[t].state = "LIMIT" => session[t].state = "LIMIT" \/ MayGo(t)
    OBVIOUS
  <2> QED
    BY <2>1, <2>2, OrderStays DEF SessInv
<1>4. PlaceIsFree'
  <2>1. Open' \subseteq Open
    BY DEF Open
  <2> QED
    BY <2>1, PlaceStays DEF SessInv
<1>5. CountIsCurrent'
  BY CountStays DEF SessInv, LoggedIn
<1>6. LastIsKnown'
  BY LastStays DEF SessInv
<1> QED
  BY <1>1, <1>2, <1>3, <1>4, <1>5, <1>6 DEF SessInv

\* A call of startSession that begins keeps the invariant of sessions.
LEMMA StartSessionKeeps ==
    ASSUME SessInv, UNCHANGED allowed, NEW s \in Logins, StartSession(s)
    PROVE  SessInv'
<1>0. /\ login[s].pc = "idle" /\ OneByOne
      /\ UNCHANGED <<session, started, inserted, baseline, anomalies, acts, acting>>
  BY DEF StartSession
<1>1. /\ login' \in [Logins -> Login] /\ login'[s].pc \in {"sessions", "failed"}
      /\ \A t \in Logins \ {s} : login'[t] = login[t]
  BY LoginForms DEF StartSession, SessInv, SessionTypeOK
<1>2. SessionTypeOK'
  BY <1>0, <1>1 DEF SessInv, SessionTypeOK
<1>3. Alone'
  <2> SUFFICES ASSUME May("serial") PROVE Alone'
    BY <1>0 DEF Alone, May
  <2>1. AtRest
    BY <1>0 DEF OneByOne
  <2>2. \A t \in Logins : Busy(t)' => t = s
    BY <1>1, <2>1 DEF Busy, AtRest
  <2>3. \A x \in SessionActions : ~Doing(x)'
    BY <1>0, <2>1 DEF Doing, AtRest
  <2> QED
    BY <2>2, <2>3 DEF Alone
<1>4. InOrder' /\ OldestGoesFirst'
  <2>1. \A t \in Logins : login'[t].pc \in {"end", "insert"} => login'[t] = login[t]
    BY <1>1
  <2> QED
    BY <1>0, <2>1, OrderStays DEF SessInv
<1>5. PlaceIsFree'
  <2>1. Open' \subseteq Open
    BY <1>0 DEF Open
  <2>2. \A t \in Logins : login'[t].pc = "end" => login'[t] = login[t]
    BY <1>1
  <2>3. \A t \in Logins : login'[t].pc \in {"stamp", "insert"} => login[t].pc = login'[t].pc
    BY <1>1
  <2> QED
    BY <2>1, <2>2, <2>3, PlaceStays DEF SessInv
<1>6. CountIsCurrent'
  <2>1. LoggedIn' = LoggedIn
    BY <1>0, <1>1 DEF LoggedIn
  <2>2. \A t \in Logins : login'[t].pc = "update" => login'[t] = login[t]
    BY <1>1
  <2> QED
    BY <1>0, <2>1, <2>2, CountStays DEF SessInv
<1>7. LastIsKnown'
  BY <1>0, LastStays DEF SessInv
<1> QED
  BY <1>2, <1>3, <1>4, <1>5, <1>6, <1>7 DEF SessInv

\* The oldest open session, if there are as many as the roles allow.
LEMMA ChosenIsFirst ==
    ASSUME SessInv
    PROVE  /\ Chosen(Open) = None => Cardinality(Open) < MaxConcurrent
           /\ Chosen(Open) # None => /\ Chosen(Open) \in Open /\ MayGo(Chosen(Open))
                                     /\ Cardinality(Open) >= MaxConcurrent
<1>0. /\ MaxConcurrent \in Nat /\ MaxConcurrent > 0 /\ None \notin Logins
      /\ IsFiniteSet(Open) /\ Cardinality(Open) \in Nat
  BY UserSessionsAssumption, FS_Subset, FS_CardinalityType DEF Open
<1>1. started \in Seq(Logins) /\ \A i \in DOMAIN started : started[i] \in Logins /\ i \in Nat
  BY DEF SessInv, SessionTypeOK
<1>2. CASE Cardinality(Open) >= MaxConcurrent
  <2>1. Open # {}
    BY <1>0, <1>2, FS_EmptySet
  <2>2. StartedAt(Open) # {} /\ StartedAt(Open) \subseteq Nat
    BY <1>1, <2>1 DEF StartedAt, Open, SessInv, InOrder, Occurs
  <2>3. \E i \in StartedAt(Open) : \A j \in StartedAt(Open) : i <= j
    BY <2>2, LeastOf
  <2> DEFINE k == CHOOSE i \in StartedAt(Open) : \A j \in StartedAt(Open) : i <= j
  <2>4. k \in StartedAt(Open) /\ \A j \in StartedAt(Open) : k <= j
    BY <2>3
  <2>5. Chosen(Open) = started[k]
    BY <1>2 DEF Chosen, First
  <2> HIDE DEF k
  <2>6. started[k] \in Open /\ k \in DOMAIN started
    BY <2>4 DEF StartedAt
  <2>7. MayGo(started[k])
    <3>1. ASSUME NEW t \in Logins, session[t].state = "open", t # started[k] PROVE Precedes(started, started[k], t)
      <4>1. PICK j \in DOMAIN started : started[j] = t
        BY <3>1 DEF SessInv, InOrder, Occurs
      <4>2. j \in StartedAt(Open) /\ j # k
        BY <3>1, <4>1 DEF StartedAt, Open
      <4>3. k < j
        BY <1>1, <2>4, <2>6, <4>1, <4>2
      <4> QED
        BY <2>6, <4>1, <4>3 DEF Precedes
    <3> QED
      BY <2>6, <3>1 DEF MayGo, Older, Open
  <2>8. started[k] # None
    BY <1>0, <2>6 DEF Open
  <2> QED
    BY <1>2, <2>5, <2>6, <2>7, <2>8
<1>3. CASE ~(Cardinality(Open) >= MaxConcurrent)
  BY <1>0, <1>3 DEF Chosen
<1> QED
  BY <1>2, <1>3

\* Reading the open sessions keeps it, and picks the oldest where they are too many.
LEMMA ReadSessionsKeeps ==
    ASSUME SessInv, UNCHANGED allowed, NEW s \in Logins, ReadSessions(s)
    PROVE  SessInv'
<1>0. /\ login[s].pc = "sessions" /\ UNCHANGED <<session, started, inserted, baseline, anomalies, acts, acting>>
      /\ login \in [Logins -> Login] /\ login[s] \in Login
  BY DEF ReadSessions, SessInv, SessionTypeOK
<1>1. CASE LoginEnds(s, "failed")
  <2>1. /\ login' \in [Logins -> Login] /\ login'[s].pc = "failed"
        /\ \A t \in Logins \ {s} : login'[t] = login[t]
    BY <1>0, <1>1, LoginForms
  <2>2. anomalies' \subseteq Logins /\ session' \in [Logins -> UserSession] /\ Busy(s)
    BY <1>0 DEF SessInv, SessionTypeOK, Busy
  <2> QED
    BY <1>0, <2>1, <2>2, LoginMoves
<1>2. CASE login' = [login EXCEPT ![s].oldest = Chosen(Open),
                       ![s].pc = IF Chosen(Open) = None THEN "stamp" ELSE "end"]
  <2> DEFINE g == [login[s] EXCEPT !.oldest = Chosen(Open),
                                   !.pc = IF Chosen(Open) = None THEN "stamp" ELSE "end"]
  <2>1. Chosen(Open) \in Logins \cup {None}
    BY ChosenIsFirst DEF Open
  <2>2. g \in Login /\ g.oldest = Chosen(Open) /\ g.pc = IF Chosen(Open) = None THEN "stamp" ELSE "end"
    BY <1>0, <2>1 DEF Login
  <2>3. login' = [login EXCEPT ![s] = g]
    BY <1>2
  <2> HIDE DEF g
  <2>4. /\ login' \in [Logins -> Login] /\ login'[s] = g
        /\ \A t \in Logins \ {s} : login'[t] = login[t]
    BY <1>0, <2>2, <2>3
  <2>5. SessionTypeOK'
    BY <1>0, <2>4 DEF SessInv, SessionTypeOK
  <2>6. Alone'
    <3>1. \A t \in Logins : Busy(t)' => Busy(t)
      BY <1>0, <2>4 DEF Busy
    <3>2. \A x \in SessionActions : Doing(x)' => Doing(x)
      BY <1>0 DEF Doing
    <3> QED
      BY <3>1, <3>2, AloneStays DEF SessInv
  <2>7. InOrder'
    <3>1. \A a, b \in Logins : Older(a, b)' <=> Older(a, b)
      BY <1>0 DEF Older, Precedes, May
    <3>2. ASSUME NEW t \in Logins, login'[t].pc = "end" PROVE MayGo(login'[t].oldest)
      <4>1. CASE t = s
        BY <2>2, <2>4, <3>2, <4>1, ChosenIsFirst
      <4>2. CASE t # s
        BY <2>4, <3>2, <4>2 DEF SessInv, InOrder
      <4> QED
        BY <4>1, <4>2
    <3>3. ASSUME NEW t \in Logins, login'[t].pc = "end" PROVE MayGo(login[t].oldest)'
      BY <1>0, <3>1, <3>2, <3>3 DEF MayGo
    <3>4. \A t \in Logins : login'[t].pc = "insert" => login[t].pc = "insert"
      BY <2>2, <2>4
    <3> QED
      BY <1>0, <3>3, <3>4 DEF SessInv, InOrder, Occurs, May
  <2>8. OldestGoesFirst'
    BY <1>0 DEF SessInv, OldestGoesFirst, Older, Precedes, May
  <2>9. PlaceIsFree'
    <3> SUFFICES ASSUME May("serial"), ~PatchFails PROVE PlaceIsFree'
      BY DEF PlaceIsFree, May, PatchFails
    <3>1. Open' = Open /\ Cardinality(Open) <= MaxConcurrent
      BY <1>0 DEF Open, SessInv, PlaceIsFree
    <3>2. /\ login'[s].pc = "end" => Cardinality(Open \ {login'[s].oldest}) < MaxConcurrent
          /\ login'[s].pc \in {"stamp", "insert"} => Cardinality(Open) < MaxConcurrent
      <4>1. CASE Chosen(Open) = None
        BY <2>2, <2>4, <4>1, ChosenIsFirst
      <4>2. CASE Chosen(Open) # None
        <5>1. IsFiniteSet(Open)
          BY UserSessionsAssumption, FS_Subset DEF Open
        <5>2. Cardinality(Open \ {Chosen(Open)}) = Cardinality(Open) - 1 /\ Cardinality(Open) \in Nat
          BY <4>2, <5>1, FS_RemoveElement, FS_CardinalityType, ChosenIsFirst
        <5>3. login'[s].pc = "end" /\ login'[s].oldest = Chosen(Open)
          BY <2>2, <2>4, <4>2
        <5>4. MaxConcurrent \in Nat
          BY UserSessionsAssumption
        <5>5. Cardinality(Open \ {Chosen(Open)}) < MaxConcurrent
          BY <3>1, <5>2, <5>4
        <5> QED
          BY <5>3, <5>5
      <4> QED
        BY <4>1, <4>2
    <3>3. \A t \in Logins \ {s} :
             /\ login'[t].pc = "end" => Cardinality(Open \ {login'[t].oldest}) < MaxConcurrent
             /\ login'[t].pc \in {"stamp", "insert"} => Cardinality(Open) < MaxConcurrent
      BY <2>4 DEF SessInv, PlaceIsFree
    <3> QED
      BY <3>1, <3>2, <3>3 DEF PlaceIsFree
  <2>10. CountIsCurrent'
    <3>1. LoggedIn' = LoggedIn
      BY <1>0, <2>2, <2>4 DEF LoggedIn
    <3>2. \A t \in Logins : login'[t].pc = "update" => login'[t] = login[t]
      BY <2>2, <2>4
    <3> QED
      BY <1>0, <3>1, <3>2, CountStays DEF SessInv
  <2>11. LastIsKnown'
    BY <1>0, LastStays DEF SessInv
  <2> QED
    BY <2>5, <2>6, <2>7, <2>8, <2>9, <2>10, <2>11 DEF SessInv
<1> QED
  BY <1>1, <1>2 DEF ReadSessions

\* A session that ended has its reason.
LEMMA EndedForm ==
    \A w \in UserSession : \A reason \in SessionEndReason :
       Ended(w, reason) \in UserSession /\ Ended(w, reason).state = reason
BY DEF Ended, UserSession

\* Ending the oldest session keeps it.
LEMMA EndOldestKeeps ==
    ASSUME SessInv, UNCHANGED allowed, NEW s \in Logins, EndOldest(s)
    PROVE  SessInv'
<1> DEFINE o == login[s].oldest
<1>0. /\ login[s].pc = "end" /\ UNCHANGED <<started, inserted, baseline, anomalies, acts, acting>>
      /\ login \in [Logins -> Login] /\ session \in [Logins -> UserSession]
      /\ MayGo(o)
  BY DEF EndOldest, SessInv, SessionTypeOK, InOrder
<1>1. o \in Logins /\ session[o].state # "none"
  BY <1>0 DEF MayGo
<1>2. /\ login' \in [Logins -> Login] /\ login'[s].pc = "stamp"
      /\ \A t \in Logins \ {s} : login'[t] = login[t]
  BY <1>0, LoginForms DEF EndOldest
<1>3. /\ session' \in [Logins -> UserSession]
      /\ \A t \in Logins \ {o} : session'[t] = session[t]
      /\ session'[o].state = "LIMIT" \/ (PatchFails /\ session'[o].state = session[o].state)
  <2>1. CASE session' = [session EXCEPT ![o] = Ended(@, "LIMIT")]
    <3>1. Ended(session[o], "LIMIT") \in UserSession /\ Ended(session[o], "LIMIT").state = "LIMIT"
      <4>1. "LIMIT" \in SessionEndReason /\ session[o] \in UserSession
        BY <1>0, <1>1 DEF SessionEndReason
      <4> QED
        BY <4>1, EndedForm
    <3>2. session' = [session EXCEPT ![o] = Ended(session[o], "LIMIT")]
      BY <2>1
    <3> QED
      BY <1>0, <1>1, <3>1, <3>2
  <2>2. CASE PatchFails /\ session' = session
    BY <1>0, <2>2
  <2> QED
    BY <2>1, <2>2 DEF EndOldest
<1> HIDE DEF o
<1>4. SessionTypeOK'
  BY <1>0, <1>2, <1>3 DEF SessInv, SessionTypeOK
<1>5. Alone'
  <2>1. \A t \in Logins : Busy(t)' => Busy(t)
    BY <1>0, <1>2 DEF Busy
  <2>2. \A x \in SessionActions : Doing(x)' => Doing(x)
    BY <1>0 DEF Doing
  <2> QED
    BY <2>1, <2>2, AloneStays DEF SessInv
<1>6. InOrder' /\ OldestGoesFirst'
  <2>1. \A t \in Logins : \/ session'[t].state = session[t].state
                          \/ session[t].state # "none" /\ session'[t].state \notin {"none", "open"}
    BY <1>1, <1>3
  <2>2. \A t \in Logins : session'[t].state = "LIMIT" => session[t].state = "LIMIT" \/ MayGo(t)
    BY <1>0, <1>3
  <2>3. \A t \in Logins : login'[t].pc \in {"end", "insert"} => login'[t] = login[t]
    BY <1>2
  <2> QED
    BY <1>0, <2>1, <2>2, <2>3, OrderStays DEF SessInv
<1>7. PlaceIsFree'
  <2>1. Open' \subseteq Open
    BY <1>3 DEF Open
  <2>2. \A t \in Logins : login'[t].pc = "end" => login'[t] = login[t]
    BY <1>2
  <2>3. PatchFails \/ o \notin Open'
    BY <1>3 DEF Open
  <2>4. \A t \in Logins : login'[t].pc \in {"stamp", "insert"} =>
           login[t].pc \in {"stamp", "insert"} \/ PatchFails \/ (login[t].pc = "end" /\ login[t].oldest \notin Open')
    BY <1>0, <1>2, <2>3 DEF o
  <2> QED
    BY <2>1, <2>2, <2>4, PlaceStays DEF SessInv
<1>8. CountIsCurrent'
  <2>1. LoggedIn' = LoggedIn
    BY <1>0, <1>2 DEF LoggedIn
  <2>2. \A t \in Logins : login'[t].pc = "update" => login'[t] = login[t]
    BY <1>2
  <2> QED
    BY <1>0, <2>1, <2>2, CountStays DEF SessInv
<1>9. LastIsKnown'
  BY <1>0, LastStays DEF SessInv
<1> QED
  BY <1>4, <1>5, <1>6, <1>7, <1>8, <1>9 DEF SessInv

\* So does the clock, which puts the new session last.
LEMMA StampSessionKeeps ==
    ASSUME SessInv, UNCHANGED allowed, NEW s \in Logins, StampSession(s)
    PROVE  SessInv'
<1>0. /\ login[s].pc = "stamp" /\ started' = Append(started, s)
      /\ UNCHANGED <<session, inserted, baseline, anomalies, acts, acting>>
      /\ login \in [Logins -> Login] /\ started \in Seq(Logins)
  BY DEF StampSession, SessInv, SessionTypeOK
<1>1. /\ login' \in [Logins -> Login] /\ login'[s].pc = "insert"
      /\ \A t \in Logins \ {s} : login'[t] = login[t]
  BY <1>0, LoginForms DEF StampSession
<1>2. /\ started' \in Seq(Logins) /\ started'[Len(started')] = s /\ Occurs(started', s)
      /\ \A a : Occurs(started, a) => Occurs(started', a)
      /\ \A a, b : Precedes(started, a, b) => Precedes(started', a, b)
  <2>1. started' = Append(started, s) /\ started \in Seq(Logins)
    BY <1>0
  <2>2. started' \in Seq(Logins) /\ started'[Len(started')] = s
    BY <2>1
  <2>3. /\ Occurs(started', s)
        /\ \A a : Occurs(started, a) => Occurs(started', a) /\ Precedes(started', a, s)
        /\ \A a, b : Precedes(started, a, b) => Precedes(started', a, b)
    BY <2>1, AppendKeepsOrder
  <2> QED
    BY <2>2, <2>3
<1>3. SessionTypeOK'
  BY <1>0, <1>1, <1>2 DEF SessInv, SessionTypeOK
<1>4. Alone'
  <2>1. \A t \in Logins : Busy(t)' => Busy(t)
    BY <1>0, <1>1 DEF Busy
  <2>2. \A x \in SessionActions : Doing(x)' => Doing(x)
    BY <1>0 DEF Doing
  <2> QED
    BY <2>1, <2>2, AloneStays DEF SessInv
<1>5. \A a, b \in Logins : Older(a, b) => Older(a, b)'
  <2>1. \A a, b : Precedes(inserted, a, b) => Precedes(inserted', a, b)
    BY <1>0
  <2>2. May("serial")' <=> May("serial")
    BY DEF May
  <2>3. \A a, b : Older(a, b)' <=> Precedes(started', a, b) \/ (~May("serial")' /\ Precedes(inserted', a, b))
    BY DEF Older, Precedes, May
  <2> QED
    BY <1>2, <2>1, <2>2, <2>3 DEF Older
<1>6. InOrder'
  <2>1. ASSUME NEW t \in Logins, session'[t].state # "none"
        PROVE  Occurs(started', t) /\ Occurs(inserted', t)
    BY <1>0, <1>2, <2>1 DEF SessInv, InOrder
  <2>2. ASSUME NEW t \in Logins, login'[t].pc = "insert"
        PROVE  Occurs(started', t) /\ (May("serial") => started'[Len(started')] = t)
    <3>1. CASE t = s
      BY <1>2, <3>1
    <3>2. CASE t # s
      <4>1. login[t].pc = "insert" /\ Busy(t) /\ Busy(s)
        BY <1>0, <1>1, <2>2, <3>2 DEF Busy
      <4>2. ~May("serial")
        BY <3>2, <4>1 DEF SessInv, Alone
      <4> QED
        BY <1>2, <4>1, <4>2 DEF SessInv, InOrder
    <3> QED
      BY <3>1, <3>2
  <2>3. ASSUME NEW t \in Logins, login'[t].pc = "end" PROVE MayGo(login[t].oldest)'
    <3>1. login'[t].oldest = login[t].oldest /\ MayGo(login[t].oldest)
      BY <1>1, <2>3 DEF SessInv, InOrder
    <3>2. PICK o \in Logins : o = login[t].oldest
      BY <3>1 DEF MayGo
    <3>3. MayGo(o)'
      BY <1>0, <1>5, <3>1, <3>2 DEF MayGo
    <3> QED
      BY <3>1, <3>2, <3>3 DEF MayGo
  <2> QED
    BY <2>1, <2>2, <2>3 DEF InOrder, Occurs, May
<1>7. OldestGoesFirst'
  BY <1>0, <1>5 DEF SessInv, OldestGoesFirst
<1>8. PlaceIsFree'
  <2>1. Open' \subseteq Open
    BY <1>0 DEF Open
  <2>2. \A t \in Logins : login'[t].pc = "end" => login'[t] = login[t]
    BY <1>1
  <2>3. \A t \in Logins : login'[t].pc \in {"stamp", "insert"} => login[t].pc \in {"stamp", "insert"}
    BY <1>0, <1>1
  <2> QED
    BY <2>1, <2>2, <2>3, PlaceStays DEF SessInv
<1>9. CountIsCurrent'
  <2>1. LoggedIn' = LoggedIn
    BY <1>0, <1>1 DEF LoggedIn
  <2>2. \A t \in Logins : login'[t].pc = "update" => login'[t] = login[t]
    BY <1>1
  <2> QED
    BY <1>0, <2>1, <2>2, CountStays DEF SessInv
<1>10. LastIsKnown'
  BY <1>0, LastStays DEF SessInv
<1> QED
  BY <1>3, <1>4, <1>6, <1>7, <1>8, <1>9, <1>10 DEF SessInv

\* Inserting the new session keeps it.
LEMMA InsertSessionKeeps ==
    ASSUME SessInv, UNCHANGED allowed, NEW s \in Logins, InsertSession(s)
    PROVE  SessInv'
<1>0. /\ login[s].pc = "insert" /\ UNCHANGED <<started, baseline, anomalies, acts, acting>> /\ anomalies' \subseteq Logins
      /\ login \in [Logins -> Login] /\ session \in [Logins -> UserSession] /\ inserted \in Seq(Logins)
  BY DEF InsertSession, SessInv, SessionTypeOK
<1>1. CASE LoginEnds(s, "failed") /\ UNCHANGED <<session, inserted>>
  <2>1. /\ login' \in [Logins -> Login] /\ login'[s].pc = "failed"
        /\ \A t \in Logins \ {s} : login'[t] = login[t]
    BY <1>0, <1>1, LoginForms
  <2>2. session' \in [Logins -> UserSession] /\ Busy(s)
    BY <1>0, <1>1 DEF Busy
  <2> QED
    BY <1>0, <1>1, <2>1, <2>2, LoginMoves
<1>2. CASE /\ session' = [session EXCEPT ![s].state = "open"]
           /\ inserted' = Append(inserted, s)
           /\ LoginAt(s, "detect")
  <2>1. /\ login' \in [Logins -> Login] /\ login'[s].pc = "detect"
        /\ \A t \in Logins \ {s} : login'[t] = login[t]
    BY <1>0, <1>2, LoginForms
  <2>2. /\ session' \in [Logins -> UserSession] /\ session'[s].state = "open"
        /\ \A t \in Logins \ {s} : session'[t] = session[t]
    <3> DEFINE g == [session[s] EXCEPT !.state = "open"]
    <3>1. g \in UserSession /\ g.state = "open"
      BY <1>0 DEF UserSession, SessionEndReason
    <3>2. session' = [session EXCEPT ![s] = g]
      BY <1>2
    <3> HIDE DEF g
    <3> QED
      BY <1>0, <3>1, <3>2
  <2>3. /\ inserted' \in Seq(Logins) /\ Occurs(inserted', s)
        /\ \A a : Occurs(inserted, a) => Occurs(inserted', a) /\ Precedes(inserted', a, s)
        /\ \A a, b : Precedes(inserted, a, b) => Precedes(inserted', a, b)
    BY <1>0, <1>2, AppendKeepsOrder
  <2>4. \A a, b : /\ Older(a, b) => Older(a, b)'
                  /\ ~May("serial") /\ Occurs(inserted, a) => Older(a, s)'
    <3>1. \A a, b : Older(a, b)' <=> Precedes(started, a, b) \/ (~May("serial") /\ Precedes(inserted', a, b))
      BY <1>0 DEF Older, Precedes, May
    <3> QED
      BY <2>3, <3>1 DEF Older
  <2>5. SessionTypeOK'
    BY <1>0, <2>1, <2>2, <2>3 DEF SessInv, SessionTypeOK
  <2>6. Alone'
    <3>1. \A t \in Logins : Busy(t)' => Busy(t)
      BY <1>0, <2>1 DEF Busy
    <3>2. \A x \in SessionActions : Doing(x)' => Doing(x)
      BY <1>0 DEF Doing
    <3> QED
      BY <3>1, <3>2, AloneStays DEF SessInv
  <2>7. InOrder'
    <3>1. ASSUME NEW t \in Logins, session'[t].state # "none"
          PROVE  Occurs(started, t) /\ Occurs(inserted', t)
      <4>1. CASE t = s
        BY <1>0, <2>3, <4>1 DEF SessInv, InOrder
      <4>2. CASE t # s
        BY <2>2, <2>3, <3>1, <4>2 DEF SessInv, InOrder
      <4> QED
        BY <4>1, <4>2
    <3>2. ASSUME NEW t \in Logins, login'[t].pc = "insert"
          PROVE  Occurs(started, t) /\ (May("serial") => started[Len(started)] = t)
      BY <2>1, <3>2 DEF SessInv, InOrder
    <3>3. ASSUME NEW t \in Logins, login'[t].pc = "end" PROVE MayGo(login[t].oldest)'
      <4>0. t # s /\ login'[t].oldest = login[t].oldest /\ MayGo(login[t].oldest) /\ Busy(t) /\ Busy(s)
        BY <1>0, <2>1, <3>3 DEF SessInv, InOrder, Busy
      <4>6. PICK o \in Logins : o = login[t].oldest
        BY <4>0 DEF MayGo
      <4>1. t # s /\ login'[t].oldest = o /\ MayGo(o) /\ Busy(t) /\ Busy(s)
        BY <4>0, <4>6
      <4>2. ~May("serial")
        BY <4>1 DEF SessInv, Alone
      <4>3. o \in Logins /\ session[o].state # "none" /\ Occurs(inserted, o)
        BY <4>1 DEF MayGo, SessInv, InOrder
      <4>4. session'[o].state # "none"
        BY <2>2, <4>3
      <4>5. ASSUME NEW u \in Logins, session'[u].state = "open" PROVE u = o \/ Older(o, u)'
        BY <2>2, <2>4, <4>1, <4>2, <4>3, <4>5 DEF MayGo
      <4> QED
        BY <4>1, <4>3, <4>4, <4>5 DEF MayGo
    <3> QED
      BY <1>0, <3>1, <3>2, <3>3 DEF InOrder, Occurs, May
  <2>8. OldestGoesFirst'
    <3> SUFFICES ASSUME NEW a \in Logins, NEW b \in Logins,
                        session'[a].state = "LIMIT", session'[b].state = "open"
                 PROVE  Older(a, b)'
      BY DEF OldestGoesFirst
    <3>1. a # s /\ a # b /\ session[a].state = "LIMIT"
      BY <2>2
    <3>2. CASE b # s
      BY <2>2, <2>4, <3>1, <3>2 DEF SessInv, OldestGoesFirst
    <3>3. CASE b = s /\ ~May("serial")
      BY <2>4, <3>1, <3>3 DEF SessInv, InOrder
    <3>4. CASE b = s /\ May("serial")
      <4>1. started[Len(started)] = s /\ Occurs(started, s) /\ Occurs(started, a) /\ started \in Seq(Logins)
        BY <1>0, <3>1, <3>4 DEF SessInv, InOrder, SessionTypeOK
      <4>2. PICK i \in DOMAIN started : started[i] = a
        BY <4>1 DEF Occurs
      <4>3. i \in 1 .. Len(started) /\ i # Len(started) /\ Len(started) \in DOMAIN started
        BY <3>1, <4>1, <4>2
      <4>4. i < Len(started)
        BY <4>1, <4>3
      <4>5. Precedes(started, a, s)
        BY <4>1, <4>2, <4>3, <4>4 DEF Precedes
      <4> QED
        BY <2>4, <3>4, <4>5 DEF Older
    <3> QED
      BY <3>2, <3>3, <3>4
  <2>9. PlaceIsFree'
    <3> SUFFICES ASSUME May("serial"), ~PatchFails PROVE PlaceIsFree'
      BY DEF PlaceIsFree, May, PatchFails
    <3>1. Open' = Open \cup {s}
      BY <1>0, <2>2 DEF Open
    <3>2. IsFiniteSet(Open) /\ Cardinality(Open) \in Nat
      BY UserSessionsAssumption, FS_Subset, FS_CardinalityType DEF Open
    <3>3. Cardinality(Open') <= Cardinality(Open) + 1 /\ Cardinality(Open') \in Nat
      <4>1. Cardinality(Open \cup {s}) = IF s \in Open THEN Cardinality(Open) ELSE Cardinality(Open) + 1
        BY <3>2, FS_AddElement
      <4> QED
        BY <3>1, <3>2, <4>1
    <3>4. Cardinality(Open) < MaxConcurrent /\ MaxConcurrent \in Nat
      BY <1>0, UserSessionsAssumption DEF SessInv, PlaceIsFree
    <3>5. \A t \in Logins : login'[t].pc \notin {"stamp", "insert", "end"}
      BY <1>0, <2>1 DEF SessInv, Alone, Busy
    <3> QED
      BY <3>2, <3>3, <3>4, <3>5 DEF PlaceIsFree
  <2>10. CountIsCurrent'
    <3>1. LoggedIn' = LoggedIn
      BY <1>0, <2>1 DEF LoggedIn
    <3>2. \A t \in Logins : login'[t].pc = "update" => login'[t] = login[t]
      BY <2>1
    <3> QED
      BY <1>0, <3>1, <3>2, CountStays DEF SessInv
  <2>11. LastIsKnown'
    BY <1>0, LastStays DEF SessInv
  <2> QED
    BY <2>5, <2>6, <2>7, <2>8, <2>9, <2>10, <2>11 DEF SessInv
<1> QED
  BY <1>1, <1>2 DEF InsertSession

\* Anomalies keep it.
LEMMA AnomalyStepsKeep ==
    ASSUME SessInv, UNCHANGED allowed, NEW s \in Logins,
           DetectAnomalies(s) \/ UpdateSessionRisk(s) \/ CreateAnomaly(s)
    PROVE  SessInv'
<1>0. /\ login \in [Logins -> Login] /\ session \in [Logins -> UserSession] /\ anomalies \subseteq Logins
  BY DEF SessInv, SessionTypeOK
<1>1. /\ Busy(s) /\ UNCHANGED <<started, inserted, baseline, acts, acting>> /\ anomalies' \subseteq Logins
      /\ LoginAt(s, "risk") \/ LoginAt(s, "anomaly") \/ LoginAt(s, "baseline")
  BY <1>0 DEF DetectAnomalies, UpdateSessionRisk, CreateAnomaly, Busy
<1>2. /\ login' \in [Logins -> Login] /\ login'[s].pc \in {"risk", "anomaly", "baseline"}
      /\ \A t \in Logins \ {s} : login'[t] = login[t]
  BY <1>0, <1>1, LoginForms
<1>3. session' \in [Logins -> UserSession] /\ \A t \in Logins : session'[t].state = session[t].state
  <2> DEFINE g == [session[s] EXCEPT !.risky = TRUE]
  <2>1. g \in UserSession /\ g.state = session[s].state
    BY <1>0 DEF UserSession
  <2>2. session' = session \/ session' = [session EXCEPT ![s] = g]
    BY DEF DetectAnomalies, UpdateSessionRisk, CreateAnomaly
  <2> HIDE DEF g
  <2> QED
    BY <1>0, <2>1, <2>2
<1> QED
  BY <1>1, <1>2, <1>3, LoginMoves

\* Reading the baseline keeps it.
LEMMA ReadBaselineKeeps ==
    ASSUME SessInv, UNCHANGED allowed, NEW s \in Logins, ReadBaseline(s)
    PROVE  SessInv'
<1>0. /\ login[s].pc = "baseline" /\ UNCHANGED <<session, started, inserted, baseline, anomalies, acts, acting>>
      /\ login \in [Logins -> Login] /\ baseline \in Nat
  BY DEF ReadBaseline, SessInv, SessionTypeOK
<1>1. PICK n \in {baseline} \cup (IF FetchFails THEN {0} ELSE {}) :
         login' = [login EXCEPT ![s].pc = "update", ![s].seen = n]
  BY DEF ReadBaseline
<1>2. n \in Nat /\ (~FetchFails => n = baseline)
  BY <1>0
<1>3. /\ login' \in [Logins -> Login] /\ login'[s].pc = "update" /\ login'[s].seen = n
      /\ \A t \in Logins \ {s} : login'[t] = login[t]
  <2> DEFINE g == [login[s] EXCEPT !.pc = "update", !.seen = n]
  <2>1. g \in Login /\ g.pc = "update" /\ g.seen = n
    BY <1>0, <1>2 DEF Login
  <2>2. login' = [login EXCEPT ![s] = g]
    BY <1>1
  <2> HIDE DEF g
  <2> QED
    BY <1>0, <2>1, <2>2
<1>4. SessionTypeOK'
  BY <1>0, <1>3 DEF SessInv, SessionTypeOK
<1>5. Alone'
  <2>1. \A t \in Logins : Busy(t)' => Busy(t)
    BY <1>0, <1>3 DEF Busy
  <2>2. \A x \in SessionActions : Doing(x)' => Doing(x)
    BY <1>0 DEF Doing
  <2> QED
    BY <2>1, <2>2, AloneStays DEF SessInv
<1>6. InOrder' /\ OldestGoesFirst'
  <2>1. \A t \in Logins : login'[t].pc \in {"end", "insert"} => login'[t] = login[t]
    BY <1>3
  <2> QED
    BY <1>0, <2>1, OrderStays DEF SessInv
<1>7. PlaceIsFree'
  <2>1. Open' \subseteq Open
    BY <1>0 DEF Open
  <2>2. \A t \in Logins : /\ login'[t].pc = "end" => login'[t] = login[t]
                          /\ login'[t].pc \in {"stamp", "insert"} => login[t].pc = login'[t].pc
    BY <1>3
  <2> QED
    BY <2>1, <2>2, PlaceStays DEF SessInv
<1>8. CountIsCurrent'
  <2> SUFFICES ASSUME May("serial"), ~FetchFails, ~PatchFails PROVE CountIsCurrent'
    BY DEF CountIsCurrent, May, FetchFails, PatchFails
  <2>1. LoggedIn' = LoggedIn
    BY <1>0, <1>3 DEF LoggedIn
  <2>2. \A t \in Logins : login'[t].pc = "update" => login'[t].seen = baseline
    BY <1>2, <1>3 DEF SessInv, CountIsCurrent
  <2> QED
    BY <1>0, <2>1, <2>2 DEF SessInv, CountIsCurrent
<1>9. LastIsKnown'
  BY <1>0, LastStays DEF SessInv
<1> QED
  BY <1>4, <1>5, <1>6, <1>7, <1>8, <1>9 DEF SessInv

\* Writing the baseline keeps it.
LEMMA UpdateBaselineKeeps ==
    ASSUME SessInv, UNCHANGED allowed, NEW s \in Logins, UpdateBaseline(s)
    PROVE  SessInv'
<1>0. /\ login[s].pc = "update" /\ UNCHANGED <<session, started, inserted, anomalies, acts, acting>>
      /\ login \in [Logins -> Login] /\ login[s].seen \in Nat /\ baseline \in Nat
      /\ baseline' = Counted(login[s].seen, baseline) \/ (PatchFails /\ baseline' = baseline)
  BY DEF UpdateBaseline, SessInv, SessionTypeOK, Login
<1>1. /\ login' \in [Logins -> Login] /\ login'[s].pc = "done"
      /\ \A t \in Logins \ {s} : login'[t] = login[t]
  BY <1>0, LoginForms DEF UpdateBaseline
<1>2. SessionTypeOK'
  BY <1>0, <1>1 DEF SessInv, SessionTypeOK, Counted
<1>3. Alone'
  <2>1. \A t \in Logins : Busy(t)' => Busy(t)
    BY <1>0, <1>1 DEF Busy
  <2>2. \A x \in SessionActions : Doing(x)' => Doing(x)
    BY <1>0 DEF Doing
  <2> QED
    BY <2>1, <2>2, AloneStays DEF SessInv
<1>4. InOrder' /\ OldestGoesFirst'
  <2>1. \A t \in Logins : login'[t].pc \in {"end", "insert"} => login'[t] = login[t]
    BY <1>1
  <2> QED
    BY <1>0, <2>1, OrderStays DEF SessInv
<1>5. PlaceIsFree'
  <2>1. Open' \subseteq Open
    BY <1>0 DEF Open
  <2>2. \A t \in Logins : /\ login'[t].pc = "end" => login'[t] = login[t]
                          /\ login'[t].pc \in {"stamp", "insert"} => login[t].pc = login'[t].pc
    BY <1>1
  <2> QED
    BY <2>1, <2>2, PlaceStays DEF SessInv
<1>6. CountIsCurrent'
  <2> SUFFICES ASSUME May("serial"), ~FetchFails, ~PatchFails PROVE CountIsCurrent'
    BY DEF CountIsCurrent, May, FetchFails, PatchFails
  <2>1. LoggedIn' = LoggedIn \cup {s} /\ s \notin LoggedIn
    BY <1>0, <1>1 DEF LoggedIn
  <2>2. IsFiniteSet(LoggedIn) /\ Cardinality(LoggedIn) \in Nat
    BY UserSessionsAssumption, FS_Subset, FS_CardinalityType DEF LoggedIn
  <2>3. Cardinality(LoggedIn') = Cardinality(LoggedIn) + 1
    BY <2>1, <2>2, FS_AddElement
  <2>4. baseline = Cardinality(LoggedIn) /\ login[s].seen = baseline
    BY <1>0 DEF SessInv, CountIsCurrent
  <2>5. baseline' = baseline + 1
    BY <1>0, <2>4 DEF Counted
  <2>6. \A t \in Logins : login'[t].pc # "update"
    BY <1>0, <1>1 DEF SessInv, Alone, Busy
  <2> QED
    BY <2>3, <2>4, <2>5, <2>6 DEF CountIsCurrent
<1>7. LastIsKnown'
  BY <1>0, LastStays DEF SessInv
<1> QED
  BY <1>2, <1>3, <1>4, <1>5, <1>6, <1>7 DEF SessInv

\* Forced ends, the passing of time and the expiry of stale sessions keep it.
LEMMA EndsKeep ==
    ASSUME SessInv, UNCHANGED allowed,
           (\E s \in Logins : ForceEnd(s) \/ TimePasses(s)) \/ ExpireStaleSessions
    PROVE  SessInv'
<1>0. session \in [Logins -> UserSession]
  BY DEF SessInv, SessionTypeOK
<1>1. UNCHANGED <<started, inserted, login, baseline, anomalies, acts, acting>>
  BY DEF ForceEnd, TimePasses, ExpireStaleSessions
<1>2. \A w \in UserSession : \A reason \in SessionEndReason :
         Ended(w, reason) \in UserSession /\ Ended(w, reason).state = reason
  BY EndedForm
<1>3. ASSUME NEW s \in Logins, ForceEnd(s) PROVE SessInv'
  <2>1. /\ session[s].state # "none"
        /\ session' = session \/ session' = [session EXCEPT ![s] = Ended(session[s], "FORCED")]
    BY <1>3 DEF ForceEnd
  <2>2. "FORCED" \in SessionEndReason
    BY DEF SessionEndReason
  <2>3. Ended(session[s], "FORCED") \in UserSession /\ Ended(session[s], "FORCED").state = "FORCED"
    BY <1>0, <1>2, <2>2
  <2>4. /\ session' \in [Logins -> UserSession] /\ \A t \in Logins \ {s} : session'[t] = session[t]
        /\ session'[s].state \in {session[s].state, "FORCED"}
    BY <1>0, <2>1, <2>3
  <2>5. \A t \in Logins : \/ session'[t].state = session[t].state
                          \/ session[t].state # "none" /\ session'[t].state \notin {"none", "open", "LIMIT"}
    BY <2>1, <2>4
  <2> QED
    BY <1>1, <2>4, <2>5, SessionsMove
<1>4. ASSUME NEW s \in Logins, TimePasses(s) PROVE SessInv'
  <2> DEFINE g == [session[s] EXCEPT !.idle = TRUE]
             h == [session[s] EXCEPT !.late = TRUE]
  <2>1. g \in UserSession /\ h \in UserSession /\ g.state = session[s].state /\ h.state = session[s].state
    BY <1>0 DEF UserSession
  <2>2. session' = [session EXCEPT ![s] = g] \/ session' = [session EXCEPT ![s] = h]
    BY <1>4 DEF TimePasses
  <2> HIDE DEF g, h
  <2>3. /\ session' \in [Logins -> UserSession] /\ \A t \in Logins : session'[t].state = session[t].state
    BY <1>0, <2>1, <2>2
  <2> QED
    BY <1>1, <2>3, SessionsMove
<1>5. CASE ExpireStaleSessions
  <2>1. session' = [s \in Logins |-> Expired(session[s])]
    BY <1>5 DEF ExpireStaleSessions
  <2>2. \A s \in Logins : /\ Expired(session[s]) \in UserSession
                          /\ \/ Expired(session[s]) = session[s]
                             \/ session[s].state = "open" /\ Expired(session[s]).state \in {"TIMEOUT", "EXPIRED"}
    <3> SUFFICES ASSUME NEW w \in UserSession
                 PROVE  /\ Expired(w) \in UserSession
                        /\ Expired(w) = w \/ (w.state = "open" /\ Expired(w).state \in {"TIMEOUT", "EXPIRED"})
      BY <1>0
    <3>1. "TIMEOUT" \in SessionEndReason /\ "EXPIRED" \in SessionEndReason
      BY DEF SessionEndReason
    <3> QED
      BY <1>2, <3>1 DEF Expired
  <2>3. session' \in [Logins -> UserSession]
    BY <2>1, <2>2
  <2>4. \A t \in Logins : \/ session'[t].state = session[t].state
                          \/ session[t].state # "none" /\ session'[t].state \notin {"none", "open", "LIMIT"}
    BY <2>1, <2>2
  <2> QED
    BY <1>1, <2>3, <2>4, SessionsMove
<1> QED
  BY <1>3, <1>4, <1>5

\* Logging an action keeps it.
LEMMA ActionsKeep ==
    ASSUME SessInv, UNCHANGED allowed, NEW x \in SessionActions, LogAction(x) \/ ActionStep(x)
    PROVE  SessInv'
<1>0. /\ session \in [Logins -> UserSession] /\ acting \in [SessionActions -> Acting]
      /\ acts \in Seq(SessionAction)
  BY DEF SessInv, SessionTypeOK
<1>1. UNCHANGED <<session, started, inserted, login, baseline, anomalies>>
  <2>1. CASE UpdateSessionActivity(x)
    <3>1. /\ session' = [session EXCEPT ![inserted[1]] = session[inserted[1]]]
          /\ UNCHANGED <<started, inserted, login, baseline, anomalies>>
      BY <2>1 DEF UpdateSessionActivity, ActivityUpdated
    <3> QED
      BY <1>0, <3>1
  <2> QED
    BY <2>1 DEF LogAction, ActionStep, ReadLastAction, InsertAction
<1>2. /\ acts' \in Seq(SessionAction) /\ acting' \in [SessionActions -> Acting]
      /\ \A y \in SessionActions \ {x} : acting'[y] = acting[y]
      /\ Doing(x) \/ OneByOne
      /\ \/ acting'[x].pc # "insert" /\ acts' = acts
         \/ /\ acting'[x].pc = "insert" /\ acts' = acts /\ Doing(x)
            /\ FetchFails \/ acting'[x].prev = LastAction
         \/ /\ acting[x].pc = "insert" /\ acting'[x].pc = "touch"
            /\ acts' = Append(acts, [act |-> x, prev |-> acting[x].prev])
  <2>1. LastAction \in SessionActions \cup {None}
    <3>1. CASE acts = <<>>
      BY <3>1 DEF LastAction
    <3>2. CASE acts # <<>>
      <4>1. acts[Len(acts)] \in SessionAction
        BY <1>0, <3>2
      <4> QED
        BY <3>2, <4>1 DEF LastAction, SessionAction
    <3> QED
      BY <3>1, <3>2
  <2>2. CASE LogAction(x)
    <3> DEFINE g == [acting[x] EXCEPT !.pc = "read"]
    <3>1. g \in Acting /\ g.pc = "read"
      BY <1>0 DEF Acting
    <3>2. acting' = [acting EXCEPT ![x] = g] /\ acts' = acts /\ OneByOne
      BY <2>2 DEF LogAction
    <3> HIDE DEF g
    <3> QED
      BY <1>0, <3>1, <3>2
  <2>3. CASE ReadLastAction(x)
    <3>1. PICK h \in {LastAction} \cup (IF FetchFails THEN {None} ELSE {}) :
             acting' = [acting EXCEPT ![x] = [pc |-> "insert", prev |-> h]]
      BY <2>3 DEF ReadLastAction
    <3>2. h \in SessionActions \cup {None} /\ (FetchFails \/ h = LastAction)
      BY <2>1
    <3> DEFINE g == [pc |-> "insert", prev |-> h]
    <3>3. g \in Acting /\ g.pc = "insert" /\ g.prev = h
      BY <3>2 DEF Acting
    <3>4. acts' = acts /\ Doing(x) /\ acting' = [acting EXCEPT ![x] = g]
      BY <2>3, <3>1 DEF ReadLastAction, Doing
    <3> HIDE DEF g
    <3> QED
      BY <1>0, <3>2, <3>3, <3>4
  <2>4. CASE InsertAction(x)
    <3> DEFINE g == [acting[x] EXCEPT !.pc = "touch", !.prev = None]
    <3>1. g \in Acting /\ g.pc = "touch"
      BY <1>0 DEF Acting
    <3>2. acting' = [acting EXCEPT ![x] = g] /\ Doing(x) /\ acting[x].pc = "insert"
      BY <2>4 DEF InsertAction, Doing
    <3>3. [act |-> x, prev |-> acting[x].prev] \in SessionAction
      BY <1>0 DEF SessionAction, Acting
    <3>4. acts' = acts \/ acts' = Append(acts, [act |-> x, prev |-> acting[x].prev])
      BY <2>4 DEF InsertAction
    <3>5. acts' \in Seq(SessionAction)
      BY <1>0, <3>3, <3>4
    <3> HIDE DEF g
    <3>6. acting' \in [SessionActions -> Acting] /\ acting'[x].pc = "touch"
          /\ \A y \in SessionActions \ {x} : acting'[y] = acting[y]
      BY <1>0, <3>1, <3>2
    <3> QED
      BY <3>2, <3>4, <3>5, <3>6
  <2>5. CASE UpdateSessionActivity(x)
    <3> DEFINE g == [acting[x] EXCEPT !.pc = "done"]
    <3>1. g \in Acting /\ g.pc = "done"
      BY <1>0 DEF Acting
    <3>2. acting' = [acting EXCEPT ![x] = g] /\ acts' = acts /\ Doing(x)
      BY <2>5 DEF UpdateSessionActivity, Doing
    <3> HIDE DEF g
    <3> QED
      BY <1>0, <3>1, <3>2
  <2> QED
    BY <2>2, <2>3, <2>4, <2>5 DEF ActionStep
<1>3. SessionTypeOK'
  BY <1>1, <1>2 DEF SessInv, SessionTypeOK
<1>4. Alone'
  <2> SUFFICES ASSUME May("serial") PROVE Alone'
    BY DEF Alone, May
  <2>1. \A s \in Logins : Busy(s)' => Busy(s)
    BY <1>1 DEF Busy
  <2>2. CASE Doing(x)
    BY <1>2, <2>1, <2>2 DEF SessInv, Alone, Doing
  <2>3. CASE AtRest
    BY <1>2, <2>1, <2>3 DEF AtRest, Busy, Doing, Alone
  <2> QED
    BY <1>2, <2>2, <2>3 DEF OneByOne
<1>5. InOrder' /\ OldestGoesFirst' /\ PlaceIsFree' /\ CountIsCurrent'
  <2>1. InOrder' /\ OldestGoesFirst'
    BY <1>1, OrderStays DEF SessInv
  <2>2. PlaceIsFree'
    BY <1>1, PlaceStays DEF SessInv, Open
  <2>3. CountIsCurrent'
    BY <1>1, CountStays DEF SessInv, LoggedIn
  <2> QED
    BY <2>1, <2>2, <2>3
<1>6. LastIsKnown'
  <2> SUFFICES ASSUME May("serial"), ~FetchFails PROVE LastIsKnown'
    BY DEF LastIsKnown, May, FetchFails
  <2>0. LastIsKnown
    BY DEF SessInv
  <2>1. CASE acting'[x].pc # "insert" /\ acts' = acts
    BY <1>2, <2>0, <2>1 DEF LastIsKnown, LastAction
  <2>2. CASE acting'[x].pc = "insert" /\ acts' = acts /\ acting'[x].prev = LastAction
    BY <1>2, <2>0, <2>2 DEF LastIsKnown, LastAction
  <2>3. CASE /\ acting[x].pc = "insert" /\ acting'[x].pc = "touch"
             /\ acts' = Append(acts, [act |-> x, prev |-> acting[x].prev])
    <3> DEFINE e == [act |-> x, prev |-> acting[x].prev]
               n == Len(acts)
    <3>1. e \in SessionAction /\ e.act = x /\ e.prev = LastAction
      BY <1>0, <2>0, <2>3 DEF SessionAction, Acting, LastIsKnown
    <3>2. acts' = Append(acts, e)
      BY <2>3
    <3>3. acts # <<>> => n > 0
      BY <1>0
    <3>4. LastAction = IF n = 0 THEN None ELSE acts[n].act
      BY <1>0, <3>3 DEF LastAction
    <3> HIDE DEF e
    <3>5. /\ DOMAIN acts = 1 .. n /\ DOMAIN acts' = 1 .. n + 1 /\ n \in Nat
          /\ acts'[n + 1] = e /\ \A i \in 1 .. n : acts'[i] = acts[i]
      BY <1>0, <3>1, <3>2
    <3> HIDE DEF n
    <3>6. \A i \in DOMAIN acts' : acts'[i].prev = IF i = 1 THEN None ELSE acts'[i - 1].act
      <4> SUFFICES ASSUME NEW i \in 1 .. n + 1
                   PROVE  acts'[i].prev = IF i = 1 THEN None ELSE acts'[i - 1].act
        BY <3>5
      <4>1. CASE i = n + 1
        BY <3>1, <3>4, <3>5, <4>1
      <4>2. CASE i # n + 1
        <5>1. i \in 1 .. n /\ (i # 1 => i - 1 \in 1 .. n)
          BY <3>5, <4>2
        <5>2. acts[i].prev = IF i = 1 THEN None ELSE acts[i - 1].act
          BY <2>0, <3>5, <5>1 DEF LastIsKnown
        <5> QED
          BY <3>5, <5>1, <5>2
      <4> QED
        BY <4>1, <4>2
    <3>7. \A y \in SessionActions : acting'[y].pc # "insert"
      BY <1>2, <2>3 DEF SessInv, Alone, Doing
    <3> QED
      BY <3>6, <3>7 DEF LastIsKnown
  <2> QED
    BY <1>2, <2>1, <2>2, <2>3
<1> QED
  BY <1>3, <1>4, <1>5, <1>6 DEF SessInv

\* So does every step.
LEMMA SessKeeps == ASSUME SessInv, UNCHANGED allowed, SessionNext PROVE SessInv'
BY StartSessionKeeps, ReadSessionsKeeps, EndOldestKeeps, StampSessionKeeps, InsertSessionKeeps, AnomalyStepsKeep,
   ReadBaselineKeeps, UpdateBaselineKeeps, EndsKeep, ActionsKeep
DEF SessionNext, LoginStep, ActionStep

-----------------------------------------------------------------------------
(* Roles and just-in-time privileges.                                                   *)

\* What a call is for tells what it holds.
CallForm(p) ==
    /\ p.pc \in {"role", "approval"} => p.kind \in {"assign", "revoke", "request"}
    /\ p.pc = "approval" => p.kind # "revoke"
    /\ p.pc = "write" => p.kind \in {"assign", "revoke", "request", "activate"}
    /\ p.pc = "grants" => p.kind = "check"
    /\ p.pc \in PrivEnded => p.kind = None
    /\ p.kind \in {"assign", "revoke", "request"} => p.role \in RoleCodes
    /\ p.kind \in {"request", "activate"} => p.request \in JitRequests

\* What a call knows of the tables, and still holds when it acts on it.
CallHolds(p) ==
    /\ p.kind = "request" => jit[p.request].status = "none"
    /\ p.pc = "write" => /\ p.kind = "assign" /\ p.role \in Gated => p.role \in asked
                         /\ p.kind = "request" => p.request \in asked
                         /\ p.kind = "activate" => /\ jit[p.request].status # "none"
                                                   /\ May("serial") => jit[p.request].periods = 0
    /\ p.kind = "check" => Holding(userRole, roleRow) \subseteq p.could
    /\ p.pc = "grants" /\ ~May("changes") => \A r \in p.held : roleRow[r].grants => r \in p.could

OneRequestEach ==
    \A c, d \in PrivCalls : priv[c].kind = "request" /\ priv[d].kind = "request"
                               /\ priv[c].request = priv[d].request => c = d
OneCall == May("serial") => \A c, d \in PrivCalls :
              priv[c].pc \notin PrivEnded /\ priv[d].pc \notin PrivEnded => c = d
NoPeriodYet == \A j \in JitRequests :
                  jit[j].status \in {"none", "PENDING", "APPROVED", "REJECTED"} => jit[j].periods = 0

PrivInv == /\ PrivTypeOK /\ PrivilegesWereAskedFor /\ OneApprovalOnePeriod
           /\ NoPeriodYet /\ OneCall /\ OneRequestEach
           /\ \A c \in PrivCalls : CallForm(priv[c]) /\ CallHolds(priv[c])

\* A call about privileges that ended has let go of what it was for.
LEMMA IdlePrivForm ==
    \A pc \in PrivEnded : /\ [IdlePriv EXCEPT !.pc = pc] \in PrivCall
                          /\ [IdlePriv EXCEPT !.pc = pc].pc = pc
                          /\ [IdlePriv EXCEPT !.pc = pc].kind = None
BY DEF IdlePriv, PrivCall, PrivEnded

\* At the start nobody holds a role.
LEMMA PrivInitHolds == PrivInit => PrivInv
<1> SUFFICES ASSUME PrivInit PROVE PrivInv
  OBVIOUS
<1>1. IdlePriv \in PrivCall /\ IdlePriv.pc = "idle" /\ IdlePriv.kind = None
  BY DEF IdlePriv, PrivCall
<1>2. priv = [c \in PrivCalls |-> IdlePriv] /\ \A c \in PrivCalls : priv[c] = IdlePriv
  BY DEF PrivInit
<1>3. PICK G : roleRow = [r \in RoleCodes |-> [active |-> TRUE, grants |-> r \in G]]
  BY DEF PrivInit
<1>4. roleRow \in [RoleCodes -> Role]
  BY <1>3 DEF Role
<1>5. PrivTypeOK
  BY <1>1, <1>2, <1>4 DEF PrivInit, PrivTypeOK, UserRole, Jit, JitStatus
<1>6. PrivilegesWereAskedFor /\ OneApprovalOnePeriod /\ NoPeriodYet
  BY PrivilegesAssumption DEF PrivInit, PrivilegesWereAskedFor, OneApprovalOnePeriod, NoPeriodYet, Gated
<1>7. OneCall /\ OneRequestEach
  BY <1>1, <1>2, PrivilegesAssumption DEF OneCall, OneRequestEach, PrivEnded
<1>8. \A c \in PrivCalls : CallForm(priv[c]) /\ CallHolds(priv[c])
  BY <1>1, <1>2, PrivilegesAssumption DEF CallForm, CallHolds, PrivEnded
<1> QED
  BY <1>5, <1>6, <1>7, <1>8 DEF PrivInv

\* One call moves; the tables stay.
LEMMA CallMoves ==
    ASSUME PrivInv, UNCHANGED <<allowed, roleRow, userRole, jit, asked>>, roleCache' \subseteq RoleCodes,
           NEW c \in PrivCalls, NEW p \in PrivCall, priv' = [priv EXCEPT ![c] = p],
           CallForm(p), CallHolds(p),
           p.pc \in PrivEnded \/ priv[c].pc \notin PrivEnded \/ (May("serial") => PrivAtRest),
           p.kind = "request" => \/ priv[c].kind = "request" /\ p.request = priv[c].request
                                 \/ \A d \in PrivCalls : priv[d].request # p.request
    PROVE  PrivInv'
<1>0. priv \in [PrivCalls -> PrivCall]
  BY DEF PrivInv, PrivTypeOK
<1>1. priv' \in [PrivCalls -> PrivCall] /\ priv'[c] = p /\ \A d \in PrivCalls \ {c} : priv'[d] = priv[d]
  BY <1>0
<1>2. PrivTypeOK'
  BY <1>1 DEF PrivInv, PrivTypeOK
<1>3. PrivilegesWereAskedFor' /\ OneApprovalOnePeriod' /\ NoPeriodYet'
  BY DEF PrivInv, PrivilegesWereAskedFor, OneApprovalOnePeriod, NoPeriodYet, May
<1>4. OneCall'
  BY <1>1 DEF PrivInv, OneCall, PrivAtRest, May
<1>5. OneRequestEach'
  BY <1>1 DEF PrivInv, OneRequestEach
<1>6. ASSUME NEW d \in PrivCalls PROVE CallForm(priv[d])' /\ CallHolds(priv[d])'
  <2>1. CallForm(priv'[d])
    BY <1>1 DEF PrivInv
  <2>2. CallHolds(priv[d])'
    <3>1. CASE d = c
      BY <1>1, <3>1 DEF CallHolds, May
    <3>2. CASE d # c
      <4>1. CallHolds(priv[d]) /\ priv'[d] = priv[d]
        BY <1>1, <3>2 DEF PrivInv
      <4> QED
        BY <4>1 DEF CallHolds, May
    <3> QED
      BY <3>1, <3>2
  <2> QED
    BY <2>1, <2>2
<1> QED
  BY <1>2, <1>3, <1>4, <1>5, <1>6 DEF PrivInv

\* A call ends.
LEMMA CallEnds ==
    ASSUME PrivInv, UNCHANGED <<allowed, roleRow, userRole, jit, asked>>, roleCache' \subseteq RoleCodes,
           NEW c \in PrivCalls, NEW pc \in PrivEnded, PrivAt(c, pc)
    PROVE  PrivInv'
<1> DEFINE p == [IdlePriv EXCEPT !.pc = pc]
<1>1. p \in PrivCall /\ p.pc = pc /\ p.kind = None
  BY IdlePrivForm
<1>2. priv' = [priv EXCEPT ![c] = p]
  BY DEF PrivAt
<1> HIDE DEF p
<1>3. None \notin {"request", "assign", "activate", "revoke", "check"}
  BY PrivilegesAssumption DEF PrivKinds
<1>4. CallForm(p) /\ CallHolds(p)
  BY <1>1, <1>3 DEF CallForm, CallHolds, PrivEnded
<1> QED
  BY <1>1, <1>2, <1>3, <1>4, CallMoves

\* No kind of call is None.
LEMMA KindsDiffer == None \notin {"assign", "revoke", "check", "request", "activate"}
BY PrivilegesAssumption

\* Where a call stands, and what it stands for, after a step to one that has not ended.
LEMMA PrivAtForm ==
    ASSUME NEW c \in PrivCalls, priv[c] \in PrivCall,
           NEW pc \in {"role", "approval", "write", "held", "grants"}, PrivAt(c, pc)
    PROVE  \E p \in PrivCall : /\ priv' = [priv EXCEPT ![c] = p] /\ p.pc = pc
                               /\ p.kind = priv[c].kind /\ p.role = priv[c].role
                               /\ p.request = priv[c].request /\ p.held = priv[c].held
                               /\ p.could = priv[c].could
<1> DEFINE p == [priv[c] EXCEPT !.pc = pc]
<1>1. /\ p \in PrivCall /\ p.pc = pc /\ p.kind = priv[c].kind /\ p.role = priv[c].role
      /\ p.request = priv[c].request /\ p.held = priv[c].held /\ p.could = priv[c].could
  BY DEF PrivCall
<1>2. priv' = [priv EXCEPT ![c] = p]
  BY DEF PrivAt, PrivEnded
<1> HIDE DEF p
<1> QED
  BY <1>1, <1>2

\* A call that assigns or revokes a role begins.
LEMMA BeginRoleKeeps ==
    ASSUME PrivInv, UNCHANGED allowed, NEW c \in PrivCalls, NEW kind \in {"assign", "revoke"},
           NEW r \in RoleCodes, BeginRole(c, kind, r)
    PROVE  PrivInv'
<1> DEFINE pc == IF r \in roleCache THEN AfterRole(kind, r) ELSE "role"
           p == [IdlePriv EXCEPT !.kind = kind, !.role = r, !.pc = pc]
<1>1. /\ May("serial") => PrivAtRest
      /\ UNCHANGED <<roleRow, roleCache, userRole, asked, jit>>
      /\ priv' = [priv EXCEPT ![c] = p]
  BY DEF BeginRole, BeginPriv
<1>2. /\ pc \in {"role", "approval", "write"} /\ (kind = "revoke" => pc # "approval")
      /\ kind = "assign" /\ r \in Gated => pc # "write"
  BY DEF AfterRole
<1> HIDE DEF pc
<1>3. p \in PrivCall /\ p.pc = pc /\ p.kind = kind /\ p.role = r
  BY <1>2 DEF IdlePriv, PrivCall, PrivKinds
<1> HIDE DEF p
<1>4. CallForm(p) /\ CallHolds(p)
  BY <1>2, <1>3 DEF CallForm, CallHolds, PrivEnded
<1>5. roleCache' \subseteq RoleCodes
  BY <1>1 DEF PrivInv, PrivTypeOK
<1> QED
  BY <1>1, <1>3, <1>4, <1>5, CallMoves

\* A check of a permission begins.
LEMMA BeginCheckKeeps ==
    ASSUME PrivInv, UNCHANGED allowed, NEW c \in PrivCalls, BeginCheck(c)
    PROVE  PrivInv'
<1> DEFINE p == [IdlePriv EXCEPT !.kind = "check", !.pc = "held", !.could = Holding(userRole, roleRow)]
<1>1. /\ May("serial") => PrivAtRest
      /\ UNCHANGED <<roleRow, roleCache, userRole, asked, jit>>
      /\ priv' = [priv EXCEPT ![c] = p]
  BY DEF BeginCheck, BeginPriv
<1>2. Holding(userRole, roleRow) \subseteq RoleCodes
  BY DEF Holding
<1>3. p \in PrivCall /\ p.pc = "held" /\ p.kind = "check" /\ p.could = Holding(userRole, roleRow)
  BY <1>2 DEF IdlePriv, PrivCall, PrivKinds
<1> HIDE DEF p
<1>4. CallForm(p) /\ CallHolds(p)
  BY <1>3 DEF CallForm, CallHolds, PrivEnded
<1>5. roleCache' \subseteq RoleCodes
  BY <1>1 DEF PrivInv, PrivTypeOK
<1> QED
  BY <1>1, <1>3, <1>4, <1>5, CallMoves

\* A request for a privilege begins.
LEMMA BeginRequestKeeps ==
    ASSUME PrivInv, UNCHANGED allowed, NEW c \in PrivCalls, NEW j \in JitRequests,
           NEW r \in RoleCodes, BeginRequest(c, j, r)
    PROVE  PrivInv'
<1> DEFINE pc == IF r \in roleCache /\ r \in Privileged THEN "approval" ELSE "role"
           p == [IdlePriv EXCEPT !.kind = "request", !.role = r, !.request = j, !.pc = pc]
<1>1. /\ May("serial") => PrivAtRest
      /\ jit[j].status = "none" /\ \A d \in PrivCalls : priv[d].request # j
      /\ UNCHANGED <<roleRow, roleCache, userRole, asked, jit>>
      /\ priv' = [priv EXCEPT ![c] = p]
  BY DEF BeginRequest, BeginPriv
<1>2. pc \in {"role", "approval"}
  OBVIOUS
<1> HIDE DEF pc
<1>3. p \in PrivCall /\ p.pc = pc /\ p.kind = "request" /\ p.role = r /\ p.request = j
  BY <1>2 DEF IdlePriv, PrivCall, PrivKinds
<1> HIDE DEF p
<1>4. CallForm(p) /\ CallHolds(p)
  BY <1>1, <1>2, <1>3 DEF CallForm, CallHolds, PrivEnded
<1>5. roleCache' \subseteq RoleCodes
  BY <1>1 DEF PrivInv, PrivTypeOK
<1> QED
  BY <1>1, <1>3, <1>4, <1>5, CallMoves

\* An activation of a privilege begins.
LEMMA BeginActivateKeeps ==
    ASSUME PrivInv, UNCHANGED allowed, NEW c \in PrivCalls, NEW j \in JitRequests, BeginActivate(c, j)
    PROVE  PrivInv'
<1> DEFINE p == [IdlePriv EXCEPT !.kind = "activate", !.request = j, !.pc = "held"]
<1>1. /\ May("serial") => PrivAtRest
      /\ UNCHANGED <<roleRow, roleCache, userRole, asked, jit>>
      /\ priv' = [priv EXCEPT ![c] = p]
  BY DEF BeginActivate, BeginPriv
<1>3. p \in PrivCall /\ p.pc = "held" /\ p.kind = "activate" /\ p.request = j
  BY DEF IdlePriv, PrivCall, PrivKinds
<1> HIDE DEF p
<1>4. CallForm(p) /\ CallHolds(p)
  BY <1>3 DEF CallForm, CallHolds, PrivEnded
<1>5. roleCache' \subseteq RoleCodes
  BY <1>1 DEF PrivInv, PrivTypeOK
<1> QED
  BY <1>1, <1>3, <1>4, <1>5, CallMoves

\* Reading a role keeps the invariant of privileges.
LEMMA ReadRoleKeeps ==
    ASSUME PrivInv, UNCHANGED allowed, NEW c \in PrivCalls, ReadRole(c)
    PROVE  PrivInv'
<1> DEFINE r == priv[c].role
<1>1. /\ priv[c].pc = "role" /\ priv[c] \in PrivCall /\ CallForm(priv[c]) /\ CallHolds(priv[c])
      /\ UNCHANGED <<roleRow, userRole, asked, jit>> /\ roleCache \subseteq RoleCodes
  BY DEF ReadRole, PrivInv, PrivTypeOK
<1>2. priv[c].kind \in {"assign", "revoke", "request"} /\ r \in RoleCodes
  BY <1>1 DEF CallForm
<1>3. roleCache' \subseteq RoleCodes
  BY <1>1, <1>2 DEF ReadRole
<1> DEFINE pc == AfterRole(priv[c].kind, r)
<1>4. PrivAt(c, "refused") \/ PrivAt(c, pc)
  BY DEF ReadRole
<1>5. CASE PrivAt(c, "refused")
  <2>1. "refused" \in PrivEnded
    BY DEF PrivEnded
  <2> QED
    BY <1>1, <1>3, <1>5, <2>1, CallEnds
<1>6. CASE PrivAt(c, pc)
  <2>1. /\ pc \in {"approval", "write"} /\ (pc = "approval" => priv[c].kind # "revoke")
        /\ pc = "write" => priv[c].kind # "request" /\ ~(priv[c].kind = "assign" /\ r \in Gated)
    BY <1>2 DEF AfterRole
  <2> HIDE DEF pc
  <2>2. PICK p \in PrivCall : /\ priv' = [priv EXCEPT ![c] = p] /\ p.pc = pc
                              /\ p.kind = priv[c].kind /\ p.role = priv[c].role
                              /\ p.request = priv[c].request /\ p.held = priv[c].held
                              /\ p.could = priv[c].could
    BY <1>1, <1>6, <2>1, PrivAtForm
  <2>3. CallForm(p)
    BY <1>1, <1>2, <2>1, <2>2 DEF CallForm, PrivEnded
  <2>4. CallHolds(p)
    BY <1>1, <1>2, <2>1, <2>2 DEF CallHolds
  <2>5. priv[c].pc \notin PrivEnded
    BY <1>1 DEF PrivEnded
  <2> QED
    BY <1>1, <1>3, <2>2, <2>3, <2>4, <2>5, CallMoves
<1> QED
  BY <1>4, <1>5, <1>6

\* Every query of checkPermission and activateJitPrivilege.
LEMMA ReadsKeep ==
    ASSUME PrivInv, UNCHANGED allowed, NEW c \in PrivCalls,
           (priv[c].kind = "check" /\ ReadHeld(c)) \/ ReadGrants(c) \/ ReadJit(c)
    PROVE  PrivInv'
<1>1. /\ priv[c].pc \in {"held", "grants"} /\ priv[c] \in PrivCall /\ CallForm(priv[c]) /\ CallHolds(priv[c])
      /\ UNCHANGED <<roleRow, roleCache, userRole, asked, jit>> /\ roleCache' \subseteq RoleCodes
  BY DEF ReadHeld, ReadGrants, ReadJit, PrivInv, PrivTypeOK
<1>2. priv[c].pc \notin PrivEnded
  BY <1>1 DEF PrivEnded
<1>3. ASSUME PrivAt(c, "refused") \/ PrivAt(c, "granted") PROVE PrivInv'
  <2>1. "refused" \in PrivEnded /\ "granted" \in PrivEnded
    BY DEF PrivEnded
  <2> QED
    BY <1>1, <1>3, <2>1, CallEnds
<1>4. CASE priv[c].kind = "check" /\ priv' = [priv EXCEPT ![c].pc = "grants", ![c].held = RolesHeld]
  <2> DEFINE p == [priv[c] EXCEPT !.pc = "grants", !.held = RolesHeld]
  <2>1. RolesHeld \subseteq RoleCodes
    BY DEF RolesHeld
  <2>2. /\ p \in PrivCall /\ p.pc = "grants" /\ p.kind = "check" /\ p.held = RolesHeld
        /\ p.could = priv[c].could
    BY <1>1, <1>4, <2>1 DEF PrivCall
  <2>3. priv' = [priv EXCEPT ![c] = p]
    BY <1>4
  <2> HIDE DEF p
  <2>4. \A r \in RolesHeld : roleRow[r].grants => r \in priv[c].could
    BY <1>1, <1>4 DEF CallHolds, Holding, RolesHeld
  <2>5. CallForm(p) /\ CallHolds(p)
    BY <1>1, <1>4, <2>2, <2>4 DEF CallForm, CallHolds, PrivEnded
  <2> QED
    BY <1>1, <1>2, <2>2, <2>3, <2>5, CallMoves
<1>5. ASSUME priv[c].pc = "grants", NEW r \in priv[c].held, priv' = [priv EXCEPT ![c].held = @ \ {r}]
      PROVE  PrivInv'
  <2> DEFINE p == [priv[c] EXCEPT !.held = priv[c].held \ {r}]
  <2>1. priv[c].kind = "check"
    BY <1>1, <1>5 DEF CallForm
  <2>2. /\ p \in PrivCall /\ p.pc = "grants" /\ p.kind = "check" /\ p.held = priv[c].held \ {r}
        /\ p.could = priv[c].could
    BY <1>1, <1>5, <2>1 DEF PrivCall
  <2>3. priv' = [priv EXCEPT ![c] = p]
    BY <1>5
  <2> HIDE DEF p
  <2>4. CallForm(p) /\ CallHolds(p)
    BY <1>1, <1>5, <2>1, <2>2 DEF CallForm, CallHolds, PrivEnded
  <2> QED
    BY <1>1, <1>2, <2>2, <2>3, <2>4, CallMoves
<1>6. CASE priv[c].kind = "activate" /\ jit[priv[c].request].status = "APPROVED" /\ PrivAt(c, "write")
  <2>1. PICK p \in PrivCall : /\ priv' = [priv EXCEPT ![c] = p] /\ p.pc = "write"
                              /\ p.kind = priv[c].kind /\ p.role = priv[c].role
                              /\ p.request = priv[c].request /\ p.held = priv[c].held
                              /\ p.could = priv[c].could
    BY <1>1, <1>6, PrivAtForm
  <2>2. priv[c].request \in JitRequests
    BY <1>1, <1>6 DEF CallForm
  <2>3. jit[priv[c].request].periods = 0
    BY <1>6, <2>2 DEF PrivInv, NoPeriodYet
  <2>4. CallForm(p) /\ CallHolds(p)
    BY <1>1, <1>6, <2>1, <2>2, <2>3 DEF CallForm, CallHolds, PrivEnded
  <2> QED
    BY <1>1, <1>2, <1>6, <2>1, <2>4, CallMoves
<1>7. CASE priv[c].kind = "check" /\ ReadHeld(c)
  BY <1>3, <1>4, <1>7 DEF ReadHeld
<1>8. CASE ReadGrants(c)
  BY <1>3, <1>5, <1>8 DEF ReadGrants
<1>9. CASE ReadJit(c)
  BY <1>3, <1>6, <1>9 DEF ReadJit, Activatable
<1> QED
  BY <1>7, <1>8, <1>9

\* Asking for an approval keeps it.
LEMMA AskApprovalKeeps ==
    ASSUME PrivInv, UNCHANGED allowed, NEW c \in PrivCalls, AskApproval(c)
    PROVE  PrivInv'
<1>1. /\ priv[c].pc = "approval" /\ priv \in [PrivCalls -> PrivCall] /\ priv[c] \in PrivCall
      /\ CallForm(priv[c]) /\ CallHolds(priv[c])
      /\ UNCHANGED <<roleRow, roleCache, userRole, jit>> /\ roleCache' \subseteq RoleCodes
  BY DEF AskApproval, PrivInv, PrivTypeOK
<1>2. priv[c].pc \notin PrivEnded
  BY <1>1 DEF PrivEnded
<1>3. CASE PrivAt(c, "refused") /\ UNCHANGED asked
  <2>1. "refused" \in PrivEnded
    BY DEF PrivEnded
  <2> QED
    BY <1>1, <1>3, <2>1, CallEnds
<1>4. CASE /\ asked' = asked \cup {IF priv[c].kind = "request" THEN priv[c].request ELSE priv[c].role}
           /\ PrivAt(c, "write")
  <2>1. PICK p \in PrivCall : /\ priv' = [priv EXCEPT ![c] = p] /\ p.pc = "write"
                              /\ p.kind = priv[c].kind /\ p.role = priv[c].role
                              /\ p.request = priv[c].request /\ p.held = priv[c].held
                              /\ p.could = priv[c].could
    BY <1>1, <1>4, PrivAtForm
  <2>2. /\ priv' \in [PrivCalls -> PrivCall] /\ priv'[c] = p
        /\ \A d \in PrivCalls \ {c} : priv'[d] = priv[d]
    BY <1>1, <2>1
  <2>3. p.kind \in {"assign", "request"}
    BY <1>1, <2>1 DEF CallForm
  <2>4. asked \subseteq asked' /\ asked' \subseteq RoleCodes \cup JitRequests
        /\ (p.kind = "assign" => p.role \in asked') /\ (p.kind = "request" => p.request \in asked')
    BY <1>1, <1>4, <2>1, <2>3 DEF CallForm, PrivInv, PrivTypeOK
  <2>5. PrivTypeOK'
    BY <1>1, <2>2, <2>4 DEF PrivInv, PrivTypeOK
  <2>6. PrivilegesWereAskedFor' /\ OneApprovalOnePeriod' /\ NoPeriodYet'
    BY <1>1, <2>4 DEF PrivInv, PrivilegesWereAskedFor, OneApprovalOnePeriod, NoPeriodYet, May
  <2>7. OneCall' /\ OneRequestEach'
    BY <1>2, <2>1, <2>2 DEF PrivInv, OneCall, OneRequestEach, May
  <2>8. ASSUME NEW d \in PrivCalls PROVE CallForm(priv[d])' /\ CallHolds(priv[d])'
    <3>1. CASE d = c
      <4>1. CallForm(p)
        BY <1>1, <2>1, <2>3 DEF CallForm, PrivEnded
      <4>2. CallHolds(priv[c])'
        <5>1. p.kind = "request" => jit[p.request].status = "none"
          BY <1>1, <2>1 DEF CallHolds
        <5> QED
          BY <1>1, <2>1, <2>2, <2>3, <2>4, <5>1 DEF CallHolds, May
      <4> QED
        BY <2>2, <3>1, <4>1, <4>2
    <3>2. CASE d # c
      <4>1. CallForm(priv[d]) /\ CallHolds(priv[d]) /\ priv'[d] = priv[d]
        BY <2>2, <3>2 DEF PrivInv
      <4> QED
        BY <1>1, <2>4, <4>1 DEF CallHolds, May
    <3> QED
      BY <3>1, <3>2
  <2> QED
    BY <2>5, <2>6, <2>7, <2>8 DEF PrivInv
<1> QED
  BY <1>3, <1>4 DEF AskApproval

\* The tables change: running checks learn what they could have seen.
LEMMA SeenForm ==
    ASSUME NEW calls \in [PrivCalls -> PrivCall], NEW ur, NEW row
    PROVE  /\ Seen(calls, ur, row) \in [PrivCalls -> PrivCall]
           /\ \A c \in PrivCalls :
                 /\ Seen(calls, ur, row)[c].pc = calls[c].pc /\ Seen(calls, ur, row)[c].kind = calls[c].kind
                 /\ Seen(calls, ur, row)[c].role = calls[c].role
                 /\ Seen(calls, ur, row)[c].request = calls[c].request
                 /\ Seen(calls, ur, row)[c].held = calls[c].held
                 /\ calls[c].could \subseteq Seen(calls, ur, row)[c].could
                 /\ calls[c].kind = "check" /\ calls[c].pc \notin PrivEnded =>
                       Holding(ur, row) \subseteq Seen(calls, ur, row)[c].could
<1>1. Holding(ur, row) \subseteq RoleCodes
  BY DEF Holding
<1> DEFINE S == Seen(calls, ur, row)
<1>2. ASSUME NEW c \in PrivCalls
      PROVE  /\ S[c] \in PrivCall /\ S[c].pc = calls[c].pc /\ S[c].kind = calls[c].kind
             /\ S[c].role = calls[c].role /\ S[c].request = calls[c].request /\ S[c].held = calls[c].held
             /\ calls[c].could \subseteq S[c].could
             /\ calls[c].kind = "check" /\ calls[c].pc \notin PrivEnded => Holding(ur, row) \subseteq S[c].could
  <2> DEFINE h == Holding(ur, row)
             k == calls[c]
             g == [k EXCEPT !.could = k.could \cup h]
  <2>1. S[c] = IF k.kind = "check" /\ k.pc \notin PrivEnded THEN g ELSE k
    BY DEF Seen
  <2>2. k \in PrivCall /\ h \subseteq RoleCodes
    BY <1>1
  <2> HIDE DEF h, k, S
  <2>3. /\ g \in PrivCall /\ g.pc = k.pc /\ g.kind = k.kind /\ g.role = k.role
        /\ g.request = k.request /\ g.held = k.held /\ g.could = k.could \cup h
    BY <2>2 DEF PrivCall
  <2> HIDE DEF g
  <2>4. /\ S[c] \in PrivCall /\ S[c].pc = k.pc /\ S[c].kind = k.kind
        /\ S[c].role = k.role /\ S[c].request = k.request /\ S[c].held = k.held
        /\ k.could \subseteq S[c].could
        /\ k.kind = "check" /\ k.pc \notin PrivEnded => h \subseteq S[c].could
    BY <2>1, <2>2, <2>3
  <2> QED
    BY <2>4 DEF h, k
<1>3. S = [c \in PrivCalls |-> S[c]]
  BY DEF Seen
<1>4. S \in [PrivCalls -> PrivCall]
  <2> HIDE DEF S
  <2> QED
    BY <1>2, <1>3
<1> QED
  BY <1>2, <1>4

\* Writing an assignment keeps it: running checks learn of it.
LEMMA WriteUserRoleKeeps ==
    ASSUME PrivInv, UNCHANGED allowed, NEW c \in PrivCalls, WriteUserRole(c)
    PROVE  PrivInv'
<1> DEFINE r == priv[c].role
           new == IF priv[c].kind = "assign"
                  THEN IF userRole[r] = "none" THEN Assigned(r) ELSE userRole[r]
                  ELSE IF userRole[r] = "active" THEN "inactive" ELSE userRole[r]
           pc == IF priv[c].kind = "assign" /\ userRole[r] # "none" THEN "refused" ELSE "done"
           p == [IdlePriv EXCEPT !.pc = pc]
           calls == [priv EXCEPT ![c] = p]
<1>1. /\ priv[c].pc = "write" /\ priv[c].kind \in {"assign", "revoke"} /\ priv \in [PrivCalls -> PrivCall]
      /\ CallForm(priv[c]) /\ CallHolds(priv[c]) /\ userRole \in [RoleCodes -> UserRole]
      /\ UNCHANGED <<roleRow, roleCache, asked, jit>> /\ roleCache' \subseteq RoleCodes
  BY DEF WriteUserRole, PrivInv, PrivTypeOK
<1>2. r \in RoleCodes
  BY <1>1 DEF CallForm
<1>3. CASE UNCHANGED userRole /\ PrivAt(c, "refused")
  <2>1. "refused" \in PrivEnded
    BY DEF PrivEnded
  <2> QED
    BY <1>1, <1>3, <2>1, CallEnds
<1>4. CASE userRole' = [userRole EXCEPT ![r] = new] /\ priv' = Seen(calls, userRole', roleRow)
  <2>1. pc \in PrivEnded
    BY DEF PrivEnded
  <2> HIDE DEF pc
  <2>2. p \in PrivCall /\ p.pc = pc /\ p.kind = None
    BY <2>1, IdlePrivForm
  <2> HIDE DEF p
  <2>3. /\ calls \in [PrivCalls -> PrivCall] /\ calls[c] = p
        /\ \A d \in PrivCalls \ {c} : calls[d] = priv[d]
    BY <1>1, <2>2
  <2> HIDE DEF calls
  <2>4. priv' \in [PrivCalls -> PrivCall]
    BY <1>4, <2>3, SeenForm
  <2>5. \A d \in PrivCalls :
           /\ priv'[d].pc = calls[d].pc /\ priv'[d].kind = calls[d].kind /\ priv'[d].role = calls[d].role
           /\ priv'[d].request = calls[d].request /\ priv'[d].held = calls[d].held
           /\ calls[d].could \subseteq priv'[d].could
           /\ calls[d].kind = "check" /\ calls[d].pc \notin PrivEnded =>
                 Holding(userRole', roleRow) \subseteq priv'[d].could
    <3> DEFINE ur == userRole'
               S == Seen(calls, ur, roleRow)
    <3>1. priv' = S
      BY <1>4
    <3> HIDE DEF ur
    <3>2. \A d \in PrivCalls :
             /\ S[d].pc = calls[d].pc /\ S[d].kind = calls[d].kind /\ S[d].role = calls[d].role
             /\ S[d].request = calls[d].request /\ S[d].held = calls[d].held
             /\ calls[d].could \subseteq S[d].could
             /\ calls[d].kind = "check" /\ calls[d].pc \notin PrivEnded =>
                   Holding(ur, roleRow) \subseteq S[d].could
      BY <2>3, SeenForm
    <3> HIDE DEF S
    <3> QED
      BY <3>1, <3>2 DEF ur
  <2>6. /\ new \in UserRole /\ userRole' \in [RoleCodes -> UserRole] /\ userRole'[r] = new
        /\ \A s \in RoleCodes \ {r} : userRole'[s] = userRole[s]
    BY <1>1, <1>2, <1>4 DEF UserRole, Assigned
  <2>7. r \in Gated => (new = "none" \/ (r \in asked /\ new = "inactive"))
    BY <1>1, <1>2 DEF PrivInv, PrivilegesWereAskedFor, CallHolds, Assigned
  <2> HIDE DEF new
  <2>8. PrivTypeOK'
    BY <1>1, <2>4, <2>6 DEF PrivInv, PrivTypeOK
  <2>9. PrivilegesWereAskedFor' /\ OneApprovalOnePeriod' /\ NoPeriodYet'
    <3>1. PrivilegesWereAskedFor'
      BY <1>1, <2>6, <2>7, PrivilegesAssumption DEF PrivInv, PrivilegesWereAskedFor, Gated
    <3>2. OneApprovalOnePeriod' /\ NoPeriodYet'
      BY <1>1 DEF PrivInv, OneApprovalOnePeriod, NoPeriodYet, May
    <3> QED
      BY <3>1, <3>2
  <2>10. OneCall' /\ OneRequestEach'
    BY <2>1, <2>2, <2>3, <2>5, KindsDiffer DEF PrivInv, OneCall, OneRequestEach, May
  <2>11. ASSUME NEW d \in PrivCalls PROVE CallForm(priv[d])' /\ CallHolds(priv[d])'
    <3>1. CASE d = c
      <4>1. priv'[d].pc \in PrivEnded /\ priv'[d].kind = None
        BY <2>1, <2>2, <2>3, <2>5, <3>1
      <4> QED
        BY <4>1, KindsDiffer DEF CallForm, CallHolds, PrivEnded
    <3>2. CASE d # c
      <4>1. CallForm(priv[d]) /\ CallHolds(priv[d]) /\ calls[d] = priv[d]
        BY <2>3, <3>2 DEF PrivInv
      <4>2. CallForm(priv[d])'
        BY <2>5, <4>1 DEF CallForm
      <4>3. priv'[d].kind = "check" => priv[d].pc \notin PrivEnded
        BY <2>5, <4>1, KindsDiffer DEF CallForm
      <4>4. CallHolds(priv[d])'
        BY <1>1, <2>5, <4>1, <4>3 DEF CallHolds, May
      <4> QED
        BY <4>2, <4>4
    <3> QED
      BY <3>1, <3>2
  <2> QED
    BY <2>8, <2>9, <2>10, <2>11 DEF PrivInv
<1> QED
  BY <1>3, <1>4 DEF WriteUserRole

\* A change of a role keeps it.
LEMMA RoleChangesKeeps ==
    ASSUME PrivInv, UNCHANGED allowed, NEW r \in RoleCodes, RoleChanges(r)
    PROVE  PrivInv'
<1>1. /\ priv \in [PrivCalls -> PrivCall] /\ roleRow \in [RoleCodes -> Role]
      /\ UNCHANGED <<roleCache, userRole, asked, jit>> /\ priv' = Seen(priv, userRole, roleRow')
  BY DEF RoleChanges, PrivInv, PrivTypeOK
<1>2. /\ roleRow' \in [RoleCodes -> Role]
      /\ May("changes") \/ \A s \in RoleCodes : roleRow'[s].grants = roleRow[s].grants
  <2> DEFINE g == [roleRow[r] EXCEPT !.active = FALSE]
             h == [roleRow[r] EXCEPT !.grants = ~roleRow[r].grants]
  <2>1. g \in Role /\ h \in Role /\ g.grants = roleRow[r].grants
    BY <1>1 DEF Role
  <2>2. roleRow' = [roleRow EXCEPT ![r] = g] \/ (May("changes") /\ roleRow' = [roleRow EXCEPT ![r] = h])
    BY DEF RoleChanges
  <2> HIDE DEF g, h
  <2> QED
    BY <1>1, <2>1, <2>2
<1>3. priv' \in [PrivCalls -> PrivCall]
  BY <1>1, SeenForm
<1>4. \A d \in PrivCalls :
         /\ priv'[d].pc = priv[d].pc /\ priv'[d].kind = priv[d].kind /\ priv'[d].role = priv[d].role
         /\ priv'[d].request = priv[d].request /\ priv'[d].held = priv[d].held
         /\ priv[d].could \subseteq priv'[d].could
         /\ priv[d].kind = "check" /\ priv[d].pc \notin PrivEnded =>
               Holding(userRole, roleRow') \subseteq priv'[d].could
  BY <1>1, SeenForm
<1>5. PrivTypeOK'
  BY <1>1, <1>2, <1>3 DEF PrivInv, PrivTypeOK
<1>6. PrivilegesWereAskedFor' /\ OneApprovalOnePeriod' /\ NoPeriodYet'
  BY <1>1 DEF PrivInv, PrivilegesWereAskedFor, OneApprovalOnePeriod, NoPeriodYet, May
<1>7. OneCall' /\ OneRequestEach'
  BY <1>4 DEF PrivInv, OneCall, OneRequestEach, May
<1>8. ASSUME NEW d \in PrivCalls PROVE CallForm(priv[d])' /\ CallHolds(priv[d])'
  <2>1. CallForm(priv[d]) /\ CallHolds(priv[d]) /\ priv[d] \in PrivCall
    BY <1>1 DEF PrivInv
  <2>2. CallForm(priv[d])'
    BY <1>4, <2>1 DEF CallForm
  <2>3. priv'[d].kind = "check" => Holding(userRole, roleRow)' \subseteq priv'[d].could
    BY <1>1, <1>4, <2>1, KindsDiffer DEF CallForm
  <2>4. priv'[d].pc = "grants" /\ ~May("changes") =>
           \A s \in priv'[d].held : roleRow'[s].grants => s \in priv'[d].could
    BY <1>2, <1>4, <2>1 DEF CallHolds, PrivCall
  <2>5. CallHolds(priv[d])'
    BY <1>1, <1>4, <2>1, <2>3, <2>4 DEF CallHolds, May
  <2> QED
    BY <2>2, <2>5
<1> QED
  BY <1>5, <1>6, <1>7, <1>8 DEF PrivInv

\* What becomes of a row of jit_privilege_requests between calls.
LEMMA JitMoves ==
    ASSUME PrivInv, UNCHANGED <<allowed, roleRow, roleCache, userRole, asked, priv>>,
           jit' \in [JitRequests -> Jit],
           \A j \in JitRequests :
              /\ jit'[j].periods = jit[j].periods
              /\ jit'[j].status # jit[j].status => jit[j].status # "none" /\ jit'[j].status # "none"
              /\ jit'[j].status \in {"none", "PENDING", "APPROVED", "REJECTED"} =>
                    jit[j].status \in {"none", "PENDING", "APPROVED", "REJECTED"}
    PROVE  PrivInv'
<1>1. PrivTypeOK'
  BY DEF PrivInv, PrivTypeOK
<1>2. PrivilegesWereAskedFor' /\ OneApprovalOnePeriod' /\ NoPeriodYet'
  BY DEF PrivInv, PrivilegesWereAskedFor, OneApprovalOnePeriod, NoPeriodYet, May
<1>3. OneCall' /\ OneRequestEach'
  BY DEF PrivInv, OneCall, OneRequestEach, May
<1>4. ASSUME NEW d \in PrivCalls PROVE CallForm(priv[d])' /\ CallHolds(priv[d])'
  <2>1. CallForm(priv[d]) /\ CallHolds(priv[d])
    BY DEF PrivInv
  <2> QED
    BY <2>1 DEF CallForm, CallHolds, May
<1> QED
  BY <1>1, <1>2, <1>3, <1>4 DEF PrivInv

\* Decisions about requests, the end of periods and expiry keep it.
LEMMA DecisionsKeep ==
    ASSUME PrivInv, UNCHANGED allowed,
           (\E j \in JitRequests : Decide(j) \/ PeriodEnds(j)) \/ ExpireJitPrivileges
    PROVE  PrivInv'
<1>0. jit \in [JitRequests -> Jit] /\ UNCHANGED <<roleRow, roleCache, userRole, asked, priv>>
  BY DEF PrivInv, PrivTypeOK, Decide, PeriodEnds, ExpireJitPrivileges
<1>1. \A w \in Jit : \A s \in JitStatus :
         /\ [w EXCEPT !.status = s] \in Jit /\ [w EXCEPT !.status = s].status = s
         /\ [w EXCEPT !.status = s].periods = w.periods
         /\ [w EXCEPT !.over = TRUE] \in Jit /\ [w EXCEPT !.over = TRUE].status = w.status
         /\ [w EXCEPT !.over = TRUE].periods = w.periods
  BY DEF Jit
<1>2. {"APPROVED", "REJECTED", "REVOKED", "EXPIRED"} \subseteq JitStatus
  BY DEF JitStatus
<1>3. ASSUME NEW j \in JitRequests, NEW s \in JitStatus, s \in {"APPROVED", "REJECTED", "REVOKED"},
             jit' = [jit EXCEPT ![j].status = s],
             jit[j].status = "PENDING" \/ (s = "REVOKED" /\ jit[j].status # "none")
      PROVE  PrivInv'
  <2> DEFINE g == [jit[j] EXCEPT !.status = s]
  <2>1. g \in Jit /\ g.status = s /\ g.periods = jit[j].periods
    BY <1>0, <1>1
  <2>2. jit' = [jit EXCEPT ![j] = g]
    BY <1>3
  <2> HIDE DEF g
  <2>3. jit' \in [JitRequests -> Jit] /\ jit'[j] = g /\ \A i \in JitRequests \ {j} : jit'[i] = jit[i]
    BY <1>0, <2>1, <2>2
  <2>4. \A i \in JitRequests :
              /\ jit'[i].periods = jit[i].periods
              /\ jit'[i].status # jit[i].status => jit[i].status # "none" /\ jit'[i].status # "none"
              /\ jit'[i].status \in {"none", "PENDING", "APPROVED", "REJECTED"} =>
                    jit[i].status \in {"none", "PENDING", "APPROVED", "REJECTED"}
    BY <1>3, <2>1, <2>3
  <2> QED
    BY <1>0, <2>3, <2>4, JitMoves
<1>4. ASSUME NEW j \in JitRequests, Decide(j) PROVE PrivInv'
  BY <1>2, <1>3, <1>4 DEF Decide
<1>5. ASSUME NEW j \in JitRequests, PeriodEnds(j) PROVE PrivInv'
  <2> DEFINE g == [jit[j] EXCEPT !.over = TRUE]
  <2>1. g \in Jit /\ g.status = jit[j].status /\ g.periods = jit[j].periods
    BY <1>0, <1>1, <1>2
  <2>2. jit' = [jit EXCEPT ![j] = g]
    BY <1>5 DEF PeriodEnds
  <2> HIDE DEF g
  <2>3. jit' \in [JitRequests -> Jit] /\ jit'[j] = g /\ \A i \in JitRequests \ {j} : jit'[i] = jit[i]
    BY <1>0, <2>1, <2>2
  <2>4. \A i \in JitRequests : jit'[i].periods = jit[i].periods /\ jit'[i].status = jit[i].status
    BY <2>1, <2>3
  <2> QED
    BY <1>0, <2>3, <2>4, JitMoves
<1>6. CASE ExpireJitPrivileges
  <2>1. jit' = [j \in JitRequests |-> IF Expiring(j) THEN [jit[j] EXCEPT !.status = "EXPIRED"] ELSE jit[j]]
    BY <1>6 DEF ExpireJitPrivileges
  <2>2. \A j \in JitRequests :
           /\ jit'[j] \in Jit /\ jit'[j].periods = jit[j].periods
           /\ \/ jit'[j].status = jit[j].status
              \/ jit[j].status = "ACTIVATED" /\ jit'[j].status = "EXPIRED"
    <3> SUFFICES ASSUME NEW j \in JitRequests
                 PROVE  /\ jit'[j] \in Jit /\ jit'[j].periods = jit[j].periods
                        /\ \/ jit'[j].status = jit[j].status
                           \/ jit[j].status = "ACTIVATED" /\ jit'[j].status = "EXPIRED"
      OBVIOUS
    <3> DEFINE g == [jit[j] EXCEPT !.status = "EXPIRED"]
    <3>1. g \in Jit /\ g.status = "EXPIRED" /\ g.periods = jit[j].periods
      BY <1>0, <1>1, <1>2
    <3>2. jit'[j] = IF Expiring(j) THEN g ELSE jit[j]
      BY <2>1
    <3> HIDE DEF g
    <3> QED
      BY <1>0, <3>1, <3>2 DEF Expiring
  <2>3. jit' \in [JitRequests -> Jit]
    BY <2>1, <2>2
  <2> QED
    BY <1>0, <2>2, <2>3, JitMoves
<1> QED
  BY <1>4, <1>5, <1>6

\* A call writes its row and ends.
LEMMA WritesKeep ==
    ASSUME PrivInv, UNCHANGED allowed, NEW c \in PrivCalls, InsertJit(c) \/ WriteJit(c)
    PROVE  PrivInv'
<1> DEFINE j == priv[c].request
<1>1. /\ priv[c].pc = "write" /\ priv[c].kind \in {"request", "activate"} /\ priv \in [PrivCalls -> PrivCall]
      /\ CallForm(priv[c]) /\ CallHolds(priv[c]) /\ jit \in [JitRequests -> Jit]
      /\ UNCHANGED <<roleRow, roleCache, userRole, asked>> /\ roleCache' \subseteq RoleCodes
      /\ PrivAt(c, "done") \/ PrivAt(c, "refused")
  BY DEF InsertJit, WriteJit, PrivInv, PrivTypeOK
<1>2. j \in JitRequests /\ jit[j] \in Jit /\ "done" \in PrivEnded /\ "refused" \in PrivEnded
  BY <1>1 DEF CallForm, PrivEnded
<1>3. CASE UNCHANGED jit
  BY <1>1, <1>2, <1>3, CallEnds
<1>4. ASSUME NEW g \in Jit, jit' = [jit EXCEPT ![j] = g], g.status # "none",
             \/ priv[c].kind = "request" /\ g.status = "PENDING" /\ g.periods = jit[j].periods
             \/ /\ priv[c].kind = "activate" /\ g.status = "ACTIVATED"
                /\ May("serial") => g.periods <= 1
      PROVE  PrivInv'
  <2>1. /\ jit' \in [JitRequests -> Jit] /\ jit'[j] = g /\ \A i \in JitRequests \ {j} : jit'[i] = jit[i]
    BY <1>1, <1>2, <1>4
  <2>2. PICK p \in PrivCall : priv' = [priv EXCEPT ![c] = p] /\ p.pc \in PrivEnded /\ p.kind = None
    <3>1. PICK pc \in PrivEnded : PrivAt(c, pc)
      BY <1>1, <1>2
    <3> DEFINE p == [IdlePriv EXCEPT !.pc = pc]
    <3>2. priv' = [priv EXCEPT ![c] = p]
      BY <3>1 DEF PrivAt
    <3>3. p \in PrivCall /\ p.pc = pc /\ p.kind = None
      BY IdlePrivForm
    <3> HIDE DEF p
    <3> QED
      BY <3>2, <3>3
  <2>3. /\ priv' \in [PrivCalls -> PrivCall] /\ priv'[c] = p
        /\ \A d \in PrivCalls \ {c} : priv'[d] = priv[d]
    BY <1>1, <2>2
  <2>4. /\ priv[c].kind = "request" => jit[j].status = "none" /\ j \in asked /\ jit[j].periods = 0
        /\ priv[c].kind = "activate" => jit[j].status # "none" /\ j \in asked
    BY <1>1, <1>2 DEF CallHolds, PrivInv, NoPeriodYet, PrivilegesWereAskedFor
  <2> HIDE DEF j
  <2>5. PrivTypeOK'
    BY <1>1, <2>1, <2>3 DEF PrivInv, PrivTypeOK
  <2>6. PrivilegesWereAskedFor'
    BY <1>1, <2>1, <2>4 DEF PrivInv, PrivilegesWereAskedFor
  <2>7. OneApprovalOnePeriod'
    BY <1>4, <2>1, <2>4 DEF PrivInv, OneApprovalOnePeriod, May
  <2>8. NoPeriodYet'
    BY <1>4, <2>1, <2>4 DEF PrivInv, NoPeriodYet
  <2>9. OneCall' /\ OneRequestEach'
    BY <2>2, <2>3, KindsDiffer DEF PrivInv, OneCall, OneRequestEach, May
  <2>10. ASSUME NEW d \in PrivCalls PROVE CallForm(priv[d])' /\ CallHolds(priv[d])'
    <3>1. CASE d = c
      BY <2>2, <2>3, <3>1, KindsDiffer DEF CallForm, CallHolds, PrivEnded
    <3>2. CASE d # c
      <4>1. CallForm(priv[d]) /\ CallHolds(priv[d]) /\ priv'[d] = priv[d]
        BY <2>3, <3>2 DEF PrivInv
      <4>2. priv[d].kind = "request" => jit'[priv[d].request].status = "none"
        <5>1. CASE priv[c].kind = "request"
          <6>1. priv[d].kind = "request" => priv[d].request # j
            BY <3>2, <5>1 DEF PrivInv, OneRequestEach, j
          <6> QED
            BY <2>1, <4>1, <6>1 DEF CallForm, CallHolds
        <5>2. CASE priv[c].kind = "activate"
          BY <2>1, <2>4, <4>1, <5>2 DEF CallForm, CallHolds
        <5> QED
          BY <1>1, <5>1, <5>2
      <4>3. priv[d].pc = "write" /\ priv[d].kind = "activate" =>
               /\ jit'[priv[d].request].status # "none"
               /\ May("serial") => jit'[priv[d].request].periods = 0
        <5>1. priv[d].pc = "write" /\ May("serial") => FALSE
          BY <1>1, <3>2 DEF PrivInv, OneCall, PrivEnded
        <5> QED
          BY <1>4, <2>1, <4>1, <5>1 DEF CallForm, CallHolds
      <4> QED
        BY <1>1, <4>1, <4>2, <4>3 DEF CallHolds, May
    <3> QED
      BY <3>1, <3>2
  <2> QED
    BY <2>5, <2>6, <2>7, <2>8, <2>9, <2>10 DEF PrivInv
<1>5. CASE priv[c].kind = "request" /\ jit' = [jit EXCEPT ![j].status = "PENDING"]
  <2> DEFINE g == [jit[j] EXCEPT !.status = "PENDING"]
  <2>1. g \in Jit /\ g.status = "PENDING" /\ g.periods = jit[j].periods
    BY <1>2 DEF Jit, JitStatus
  <2>2. jit' = [jit EXCEPT ![j] = g]
    BY <1>5
  <2> HIDE DEF g
  <2> QED
    BY <1>4, <1>5, <2>1, <2>2
<1>6. CASE priv[c].kind = "activate"
           /\ jit' = [jit EXCEPT ![j] = [status |-> "ACTIVATED", over |-> FALSE,
                                       periods |-> IF jit[j].periods < 2 THEN jit[j].periods + 1 ELSE 2]]
  <2> DEFINE k == IF jit[j].periods < 2 THEN jit[j].periods + 1 ELSE 2
             g == [status |-> "ACTIVATED", over |-> FALSE, periods |-> k]
  <2>1. k \in 0..2 /\ (May("serial") => k <= 1)
    <3>1. jit[j].periods \in 0..2 /\ (May("serial") => jit[j].periods = 0)
      BY <1>1, <1>2, <1>6 DEF Jit, CallHolds
    <3> QED
      BY <3>1
  <2> HIDE DEF k
  <2>2. g \in Jit /\ g.status = "ACTIVATED" /\ g.periods = k
    BY <2>1 DEF Jit, JitStatus
  <2>3. jit' = [jit EXCEPT ![j] = g]
    BY <1>6 DEF k
  <2> HIDE DEF g
  <2> QED
    BY <1>4, <1>6, <2>1, <2>2, <2>3
<1> QED
  BY <1>3, <1>5, <1>6 DEF InsertJit, WriteJit

\* So does every step.
LEMMA PrivKeeps == ASSUME PrivInv, UNCHANGED allowed, PrivNext PROVE PrivInv'
<1>1. ASSUME NEW c \in PrivCalls, PrivStep(c) PROVE PrivInv'
  BY <1>1, ReadRoleKeeps, AskApprovalKeeps, WriteUserRoleKeeps, ReadsKeep, WritesKeep DEF PrivStep
<1> QED
  BY <1>1, BeginRoleKeeps, BeginCheckKeeps, RoleChangesKeeps, BeginRequestKeeps, BeginActivateKeeps,
     DecisionsKeep DEF PrivNext

\* Only ReadGrants grants.
LEMMA PrivAtMoves ==
    ASSUME priv \in [PrivCalls -> PrivCall], NEW c \in PrivCalls, NEW d \in PrivCalls,
           NEW pc \in {"role", "approval", "write", "held", "grants", "done", "refused", "granted"},
           PrivAt(d, pc)
    PROVE  priv'[c].pc = IF c = d THEN pc ELSE priv[c].pc
<1> DEFINE g == IF pc \in PrivEnded THEN [IdlePriv EXCEPT !.pc = pc] ELSE [priv[d] EXCEPT !.pc = pc]
<1>1. g.pc = pc
  <2>1. CASE pc \in PrivEnded
    BY <2>1, IdlePrivForm
  <2>2. CASE pc \notin PrivEnded
    BY <2>2 DEF PrivCall
  <2> QED
    BY <2>1, <2>2
<1>2. priv' = [priv EXCEPT ![d] = g]
  BY DEF PrivAt
<1> HIDE DEF g
<1> QED
  BY <1>1, <1>2

\* No other step of a call grants.
LEMMA OthersDoNotGrant ==
    ASSUME PrivInv, NEW d \in PrivCalls, PrivStep(d), ~ReadGrants(d), NEW c \in PrivCalls,
           priv'[c].pc = "granted"
    PROVE  priv[c].pc = "granted"
<1>0. priv \in [PrivCalls -> PrivCall]
  BY DEF PrivInv, PrivTypeOK
<1>1. ASSUME NEW pc \in {"role", "approval", "write", "held", "done", "refused"}, PrivAt(d, pc)
      PROVE  priv[c].pc = "granted"
  BY <1>0, <1>1, PrivAtMoves
<1>2. CASE ReadRole(d)
  <2>1. PICK pc \in {"approval", "write", "refused"} : PrivAt(d, pc)
    BY <1>2 DEF ReadRole, AfterRole
  <2> QED
    BY <1>1, <2>1
<1>3. CASE AskApproval(d)
  BY <1>1, <1>3 DEF AskApproval
<1>4. CASE WriteUserRole(d)
  <2> DEFINE pc == IF priv[d].kind = "assign" /\ userRole[priv[d].role] # "none" THEN "refused" ELSE "done"
             p == [IdlePriv EXCEPT !.pc = pc]
             calls == [priv EXCEPT ![d] = p]
             ur == userRole'
             S == Seen(calls, ur, roleRow)
  <2>1. CASE PrivAt(d, "refused")
    BY <1>1, <2>1
  <2>2. CASE priv' = S
    <3>1. pc \in PrivEnded /\ pc # "granted"
      BY DEF PrivEnded
    <3> HIDE DEF pc
    <3>2. p \in PrivCall /\ p.pc = pc
      BY <3>1, IdlePrivForm
    <3> HIDE DEF p
    <3>3. calls \in [PrivCalls -> PrivCall] /\ calls[c].pc = IF c = d THEN pc ELSE priv[c].pc
      BY <1>0, <3>2
    <3> HIDE DEF calls, ur
    <3>4. S[c].pc = calls[c].pc
      BY <3>3, SeenForm
    <3> HIDE DEF S
    <3> QED
      BY <2>2, <3>1, <3>3, <3>4
  <2> QED
    BY <1>4, <2>1, <2>2 DEF WriteUserRole
<1>5. CASE ReadHeld(d)
  <2>1. CASE PrivAt(d, "refused")
    BY <1>1, <2>1
  <2>2. CASE priv' = [priv EXCEPT ![d].pc = "grants", ![d].held = RolesHeld]
    <3> DEFINE g == [priv[d] EXCEPT !.pc = "grants", !.held = RolesHeld]
    <3>1. g.pc = "grants"
      BY <1>0 DEF PrivCall
    <3>2. priv' = [priv EXCEPT ![d] = g]
      BY <2>2
    <3> HIDE DEF g
    <3> QED
      BY <1>0, <3>1, <3>2
  <2> QED
    BY <1>5, <2>1, <2>2 DEF ReadHeld
<1>6. CASE InsertJit(d)
  BY <1>1, <1>6 DEF InsertJit
<1>7. CASE ReadJit(d)
  <2>1. PICK pc \in {"write", "refused"} : PrivAt(d, pc)
    BY <1>7 DEF ReadJit
  <2> QED
    BY <1>1, <2>1
<1>8. CASE WriteJit(d)
  BY <1>1, <1>8 DEF WriteJit
<1> QED
  BY <1>2, <1>3, <1>4, <1>5, <1>6, <1>7, <1>8 DEF PrivStep

\* A call begins.
LEMMA BeginnersDoNotGrant ==
    ASSUME PrivInv, NEW d \in PrivCalls, NEW c \in PrivCalls,
           \/ \E k \in {"assign", "revoke"}, r \in RoleCodes : BeginRole(d, k, r)
           \/ BeginCheck(d)
           \/ \E j \in JitRequests, r \in RoleCodes : BeginRequest(d, j, r)
           \/ \E j \in JitRequests : BeginActivate(d, j)
    PROVE  priv'[c].pc = "granted" => priv[c].pc = "granted"
<1>0. priv \in [PrivCalls -> PrivCall]
  BY DEF PrivInv, PrivTypeOK
<1>1. ASSUME NEW p, priv' = [priv EXCEPT ![d] = p], p.pc # "granted"
      PROVE  priv'[c].pc = "granted" => priv[c].pc = "granted"
  BY <1>0, <1>1
<1>2. ASSUME NEW k \in {"assign", "revoke"}, NEW r \in RoleCodes, BeginRole(d, k, r)
      PROVE  priv'[c].pc = "granted" => priv[c].pc = "granted"
  <2> DEFINE pc == IF r \in roleCache THEN AfterRole(k, r) ELSE "role"
             p == [IdlePriv EXCEPT !.kind = k, !.role = r, !.pc = pc]
  <2>1. p.pc = pc
    BY DEF IdlePriv
  <2>2. pc # "granted" /\ priv' = [priv EXCEPT ![d] = p]
    BY <1>2, Zenon DEF BeginRole, AfterRole
  <2> HIDE DEF p, pc
  <2> QED
    BY <1>1, <2>1, <2>2
<1>3. CASE BeginCheck(d)
  <2> DEFINE p == [IdlePriv EXCEPT !.kind = "check", !.pc = "held", !.could = Holding(userRole, roleRow)]
  <2>1. p.pc = "held" /\ priv' = [priv EXCEPT ![d] = p]
    BY <1>3 DEF IdlePriv, BeginCheck
  <2> HIDE DEF p
  <2> QED
    BY <1>1, <2>1
<1>4. ASSUME NEW j \in JitRequests, NEW r \in RoleCodes, BeginRequest(d, j, r)
      PROVE  priv'[c].pc = "granted" => priv[c].pc = "granted"
  <2> DEFINE pc == IF r \in roleCache /\ r \in Privileged THEN "approval" ELSE "role"
             p == [IdlePriv EXCEPT !.kind = "request", !.role = r, !.request = j, !.pc = pc]
  <2>1. p.pc = pc
    BY DEF IdlePriv
  <2>2. pc # "granted" /\ priv' = [priv EXCEPT ![d] = p]
    BY <1>4, Zenon DEF BeginRequest
  <2> HIDE DEF p, pc
  <2> QED
    BY <1>1, <2>1, <2>2
<1>5. ASSUME NEW j \in JitRequests, BeginActivate(d, j)
      PROVE  priv'[c].pc = "granted" => priv[c].pc = "granted"
  <2> DEFINE p == [IdlePriv EXCEPT !.kind = "activate", !.request = j, !.pc = "held"]
  <2>1. p.pc = "held" /\ priv' = [priv EXCEPT ![d] = p]
    BY <1>5, Zenon DEF IdlePriv, BeginActivate
  <2> HIDE DEF p
  <2> QED
    BY <1>1, <2>1
<1> QED
  BY <1>2, <1>3, <1>4, <1>5

\* What is granted was held, unless roles themselves change.
LEMMA GrantsWereHeld ==
    ASSUME PrivInv, PrivNext, NEW c \in PrivCalls,
           priv'[c].pc = "granted", priv[c].pc # "granted"
    PROVE  May("changes") \/ priv[c].could # {}
<1>0. priv \in [PrivCalls -> PrivCall]
  BY DEF PrivInv, PrivTypeOK
<1>1. ASSUME NEW d \in PrivCalls, ReadGrants(d) PROVE May("changes") \/ priv[c].could # {}
  <2>1. PICK r \in priv[d].held :
           \/ roleRow[r].grants /\ PrivAt(d, "granted")
           \/ PrivAt(d, "refused")
           \/ priv' = [priv EXCEPT ![d].held = @ \ {r}]
    BY <1>1 DEF ReadGrants
  <2>2. ~PrivAt(d, "refused")
    BY <1>0, PrivAtMoves
  <2>3. ~(priv' = [priv EXCEPT ![d].held = @ \ {r}])
    <3> DEFINE g == [priv[d] EXCEPT !.held = priv[d].held \ {r}]
    <3>1. g.pc = priv[d].pc
      BY <1>0 DEF PrivCall
    <3> HIDE DEF g
    <3>2. priv' # [priv EXCEPT ![d] = g]
      BY <1>0, <3>1
    <3> QED
      BY <3>2 DEF g
  <2>4. c = d
    BY <1>0, <2>1, <2>2, <2>3, PrivAtMoves
  <2>5. CallHolds(priv[c]) /\ priv[c].pc = "grants"
    BY <1>1, <2>4 DEF PrivInv, ReadGrants
  <2> QED
    BY <2>1, <2>2, <2>3, <2>4, <2>5 DEF CallHolds
<1>2. ASSUME NEW r \in RoleCodes, RoleChanges(r) PROVE FALSE
  <2> DEFINE row == roleRow'
             S == Seen(priv, userRole, row)
  <2>1. priv' = S
    BY <1>2 DEF RoleChanges
  <2> HIDE DEF row
  <2>2. S[c].pc = priv[c].pc
    BY <1>0, SeenForm
  <2> HIDE DEF S
  <2> QED
    BY <2>1, <2>2
<1>3. ASSUME UNCHANGED priv PROVE FALSE
  BY <1>3
<1>4. ASSUME NEW d \in PrivCalls, PrivStep(d) PROVE May("changes") \/ priv[c].could # {}
  BY <1>1, <1>4, OthersDoNotGrant
<1>5. ASSUME NEW d \in PrivCalls,
             \/ \E k \in {"assign", "revoke"}, r \in RoleCodes : BeginRole(d, k, r)
             \/ BeginCheck(d)
             \/ \E j \in JitRequests, r \in RoleCodes : BeginRequest(d, j, r)
             \/ \E j \in JitRequests : BeginActivate(d, j)
      PROVE  FALSE
  BY <1>5, BeginnersDoNotGrant
<1> QED
  BY <1>2, <1>3, <1>4, <1>5 DEF PrivNext, Decide, PeriodEnds, ExpireJitPrivileges

-----------------------------------------------------------------------------
(* Requests before the policy guard: what is known of the policies a request has still to *)
(* go through, and of the chain of violations.                                          *)

\* A non-empty bounded set of numbers has a greatest one.
LEMMA GreatestOf ==
    ASSUME NEW T, T \subseteq Nat, T # {}, NEW b \in Nat, \A t \in T : t <= b
    PROVE  \E x \in T : \A y \in T : y <= x
<1> DEFINE U == {n \in Nat : \A t \in T : t <= n}
<1>1. U # {} /\ U \subseteq Nat
  OBVIOUS
<1>2. PICK u \in U : \A n \in U : u <= n
  <2> HIDE DEF U
  <2> QED
    BY <1>1, LeastOf
<1>3. u \in Nat /\ \A t \in T : t <= u
  OBVIOUS
<1>4. ASSUME u \notin T PROVE FALSE
  <2>1. \A t \in T : t < u
    BY <1>3, <1>4
  <2>2. u - 1 \in Nat /\ \A t \in T : t <= u - 1
    <3>1. PICK t \in T : t \in Nat /\ t < u
      BY <2>1
    <3> QED
      BY <1>3, <2>1, <3>1
  <2>3. u - 1 \in U
    BY <2>2
  <2> QED
    BY <1>2, <1>3, <2>3
<1> QED
  BY <1>3, <1>4

\* The elements of a suffix.
LEMMA SuffixOf ==
    ASSUME NEW S, NEW s \in Seq(S), NEW k \in 1 .. Len(s)
    PROVE  /\ SubSeq(s, k, Len(s)) \in Seq(S) /\ SubSeq(s, k, Len(s)) # <<>>
           /\ SubSeq(s, k, Len(s))[1] = s[k]
           /\ \A i \in k .. Len(s) : \E j \in DOMAIN SubSeq(s, k, Len(s)) : SubSeq(s, k, Len(s))[j] = s[i]
<1> DEFINE t == SubSeq(s, k, Len(s))
<1>1. t \in Seq(S) /\ Len(t) = Len(s) - k + 1
  OBVIOUS
<1>2. \A j \in 1 .. Len(t) : t[j] = s[k + j - 1]
  OBVIOUS
<1> HIDE DEF t
<1>3. Len(t) >= 1
  BY <1>1
<1>4. t # <<>> /\ DOMAIN t = 1 .. Len(t)
  BY <1>1, <1>3
<1>5. t[1] = s[k]
  BY <1>2, <1>3, <1>1
<1>6. ASSUME NEW i \in k .. Len(s) PROVE \E j \in DOMAIN t : t[j] = s[i]
  <2>1. i - k + 1 \in DOMAIN t
    BY <1>1, <1>4
  <2>2. t[i - k + 1] = s[i]
    BY <1>2, <1>4, <2>1
  <2> QED
    BY <2>1, <2>2
<1> QED
  BY <1>1, <1>4, <1>5, <1>6 DEF t

\* The rows of policies, and what a request has still to go through.
Covers(rows) == \A p \in Policies : \E i \in DOMAIN rows : rows[i].policy = p
Enforces(rows, ps) == \A p \in ps : \E i \in DOMAIN rows : rows[i].policy = p /\ rows[i].mode = "ENFORCE"
Recorded(c, p) == \E v \in violations : v.of = c /\ v.policy = p
ToCome(rows, p) == \E i \in DOMAIN rows : rows[i].policy = p

\* The rows fetched are all policies, each with its mode.
LEMMA FetchedForm ==
    ASSUME IsFiniteSet(Policies), NEW modes \in [Policies -> PolicyEnforcementMode], NEW ps \in Fetched(modes)
    PROVE  /\ ps \in Seq(PolicyConfig) /\ Covers(ps)
           /\ Enforces(ps, {p \in Policies : modes[p] = "ENFORCE"})
<1> DEFINE n == Cardinality(Policies)
<1>1. n \in Nat
  BY FS_CardinalityType
<1> HIDE DEF n
<1>2. PICK s \in Orders : ps = [i \in 1 .. n |-> [policy |-> s[i], mode |-> modes[s[i]]]]
  BY DEF Fetched, n
<1>3. s \in [1 .. n -> Policies] /\ Range(s) = Policies
  BY DEF Orders, n
<1>4. \A i \in 1 .. n : ps[i] \in PolicyConfig /\ ps[i].policy = s[i] /\ ps[i].mode = modes[s[i]]
  BY <1>2, <1>3 DEF PolicyConfig
<1>5. ps \in Seq(PolicyConfig) /\ DOMAIN ps = 1 .. n
  <2>1. ps \in [1 .. n -> PolicyConfig]
    BY <1>2, <1>4
  <2> QED
    BY <1>1, <2>1
<1>6. \A p \in Policies : \E i \in 1 .. n : s[i] = p
  BY <1>3 DEF Range
<1> QED
  BY <1>4, <1>5, <1>6 DEF Covers, Enforces

\* What is recorded next is breached; nothing breached is passed over.
LEMMA ToRecordForm ==
    ASSUME NEW todo \in Seq(PolicyConfig), NEW breach
    PROVE  /\ ToRecord(todo, breach) \in Seq(PolicyConfig)
           /\ ToRecord(todo, breach) = <<>> => \A i \in DOMAIN todo : todo[i].policy \notin breach
           /\ ToRecord(todo, breach) # <<>> => ToRecord(todo, breach)[1].policy \in breach
           /\ \A i \in DOMAIN todo : todo[i].policy \in breach =>
                 \E j \in DOMAIN ToRecord(todo, breach) : ToRecord(todo, breach)[j] = todo[i]
<1> DEFINE S == Breaching(todo, breach)
           k == FirstOf(S)
<1>0. DOMAIN todo = 1 .. Len(todo) /\ Len(todo) \in Nat /\ S \subseteq DOMAIN todo
  BY DEF Breaching
<1>1. CASE S = {}
  <2>1. ToRecord(todo, breach) = <<>> /\ \A i \in DOMAIN todo : todo[i].policy \notin breach
    BY <1>1 DEF ToRecord, Breaching
  <2> QED
    BY <2>1
<1>2. CASE S # {}
  <2>1. S \subseteq Nat
    BY <1>0
  <2>2. \E i \in S : \A j \in S : i <= j
    BY <1>2, <2>1, LeastOf
  <2>3. k \in S /\ \A j \in S : k <= j
    BY <2>2 DEF FirstOf
  <2> DEFINE t == SubSeq(todo, k, Len(todo))
  <2>4. ToRecord(todo, breach) = t
    BY <1>2 DEF ToRecord
  <2>5. k \in 1 .. Len(todo) /\ todo[k].policy \in breach
    BY <1>0, <2>3 DEF Breaching
  <2>6. \A i \in DOMAIN todo : todo[i].policy \in breach => i \in k .. Len(todo)
    BY <1>0, <2>3 DEF Breaching
  <2> HIDE DEF k
  <2>7. /\ t \in Seq(PolicyConfig) /\ t # <<>> /\ t[1] = todo[k]
        /\ \A i \in k .. Len(todo) : \E j \in DOMAIN t : t[j] = todo[i]
    BY <2>5, SuffixOf
  <2> HIDE DEF t, S
  <2> QED
    BY <2>4, <2>5, <2>6, <2>7
<1> QED
  BY <1>1, <1>2

-----------------------------------------------------------------------------
\* What is known of a request, whatever fails; and, where no query fails, of the policies it
\* has still to go through.
Reads(g) == ~CacheFetchFails /\ g.pc = "apply" => Covers(g.read) /\ Enforces(g.read, g.owed)
Evaluating(g) ==
    ~CacheFetchFails /\ g.pc \in {"evaluate", "insert"} => Enforces(g.todo, g.breach \cap g.owed)
Complete(c, g) ==
    ~CacheFetchFails /\ ~May("tampering") =>
       /\ g.pc \in {"evaluate", "insert"} => \A p \in g.breach : ToCome(g.todo, p) \/ Recorded(c, p)
       /\ g.pc = "grant" => \A p \in g.breach : Recorded(c, p)
CallKnows(c, g) ==
    /\ g.owed \subseteq EnforcedRows
    /\ g.pc = "insert" => g.todo # <<>> /\ g.todo[1].policy \in g.breach
    /\ Reads(g) /\ Evaluating(g) /\ Complete(c, g)
    /\ ~CacheFetchFails /\ g.pc = "grant" => g.breach \cap g.owed = {}
CacheIsWhole == May("policies") /\ ~CacheFetchFails => policyCache.loaded /\ Covers(policyCache.rows)
TimesPass ==
    /\ IsFiniteSet(violations) /\ verifying.at <= clock
    /\ \A v \in violations : v.at <= clock
    /\ \A c \in GuardCalls : guarded[c].at <= clock

\* Where requests do not overlap, no query fails and nothing is deleted, a row names the one
\* before it.
Follows(prev, at) ==
    /\ \A w \in violations : w.at < at => w.at <= prev
    /\ (\E w \in violations : w.at < at) => \E u \in violations : u.at = prev /\ u.at < at
Linked ==
    May("serial") /\ ~CacheFetchFails /\ deleted = 0 =>
       /\ Alarms = {} /\ verifying.pc = "idle"
       /\ \A c, d \in GuardCalls : guarded[c].pc \notin GuardEnded /\ guarded[d].pc \notin GuardEnded => c = d
       /\ \A v \in violations : Follows(v.prev, v.at)
       /\ \A c \in GuardCalls : guarded[c].pc = "insert" =>
             /\ \A w \in violations : w.at < guarded[c].at
             /\ Follows(guarded[c].prev, guarded[c].at)

GuardInv == /\ GuardTypeOK /\ CacheIsWhole /\ TimesPass /\ Linked
            /\ \A c \in GuardCalls : CallKnows(c, guarded[c])

\* The invariant of the guard implies what the run checks of it.
LEMMA GuardSafe == GuardInv => EnforcedIsDenied /\ BreachIsRecorded /\ NoFalseAlarm
BY DEF GuardInv, CallKnows, Complete, Recorded, Linked, EnforcedIsDenied, BreachIsRecorded, NoFalseAlarm

\* A request that ended is owed nothing.
LEMMA IdleCallForm ==
    /\ IdleCall \in GuardCall /\ IdleCall.pc = "idle" /\ IdleCall.owed = {} /\ IdleCall.at = 0
    /\ \A pc \in GuardEnded : /\ [IdleCall EXCEPT !.pc = pc] \in GuardCall
                              /\ [IdleCall EXCEPT !.pc = pc].pc = pc
                              /\ [IdleCall EXCEPT !.pc = pc].owed = {}
                              /\ [IdleCall EXCEPT !.pc = pc].at = 0
<1>1. <<>> \in Seq(PolicyConfig)
  OBVIOUS
<1> QED
  BY <1>1 DEF IdleCall, GuardCall, GuardEnded

\* Nothing need be known of a request that is not on its way through the policies.
LEMMA EndedKnows ==
    ASSUME NEW c, NEW g, g.pc \notin {"apply", "evaluate", "insert", "grant"}, g.owed \subseteq EnforcedRows
    PROVE  CallKnows(c, g)
BY DEF CallKnows, Reads, Evaluating, Complete

\* At the start nothing is requested.
LEMMA GuardInitHolds == GuardInit => GuardInv
<1> SUFFICES ASSUME GuardInit PROVE GuardInv
  OBVIOUS
<1>1. policyRow \in [Policies -> PolicyEnforcementMode] /\ IsFiniteSet(Policies)
  BY PolicyGuardAssumption DEF GuardInit
<1>2. <<>> \in Seq(PolicyConfig)
  OBVIOUS
<1>3. policyCache \in [rows : Seq(PolicyConfig), loaded : BOOLEAN, old : BOOLEAN] /\ CacheIsWhole
  <2>1. CASE policyCache = [rows |-> <<>>, loaded |-> FALSE, old |-> FALSE] /\ CacheFetchFails
    BY <1>2, <2>1 DEF CacheIsWhole
  <2>2. ASSUME NEW ps \in IF May("policies") THEN Fetched(policyRow) ELSE {<<>>},
               policyCache = [rows |-> ps, loaded |-> TRUE, old |-> FALSE]
        PROVE  policyCache \in [rows : Seq(PolicyConfig), loaded : BOOLEAN, old : BOOLEAN] /\ CacheIsWhole
    <3>1. CASE May("policies")
      <4>1. ps \in Seq(PolicyConfig) /\ Covers(ps)
        BY <1>1, <2>2, <3>1, FetchedForm
      <4> QED
        BY <2>2, <4>1 DEF CacheIsWhole
    <3>2. CASE ~May("policies")
      BY <1>2, <2>2, <3>2 DEF CacheIsWhole
    <3> QED
      BY <3>1, <3>2
  <2> QED
    BY <2>1, <2>2 DEF GuardInit
<1>4. \A c \in GuardCalls : guarded[c] = IdleCall
  BY DEF GuardInit
<1>5. GuardTypeOK
  BY <1>1, <1>3, IdleCallForm DEF GuardInit, GuardTypeOK
<1>6. TimesPass
  BY <1>4, IdleCallForm, FS_EmptySet DEF GuardInit, TimesPass
<1>7. Linked
  BY <1>4, IdleCallForm DEF GuardInit, Linked, Alarms, GuardEnded
<1>8. \A c \in GuardCalls : CallKnows(c, guarded[c])
  BY <1>4, IdleCallForm, EndedKnows
<1> QED
  BY <1>3, <1>5, <1>6, <1>7, <1>8 DEF GuardInv

\* The latest hash is that of a row no other is later than.
LEMMA LatestForm ==
    ASSUME GuardInv
    PROVE  /\ LatestViolationHash \in Nat /\ \A w \in violations : w.at <= LatestViolationHash
           /\ violations # {} => \E u \in violations : u.at = LatestViolationHash
<1>0. /\ \A v \in violations : v.at \in Nat /\ v.at <= clock
      /\ clock \in Nat
  BY DEF GuardInv, GuardTypeOK, TimesPass, Violation
<1>1. CASE violations = {}
  BY <1>1 DEF LatestViolationHash
<1>2. CASE violations # {}
  <2> DEFINE T == {v.at : v \in violations}
  <2>1. T \subseteq Nat /\ T # {} /\ \A t \in T : t <= clock
    BY <1>0, <1>2
  <2> HIDE DEF T
  <2>2. \E x \in T : \A y \in T : y <= x
    BY <1>0, <2>1, GreatestOf
  <2>3. \E v \in violations : \A w \in violations : v.at >= w.at
    BY <1>0, <2>2 DEF T
  <2> DEFINE m == CHOOSE v \in violations : \A w \in violations : v.at >= w.at
  <2>4. m \in violations /\ \A w \in violations : m.at >= w.at
    BY <2>3
  <2>5. LatestViolationHash = m.at
    BY <1>2 DEF LatestViolationHash
  <2> HIDE DEF m
  <2> QED
    BY <1>0, <2>4, <2>5
<1> QED
  BY <1>1, <1>2

\* A request moves; the rows stay.
LEMMA RequestMoves ==
    ASSUME GuardInv, UNCHANGED <<allowed, policyRow, violations, verifying, deleted, report>>,
           policyCache' \in [rows : Seq(PolicyConfig), loaded : BOOLEAN, old : BOOLEAN], CacheIsWhole',
           clock' \in Nat, clock' >= clock,
           NEW c \in GuardCalls, NEW g \in GuardCall, guarded' = [guarded EXCEPT ![c] = g],
           CallKnows(c, g), g.at <= clock',
           g.pc \in GuardEnded \/ guarded[c].pc \notin GuardEnded \/ OneRequest,
           ~CacheFetchFails /\ g.pc = "insert" =>
              /\ \A w \in violations : w.at < g.at
              /\ Follows(g.prev, g.at)
    PROVE  GuardInv'
<1>0. /\ guarded \in [GuardCalls -> GuardCall] /\ clock \in Nat
      /\ \A d \in GuardCalls : guarded[d].at \in Nat
      /\ \A v \in violations : v.at \in Nat
      /\ verifying.at \in Nat
  BY DEF GuardInv, GuardTypeOK, GuardCall, Violation
<1>1. /\ guarded' \in [GuardCalls -> GuardCall] /\ guarded'[c] = g
      /\ \A d \in GuardCalls \ {c} : guarded'[d] = guarded[d]
  BY <1>0
<1>2. GuardTypeOK'
  BY <1>1 DEF GuardInv, GuardTypeOK
<1>3. TimesPass'
  <2>1. \A v \in violations : v.at <= clock'
    BY <1>0 DEF GuardInv, TimesPass
  <2>2. \A d \in GuardCalls : guarded'[d].at <= clock'
    <3> SUFFICES ASSUME NEW d \in GuardCalls PROVE guarded'[d].at <= clock'
      OBVIOUS
    <3>1. CASE d = c
      BY <1>1, <3>1
    <3>2. CASE d # c
      BY <1>0, <1>1, <3>2 DEF GuardInv, TimesPass
    <3> QED
      BY <3>1, <3>2
  <2> QED
    BY <1>0, <2>1, <2>2 DEF GuardInv, TimesPass
<1>4. Linked'
  <2> SUFFICES ASSUME May("serial"), ~CacheFetchFails, deleted = 0 PROVE Linked'
    BY DEF Linked, May, CacheFetchFails
  <2>0. Linked
    BY DEF GuardInv
  <2>1. Alarms' = {} /\ verifying'.pc = "idle"
    BY <2>0 DEF Linked, Alarms
  <2>2. \A d, e \in GuardCalls : guarded'[d].pc \notin GuardEnded /\ guarded'[e].pc \notin GuardEnded => d = e
    BY <1>1, <2>0 DEF Linked, OneRequest, GuardAtRest
  <2>3. \A v \in violations : Follows(v.prev, v.at)'
    BY <2>0 DEF Linked, Follows
  <2>4. ASSUME NEW d \in GuardCalls, guarded'[d].pc = "insert"
        PROVE  (\A w \in violations : w.at < guarded'[d].at) /\ Follows(guarded[d].prev, guarded[d].at)'
    <3>1. CASE d = c
      BY <1>1, <2>4, <3>1 DEF Follows
    <3>2. CASE d # c
      BY <1>1, <2>0, <2>4, <3>2 DEF Linked, Follows
    <3> QED
      BY <3>1, <3>2
  <2> QED
    BY <2>1, <2>2, <2>3, <2>4 DEF Linked
<1>5. ASSUME NEW d \in GuardCalls PROVE CallKnows(d, guarded[d])'
  <2>1. CallKnows(d, guarded'[d])
    BY <1>1 DEF GuardInv
  <2>2. \A k : CallKnows(d, k) => CallKnows(d, k)'
    BY DEF CallKnows, Reads, Evaluating, Complete, Recorded, CacheFetchFails, May, EnforcedRows
  <2> QED
    BY <2>1, <2>2
<1> QED
  BY <1>2, <1>3, <1>4, <1>5 DEF GuardInv

\* A request comes to a point where nothing is known of it but what it is owed.
LEMMA RequestRests ==
    ASSUME GuardInv, UNCHANGED <<allowed, policyRow, violations, verifying, deleted, report, policyCache, clock>>,
           NEW c \in GuardCalls, NEW g \in GuardCall, guarded' = [guarded EXCEPT ![c] = g],
           g.pc \notin {"apply", "evaluate", "insert", "grant"}, g.owed \subseteq EnforcedRows, g.at <= clock,
           g.pc \in GuardEnded \/ guarded[c].pc \notin GuardEnded \/ OneRequest
    PROVE  GuardInv'
<1>1. /\ policyCache' \in [rows : Seq(PolicyConfig), loaded : BOOLEAN, old : BOOLEAN] /\ CacheIsWhole'
      /\ clock' \in Nat /\ clock' >= clock /\ g.at <= clock'
  BY DEF GuardInv, GuardTypeOK, CacheIsWhole, May, CacheFetchFails
<1>2. CallKnows(c, g)
  BY EndedKnows
<1> QED
  BY <1>1, <1>2, RequestMoves

\* A request moves to where it does not write next; the cache and the clock stay.
LEMMA RequestGoes ==
    ASSUME GuardInv, UNCHANGED <<allowed, policyRow, violations, verifying, deleted, report, policyCache, clock>>,
           NEW c \in GuardCalls, NEW g \in GuardCall, guarded' = [guarded EXCEPT ![c] = g],
           CallKnows(c, g), g.pc # "insert", g.at <= clock,
           g.pc \in GuardEnded \/ guarded[c].pc \notin GuardEnded \/ OneRequest
    PROVE  GuardInv'
<1>1. /\ policyCache' \in [rows : Seq(PolicyConfig), loaded : BOOLEAN, old : BOOLEAN] /\ CacheIsWhole'
      /\ clock' \in Nat /\ clock' >= clock /\ g.at <= clock'
  BY DEF GuardInv, GuardTypeOK, CacheIsWhole, May, CacheFetchFails
<1> QED
  BY <1>1, RequestMoves

\* What is known of one request.
LEMMA CallNow ==
    ASSUME GuardInv, NEW c \in GuardCalls
    PROVE  /\ guarded \in [GuardCalls -> GuardCall] /\ guarded[c] \in GuardCall /\ CallKnows(c, guarded[c])
           /\ guarded[c].owed \subseteq EnforcedRows /\ guarded[c].at <= clock /\ clock \in Nat
           /\ guarded[c].todo \in Seq(PolicyConfig)
           /\ policyCache \in [rows : Seq(PolicyConfig), loaded : BOOLEAN, old : BOOLEAN] /\ CacheIsWhole
BY Zenon DEF GuardInv, GuardTypeOK, TimesPass, CallKnows, GuardCall

\* Receiving a request keeps the invariant of the guard.
LEMMA ReceiveKeeps ==
    ASSUME GuardInv, UNCHANGED allowed, May("policies"), NEW c \in GuardCalls, Receive(c)
    PROVE  GuardInv'
<1>0. /\ guarded[c].pc = "idle" /\ OneRequest
      /\ UNCHANGED <<policyRow, violations, verifying, deleted, report, policyCache, clock>>
  BY Zenon DEF Receive, unchangedRows
<1>1. CASE GuardAt(c, "deny")
  <2> DEFINE g == [guarded[c] EXCEPT !.pc = "deny"]
  <2>1. g \in GuardCall /\ g.pc = "deny" /\ g.owed = guarded[c].owed /\ g.at = guarded[c].at
    BY CallNow DEF GuardCall
  <2>2. guarded' = [guarded EXCEPT ![c] = g]
    BY <1>1 DEF GuardAt
  <2> HIDE DEF g
  <2>3. g.owed \subseteq EnforcedRows /\ g.at <= clock
    BY <2>1, CallNow
  <2> QED
    BY <1>0, <2>1, <2>2, <2>3, RequestRests
<1>2. ASSUME NEW B \in SUBSET Policies,
             guarded' = [guarded EXCEPT ![c] = [IdleCall EXCEPT !.breach = B,
                !.pc = IF ShouldRefreshCache THEN "refresh" ELSE "evaluate",
                !.todo = IF ShouldRefreshCache THEN <<>> ELSE policyCache.rows,
                !.owed = IF policyCache.old THEN EnforcedRows
                         ELSE EnforcedRows \cap Enforced(policyCache.rows)]]
      PROVE  GuardInv'
  <2> DEFINE pc == IF ShouldRefreshCache THEN "refresh" ELSE "evaluate"
             todo == IF ShouldRefreshCache THEN <<>> ELSE policyCache.rows
             owed == IF policyCache.old THEN EnforcedRows
                     ELSE EnforcedRows \cap Enforced(policyCache.rows)
             g == [IdleCall EXCEPT !.breach = B, !.pc = pc, !.todo = todo, !.owed = owed]
  <2>1. policyCache \in [rows : Seq(PolicyConfig), loaded : BOOLEAN, old : BOOLEAN] /\ CacheIsWhole
    BY CallNow
  <2>2. <<>> \in Seq(PolicyConfig) /\ EnforcedRows \subseteq Policies
    BY DEF EnforcedRows
  <2>3. todo \in Seq(PolicyConfig) /\ owed \subseteq EnforcedRows /\ owed \subseteq Policies
        /\ pc \in {"refresh", "evaluate"}
    BY <2>1, <2>2
  <2>4. pc = "evaluate" => /\ todo = policyCache.rows /\ owed \subseteq Enforced(policyCache.rows)
                           /\ policyCache.loaded
    BY <2>1 DEF ShouldRefreshCache
  <2>5. guarded' = [guarded EXCEPT ![c] = g]
    BY <1>2
  <2> HIDE DEF pc, todo, owed
  <2>6. g \in GuardCall /\ g.breach = B /\ g.pc = pc /\ g.todo = todo /\ g.owed = owed /\ g.at = 0
    BY <2>2, <2>3 DEF IdleCall, GuardCall
  <2> HIDE DEF g
  <2>7. CASE pc = "refresh"
    <3>1. g.owed \subseteq EnforcedRows /\ g.at <= clock
      BY <2>3, <2>6, CallNow
    <3> QED
      BY <1>0, <2>5, <2>6, <2>7, <3>1, RequestRests
  <2>8. CASE pc = "evaluate"
    <3>1. Enforces(todo, owed)
      BY <2>4, <2>8 DEF Enforces, Enforced, Range
    <3>2. ~CacheFetchFails => Covers(todo)
      BY <2>1, <2>4, <2>8 DEF CacheIsWhole
    <3>3. Evaluating(g)
      BY <2>6, <3>1 DEF Evaluating, Enforces
    <3>4. Complete(c, g)
      BY <2>6, <2>8, <3>2 DEF Complete, Covers, ToCome
    <3>5. CallKnows(c, g)
      BY <2>3, <2>6, <2>8, <3>3, <3>4 DEF CallKnows, Reads
    <3>6. g.pc # "insert" /\ g.at <= clock
      BY <2>6, <2>8, CallNow
    <3> QED
      BY <1>0, <2>5, <2>6, <3>5, <3>6, RequestGoes
  <2> QED
    BY <2>3, <2>7, <2>8
<1> QED
  BY <1>1, <1>2, Zenon DEF Receive

\* Fetching the policies keeps it.
LEMMA FetchKeeps ==
    ASSUME GuardInv, UNCHANGED allowed, NEW c \in GuardCalls, FetchPolicies(c)
    PROVE  GuardInv'
<1>0. /\ guarded[c].pc = "refresh" /\ guarded[c].pc \notin GuardEnded
      /\ UNCHANGED <<policyRow, violations, verifying, deleted, report, policyCache, clock>>
  BY DEF FetchPolicies, unchangedRows, GuardEnded
<1>1. /\ policyRow \in [Policies -> PolicyEnforcementMode] /\ IsFiniteSet(Policies)
      /\ CacheIsWhole' /\ policyCache' = policyCache /\ clock' = clock /\ clock \in Nat
      /\ policyCache \in [rows : Seq(PolicyConfig), loaded : BOOLEAN, old : BOOLEAN]
  BY <1>0, CallNow, PolicyGuardAssumption DEF GuardInv, GuardTypeOK, CacheIsWhole, May, CacheFetchFails
<1>2. ASSUME NEW ps \in Fetched(policyRow), guarded' = [guarded EXCEPT ![c].pc = "apply", ![c].read = ps]
      PROVE  GuardInv'
  <2> DEFINE g == [guarded[c] EXCEPT !.pc = "apply", !.read = ps]
  <2>1. ps \in Seq(PolicyConfig) /\ Covers(ps) /\ Enforces(ps, EnforcedRows)
    BY <1>1, FetchedForm DEF EnforcedRows
  <2>2. g \in GuardCall /\ g.pc = "apply" /\ g.read = ps /\ g.owed = guarded[c].owed /\ g.at = guarded[c].at
    BY <2>1, CallNow DEF GuardCall
  <2>3. guarded' = [guarded EXCEPT ![c] = g]
    BY <1>2
  <2> HIDE DEF g
  <2>4. guarded[c].owed \subseteq EnforcedRows /\ guarded[c].at <= clock
    BY CallNow
  <2>5. CallKnows(c, g)
    <3>1. Reads(g)
      BY <2>1, <2>2, <2>4 DEF Reads, Enforces
    <3> QED
      BY <2>2, <2>4, <3>1 DEF CallKnows, Evaluating, Complete
  <2> QED
    BY <1>0, <2>2, <2>3, <2>4, <2>5, RequestGoes
<1>3. CASE CacheFetchFails /\ guarded' = [guarded EXCEPT ![c].pc = "evaluate", ![c].todo = policyCache.rows]
  <2> DEFINE g == [guarded[c] EXCEPT !.pc = "evaluate", !.todo = policyCache.rows]
  <2>1. policyCache.rows \in Seq(PolicyConfig)
    BY CallNow
  <2>2. g \in GuardCall /\ g.pc = "evaluate" /\ g.owed = guarded[c].owed /\ g.at = guarded[c].at
    BY <2>1, CallNow DEF GuardCall
  <2>3. guarded' = [guarded EXCEPT ![c] = g]
    BY <1>3
  <2> HIDE DEF g
  <2>4. guarded[c].owed \subseteq EnforcedRows /\ guarded[c].at <= clock
    BY CallNow
  <2>5. CallKnows(c, g)
    BY <1>3, <2>2, <2>4 DEF CallKnows, Reads, Evaluating, Complete
  <2> QED
    BY <1>0, <2>2, <2>3, <2>4, <2>5, RequestGoes
<1> QED
  BY <1>2, <1>3 DEF FetchPolicies

\* Taking them into the cache keeps it.
LEMMA ApplyKeeps ==
    ASSUME GuardInv, UNCHANGED allowed, NEW c \in GuardCalls, ApplyPolicies(c)
    PROVE  GuardInv'
<1> DEFINE rows == guarded[c].read
           g == [guarded[c] EXCEPT !.pc = "evaluate", !.todo = rows, !.read = <<>>]
<1>0. /\ guarded[c].pc = "apply" /\ guarded[c].pc \notin GuardEnded
      /\ UNCHANGED <<policyRow, violations, verifying, deleted, report, clock>>
      /\ policyCache' = [rows |-> rows, loaded |-> TRUE, old |-> FALSE]
      /\ guarded' = [guarded EXCEPT ![c] = g]
  BY DEF ApplyPolicies, unchangedRows, GuardEnded
<1>1. <<>> \in Seq(PolicyConfig)
  OBVIOUS
<1>2. rows \in Seq(PolicyConfig)
  BY CallNow DEF GuardCall
<1>3. /\ g \in GuardCall /\ g.pc = "evaluate" /\ g.todo = rows /\ g.owed = guarded[c].owed
      /\ g.at = guarded[c].at /\ g.breach = guarded[c].breach
  BY <1>1, <1>2, CallNow DEF GuardCall
<1>4. ~CacheFetchFails => Covers(rows) /\ Enforces(rows, guarded[c].owed)
  BY <1>0, CallNow DEF CallKnows, Reads
<1> HIDE DEF rows, g
<1>5. CallKnows(c, g)
  <2>1. Evaluating(g)
    BY <1>3, <1>4 DEF Evaluating, Enforces
  <2>2. g.breach \subseteq Policies
    BY <1>3 DEF GuardCall
  <2>3. Complete(c, g)
    BY <1>3, <1>4, <2>2 DEF Complete, Covers, ToCome
  <2>4. g.owed \subseteq EnforcedRows
    BY <1>3, CallNow
  <2> QED
    BY <1>3, <2>1, <2>3, <2>4 DEF CallKnows, Reads
<1>6. /\ policyCache' \in [rows : Seq(PolicyConfig), loaded : BOOLEAN, old : BOOLEAN] /\ CacheIsWhole'
      /\ clock' \in Nat /\ clock' >= clock /\ g.at <= clock'
  BY <1>0, <1>2, <1>3, <1>4, CallNow DEF CacheIsWhole, May, CacheFetchFails
<1> QED
  BY <1>0, <1>3, <1>5, <1>6, RequestMoves

\* Evaluating up to the next breach keeps it.
LEMMA EvaluateKeeps ==
    ASSUME GuardInv, UNCHANGED allowed, NEW c \in GuardCalls, Evaluate(c)
    PROVE  GuardInv'
<1> DEFINE k == guarded[c]
           todo == ToRecord(k.todo, k.breach)
<1>0. /\ k.pc = "evaluate" /\ k.pc \notin GuardEnded
      /\ UNCHANGED <<policyRow, violations, verifying, deleted, report, policyCache>>
      /\ CacheIsWhole' /\ policyCache' = policyCache /\ clock \in Nat
      /\ policyCache \in [rows : Seq(PolicyConfig), loaded : BOOLEAN, old : BOOLEAN]
  BY CallNow DEF Evaluate, GuardEnded, CacheIsWhole, May, CacheFetchFails
<1>1. k \in GuardCall /\ k.owed \subseteq EnforcedRows /\ k.at <= clock /\ CallKnows(c, k)
      /\ guarded \in [GuardCalls -> GuardCall] /\ k.todo \in Seq(PolicyConfig)
  BY CallNow
<1>2. /\ todo \in Seq(PolicyConfig)
      /\ todo = <<>> => \A i \in DOMAIN k.todo : k.todo[i].policy \notin k.breach
      /\ todo # <<>> => todo[1].policy \in k.breach
      /\ \A i \in DOMAIN k.todo : k.todo[i].policy \in k.breach => \E j \in DOMAIN todo : todo[j] = k.todo[i]
  <2> DEFINE s == k.todo
             b == k.breach
             r == ToRecord(s, b)
  <2>1. s \in Seq(PolicyConfig)
    BY <1>1
  <2> HIDE DEF k, s, b
  <2>2. /\ r \in Seq(PolicyConfig)
        /\ r = <<>> => \A i \in DOMAIN s : s[i].policy \notin b
        /\ r # <<>> => r[1].policy \in b
        /\ \A i \in DOMAIN s : s[i].policy \in b => \E j \in DOMAIN r : r[j] = s[i]
    BY <2>1, ToRecordForm
  <2> QED
    BY <2>2 DEF s, b
<1>3. CASE todo = <<>> /\ guarded' = [guarded EXCEPT ![c].pc = "grant", ![c].todo = <<>>] /\ UNCHANGED clock
  <2> DEFINE g == [k EXCEPT !.pc = "grant", !.todo = <<>>]
  <2>1. <<>> \in Seq(PolicyConfig)
    OBVIOUS
  <2>2. /\ g \in GuardCall /\ g.pc = "grant" /\ g.owed = k.owed /\ g.breach = k.breach /\ g.at = k.at
    BY <1>1, <2>1 DEF GuardCall
  <2>3. guarded' = [guarded EXCEPT ![c] = g]
    BY <1>3
  <2> HIDE DEF g
  <2>4. ~CacheFetchFails => k.breach \cap k.owed = {}
    BY <1>0, <1>1, <1>2, <1>3 DEF CallKnows, Evaluating, Enforces
  <2>5. Complete(c, g)
    BY <1>0, <1>1, <1>2, <1>3, <2>2 DEF CallKnows, Complete, ToCome
  <2>6. CallKnows(c, g)
    BY <1>1, <2>2, <2>4, <2>5 DEF CallKnows, Reads, Evaluating
  <2> QED
    BY <1>0, <1>1, <1>3, <2>2, <2>3, <2>6, RequestGoes
<1>4. ASSUME NEW h \in {LatestViolationHash} \cup (IF CacheFetchFails THEN {0} ELSE {}),
             todo # <<>>, clock' = clock + 1,
             guarded' = [guarded EXCEPT ![c].pc = "insert", ![c].todo = todo,
                                        ![c].at = clock', ![c].prev = h]
      PROVE  GuardInv'
  <2> DEFINE g == [k EXCEPT !.pc = "insert", !.todo = todo, !.at = clock', !.prev = h]
  <2>1. h \in Nat /\ clock' \in Nat
    BY <1>0, <1>4, LatestForm
  <2> HIDE DEF todo
  <2>2. /\ g \in GuardCall /\ g.pc = "insert" /\ g.owed = k.owed /\ g.breach = k.breach /\ g.at = clock'
        /\ g.prev = h /\ g.todo = todo
    BY <1>1, <1>2, <2>1 DEF GuardCall
  <2>3. guarded' = [guarded EXCEPT ![c] = g]
    BY <1>4
  <2> HIDE DEF g
  <2>4. Evaluating(g)
    <3> SUFFICES ASSUME ~CacheFetchFails, NEW p \in k.breach \cap k.owed
                 PROVE  \E j \in DOMAIN todo : todo[j].policy = p /\ todo[j].mode = "ENFORCE"
      BY <2>2 DEF Evaluating, Enforces
    <3>1. PICK i \in DOMAIN k.todo : k.todo[i].policy = p /\ k.todo[i].mode = "ENFORCE"
      BY <1>0, <1>1 DEF CallKnows, Evaluating, Enforces
    <3>2. PICK j \in DOMAIN todo : todo[j] = k.todo[i]
      BY <1>2, <3>1
    <3> QED
      BY <3>1, <3>2
  <2>5. Complete(c, g)
    <3> SUFFICES ASSUME ~CacheFetchFails, ~May("tampering"), NEW p \in k.breach
                 PROVE  ToCome(todo, p) \/ Recorded(c, p)
      BY <2>2 DEF Complete
    <3>1. ToCome(k.todo, p) \/ Recorded(c, p)
      BY <1>0, <1>1 DEF CallKnows, Complete
    <3>2. ToCome(k.todo, p) => ToCome(todo, p)
      BY <1>2 DEF ToCome
    <3> QED
      BY <3>1, <3>2
  <2>6. CallKnows(c, g)
    BY <1>1, <1>2, <1>4, <2>2, <2>4, <2>5 DEF CallKnows, Reads
  <2>7. \A w \in violations : w.at < g.at /\ w.at \in Nat
    BY <1>0, <1>4, <2>2 DEF GuardInv, GuardTypeOK, TimesPass, Violation
  <2>8. ~CacheFetchFails => Follows(g.prev, g.at)
    <3> SUFFICES ASSUME ~CacheFetchFails PROVE Follows(h, g.at)
      BY <2>2
    <3>1. h = LatestViolationHash
      OBVIOUS
    <3> QED
      BY <2>7, <3>1, LatestForm DEF Follows
  <2>9. clock' >= clock /\ g.at <= clock'
    BY <1>0, <1>4, <2>1, <2>2
  <2> QED
    BY <1>0, <2>1, <2>2, <2>3, <2>6, <2>7, <2>8, <2>9, RequestMoves
<1> HIDE DEF todo
<1>5. \/ todo = <<>> /\ guarded' = [guarded EXCEPT ![c].pc = "grant", ![c].todo = <<>>] /\ UNCHANGED clock
      \/ /\ todo # <<>> /\ clock' = clock + 1
         /\ \E h \in {LatestViolationHash} \cup (IF CacheFetchFails THEN {0} ELSE {}) :
               guarded' = [guarded EXCEPT ![c].pc = "insert", ![c].todo = todo,
                                          ![c].at = clock', ![c].prev = h]
  BY DEF Evaluate, todo
<1> QED
  BY <1>3, <1>4, <1>5

\* Nothing that is known changes.
LEMMA GuardAside ==
    ASSUME GuardInv, report' \in Nat \cup {None},
           UNCHANGED <<allowed, policyRow, policyCache, guarded, violations, clock, verifying, deleted>>
    PROVE  GuardInv'
<1>1. GuardTypeOK' /\ CacheIsWhole' /\ TimesPass'
  BY DEF GuardInv, GuardTypeOK, CacheIsWhole, TimesPass, May, CacheFetchFails
<1>2. Linked'
  BY DEF GuardInv, Linked, Alarms, Follows, May, CacheFetchFails
<1>3. ASSUME NEW d \in GuardCalls PROVE CallKnows(d, guarded[d])'
  <2>1. CallKnows(d, guarded[d]) /\ guarded'[d] = guarded[d]
    BY DEF GuardInv
  <2>2. \A k : CallKnows(d, k) => CallKnows(d, k)'
    BY DEF CallKnows, Reads, Evaluating, Complete, Recorded, CacheFetchFails, May, EnforcedRows
  <2> QED
    BY <2>1, <2>2
<1> QED
  BY <1>1, <1>2, <1>3 DEF GuardInv

\* Granting, denying, serving and logging keep it.
LEMMA AnswersKeep ==
    ASSUME GuardInv, UNCHANGED allowed, NEW c \in GuardCalls, Grant(c) \/ Deny(c) \/ Serve(c) \/ LogUse(c)
    PROVE  GuardInv'
<1> DEFINE k == guarded[c]
<1>0. /\ k.pc \notin GuardEnded /\ report' = report
      /\ UNCHANGED <<policyRow, violations, verifying, deleted, report, policyCache, clock>>
  BY Zenon DEF Grant, Deny, Serve, LogUse, unchangedRows, GuardEnded
<1>1. k \in GuardCall /\ k.owed \subseteq EnforcedRows /\ k.at <= clock /\ clock \in Nat
  BY CallNow
<1>2. ASSUME NEW pc \in {"serve", "done"}, GuardAt(c, pc) PROVE GuardInv'
  <2> DEFINE g == [k EXCEPT !.pc = pc]
  <2>1. g \in GuardCall /\ g.pc = pc /\ g.owed = k.owed /\ g.at = k.at
    BY <1>1 DEF GuardCall
  <2>2. guarded' = [guarded EXCEPT ![c] = g]
    BY <1>2 DEF GuardAt
  <2> HIDE DEF g
  <2>3. g.owed \subseteq EnforcedRows /\ g.at <= clock /\ g.pc \notin {"apply", "evaluate", "insert", "grant"}
    BY <1>1, <2>1
  <2> QED
    BY <1>0, <2>1, <2>2, <2>3, RequestRests
<1>3. ASSUME NEW pc \in GuardEnded, GuardEnds(c, pc) PROVE GuardInv'
  <2> DEFINE g == [IdleCall EXCEPT !.pc = pc]
  <2>1. g \in GuardCall /\ g.pc = pc /\ g.owed = {} /\ g.at = 0
    BY IdleCallForm
  <2>2. guarded' = [guarded EXCEPT ![c] = g]
    BY <1>3 DEF GuardEnds
  <2> HIDE DEF g
  <2>3. g.owed \subseteq EnforcedRows /\ g.at <= clock /\ g.pc \notin {"apply", "evaluate", "insert", "grant"}
    BY <1>1, <2>1 DEF GuardEnded
  <2> QED
    BY <1>0, <2>1, <2>2, <2>3, RequestRests
<1>4. ASSUME NEW due \in SUBSET UseLogs,
             guarded' = [guarded EXCEPT ![c] = [IdleCall EXCEPT !.pc = "answered", !.due = due]]
      PROVE  GuardInv'
  <2> DEFINE g == [IdleCall EXCEPT !.pc = "answered", !.due = due]
  <2>0. <<>> \in Seq(PolicyConfig)
    OBVIOUS
  <2>1. g \in GuardCall /\ g.pc = "answered" /\ g.owed = {} /\ g.at = 0
    BY <2>0 DEF IdleCall, GuardCall
  <2>2. guarded' = [guarded EXCEPT ![c] = g]
    BY <1>4
  <2> HIDE DEF g
  <2>3. g.owed \subseteq EnforcedRows /\ g.at <= clock /\ g.pc \notin {"apply", "evaluate", "insert", "grant"}
    BY <1>1, <2>1
  <2> QED
    BY <1>0, <2>1, <2>2, <2>3, RequestRests
<1>5. {"done", "refused", "failed"} \subseteq GuardEnded
  BY DEF GuardEnded
<1>6. CASE Grant(c)
  BY <1>2, <1>3, <1>5, <1>6 DEF Grant
<1>7. CASE Deny(c)
  BY <1>3, <1>5, <1>7 DEF Deny
<1>8. CASE Serve(c)
  BY <1>3, <1>4, <1>5, <1>8, Zenon DEF Serve
<1>9. CASE LogUse(c)
  <2>1. CASE GuardAt(c, "done")
    BY <1>2, <2>1
  <2>2. CASE UNCHANGED guarded
    BY <1>0, <2>2, GuardAside DEF GuardInv, GuardTypeOK
  <2> QED
    BY <1>9, <2>1, <2>2 DEF LogUse
<1> QED
  BY <1>6, <1>7, <1>8, <1>9

\* A row is added, or rows are written again with another status: what is on record stays.
LEMMA RecordStays ==
    ASSUME UNCHANGED <<allowed, policyRow>>, NEW c,
           \A p \in Policies : Recorded(c, p) => Recorded(c, p)',
           NEW g \in GuardCall, CallKnows(c, g)
    PROVE  CallKnows(c, g)'
<1>1. g.breach \subseteq Policies
  BY DEF GuardCall
<1>2. Complete(c, g)'
  BY <1>1 DEF CallKnows, Complete, CacheFetchFails, May
<1> QED
  BY <1>2 DEF CallKnows, Reads, Evaluating, CacheFetchFails, May, EnforcedRows

\* Recording a breach keeps it: the row names the one before, and the request goes on with the
\* rest.
LEMMA CreateViolationKeeps ==
    ASSUME GuardInv, UNCHANGED allowed, NEW c \in GuardCalls, CreateViolation(c)
    PROVE  GuardInv'
<1> DEFINE k == guarded[c]
           p == k.todo[1]
           rest == Tail(k.todo)
           Goes(pc) == IF pc \in GuardEnded THEN GuardEnds(c, pc)
                       ELSE guarded' = [guarded EXCEPT ![c] = [IdleCall EXCEPT !.pc = pc,
                               !.breach = guarded[c].breach, !.owed = guarded[c].owed,
                               !.todo = IF pc = "evaluate" THEN rest ELSE <<>>]]
<1>0. /\ k.pc = "insert" /\ k.pc \notin GuardEnded
      /\ UNCHANGED <<policyRow, policyCache, clock, verifying, report, deleted>>
      /\ \/ violations' = violations \cup {RowOf(c)} /\ Goes(NextPolicy(p, rest))
         \/ UNCHANGED violations /\ Goes(AfterInsertFailure)
  BY DEF CreateViolation, GuardEnded
<1>1. k \in GuardCall /\ k.owed \subseteq EnforcedRows /\ k.at <= clock /\ clock \in Nat /\ CallKnows(c, k)
      /\ k.todo \in Seq(PolicyConfig) /\ guarded \in [GuardCalls -> GuardCall]
  BY CallNow
<1>2. k.todo # <<>> /\ p.policy \in k.breach
  BY <1>0, <1>1 DEF CallKnows
<1>3. CASE UNCHANGED violations /\ Goes(AfterInsertFailure)
  <2> DEFINE g == [IdleCall EXCEPT !.pc = "refused"]
  <2>0. "refused" \in GuardEnded
    BY DEF GuardEnded
  <2>1. g \in GuardCall /\ g.pc = "refused" /\ g.owed = {} /\ g.at = 0
    BY <2>0, IdleCallForm
  <2>2. guarded' = [guarded EXCEPT ![c] = g]
    BY <1>3, <2>0 DEF GuardEnds, AfterInsertFailure
  <2> HIDE DEF g
  <2>3. g.owed \subseteq EnforcedRows /\ g.at <= clock /\ g.pc \notin {"apply", "evaluate", "insert", "grant"}
    BY <1>1, <2>1
  <2> QED
    BY <1>0, <1>3, <2>0, <2>1, <2>2, <2>3, RequestRests
<1>4. CASE violations' = violations \cup {RowOf(c)} /\ Goes(NextPolicy(p, rest))
  <2> DEFINE pc == NextPolicy(p, rest)
             todo == IF pc = "evaluate" THEN rest ELSE <<>>
             g == [IdleCall EXCEPT !.pc = pc, !.breach = k.breach, !.owed = k.owed, !.todo = todo]
             v == RowOf(c)
  <2>1. pc = (IF p.mode = "ENFORCE" THEN "deny" ELSE "evaluate") /\ pc \notin GuardEnded
    BY DEF NextPolicy, GuardEnded
  <2>2. guarded' = [guarded EXCEPT ![c] = g]
    BY <1>4, <2>1
  <2>3. /\ rest \in Seq(PolicyConfig) /\ <<>> \in Seq(PolicyConfig) /\ p \in PolicyConfig
        /\ \A i \in DOMAIN k.todo : i # 1 => i - 1 \in DOMAIN rest /\ rest[i - 1] = k.todo[i]
    BY <1>1, <1>2
  <2>4. /\ v \in Violation /\ v.at = k.at /\ v.prev = k.prev /\ v.of = c /\ v.policy = p.policy
    BY <1>1, <2>3 DEF RowOf, Violation, ViolationStatus, GuardCall, PolicyConfig
  <2> HIDE DEF v
  <2>5. violations' = violations \cup {v}
    BY <1>4 DEF v
  <2> HIDE DEF rest
  <2>6. todo \in Seq(PolicyConfig)
    BY <2>3
  <2>a. pc \in {"deny", "evaluate"}
    BY <2>1
  <2>b. k.breach \in SUBSET Policies /\ k.owed \in SUBSET Policies
    BY <1>1 DEF GuardCall
  <2>c. p.policy \in Policies /\ (pc = "evaluate" => p.mode # "ENFORCE" /\ todo = rest)
    BY <2>1, <2>3 DEF PolicyConfig
  <2> HIDE DEF pc, todo, p, k
  <2>7. /\ g \in GuardCall /\ g.pc = pc /\ g.breach = k.breach /\ g.owed = k.owed /\ g.todo = todo /\ g.at = 0
    <3>1. <<>> \in Seq(PolicyConfig)
      OBVIOUS
    <3> QED
      BY <2>a, <2>b, <2>6, <3>1 DEF IdleCall, GuardCall
  <2> HIDE DEF g
  <2>8. /\ guarded' \in [GuardCalls -> GuardCall] /\ guarded'[c] = g
        /\ \A d \in GuardCalls \ {c} : guarded'[d] = guarded[d]
    BY <1>1, <2>2, <2>7
  <2>9. GuardTypeOK'
    BY <1>0, <2>4, <2>5, <2>8 DEF GuardInv, GuardTypeOK
  <2>10. CacheIsWhole'
    BY <1>0 DEF GuardInv, CacheIsWhole, May, CacheFetchFails
  <2>11. TimesPass'
    <3>1. IsFiniteSet(violations')
      BY <2>5, FS_AddElement DEF GuardInv, TimesPass
    <3>2. \A d \in GuardCalls : guarded'[d].at <= clock
      <4> SUFFICES ASSUME NEW d \in GuardCalls PROVE guarded'[d].at <= clock
        OBVIOUS
      <4>1. CASE d = c
        BY <1>1, <2>7, <2>8, <4>1
      <4>2. CASE d # c
        BY <2>8, <4>2 DEF GuardInv, TimesPass
      <4> QED
        BY <4>1, <4>2
    <3>3. \A w \in violations' : w.at <= clock
      BY <1>1, <2>4, <2>5 DEF GuardInv, TimesPass
    <3> QED
      BY <1>0, <3>1, <3>2, <3>3 DEF GuardInv, TimesPass
  <2>12. Linked'
    <3> SUFFICES ASSUME May("serial"), ~CacheFetchFails, deleted = 0 PROVE Linked'
      BY <1>0 DEF Linked, May, CacheFetchFails
    <3>0. Linked
      BY DEF GuardInv
    <3>1. Alarms' = {} /\ verifying'.pc = "idle"
      <4>1. v.of # None
        BY <2>4, PolicyGuardAssumption
      <4> QED
        BY <1>0, <2>5, <3>0, <4>1 DEF Linked, Alarms
    <3>2. \A d \in GuardCalls \ {c} : guarded[d].pc \in GuardEnded
      BY <1>0, <3>0 DEF Linked, k
    <3>3. \A d, e \in GuardCalls : guarded'[d].pc \notin GuardEnded /\ guarded'[e].pc \notin GuardEnded => d = e
      BY <2>8, <3>2
    <3>4. \A d \in GuardCalls : guarded'[d].pc # "insert"
      BY <2>1, <2>7, <2>8, <3>2 DEF GuardEnded
    <3>5. (\A w \in violations : w.at < v.at) /\ Follows(v.prev, v.at)
      BY <1>0, <2>4, <3>0 DEF Linked, k
    <3>6. \A w \in violations \cup {v} : w.at \in Nat
      BY <2>4 DEF GuardInv, GuardTypeOK, Violation
    <3>7. ASSUME NEW w \in violations' PROVE Follows(w.prev, w.at)'
      <4>1. CASE w = v
        BY <2>5, <3>5, <3>6, <4>1 DEF Follows
      <4>2. CASE w \in violations
        <5>1. Follows(w.prev, w.at) /\ w.at < v.at
          BY <3>0, <3>5, <4>2 DEF Linked
        <5> QED
          BY <2>5, <3>6, <4>2, <5>1 DEF Follows
      <4> QED
        BY <2>5, <4>1, <4>2
    <3> QED
      BY <3>1, <3>3, <3>4, <3>7 DEF Linked
  <2>13. ASSUME NEW d \in GuardCalls PROVE CallKnows(d, guarded[d])'
    <3>1. \A q \in Policies : Recorded(d, q) => Recorded(d, q)'
      BY <2>5 DEF Recorded
    <3>2. CASE d = c
      <4>0. k.pc = "insert" /\ CallKnows(c, k)
        BY <1>0, <1>1 DEF k
      <4>1. ASSUME ~CacheFetchFails, pc = "evaluate", NEW q \in k.breach \cap k.owed
            PROVE  \E j \in DOMAIN todo : todo[j].policy = q /\ todo[j].mode = "ENFORCE"
        <5>1. PICK i \in DOMAIN k.todo : k.todo[i].policy = q /\ k.todo[i].mode = "ENFORCE"
          BY <4>0, <4>1 DEF CallKnows, Evaluating, Enforces
        <5>2. i # 1
          BY <2>c, <4>1, <5>1 DEF p
        <5> QED
          BY <2>3, <2>c, <4>1, <5>1, <5>2
      <4>2. ASSUME ~CacheFetchFails, ~May("tampering"), pc = "evaluate", NEW q \in k.breach
            PROVE  ToCome(todo, q) \/ Recorded(c, q)'
        <5>1. ToCome(k.todo, q) \/ Recorded(c, q)
          BY <4>0, <4>2 DEF CallKnows, Complete
        <5>2. CASE Recorded(c, q)
          BY <2>5, <5>2 DEF Recorded
        <5>3. CASE ToCome(k.todo, q)
          <6>1. PICK i \in DOMAIN k.todo : k.todo[i].policy = q
            BY <5>3 DEF ToCome
          <6>2. CASE i = 1
            BY <2>4, <2>5, <6>1, <6>2 DEF Recorded, p
          <6>3. CASE i # 1
            BY <2>3, <2>c, <4>2, <6>1, <6>3 DEF ToCome
          <6> QED
            BY <6>2, <6>3
        <5> QED
          BY <5>1, <5>2, <5>3
      <4>3. Evaluating(g)
        BY <2>a, <2>7, <4>1 DEF Evaluating, Enforces
      <4>5. g.owed \subseteq EnforcedRows /\ g.pc \notin {"insert", "apply", "grant"}
        BY <1>1, <2>a, <2>7 DEF k
      <4>6. ASSUME NEW h, h = g PROVE CallKnows(c, h)'
        <5>1. Evaluating(h)'
          BY <4>3, <4>6 DEF Evaluating, CacheFetchFails, May
        <5>2. h.pc \in {"deny", "evaluate"} /\ h.breach = k.breach /\ h.todo = todo /\ (h.pc = "evaluate" <=> pc = "evaluate")
          BY <2>a, <2>7, <4>6
        <5>3. Complete(c, h)'
          BY <1>0, <4>2, <5>2 DEF Complete, CacheFetchFails, May
        <5> QED
          BY <1>0, <4>5, <4>6, <5>1, <5>3 DEF CallKnows, Reads, EnforcedRows
      <4> QED
        BY <2>8, <3>2, <4>6
    <3>3. CASE d # c
      <4>1. CallKnows(d, guarded[d]) /\ guarded'[d] = guarded[d] /\ guarded[d] \in GuardCall
        BY <1>1, <2>8, <3>3 DEF GuardInv
      <4>2. \A h \in GuardCall : CallKnows(d, h) => CallKnows(d, h)'
        BY <1>0, <3>1, RecordStays
      <4> QED
        BY <4>1, <4>2
    <3> QED
      BY <3>2, <3>3
  <2> QED
    BY <2>9, <2>10, <2>11, <2>12, <2>13 DEF GuardInv
<1> HIDE DEF Goes
<1> QED
  BY <1>0, <1>3, <1>4

\* Where every row names the one before it, the verification finds nothing.
LEMMA WholeChain ==
    ASSUME GuardInv, May("serial"), ~CacheFetchFails, deleted = 0
    PROVE  ~ChainBroken
<1> SUFFICES ASSUME NEW v \in violations, Broken(v) PROVE FALSE
  BY DEF ChainBroken
<1>1. \A w \in violations : w.at \in Nat /\ w.at <= clock /\ w.prev \in Nat
  BY DEF GuardInv, GuardTypeOK, TimesPass, Violation
<1>2. clock \in Nat /\ Follows(v.prev, v.at)
  BY DEF GuardInv, GuardTypeOK, Linked
<1>3. Before(v) # {} /\ v.prev # LastBefore(v).at
  BY DEF Broken
<1> DEFINE T == {w.at : w \in Before(v)}
<1>4. T \subseteq Nat /\ T # {} /\ \A t \in T : t <= clock
  BY <1>1, <1>3 DEF Before
<1>5. \E x \in T : \A y \in T : y <= x
  <2> HIDE DEF T
  <2> QED
    BY <1>2, <1>4, GreatestOf
<1>6. \E w \in Before(v) : \A x \in Before(v) : x.at <= w.at
  BY <1>5
<1> DEFINE l == LastBefore(v)
<1>7. l \in Before(v) /\ \A x \in Before(v) : x.at <= l.at
  BY <1>6 DEF LastBefore
<1> HIDE DEF l
<1>8. l \in violations /\ l.at < v.at /\ l.at <= v.prev
  BY <1>2, <1>7 DEF Before, Follows
<1>9. PICK u \in violations : u.at = v.prev /\ u.at < v.at
  BY <1>2, <1>8 DEF Follows
<1>10. v.prev <= l.at
  BY <1>7, <1>9 DEF Before
<1> QED
  BY <1>1, <1>3, <1>8, <1>10 DEF l

\* What is on record for a request stays so, and with it what is known of the request.
LEMMA RequestsStay ==
    ASSUME GuardInv, UNCHANGED <<allowed, policyRow, guarded>>,
           ~May("tampering") => \A d \in GuardCalls, p \in Policies : Recorded(d, p) => Recorded(d, p)'
    PROVE  \A d \in GuardCalls : CallKnows(d, guarded[d])'
<1> SUFFICES ASSUME NEW d \in GuardCalls PROVE CallKnows(d, guarded[d])'
  OBVIOUS
<1>1. CallKnows(d, guarded[d]) /\ guarded'[d] = guarded[d] /\ guarded[d] \in GuardCall
  BY CallNow
<1>2. CASE ~May("tampering")
  <2>1. \A h \in GuardCall : CallKnows(d, h) => CallKnows(d, h)'
    BY <1>2, RecordStays
  <2> QED
    BY <1>1, <2>1
<1>3. CASE May("tampering")
  <2>1. \A h : CallKnows(d, h) => CallKnows(d, h)'
    BY <1>3 DEF CallKnows, Complete, Reads, Evaluating, CacheFetchFails, May, EnforcedRows
  <2> QED
    BY <1>1, <2>1
<1> QED
  BY <1>2, <1>3

\* The verification keeps it; where requests do not overlap it finds nothing.
LEMMA VerifyKeeps ==
    ASSUME GuardInv, UNCHANGED allowed, VerifyChain
    PROVE  GuardInv'
<1>1. /\ ChainBroken /\ verifying' = [verifying EXCEPT !.pc = "hash"]
      /\ UNCHANGED <<policyRow, policyCache, guarded, violations, clock, report, deleted>>
  BY DEF VerifyChain
<1>2. verifying' \in [pc : {"idle", "hash", "insert"}, at : Nat, prev : Nat] /\ verifying'.at = verifying.at
  BY <1>1 DEF GuardInv, GuardTypeOK
<1>3. GuardTypeOK' /\ CacheIsWhole' /\ TimesPass'
  BY <1>1, <1>2 DEF GuardInv, GuardTypeOK, CacheIsWhole, TimesPass, May, CacheFetchFails
<1>4. Linked'
  <2>1. ~(May("serial") /\ ~CacheFetchFails /\ deleted = 0)
    BY <1>1, WholeChain
  <2> QED
    BY <1>1, <2>1 DEF Linked, May, CacheFetchFails
<1>5. \A d \in GuardCalls : CallKnows(d, guarded[d])'
  BY <1>1, RequestsStay DEF Recorded
<1> QED
  BY <1>3, <1>4, <1>5 DEF GuardInv

\* Reading the latest hash for an alarm keeps it.
LEMMA ReadForAlarmKeeps ==
    ASSUME GuardInv, UNCHANGED allowed, ReadForAlarm
    PROVE  GuardInv'
<1>1. /\ verifying.pc = "hash" /\ clock' = clock + 1 /\ clock \in Nat
      /\ UNCHANGED <<policyRow, policyCache, guarded, violations, report, deleted>>
  BY DEF ReadForAlarm, GuardInv, GuardTypeOK
<1>2. PICK h \in {LatestViolationHash} \cup (IF CacheFetchFails THEN {0} ELSE {}) :
         verifying' = [pc |-> "insert", at |-> clock', prev |-> h]
  BY DEF ReadForAlarm
<1>3. h \in Nat
  <2>1. LatestViolationHash \in Nat
    BY LatestForm
  <2> QED
    BY <1>2, <2>1
<1>4. /\ verifying' \in [pc : {"idle", "hash", "insert"}, at : Nat, prev : Nat] /\ verifying'.at = clock'
      /\ clock' \in Nat /\ clock <= clock'
  BY <1>1, <1>2, <1>3
<1>5. GuardTypeOK' /\ CacheIsWhole'
  BY <1>1, <1>4 DEF GuardInv, GuardTypeOK, CacheIsWhole, May, CacheFetchFails
<1>6. TimesPass'
  <2>1. IsFiniteSet(violations) /\ (\A v \in violations : v.at <= clock) /\ \A c \in GuardCalls : guarded[c].at <= clock
    BY DEF GuardInv, TimesPass
  <2>2. (\A v \in violations : v.at \in Nat) /\ \A c \in GuardCalls : guarded[c].at \in Nat
    BY DEF GuardInv, GuardTypeOK, Violation, GuardCall
  <2>3. (\A v \in violations : v.at <= clock') /\ \A c \in GuardCalls : guarded[c].at <= clock'
    BY <1>1, <2>1, <2>2
  <2> QED
    BY <1>1, <1>4, <2>1, <2>3 DEF TimesPass
<1>7. Linked'
  BY <1>1 DEF GuardInv, Linked, May, CacheFetchFails
<1>8. \A d \in GuardCalls : CallKnows(d, guarded[d])'
  BY <1>1, RequestsStay DEF Recorded
<1> QED
  BY <1>5, <1>6, <1>7, <1>8 DEF GuardInv

\* Recording an alarm keeps it.
LEMMA RaiseAlarmKeeps ==
    ASSUME GuardInv, UNCHANGED allowed, RaiseAlarm
    PROVE  GuardInv'
<1> DEFINE v == [at |-> verifying.at, prev |-> verifying.prev, of |-> None, policy |-> None, status |-> "OPEN"]
<1>1. /\ verifying.pc = "insert" /\ verifying' = [pc |-> "idle", at |-> 0, prev |-> 0]
      /\ violations' = violations \cup {v} \/ violations' = violations
      /\ UNCHANGED <<policyRow, policyCache, guarded, clock, report, deleted>>
  BY DEF RaiseAlarm
<1>2. v \in Violation /\ v.at <= clock
  BY DEF GuardInv, GuardTypeOK, TimesPass, Violation, ViolationStatus
<1> HIDE DEF v
<1>3. violations' \subseteq Violation /\ IsFiniteSet(violations') /\ violations \subseteq violations' /\ \A w \in violations' : w.at <= clock
  BY <1>1, <1>2, FS_AddElement DEF GuardInv, GuardTypeOK, TimesPass
<1>4. verifying' \in [pc : {"idle", "hash", "insert"}, at : Nat, prev : Nat] /\ verifying'.at = 0 /\ clock \in Nat /\ 0 <= clock
  BY <1>1 DEF GuardInv, GuardTypeOK
<1>5. GuardTypeOK' /\ CacheIsWhole'
  BY <1>1, <1>3, <1>4 DEF GuardInv, GuardTypeOK, CacheIsWhole, May, CacheFetchFails
<1>6. TimesPass'
  BY <1>1, <1>3, <1>4 DEF GuardInv, TimesPass
<1>7. Linked'
  BY <1>1 DEF GuardInv, Linked, May, CacheFetchFails
<1>8. \A d \in GuardCalls : CallKnows(d, guarded[d])'
  BY <1>1, <1>3, RequestsStay DEF Recorded
<1> QED
  BY <1>5, <1>6, <1>7, <1>8 DEF GuardInv

\* The ageing of the cache keeps it.
LEMMA PolicyCacheAgesKeeps ==
    ASSUME GuardInv, UNCHANGED allowed, PolicyCacheAges
    PROVE  GuardInv'
<1>1. /\ policyCache' = [policyCache EXCEPT !.old = TRUE]
      /\ UNCHANGED <<policyRow, guarded, violations, clock, verifying, report, deleted>>
  BY DEF PolicyCacheAges, unchangedRows
<1>2. /\ policyCache' \in [rows : Seq(PolicyConfig), loaded : BOOLEAN, old : BOOLEAN]
      /\ policyCache'.rows = policyCache.rows /\ policyCache'.loaded = policyCache.loaded
  BY <1>1 DEF GuardInv, GuardTypeOK
<1>3. GuardTypeOK' /\ CacheIsWhole' /\ TimesPass'
  BY <1>1, <1>2 DEF GuardInv, GuardTypeOK, CacheIsWhole, TimesPass, May, CacheFetchFails
<1>4. Linked'
  BY <1>1 DEF GuardInv, Linked, Alarms, Follows, May, CacheFetchFails
<1>5. \A d \in GuardCalls : CallKnows(d, guarded[d])'
  BY <1>1, RequestsStay DEF Recorded
<1> QED
  BY <1>3, <1>4, <1>5 DEF GuardInv

\* A change of a mode keeps it, with what requests are owed.
LEMMA ChangePolicyKeeps ==
    ASSUME GuardInv, UNCHANGED allowed, NEW p \in Policies, ChangePolicy(p)
    PROVE  GuardInv'
<1> DEFINE after(k) == [k EXCEPT !.owed = @ \ {p}]
<1>1. /\ guarded' = [c \in GuardCalls |-> after(guarded[c])]
      /\ UNCHANGED <<policyCache, violations, clock, verifying, report, deleted>>
  BY DEF ChangePolicy
<1>2. PICK m \in PolicyEnforcementMode : policyRow' = [policyRow EXCEPT ![p] = m]
  BY DEF ChangePolicy
<1>3. ASSUME NEW k \in GuardCall
      PROVE  /\ after(k) \in GuardCall /\ after(k).owed = k.owed \ {p}
             /\ after(k).pc = k.pc /\ after(k).at = k.at /\ after(k).prev = k.prev
             /\ after(k).breach = k.breach /\ after(k).todo = k.todo /\ after(k).read = k.read
  BY DEF GuardCall
<1> HIDE DEF after
<1>4. \A c \in GuardCalls : guarded[c] \in GuardCall /\ guarded'[c] = after(guarded[c])
  BY <1>1 DEF GuardInv, GuardTypeOK
<1>5. GuardTypeOK' /\ CacheIsWhole'
  <2>1. guarded' \in [GuardCalls -> GuardCall]
    BY <1>1, <1>3, <1>4
  <2>2. policyRow' \in [Policies -> PolicyEnforcementMode]
    BY <1>2 DEF GuardInv, GuardTypeOK
  <2> QED
    BY <1>1, <2>1, <2>2 DEF GuardInv, GuardTypeOK, CacheIsWhole, May, CacheFetchFails
<1>6. TimesPass'
  BY <1>1, <1>3, <1>4 DEF GuardInv, TimesPass
<1>7. Linked'
  BY <1>1, <1>3, <1>4 DEF GuardInv, Linked, Alarms, Follows, May, CacheFetchFails
<1>8. EnforcedRows \ {p} \subseteq EnforcedRows'
  BY <1>2 DEF EnforcedRows, GuardInv, GuardTypeOK
<1>9. ASSUME NEW d \in GuardCalls PROVE CallKnows(d, guarded[d])'
  <2>1. \A k \in GuardCall : CallKnows(d, k) => CallKnows(d, after(k))
    <3> SUFFICES ASSUME NEW k \in GuardCall, CallKnows(d, k) PROVE CallKnows(d, after(k))
      OBVIOUS
    <3>1. Reads(after(k))
      BY <1>3 DEF CallKnows, Reads, Enforces
    <3>2. Evaluating(after(k))
      BY <1>3 DEF CallKnows, Evaluating, Enforces
    <3>3. Complete(d, after(k))
      BY <1>3 DEF CallKnows, Complete
    <3> QED
      BY <1>3, <3>1, <3>2, <3>3 DEF CallKnows
  <2>2. ASSUME NEW h, CallKnows(d, h), h.owed \subseteq EnforcedRows \ {p} PROVE CallKnows(d, h)'
    <3>1. h.owed \subseteq EnforcedRows'
      BY <1>8, <2>2
    <3> QED
      BY <1>1, <2>2, <3>1 DEF CallKnows, Reads, Evaluating, Complete, Recorded, CacheFetchFails, May
  <2>3. CallKnows(d, guarded[d])
    BY DEF GuardInv
  <2>4. CallKnows(d, after(guarded[d])) /\ after(guarded[d]).owed \subseteq EnforcedRows \ {p}
    BY <1>3, <1>4, <2>1, <2>3 DEF CallKnows
  <2>5. \A h : h = after(guarded[d]) => CallKnows(d, h)'
    BY <2>2, <2>4
  <2> QED
    BY <1>4, <2>5
<1> QED
  BY <1>5, <1>6, <1>7, <1>9 DEF GuardInv

\* A row deleted behind the program's back keeps it.
LEMMA TamperKeeps ==
    ASSUME GuardInv, UNCHANGED allowed, May("tampering"), NEW v \in violations, Tamper(v)
    PROVE  GuardInv'
<1>1. /\ deleted' = deleted + 1 /\ violations' = violations \ {v} /\ deleted \in Nat
      /\ UNCHANGED <<policyRow, policyCache, guarded, clock, verifying, report>>
  BY DEF Tamper, GuardInv, GuardTypeOK
<1>2. IsFiniteSet(violations') /\ violations' \subseteq violations /\ deleted' \in Nat /\ deleted' # 0
  BY <1>1, FS_RemoveElement DEF GuardInv, TimesPass
<1>3. GuardTypeOK' /\ CacheIsWhole' /\ TimesPass' /\ Linked'
  BY <1>1, <1>2 DEF GuardInv, GuardTypeOK, CacheIsWhole, TimesPass, Linked, May, CacheFetchFails
<1>4. \A d \in GuardCalls : CallKnows(d, guarded[d])'
  BY <1>1, RequestsStay
<1> QED
  BY <1>3, <1>4 DEF GuardInv

\* A row written again with another status keeps it.
LEMMA UpdateStatusKeeps ==
    ASSUME GuardInv, UNCHANGED allowed, NEW v \in violations, UpdateViolationStatus(v)
    PROVE  GuardInv'
<1>0. UNCHANGED <<policyRow, policyCache, guarded, clock, verifying, report, deleted>>
  BY DEF UpdateViolationStatus
<1>1. PICK s \in ViolationStatus : violations' = (violations \ {v}) \cup {[v EXCEPT !.status = s]}
  BY DEF UpdateViolationStatus
<1> DEFINE u == [v EXCEPT !.status = s]
<1>2. u \in Violation /\ u.at = v.at /\ u.prev = v.prev /\ u.of = v.of /\ u.policy = v.policy
  BY DEF GuardInv, GuardTypeOK, Violation
<1> HIDE DEF u
<1>3. /\ violations' = (violations \ {v}) \cup {u}
      /\ \A w \in violations' : \E x \in violations : x.at = w.at /\ x.prev = w.prev /\ x.of = w.of /\ x.policy = w.policy
      /\ \A w \in violations : \E x \in violations' : x.at = w.at /\ x.prev = w.prev /\ x.of = w.of /\ x.policy = w.policy
  BY <1>1, <1>2 DEF u
<1>4. IsFiniteSet(violations') /\ violations' \subseteq Violation
  BY <1>2, <1>3, FS_AddElement, FS_RemoveElement DEF GuardInv, GuardTypeOK, TimesPass
<1>5. GuardTypeOK' /\ CacheIsWhole' /\ TimesPass'
  BY <1>0, <1>3, <1>4 DEF GuardInv, GuardTypeOK, CacheIsWhole, TimesPass, May, CacheFetchFails
<1>6. ASSUME NEW prev, NEW at, Follows(prev, at) PROVE Follows(prev, at)'
  <2>1. \A w \in violations' : w.at < at => w.at <= prev
    BY <1>3, <1>6 DEF Follows
  <2>2. ASSUME NEW w \in violations', w.at < at PROVE \E x \in violations' : x.at = prev /\ x.at < at
    <3>1. PICK x \in violations : x.at = prev /\ x.at < at
      BY <1>3, <1>6, <2>2 DEF Follows
    <3> QED
      BY <1>3, <3>1
  <2> QED
    BY <2>1, <2>2 DEF Follows
<1>7. Linked'
  <2> SUFFICES ASSUME May("serial"), ~CacheFetchFails, deleted = 0 PROVE Linked'
    BY <1>0 DEF Linked, May, CacheFetchFails
  <2>0. Linked
    BY DEF GuardInv
  <2>1. Alarms' = {}
    BY <1>3, <2>0 DEF Linked, Alarms
  <2>2. \A w \in violations' : Follows(w.prev, w.at)'
    <3> SUFFICES ASSUME NEW w \in violations' PROVE Follows(w.prev, w.at)'
      OBVIOUS
    <3>1. PICK x \in violations : x.at = w.at /\ x.prev = w.prev
      BY <1>3
    <3>2. Follows(x.prev, x.at)
      BY <2>0 DEF Linked
    <3> QED
      BY <1>6, <3>1, <3>2
  <2>3. ASSUME NEW c \in GuardCalls, guarded[c].pc = "insert"
        PROVE  (\A w \in violations' : w.at < guarded[c].at) /\ \A a, b : a = guarded[c].prev /\ b = guarded[c].at => Follows(a, b)'
    <3>1. (\A w \in violations : w.at < guarded[c].at) /\ Follows(guarded[c].prev, guarded[c].at)
      BY <2>0, <2>3 DEF Linked
    <3>2. \A a, b : a = guarded[c].prev /\ b = guarded[c].at => Follows(a, b)'
      BY <1>6, <3>1
    <3> QED
      BY <1>3, <3>1, <3>2
  <2> QED
    BY <1>0, <2>0, <2>1, <2>2, <2>3 DEF Linked
<1>8. \A d \in GuardCalls : CallKnows(d, guarded[d])'
  <2>1. \A d \in GuardCalls, p \in Policies : Recorded(d, p) => Recorded(d, p)'
    BY <1>3 DEF Recorded
  <2> QED
    BY <1>0, <2>1, RequestsStay
<1> QED
  BY <1>5, <1>7, <1>8 DEF GuardInv

\* A score is never negative.
LEMMA ReportKeeps ==
    ASSUME GuardInv, UNCHANGED allowed, GenerateReport
    PROVE  GuardInv'
<1> DEFINE counted == {v \in violations : v.policy # None}
           done == {v \in counted : v.status = "REMEDIATION_VERIFIED"}
           n == Cardinality(counted)
           m == Cardinality(done)
<1>1. /\ report' = SectionScore(n, m)
      /\ UNCHANGED <<policyRow, policyCache, guarded, violations, clock, verifying, deleted>>
  BY DEF GenerateReport
<1>2. n \in Nat /\ m \in Nat
  <2>1. IsFiniteSet(counted) /\ IsFiniteSet(done)
    BY FS_Subset DEF GuardInv, TimesPass
  <2> HIDE DEF counted, done
  <2> QED
    BY <2>1, FS_CardinalityType
<1> HIDE DEF n, m
<1>3. SectionScore(n, m) \in Nat
  <2> DEFINE bonus == IF n > 0 THEN (20 * m) \div n ELSE 20
             score == 100 - Lesser(5 * n, 50) + bonus
  <2>1. bonus \in Int
    <3>1. 20 * m \in Int
      BY <1>2
    <3> QED
      BY <1>2, <3>1
  <2>2. Lesser(5 * n, 50) \in Int
    BY <1>2 DEF Lesser
  <2> HIDE DEF bonus
  <2>3. score \in Int
    BY <2>1, <2>2
  <2>4. SectionScore(n, m) = IF score < 0 THEN 0 ELSE score
    BY DEF SectionScore, bonus
  <2> HIDE DEF score
  <2> QED
    BY <2>3, <2>4
<1> QED
  BY <1>1, <1>3, GuardAside

\* So does every step.
LEMMA GuardKeeps ==
    ASSUME GuardInv, UNCHANGED allowed, GuardNext
    PROVE  GuardInv'
<1>0. May("policies")
  BY DEF GuardNext
<1>1. ASSUME NEW c \in GuardCalls, Receive(c) \/ GuardStep(c) PROVE GuardInv'
  <2>1. CASE Receive(c)
    BY <1>0, <2>1, ReceiveKeeps
  <2>2. CASE FetchPolicies(c)
    BY <2>2, FetchKeeps
  <2>3. CASE ApplyPolicies(c)
    BY <2>3, ApplyKeeps
  <2>4. CASE Evaluate(c)
    BY <2>4, EvaluateKeeps
  <2>5. CASE CreateViolation(c)
    BY <2>5, CreateViolationKeeps
  <2>6. CASE Grant(c) \/ Deny(c) \/ Serve(c) \/ LogUse(c)
    BY <2>6, AnswersKeep
  <2> QED
    BY <1>1, <2>1, <2>2, <2>3, <2>4, <2>5, <2>6 DEF GuardStep
<1>2. CASE VerifyChain
  BY <1>2, VerifyKeeps
<1>3. CASE ReadForAlarm
  BY <1>3, ReadForAlarmKeeps
<1>4. CASE RaiseAlarm
  BY <1>4, RaiseAlarmKeeps
<1>5. ASSUME NEW p \in Policies, ChangePolicy(p) PROVE GuardInv'
  BY <1>5, ChangePolicyKeeps
<1>6. CASE PolicyCacheAges
  BY <1>6, PolicyCacheAgesKeeps
<1>7. ASSUME May("tampering"), NEW v \in violations, Tamper(v) PROVE GuardInv'
  BY <1>7, TamperKeeps
<1>8. CASE GenerateReport
  BY <1>8, ReportKeeps
<1>9. ASSUME NEW v \in violations, UpdateViolationStatus(v) PROVE GuardInv'
  BY <1>9, UpdateStatusKeeps
<1> QED
  BY <1>1, <1>2, <1>3, <1>4, <1>5, <1>6, <1>7, <1>8, <1>9 DEF GuardNext

-----------------------------------------------------------------------------
(* The platform.                                                           *)

\* Each component keeps its invariant; a step of another leaves it alone.
IndInv == LogInv /\ QueueInv /\ AlertInv /\ SessInv /\ PrivInv /\ GuardInv

\* A step that leaves the security event log alone keeps its invariant.
LEMMA LogAside ==
    ASSUME LogInv, UNCHANGED allowed, UNCHANGED logVars
    PROVE  LogInv'
BY DEF logVars, LogInv, LogTypeOK, LoggedIsKept, OneByOneIn, SlowChainIsLinear, StoredEvents,
       Underway, Waits, LatestHash, May

\* The same for the queue of the SIEM.
LEMMA QueueAside ==
    ASSUME QueueInv, UNCHANGED queueVars
    PROVE  QueueInv'
BY DEF queueVars, QueueInv, RoundHolds, SentWasTaken, Tried, Waiting

\* The same for the alert rule and its evaluations.
LEMMA AlertAside ==
    ASSUME AlertInv, UNCHANGED allowed, UNCHANGED alertVars
    PROVE  AlertInv'
BY DEF alertVars, AlertInv, AlertsInOrder, Faithful, Resting, May

\* The same for sessions.
LEMMA SessionsAside ==
    ASSUME SessInv, UNCHANGED allowed, UNCHANGED sessionVars
    PROVE  SessInv'
<1>1. UNCHANGED <<session, started, inserted, login, baseline, anomalies, acts, acting>>
  BY DEF sessionVars
<1>2. Open' = Open /\ LoggedIn' = LoggedIn
  BY <1>1 DEF Open, LoggedIn
<1>3. SessionTypeOK' /\ Alone'
  BY <1>1 DEF SessInv, SessionTypeOK, Alone, Busy, Doing, May
<1>4. InOrder' /\ OldestGoesFirst'
  BY <1>1, OrderStays DEF SessInv
<1>5. PlaceIsFree' /\ CountIsCurrent'
  BY <1>1, <1>2 DEF SessInv, PlaceIsFree, CountIsCurrent, May, FetchFails, PatchFails
<1>6. LastIsKnown'
  BY <1>1, LastStays DEF SessInv
<1> QED
  BY <1>3, <1>4, <1>5, <1>6 DEF SessInv

\* The same for roles and privileges.
LEMMA PrivilegesAside ==
    ASSUME PrivInv, UNCHANGED allowed, UNCHANGED privVars
    PROVE  PrivInv'
<1>1. UNCHANGED <<roleRow, roleCache, userRole, asked, jit, priv>>
  BY DEF privVars
<1>2. \A c \in PrivCalls : (CallForm(priv[c]) /\ CallHolds(priv[c]))'
  <2>1. \A p : CallForm(p) /\ CallHolds(p) => CallForm(p)' /\ CallHolds(p)'
    BY <1>1 DEF CallForm, CallHolds, May
  <2> QED
    BY <1>1, <2>1 DEF PrivInv
<1> QED
  BY <1>1, <1>2 DEF PrivInv, PrivTypeOK, PrivilegesWereAskedFor, OneApprovalOnePeriod, OneRequestEach,
                    OneCall, NoPeriodYet, May

\* The same for the requests before the guard.
LEMMA RequestsAside ==
    ASSUME GuardInv, UNCHANGED allowed, UNCHANGED guardVars
    PROVE  GuardInv'
<1>1. report' \in Nat \cup {None}
  BY DEF guardVars, GuardInv, GuardTypeOK
<1> QED
  BY <1>1, GuardAside DEF guardVars

\* The inductive invariant holds at the start.
LEMMA InitHolds == Init => IndInv
BY LogInitHolds, TrailInitHolds, AlertInitHolds, SessInitHolds, PrivInitHolds, GuardInitHolds
DEF Init, IndInv

\* The queue and the alerts share a module: a step of one leaves the other alone.
LEMMA TrailKeeps ==
    ASSUME QueueInv, AlertInv, UNCHANGED allowed, TrailNext
    PROVE  QueueInv' /\ AlertInv'
<1>1. CASE /\ \/ \E q \in Entries : Enqueue(q) \/ RetryDelayPasses(q)
              \/ RetryDeadLetterItems \/ ProcessQueue \/ RoundStep \/ ForwarderDies
           /\ UNCHANGED alertVars
  BY <1>1, QueueKeeps, AlertAside
<1>2. CASE /\ \/ \E v \in Evaluations : EvaluateEvent(v) \/ EvaluationStep(v)
              \/ DisableRule \/ CacheAges \/ CooldownEnds
           /\ UNCHANGED queueVars
  BY <1>2, AlertKeeps, QueueAside
<1> QED
  BY <1>1, <1>2 DEF TrailNext

\* It is inductive: a step is one of a component, which keeps its own invariant.
LEMMA StepHolds == IndInv /\ [Next]_vars => IndInv'
<1> SUFFICES ASSUME IndInv, [Next]_vars PROVE IndInv'
  OBVIOUS
<1>0. UNCHANGED allowed /\ LogInv /\ QueueInv /\ AlertInv /\ SessInv /\ PrivInv /\ GuardInv
  BY DEF Next, vars, IndInv
<1>1. LogInv'
  BY <1>0, LogKeeps, LogAside DEF Next, vars
<1>2. QueueInv' /\ AlertInv'
  <2>1. CASE TrailNext
    BY <1>0, <2>1, TrailKeeps
  <2>2. CASE UNCHANGED trailVars
    BY <1>0, <2>2, QueueAside, AlertAside DEF trailVars
  <2> QED
    BY <2>1, <2>2 DEF Next, vars
<1>3. SessInv'
  BY <1>0, SessKeeps, SessionsAside DEF Next, vars
<1>4. PrivInv'
  BY <1>0, PrivKeeps, PrivilegesAside DEF Next, vars
<1>5. GuardInv'
  BY <1>0, GuardKeeps, RequestsAside DEF Next, vars
<1> QED
  BY <1>1, <1>2, <1>3, <1>4, <1>5 DEF IndInv

\* So it holds for good.
LEMMA Inductive == Spec => []IndInv
BY InitHolds, StepHolds, PTL DEF Spec

\* Every variable keeps its type.
THEOREM ComplianceTypes == Spec => []TypeOK
<1>1. IndInv => TypeOK
  BY DEF IndInv, TypeOK, LogInv, QueueInv, AlertInv, TrailTypeOK, SessInv, PrivInv, GuardInv
<1> QED
  BY <1>1, Inductive, PTL

\* What was logged is stored, under way, or lost with the backend; slow events make one chain;
\* what the queue calls sent was taken, what it gave up was tried as often as it may be; and an
\* alert rule that is off, or cooling, raises no alert.
THEOREM LogsAreSafe == Spec => []LogSafety
<1>1. IndInv => LogSafety
  BY QueueSafe, AlertSafe DEF IndInv, LogSafety, LogInv, OneByOneIn, SlowChainIsLinear, QueueInv
<1> QED
  BY <1>1, Inductive, PTL

\* Where logins of a user do not overlap, there are never more sessions than the limit, the
\* oldest goes first, every login is counted and the chain of actions is linear; nobody holds a
\* privileged role, or a privilege for a time, that no approval was asked for.
THEOREM AccessIsSafe == Spec => []AccessSafety
<1>1. IndInv => AccessSafety
  BY SessSafe DEF IndInv, AccessSafety, PrivInv
<1> QED
  BY <1>1, Inductive, PTL

\* A request passes the guard only if it complies with every policy enforced from its beginning to
\* its end, what it breaches is on record, and the hourly verification raises no false alarm.
THEOREM PoliciesAreSafe == Spec => []PolicySafety
<1>1. IndInv => PolicySafety
  BY GuardSafe DEF IndInv, PolicySafety
<1> QED
  BY <1>1, Inductive, PTL

\* A permission that checkPermission grants was held while it was asked for, if only assignments
\* change meanwhile.
THEOREM GrantedPermissionsWereHeld == Spec => GrantedWasHeld
<1>1. IndInv /\ [Next]_vars =>
        [\A c \in PrivCalls : priv'[c].pc = "granted" /\ priv[c].pc # "granted" =>
            May("changes") \/ priv[c].could # {}]_privVars
  <2> SUFFICES ASSUME IndInv, [Next]_vars, ~UNCHANGED privVars, NEW c \in PrivCalls,
                      priv'[c].pc = "granted", priv[c].pc # "granted"
               PROVE  May("changes") \/ priv[c].could # {}
    OBVIOUS
  <2>1. PrivInv /\ PrivNext
    BY DEF IndInv, Next, vars
  <2> QED
    BY <2>1, GrantsWereHeld
<1> QED
  BY <1>1, Inductive, PTL DEF Spec, GrantedWasHeld

-----------------------------------------------------------------------------
(* The logs as chains.                                                     *)

\* Whatever overlaps, an event under way names none or a stored one.
EventsKnown ==
    /\ \A e \in SecEvents : logging[e].prev \in StoredEvents \cup {None}
    /\ EventsLinear => \A i, j \in DOMAIN stored : stored[i].event = stored[j].event => i = j

LEMMA EventLinksForm ==
    /\ \A l \in EventLinks : l[1] \in StoredEvents
    /\ \A i \in DOMAIN stored : <<stored[i].event, stored[i].prev>> \in EventLinks
    /\ EventChain!Kept = StoredEvents
<1>1. \A i \in DOMAIN stored : <<stored[i].event, stored[i].prev>> \in EventLinks
  BY DEF EventLinks
<1>2. \A l \in EventLinks : \E i \in DOMAIN stored : l[1] = stored[i].event
  BY DEF EventLinks
<1>3. \A i \in DOMAIN stored : \E l \in EventLinks : stored[i].event = l[1]
  BY <1>1
<1>4. \A e : e \in EventChain!Kept <=> e \in StoredEvents
  BY <1>2, <1>3 DEF StoredEvents, EventChain!Kept
<1> QED
  BY <1>1, <1>2, <1>4 DEF StoredEvents

LEMMA EventsKnownInit == LogInit => EventsKnown
BY DEF LogInit, EventsKnown

\* Where events come slowly the latest stored one is named by none.
LEMMA LatestIsLast ==
    ASSUME LogTypeOK, EventsKnown, EventsLinear, SlowChainIsLinear
    PROVE  LatestHash \in EventChain!Last
<1>0. /\ DOMAIN stored = 1 .. Len(stored) /\ Len(stored) \in Nat
      /\ stored # <<>> => Len(stored) \in DOMAIN stored
      /\ \A i \in DOMAIN stored : stored[i].event \in SecEvents
  <2>1. stored \in Seq(SecurityEvent)
    BY DEF LogTypeOK
  <2>2. stored # <<>> => Len(stored) # 0
    BY <2>1
  <2>3. \A i \in DOMAIN stored : stored[i] \in SecurityEvent
    BY <2>1
  <2> QED
    BY <2>1, <2>2, <2>3 DEF SecurityEvent
<1>1. CASE stored = <<>>
  BY <1>1 DEF LatestHash, EventLinks, EventChain!Last
<1>2. CASE stored # <<>>
  <2> DEFINE n == Len(stored)
  <2>1. n \in DOMAIN stored /\ LatestHash = stored[n].event
    BY <1>0, <1>2 DEF LatestHash
  <2>2. ASSUME NEW i \in DOMAIN stored PROVE stored[i].prev # stored[n].event
    <3>1. CASE i = 1
      BY <1>0, <2>1, <3>1, SecurityLogAssumption DEF SlowChainIsLinear, EventsLinear
    <3>2. CASE i # 1
      <4>1. i - 1 \in DOMAIN stored /\ i - 1 # n
        BY <1>0, <3>2
      <4>2. stored[i].prev = stored[i - 1].event
        BY <3>2 DEF SlowChainIsLinear, EventsLinear
      <4> QED
        BY <2>1, <4>1, <4>2 DEF EventsKnown
    <3> QED
      BY <3>1, <3>2
  <2>3. stored[n].event \in EventChain!Kept
    BY <2>1, EventLinksForm DEF StoredEvents
  <2>4. stored[n].event \notin EventChain!Named
    BY <2>2 DEF EventChain!Named, EventLinks
  <2>5. EventLinks # {}
    BY <2>1 DEF EventLinks
  <2> QED
    BY <2>1, <2>3, <2>4, <2>5 DEF EventChain!Last
<1> QED
  BY <1>1, <1>2

\* A batch that is inserted extends the chain.
LEMMA BatchExtends ==
    ASSUME LogInv, EventsKnown, UNCHANGED <<allowed, logging>>, NEW batch \in flights,
           Range(batch) \cap StoredEvents = {}, stored' = stored \o Rows(batch)
    PROVE  EventsKnown' /\ EventChain!Extend
<1>0. LogTypeOK /\ batch \in Seq(SecEvents)
  BY DEF LogInv, LogTypeOK
<1>1. /\ DOMAIN batch = 1 .. Len(batch) /\ Len(batch) \in Nat
      /\ \A k \in 1 .. Len(batch) : batch[k] \in SecEvents /\ batch[k] \in Range(batch)
  BY <1>0, ElementsOf
<1>2. DOMAIN stored = 1 .. Len(stored) /\ Len(stored) \in Nat
  BY <1>0 DEF LogTypeOK
<1>3. /\ DOMAIN stored \subseteq DOMAIN stored' /\ \A i \in DOMAIN stored : stored'[i] = stored[i]
      /\ \A k \in 1 .. Len(batch) : /\ Len(stored) + k \in DOMAIN stored'
                                    /\ stored'[Len(stored) + k].event = batch[k]
                                    /\ stored'[Len(stored) + k].prev = logging[batch[k]].prev
      /\ DOMAIN stored' = 1 .. Len(stored) + Len(batch)
  <2>1. /\ stored' \in Seq(SecurityEvent) /\ Len(stored') = Len(stored) + Len(batch)
        /\ DOMAIN stored \subseteq DOMAIN stored' /\ \A i \in DOMAIN stored : stored'[i] = stored[i]
        /\ \A k \in 1 .. Len(batch) : Len(stored) + k \in DOMAIN stored' /\ stored'[Len(stored) + k] = Rows(batch)[k]
        /\ \A k \in 1 .. Len(batch) : Rows(batch)[k].event = batch[k]
                                    /\ Rows(batch)[k].prev = logging[batch[k]].prev
    BY <1>0, RowsForm
  <2> QED
    BY <2>1
<1>4. ASSUME NEW i \in DOMAIN stored', i \notin DOMAIN stored
      PROVE  \E k \in 1 .. Len(batch) : i = Len(stored) + k
  <2>1. i - Len(stored) \in 1 .. Len(batch) /\ i = Len(stored) + (i - Len(stored))
    BY <1>1, <1>2, <1>3, <1>4
  <2> QED
    BY <2>1
<1>5. StoredEvents \subseteq StoredEvents' /\ EventLinks \subseteq EventLinks'
  BY <1>3 DEF StoredEvents, EventLinks
<1>6. ASSUME NEW l \in EventLinks' \ EventLinks
      PROVE  \E k \in 1 .. Len(batch) : l = <<batch[k], logging[batch[k]].prev>>
  <2>1. PICK i \in DOMAIN stored' : l = <<stored'[i].event, stored'[i].prev>>
    BY DEF EventLinks
  <2>2. i \notin DOMAIN stored
    BY <1>3, <2>1 DEF EventLinks
  <2>3. PICK k \in 1 .. Len(batch) : i = Len(stored) + k
    BY <1>4, <2>2
  <2>4. stored'[i].event = batch[k] /\ stored'[i].prev = logging[batch[k]].prev
    BY <1>3, <2>3
  <2> QED
    BY <2>1, <2>4
<1>7. \A l \in EventLinks' \ EventLinks :
         l[1] \notin StoredEvents /\ l[2] \in StoredEvents \cup {None} /\ l[2] = logging[l[1]].prev
  BY <1>1, <1>6 DEF EventsKnown
<1>8. ASSUME EventsLinear
      PROVE  /\ \E l \in EventLinks' \ EventLinks : EventLinks' \ EventLinks = {l} /\ l[2] \in EventChain!Last
             /\ \A i, j \in DOMAIN stored' : stored'[i].event = stored'[j].event => i = j
  <2>1. PICK e \in SecEvents : flights = {<<e>>} /\ (e \in StoredEvents \/ logging[e].prev = LatestHash)
    BY <1>8 DEF LogInv, OneByOneIn, Waits, EventsLinear
  <2>2. batch = <<e>> /\ Len(batch) = 1 /\ batch[1] = e
    BY <2>1
  <2>3. e \notin StoredEvents /\ logging[e].prev = LatestHash
    BY <1>1, <2>1, <2>2
  <2>4. LatestHash \in EventChain!Last
    BY <1>0, <1>8, LatestIsLast DEF LogInv, OneByOneIn, EventsLinear
  <2>5. <<e, LatestHash>> \in EventLinks' \ EventLinks
    <3>1. /\ Len(stored) + 1 \in DOMAIN stored' /\ stored'[Len(stored) + 1].event = e
          /\ stored'[Len(stored) + 1].prev = LatestHash
      BY <1>3, <2>2, <2>3
    <3>2. <<e, LatestHash>> \notin EventLinks
      BY <2>3 DEF EventLinks, StoredEvents
    <3> QED
      BY <3>1, <3>2 DEF EventLinks
  <2>6. \A l \in EventLinks' \ EventLinks : l = <<e, LatestHash>>
    BY <1>6, <2>2, <2>3
  <2>7. ASSUME NEW i \in DOMAIN stored', NEW j \in DOMAIN stored', stored'[i].event = stored'[j].event
        PROVE  i = j
    <3>1. \A k \in DOMAIN stored' : k \in DOMAIN stored \/ k = Len(stored) + 1
      BY <1>2, <1>3, <2>2
    <3>2. stored'[Len(stored) + 1].event = e /\ \A k \in DOMAIN stored : stored'[k].event \in StoredEvents
      BY <1>3, <2>2 DEF StoredEvents
    <3>3. i \in DOMAIN stored /\ j \in DOMAIN stored => i = j
      BY <1>3, <1>8, <2>7 DEF EventsKnown
    <3> QED
      BY <2>3, <2>7, <3>1, <3>2, <3>3
  <2> QED
    BY <2>4, <2>5, <2>6, <2>7
<1>9. EventsLinear' = EventsLinear
  BY DEF EventsLinear, May
<1>10. EventsKnown'
  BY <1>5, <1>8, <1>9 DEF EventsKnown
<1>11. EventChain!Kept = StoredEvents
  BY EventLinksForm
<1> QED
  <2>1. \A l, m \in EventLinks' \ EventLinks : l[1] = m[1] => l = m
    BY <1>6
  <2> QED
    BY <1>5, <1>7, <1>8, <1>9, <1>10, <1>11, <2>1 DEF EventChain!Extend

\* Every step of the security event log extends its chain or leaves it alone.
LEMMA EventsStep ==
    ASSUME LogInv, EventsKnown, UNCHANGED allowed, LogNext
    PROVE  EventsKnown' /\ [EventChain!Extend]_<<EventLinks, EventsLinear>>
<1>0. logging \in [SecEvents -> LogCall]
  BY DEF LogInv, LogTypeOK
<1>1. \/ UNCHANGED stored
      \/ \E batch \in flights : /\ Range(batch) \cap StoredEvents = {}
                                /\ stored' = stored \o Rows(batch) /\ UNCHANGED logging
  BY DEF LogNext, LogEvent, LogStep, ReadLatest, Push, TimerFires, Flush, Inserted, Forward,
         FetchUnforwarded, SendToSiem, MarkForwarded, UpdateRejected, LogServiceDies
<1>2. CASE UNCHANGED stored
  <2>1. \A e \in SecEvents : logging'[e].prev \in {logging[e].prev, LatestHash, None}
    <3>1. ASSUME NEW e \in SecEvents, ReadLatest(e)
          PROVE  \A f \in SecEvents : logging'[f].prev \in {logging[f].prev, LatestHash, None}
      BY <1>0, <3>1 DEF ReadLatest
    <3>2. ASSUME NEW e \in SecEvents, LogEvent(e) \/ Push(e)
          PROVE  \A f \in SecEvents : logging'[f].prev = logging[f].prev
      BY <1>0, <3>2 DEF LogEvent, Push, LogCall
    <3>3. CASE LogServiceDies
      BY <1>0, <3>3 DEF LogServiceDies, LogCall
    <3>4. CASE TimerFires \/ (\E batch \in flights : Inserted(batch)) \/ Forward
      BY <3>4 DEF TimerFires, Inserted, Forward, FetchUnforwarded, SendToSiem, MarkForwarded
    <3> QED
      BY <3>1, <3>2, <3>3, <3>4 DEF LogNext, LogStep
  <2>2. LatestHash \in StoredEvents \cup {None}
    <3>1. stored # <<>> => Len(stored) \in DOMAIN stored
      BY ElementsOf DEF LogInv, LogTypeOK
    <3> QED
      BY <3>1 DEF LatestHash, StoredEvents
  <2>3. EventsKnown'
    <3>1. StoredEvents' = StoredEvents /\ EventsLinear' = EventsLinear
      BY <1>2 DEF StoredEvents, EventsLinear, May
    <3> QED
      BY <1>2, <2>1, <2>2, <3>1 DEF EventsKnown
  <2> QED
    BY <1>2, <2>3 DEF EventLinks, EventsLinear, May
<1>3. ASSUME NEW batch \in flights, Range(batch) \cap StoredEvents = {},
             stored' = stored \o Rows(batch), UNCHANGED logging
      PROVE  EventsKnown' /\ EventChain!Extend
  BY <1>3, BatchExtends
<1> QED
  BY <1>1, <1>2, <1>3

\* An action has a row, one, when its insert succeeded; until then it names none or an action
\* that has one.
StoredActs == {acts[i].act : i \in DOMAIN acts}
ActsKnown ==
    /\ \A i, j \in DOMAIN acts : acts[i].act = acts[j].act => i = j
    /\ \A x \in SessionActions : acting[x].pc \in {"idle", "read", "insert"} => x \notin StoredActs
    /\ \A x \in SessionActions : acting[x].pc = "insert" => acting[x].prev \in StoredActs \cup {None}

LEMMA ActsKnownInit == SessionInit => ActsKnown
BY DEF SessionInit, ActsKnown, StoredActs

LEMMA ActionLinksForm ==
    /\ \A i \in DOMAIN acts : <<acts[i].act, acts[i].prev>> \in ActionLinks
    /\ ActionChain!Kept = StoredActs
<1>1. \A i \in DOMAIN acts : <<acts[i].act, acts[i].prev>> \in ActionLinks
  BY DEF ActionLinks
<1>2. \A l \in ActionLinks : \E i \in DOMAIN acts : l[1] = acts[i].act
  BY DEF ActionLinks
<1>3. \A i \in DOMAIN acts : \E l \in ActionLinks : acts[i].act = l[1]
  BY <1>1
<1>4. \A e : e \in ActionChain!Kept <=> e \in StoredActs
  BY <1>2, <1>3 DEF StoredActs, ActionChain!Kept
<1> QED
  BY <1>1, <1>4

\* Where actions come one by one, the latest is named by none.
LEMMA LastActionIsLast ==
    ASSUME SessInv, ActsKnown, ActionsLinear
    PROVE  LastAction \in ActionChain!Last
<1>0. /\ DOMAIN acts = 1 .. Len(acts) /\ Len(acts) \in Nat
      /\ acts # <<>> => Len(acts) \in DOMAIN acts
      /\ \A i \in DOMAIN acts : acts[i].act \in SessionActions
  <2>1. acts \in Seq(SessionAction)
    BY DEF SessInv, SessionTypeOK
  <2>2. acts # <<>> => Len(acts) # 0
    BY <2>1
  <2>3. \A i \in DOMAIN acts : acts[i] \in SessionAction
    BY <2>1
  <2> QED
    BY <2>1, <2>2, <2>3 DEF SessionAction
<1>1. CASE acts = <<>>
  BY <1>1 DEF LastAction, ActionLinks, ActionChain!Last
<1>2. CASE acts # <<>>
  <2> DEFINE n == Len(acts)
  <2>1. n \in DOMAIN acts /\ LastAction = acts[n].act
    BY <1>0, <1>2 DEF LastAction
  <2>0. \A i \in DOMAIN acts : acts[i].prev = IF i = 1 THEN None ELSE acts[i - 1].act
    BY DEF SessInv, LastIsKnown, ActionsLinear
  <2>2. ASSUME NEW i \in DOMAIN acts PROVE acts[i].prev # acts[n].act
    <3>1. CASE i = 1
      BY <1>0, <2>0, <2>1, <3>1, UserSessionsAssumption
    <3>2. CASE i # 1
      <4>1. i - 1 \in DOMAIN acts /\ i - 1 # n
        BY <1>0, <3>2
      <4> QED
        BY <2>0, <2>1, <3>2, <4>1 DEF ActsKnown
    <3> QED
      BY <3>1, <3>2
  <2>3. acts[n].act \in ActionChain!Kept
    BY <2>1, ActionLinksForm DEF StoredActs
  <2>4. acts[n].act \notin ActionChain!Named
    BY <2>2 DEF ActionChain!Named, ActionLinks
  <2>5. ActionLinks # {}
    BY <2>1 DEF ActionLinks
  <2> QED
    BY <2>1, <2>3, <2>4, <2>5 DEF ActionChain!Last
<1> QED
  BY <1>1, <1>2

\* A row that is inserted extends the chain.
LEMMA RowExtends ==
    ASSUME SessInv, ActsKnown, UNCHANGED allowed, NEW x \in SessionActions, acting[x].pc = "insert",
           acts' = Append(acts, [act |-> x, prev |-> acting[x].prev]),
           acting' = [acting EXCEPT ![x].pc = "touch", ![x].prev = None]
    PROVE  ActsKnown' /\ ActionChain!Extend
<1> DEFINE n == Len(acts)
           p == acting[x].prev
<1>0. /\ acting \in [SessionActions -> Acting] /\ acts \in Seq(SessionAction)
      /\ [act |-> x, prev |-> p] \in SessionAction
  BY DEF SessInv, SessionTypeOK, Acting, SessionAction
<1>1. /\ DOMAIN acts = 1 .. n /\ DOMAIN acts' = 1 .. n + 1 /\ n \in Nat
      /\ acts'[n + 1].act = x /\ acts'[n + 1].prev = p
      /\ \A i \in 1 .. n : acts'[i] = acts[i]
  BY <1>0
<1>2. x \notin StoredActs /\ p \in StoredActs \cup {None}
  BY DEF ActsKnown
<1>3. /\ \A y \in SessionActions : y # x => acting'[y] = acting[y]
      /\ acting'[x].pc = "touch"
  BY <1>0 DEF Acting
<1> HIDE DEF n, p
<1>a. \A i \in DOMAIN acts' : i \in DOMAIN acts \/ i = n + 1
  BY <1>1
<1>b. DOMAIN acts \subseteq DOMAIN acts' /\ n + 1 \in DOMAIN acts'
  BY <1>1
<1>4. StoredActs' = StoredActs \cup {x}
  BY <1>1, <1>a, <1>b DEF StoredActs
<1>5. /\ ActionLinks' = ActionLinks \cup {<<x, p>>} /\ <<x, p>> \notin ActionLinks
  <2>1. \A l \in ActionLinks' : l \in ActionLinks \/ l = <<x, p>>
    BY <1>1, <1>a DEF ActionLinks
  <2>2. \A l \in ActionLinks : l \in ActionLinks'
    BY <1>1, <1>b DEF ActionLinks
  <2>3. <<x, p>> \in ActionLinks'
    BY <1>1, <1>b DEF ActionLinks
  <2>4. <<x, p>> \notin ActionLinks
    BY <1>2 DEF ActionLinks, StoredActs
  <2> QED
    BY <2>1, <2>2, <2>3, <2>4
<1>6. ActsKnown'
  <2>1. ASSUME NEW i \in DOMAIN acts', NEW j \in DOMAIN acts', acts'[i].act = acts'[j].act
        PROVE  i = j
    <3>1. \A k \in DOMAIN acts : acts'[k].act \in StoredActs /\ acts'[k] = acts[k]
      BY <1>1 DEF StoredActs
    <3>2. i \in DOMAIN acts /\ j \in DOMAIN acts => i = j
      BY <2>1, <3>1 DEF ActsKnown
    <3> QED
      BY <1>1, <1>2, <1>a, <2>1, <3>1, <3>2
  <2>2. ASSUME NEW y \in SessionActions, acting'[y].pc \in {"idle", "read", "insert"}
        PROVE  y \notin StoredActs'
    BY <1>3, <1>4, <2>2 DEF ActsKnown
  <2>3. ASSUME NEW y \in SessionActions, acting'[y].pc = "insert"
        PROVE  acting'[y].prev \in StoredActs' \cup {None}
    <3>1. y # x /\ acting'[y] = acting[y] /\ acting[y].pc = "insert"
      BY <1>3, <2>3
    <3>2. acting[y].prev \in StoredActs \cup {None}
      BY <3>1 DEF ActsKnown
    <3> QED
      BY <1>4, <3>1, <3>2
  <2> QED
    BY <2>1, <2>2, <2>3 DEF ActsKnown
<1>7. ActionsLinear => p \in ActionChain!Last
  <2>1. ActionsLinear => p = LastAction
    BY DEF SessInv, LastIsKnown, ActionsLinear, p
  <2> QED
    BY <2>1, LastActionIsLast
<1>8. ActionsLinear' = ActionsLinear
  BY DEF ActionsLinear, May, FetchFails
<1>9. ActionLinks' \ ActionLinks = {<<x, p>>}
  BY <1>5
<1> QED
  BY <1>2, <1>5, <1>6, <1>7, <1>8, <1>9, ActionLinksForm DEF ActionChain!Extend

\* Every step of a session extends the chain of its actions or leaves it alone.
LEMMA ActionsStep ==
    ASSUME SessInv, ActsKnown, UNCHANGED allowed, SessionNext
    PROVE  ActsKnown' /\ [ActionChain!Extend]_<<ActionLinks, ActionsLinear>>
<1>0. acting \in [SessionActions -> Acting] /\ acts \in Seq(SessionAction)
  BY DEF SessInv, SessionTypeOK
<1>1. CASE UNCHANGED acts /\ \A x \in SessionActions :
             /\ acting'[x].pc \in {"idle", "read", "insert"} => acting[x].pc \in {"idle", "read", "insert"}
             /\ acting'[x].pc = "insert" => \/ acting[x].pc = "insert" /\ acting'[x].prev = acting[x].prev
                                            \/ acting'[x].prev \in {LastAction, None}
  <2>1. LastAction \in StoredActs \cup {None}
    <3>1. acts # <<>> => Len(acts) \in DOMAIN acts
      <4>1. acts # <<>> => Len(acts) # 0
        BY <1>0
      <4> QED
        BY <1>0, <4>1
    <3> QED
      BY <3>1 DEF LastAction, StoredActs
  <2>2. StoredActs' = StoredActs
    BY <1>1 DEF StoredActs
  <2>3. ActsKnown'
    BY <1>1, <2>1, <2>2 DEF ActsKnown
  <2> QED
    BY <1>1, <2>3 DEF ActionLinks, ActionsLinear, May, FetchFails
<1>2. CASE UNCHANGED <<acts, acting>>
  BY <1>1, <1>2
<1>3. ASSUME NEW x \in SessionActions, LogAction(x) \/ ActionStep(x)
      PROVE  ActsKnown' /\ [ActionChain!Extend]_<<ActionLinks, ActionsLinear>>
  <2>1. CASE LogAction(x)
    <3>1. /\ \A y \in SessionActions : y # x => acting'[y] = acting[y]
          /\ acting'[x].pc = "read" /\ acting[x].pc = "idle" /\ UNCHANGED acts
      BY <1>0, <2>1 DEF LogAction, Acting
    <3> QED
      BY <1>1, <3>1
  <2>2. CASE ReadLastAction(x)
    <3>1. PICK h \in {LastAction} \cup (IF FetchFails THEN {None} ELSE {}) :
             acting' = [acting EXCEPT ![x] = [pc |-> "insert", prev |-> h]]
      BY <2>2 DEF ReadLastAction
    <3>2. /\ \A y \in SessionActions : y # x => acting'[y] = acting[y]
          /\ acting'[x].pc = "insert" /\ acting'[x].prev = h /\ acting[x].pc = "read" /\ UNCHANGED acts
      BY <1>0, <2>2, <3>1 DEF ReadLastAction
    <3>3. h \in {LastAction, None}
      OBVIOUS
    <3> QED
      BY <1>1, <3>2, <3>3
  <2>3. CASE InsertAction(x)
    <3>1. CASE acts' = acts
      <4>1. /\ \A y \in SessionActions : y # x => acting'[y] = acting[y]
            /\ acting'[x].pc = "touch"
        BY <1>0, <2>3 DEF InsertAction, Acting
      <4> QED
        BY <1>1, <3>1, <4>1
    <3>2. CASE acts' = Append(acts, [act |-> x, prev |-> acting[x].prev])
      BY <2>3, <3>2, RowExtends DEF InsertAction
    <3> QED
      BY <2>3, <3>1, <3>2 DEF InsertAction
  <2>4. CASE UpdateSessionActivity(x)
    <3>1. /\ \A y \in SessionActions : y # x => acting'[y] = acting[y]
          /\ acting'[x].pc = "done" /\ UNCHANGED acts
      BY <1>0, <2>4 DEF UpdateSessionActivity, Acting
    <3> QED
      BY <1>1, <3>1
  <2> QED
    BY <1>3, <2>1, <2>2, <2>3, <2>4 DEF ActionStep
<1>4. \/ UNCHANGED <<acts, acting>>
      \/ \E x \in SessionActions : LogAction(x) \/ ActionStep(x)
  BY DEF SessionNext, StartSession, LoginStep, ReadSessions, EndOldest, StampSession, InsertSession,
         DetectAnomalies, UpdateSessionRisk, CreateAnomaly, ReadBaseline, UpdateBaseline, ForceEnd, TimePasses,
         ExpireStaleSessions
<1> QED
  BY <1>2, <1>3, <1>4

\* A violation under way was detected at a moment of its own, after the row it names, if it
\* names one; so were the rows.
Ats == {v.at : v \in violations}
RowPending(at, prev) == at > 0 /\ at \notin Ats /\ prev < at /\ prev \in Ats \cup {0}
RowsKnown ==
    ~May("tampering") =>
       /\ deleted = 0
       /\ \A v \in violations : v.prev < v.at
       /\ \A c \in GuardCalls : guarded[c].pc = "insert" => RowPending(guarded[c].at, guarded[c].prev)
       /\ verifying.pc = "insert" => RowPending(verifying.at, verifying.prev)
       /\ \A c, d \in GuardCalls : guarded[c].pc = "insert" /\ guarded[d].pc = "insert" =>
             c = d \/ guarded[c].at # guarded[d].at
       /\ \A c \in GuardCalls : guarded[c].pc = "insert" /\ verifying.pc = "insert" =>
             guarded[c].at # verifying.at

LEMMA RowsKnownInit == GuardInit => RowsKnown
<1> SUFFICES ASSUME GuardInit PROVE RowsKnown
  OBVIOUS
<1>1. \A c \in GuardCalls : guarded[c].pc = "idle"
  BY IdleCallForm DEF GuardInit
<1> QED
  BY <1>1 DEF GuardInit, RowsKnown

LEMMA ViolationLinksForm ==
    ASSUME ~May("tampering")
    PROVE  /\ ViolationLinks = {<<v.at, v.prev>> : v \in violations}
           /\ ViolationChain!Kept = Ats
<1>1. ViolationLinks = {<<v.at, v.prev>> : v \in violations}
  BY DEF ViolationLinks
<1>2. \A l \in ViolationLinks : \E v \in violations : l[1] = v.at
  BY <1>1
<1>3. \A v \in violations : \E l \in ViolationLinks : v.at = l[1]
  <2>1. \A v \in violations : <<v.at, v.prev>> \in ViolationLinks
    BY <1>1
  <2> QED
    BY <2>1
<1>4. \A e : e \in ViolationChain!Kept <=> e \in Ats
  BY <1>2, <1>3 DEF Ats, ViolationChain!Kept
<1> QED
  BY <1>1, <1>4

\* A row that was pending extends the chain; where requests do not overlap and no query fails
\* it names the last.
LEMMA PendingExtends ==
    ASSUME GuardInv, RowsKnown, UNCHANGED allowed, ~May("tampering"), NEW at \in Nat, NEW prev \in Nat,
           RowPending(at, prev), NEW v, v.at = at, v.prev = prev, violations' = violations \cup {v},
           ViolationsLinear => /\ \A w \in violations : w.at < at
                               /\ Follows(prev, at)
    PROVE  ViolationChain!Extend
<1>0. /\ \A w \in violations : w.at \in Nat /\ w.prev \in Nat /\ w.prev < w.at
      /\ ~May("tampering")' /\ ViolationsLinear' = ViolationsLinear
  BY DEF GuardInv, GuardTypeOK, Violation, RowsKnown, May, ViolationsLinear, CacheFetchFails
<1>1. ViolationLinks' = ViolationLinks \cup {<<at, prev>>} /\ <<at, prev>> \notin ViolationLinks
  <2>1. ViolationLinks' = {<<w.at, w.prev>> : w \in violations'}
    BY <1>0 DEF ViolationLinks
  <2>2. ViolationLinks = {<<w.at, w.prev>> : w \in violations}
    BY ViolationLinksForm
  <2>3. <<at, prev>> \notin ViolationLinks
    BY <2>2 DEF RowPending, Ats
  <2> QED
    BY <2>1, <2>2, <2>3
<1>2. ViolationLinks' \ ViolationLinks = {<<at, prev>>}
  BY <1>1
<1>3. at \notin ViolationChain!Kept /\ prev \in ViolationChain!Kept \cup {0}
  BY ViolationLinksForm DEF RowPending
<1>4. ViolationsLinear => prev \in ViolationChain!Last
  <2> SUFFICES ASSUME ViolationsLinear PROVE prev \in ViolationChain!Last
    OBVIOUS
  <2>1. CASE violations = {}
    <3>1. ViolationLinks = {} /\ Ats = {}
      BY <2>1, ViolationLinksForm DEF Ats
    <3> QED
      BY <3>1 DEF RowPending, ViolationChain!Last
  <2>2. CASE violations # {}
    <3>1. PICK u \in violations : u.at = prev
      BY <2>2 DEF Follows
    <3>2. \A w \in violations : w.at <= prev
      BY DEF Follows
    <3>3. \A w \in violations : w.prev # prev
      BY <1>0, <3>2
    <3>4. prev \notin ViolationChain!Named
      BY <3>3, ViolationLinksForm DEF ViolationChain!Named
    <3>5. prev \in ViolationChain!Kept
      BY <3>1, ViolationLinksForm DEF Ats
    <3>6. ViolationLinks # {}
      BY <2>2, ViolationLinksForm
    <3> QED
      BY <3>4, <3>5, <3>6 DEF ViolationChain!Last
  <2> QED
    BY <2>1, <2>2
<1> QED
  BY <1>0, <1>1, <1>2, <1>3, <1>4 DEF ViolationChain!Extend

\* The latest hash makes a row at a new moment pending.
LEMMA LatestPends ==
    ASSUME GuardInv, NEW h \in {LatestViolationHash} \cup (IF CacheFetchFails THEN {0} ELSE {}), clock' = clock + 1
    PROVE  RowPending(clock', h)
<1>1. clock \in Nat /\ \A v \in violations : v.at \in Nat /\ v.at <= clock
  BY DEF GuardInv, GuardTypeOK, TimesPass, Violation
<1>2. h \in Ats \cup {0}
  <2>1. CASE violations = {}
    BY <2>1 DEF LatestViolationHash
  <2>2. CASE violations # {}
    <3>1. PICK u \in violations : u.at = LatestViolationHash
      BY <2>2, LatestForm
    <3> QED
      BY <3>1 DEF Ats
  <2> QED
    BY <2>1, <2>2
<1>3. \A a \in Ats : a \in Nat /\ a <= clock
  BY <1>1 DEF Ats
<1>4. clock' \in Nat /\ clock' > 0 /\ clock' \notin Ats
  BY <1>1, <1>3
<1>5. h < clock'
  BY <1>1, <1>2, <1>3, <1>4
<1> QED
  BY <1>2, <1>4, <1>5 DEF RowPending

\* What is pending remains so, unless it is written.
LEMMA StillPending ==
    ASSUME RowsKnown, UNCHANGED <<allowed, deleted>>, Ats \subseteq Ats', \A v \in violations' : v.prev < v.at,
           \A c \in GuardCalls : guarded'[c].pc = "insert" =>
              /\ guarded[c].pc = "insert" /\ guarded'[c].at = guarded[c].at
              /\ guarded'[c].prev = guarded[c].prev /\ guarded[c].at \notin Ats',
           verifying'.pc = "insert" => verifying' = verifying /\ verifying.at \notin Ats'
    PROVE  RowsKnown'
<1> SUFFICES ASSUME ~May("tampering") PROVE RowsKnown'
  BY DEF RowsKnown, May
<1>1. ASSUME NEW c \in GuardCalls, guarded'[c].pc = "insert"
      PROVE  RowPending(guarded[c].at, guarded[c].prev)'
  <2>1. RowPending(guarded[c].at, guarded[c].prev)
    BY <1>1 DEF RowsKnown
  <2> QED
    BY <1>1, <2>1 DEF RowPending
<1>2. verifying'.pc = "insert" => RowPending(verifying.at, verifying.prev)'
  BY DEF RowsKnown, RowPending
<1> QED
  BY <1>1, <1>2 DEF RowsKnown

\* A request that moves to where it does not write next, while the rows stay.
LEMMA RequestPends ==
    ASSUME GuardInv, RowsKnown, UNCHANGED <<allowed, violations, deleted, verifying>>,
           \A d \in GuardCalls : guarded'[d].pc = "insert" =>
              /\ guarded[d].pc = "insert" /\ guarded'[d].at = guarded[d].at
              /\ guarded'[d].prev = guarded[d].prev
    PROVE  RowsKnown'
<1> SUFFICES ASSUME ~May("tampering") PROVE RowsKnown'
  BY DEF RowsKnown, May
<1>1. Ats' = Ats /\ \A v \in violations' : v.prev < v.at
  BY DEF Ats, RowsKnown
<1>2. \A d \in GuardCalls : guarded[d].pc = "insert" => guarded[d].at \notin Ats'
  BY <1>1 DEF RowsKnown, RowPending
<1>3. verifying.pc = "insert" => verifying.at \notin Ats'
  BY <1>1 DEF RowsKnown, RowPending
<1> QED
  BY <1>1, <1>2, <1>3, StillPending

\* So does one alone.
LEMMA OnePends ==
    ASSUME GuardInv, RowsKnown, UNCHANGED <<allowed, violations, deleted, verifying>>,
           NEW c \in GuardCalls, NEW g, guarded' = [guarded EXCEPT ![c] = g], g.pc # "insert"
    PROVE  RowsKnown'
<1>1. guarded \in [GuardCalls -> GuardCall]
  BY DEF GuardInv, GuardTypeOK
<1>2. \A d \in GuardCalls : guarded'[d] = IF d = c THEN g ELSE guarded[d]
  BY <1>1
<1>3. \A d \in GuardCalls : guarded'[d].pc = "insert" => d # c
  BY <1>2
<1>4. \A d \in GuardCalls : guarded'[d].pc = "insert" => guarded'[d] = guarded[d]
  BY <1>2, <1>3
<1> QED
  BY <1>4, RequestPends

\* What does not write leaves the rows, and what is known of them.
LEMMA RequestsPend ==
    ASSUME GuardInv, RowsKnown, UNCHANGED allowed, NEW c \in GuardCalls,
           Receive(c) \/ FetchPolicies(c) \/ ApplyPolicies(c) \/ Grant(c) \/ Deny(c) \/ Serve(c) \/ LogUse(c)
    PROVE  RowsKnown' /\ UNCHANGED violations
<1>0. UNCHANGED <<violations, deleted, verifying>>
  BY DEF Receive, FetchPolicies, ApplyPolicies, Grant, Deny, Serve, LogUse, unchangedRows
<1>1. guarded[c] \in GuardCall /\ \A pc \in GuardEnded : [IdleCall EXCEPT !.pc = pc].pc = pc
  BY CallNow, IdleCallForm
<1>2. "insert" \notin GuardEnded /\ {"done", "refused", "failed"} \subseteq GuardEnded
  BY DEF GuardEnded
<1>3. ASSUME NEW pc, pc \in GuardEnded, GuardEnds(c, pc)
      PROVE  \E g : guarded' = [guarded EXCEPT ![c] = g] /\ g.pc # "insert"
  BY <1>1, <1>2, <1>3 DEF GuardEnds
<1>4. ASSUME NEW pc, pc # "insert", GuardAt(c, pc)
      PROVE  \E g : guarded' = [guarded EXCEPT ![c] = g] /\ g.pc # "insert"
  <2> DEFINE g == [guarded[c] EXCEPT !.pc = pc]
  <2>1. g.pc # "insert"
    BY <1>1, <1>4 DEF GuardCall
  <2>2. guarded' = [guarded EXCEPT ![c] = g]
    BY <1>4 DEF GuardAt
  <2> QED
    BY <2>1, <2>2
<1>5. CASE Receive(c)
  <2>1. CASE GuardAt(c, "deny")
    BY <1>0, <1>4, <2>1, OnePends
  <2>2. CASE ~GuardAt(c, "deny")
    <3>1. PICK B \in SUBSET Policies :
             guarded' = [guarded EXCEPT ![c] = [IdleCall EXCEPT !.breach = B,
                !.pc = IF ShouldRefreshCache THEN "refresh" ELSE "evaluate",
                !.todo = IF ShouldRefreshCache THEN <<>> ELSE policyCache.rows,
                !.owed = IF policyCache.old THEN EnforcedRows
                         ELSE EnforcedRows \cap Enforced(policyCache.rows)]]
      BY <1>5, <2>2 DEF Receive
    <3> DEFINE g == [IdleCall EXCEPT !.breach = B,
                !.pc = IF ShouldRefreshCache THEN "refresh" ELSE "evaluate",
                !.todo = IF ShouldRefreshCache THEN <<>> ELSE policyCache.rows,
                !.owed = IF policyCache.old THEN EnforcedRows
                         ELSE EnforcedRows \cap Enforced(policyCache.rows)]
    <3>2. g.pc # "insert"
      BY DEF IdleCall
    <3>3. guarded' = [guarded EXCEPT ![c] = g]
      BY <3>1
    <3> HIDE DEF g
    <3> QED
      BY <1>0, <3>2, <3>3, OnePends
  <2> QED
    BY <2>1, <2>2
<1>6. CASE FetchPolicies(c)
  <2>1. CASE \E ps \in Fetched(policyRow) :
               guarded' = [guarded EXCEPT ![c].pc = "apply", ![c].read = ps]
    <3>1. PICK ps \in Fetched(policyRow) :
             guarded' = [guarded EXCEPT ![c].pc = "apply", ![c].read = ps]
      BY <2>1
    <3> DEFINE g == [guarded[c] EXCEPT !.pc = "apply", !.read = ps]
    <3>2. g.pc # "insert" /\ guarded' = [guarded EXCEPT ![c] = g]
      BY <1>1, <3>1 DEF GuardCall
    <3> HIDE DEF g
    <3> QED
      BY <1>0, <3>2, OnePends
  <2>2. CASE guarded' = [guarded EXCEPT ![c].pc = "evaluate", ![c].todo = policyCache.rows]
    <3> DEFINE g == [guarded[c] EXCEPT !.pc = "evaluate", !.todo = policyCache.rows]
    <3>2. g.pc # "insert" /\ guarded' = [guarded EXCEPT ![c] = g]
      BY <1>1, <2>2 DEF GuardCall
    <3> HIDE DEF g
    <3> QED
      BY <1>0, <3>2, OnePends
  <2> QED
    BY <1>6, <2>1, <2>2 DEF FetchPolicies
<1>7. CASE ApplyPolicies(c)
  <2> DEFINE g == [guarded[c] EXCEPT !.pc = "evaluate", !.todo = guarded[c].read, !.read = <<>>]
  <2>1. g.pc # "insert" /\ guarded' = [guarded EXCEPT ![c] = g]
    BY <1>1, <1>7 DEF ApplyPolicies, GuardCall
  <2> HIDE DEF g
  <2> QED
    BY <1>0, <2>1, OnePends
<1>8. CASE Grant(c) \/ Deny(c)
  <2>1. \/ GuardAt(c, "serve")
        \/ \E pc \in GuardEnded : GuardEnds(c, pc)
    BY <1>2, <1>8 DEF Grant, Deny
  <2>2. \E g : guarded' = [guarded EXCEPT ![c] = g] /\ g.pc # "insert"
    BY <1>3, <1>4, <2>1
  <2> QED
    BY <1>0, <2>2, OnePends
<1>9. CASE Serve(c)
  <2>1. CASE \E due \in SUBSET UseLogs :
             guarded' = [guarded EXCEPT ![c] = [IdleCall EXCEPT !.pc = "answered", !.due = due]]
    <3>1. PICK due \in SUBSET UseLogs :
             guarded' = [guarded EXCEPT ![c] = [IdleCall EXCEPT !.pc = "answered", !.due = due]]
      BY <2>1
    <3> DEFINE g == [IdleCall EXCEPT !.pc = "answered", !.due = due]
    <3>2. g.pc # "insert" /\ guarded' = [guarded EXCEPT ![c] = g]
      BY <3>1 DEF IdleCall
    <3> HIDE DEF g
    <3> QED
      BY <1>0, <3>2, OnePends
  <2>2. CASE GuardEnds(c, "failed")
    <3>1. \E g : guarded' = [guarded EXCEPT ![c] = g] /\ g.pc # "insert"
      BY <1>2, <1>3, <2>2
    <3> QED
      BY <1>0, <3>1, OnePends
  <2> QED
    BY <1>9, <2>1, <2>2 DEF Serve
<1>10. CASE LogUse(c)
  <2>1. CASE GuardAt(c, "done")
    BY <1>0, <1>4, <2>1, OnePends
  <2>2. CASE UNCHANGED guarded
    BY <1>0, <2>2, RequestPends
  <2> QED
    BY <1>10, <2>1, <2>2 DEF LogUse
<1> QED
  BY <1>0, <1>5, <1>6, <1>7, <1>8, <1>9, <1>10

\* A row is written, and its writer goes elsewhere.
LEMMA PendingWritten ==
    ASSUME GuardInv, RowsKnown, UNCHANGED <<allowed, deleted>>, ~May("tampering"), NEW at \in Nat, NEW prev \in Nat,
           RowPending(at, prev), NEW v, v.at = at, v.prev = prev, violations' = violations \cup {v},
           ViolationsLinear => /\ \A w \in violations : w.at < at
                               /\ Follows(prev, at),
           \A c \in GuardCalls : guarded'[c].pc = "insert" =>
              /\ guarded[c].pc = "insert" /\ guarded'[c].at = guarded[c].at
              /\ guarded'[c].prev = guarded[c].prev /\ guarded[c].at # at,
           verifying'.pc = "insert" => verifying' = verifying /\ verifying.at # at
    PROVE  RowsKnown' /\ ViolationChain!Extend
<1>1. Ats' = Ats \cup {at} /\ \A w \in violations' : w.prev < w.at
  BY DEF Ats, RowsKnown, RowPending
<1>2. \A c \in GuardCalls : guarded[c].pc = "insert" => guarded[c].at \notin Ats
  BY DEF RowsKnown, RowPending
<1>3. verifying.pc = "insert" => verifying.at \notin Ats
  BY DEF RowsKnown, RowPending
<1>4. RowsKnown'
  BY <1>1, <1>2, <1>3, StillPending
<1> QED
  BY <1>4, PendingExtends

\* The evaluation makes a row pending, or none.
LEMMA EvaluationPends ==
    ASSUME GuardInv, RowsKnown, UNCHANGED allowed, ~May("tampering"), NEW c \in GuardCalls, Evaluate(c)
    PROVE  RowsKnown'
<1> DEFINE todo == ToRecord(guarded[c].todo, guarded[c].breach)
<1>0. /\ UNCHANGED <<violations, deleted, verifying>> /\ guarded[c] \in GuardCall
      /\ guarded \in [GuardCalls -> GuardCall] /\ clock \in Nat
  BY CallNow DEF Evaluate
<1>1. CASE guarded' = [guarded EXCEPT ![c].pc = "grant", ![c].todo = <<>>]
  <2> DEFINE g == [guarded[c] EXCEPT !.pc = "grant", !.todo = <<>>]
  <2>1. g.pc # "insert" /\ guarded' = [guarded EXCEPT ![c] = g]
    BY <1>0, <1>1 DEF GuardCall
  <2> HIDE DEF g
  <2> QED
    BY <1>0, <2>1, OnePends
<1>2. ASSUME NEW h \in {LatestViolationHash} \cup (IF CacheFetchFails THEN {0} ELSE {}),
             clock' = clock + 1,
             guarded' = [guarded EXCEPT ![c].pc = "insert", ![c].todo = todo, ![c].at = clock', ![c].prev = h]
      PROVE  RowsKnown'
  <2> HIDE DEF todo
  <2> DEFINE g == [guarded[c] EXCEPT !.pc = "insert", !.todo = todo, !.at = clock', !.prev = h]
  <2>1. g.at = clock' /\ g.prev = h /\ guarded' = [guarded EXCEPT ![c] = g]
    BY <1>0, <1>2 DEF GuardCall
  <2> HIDE DEF g
  <2>2. guarded'[c] = g /\ \A d \in GuardCalls : d # c => guarded'[d] = guarded[d]
    BY <1>0, <2>1
  <2>3. RowPending(clock', h)
    BY <1>2, LatestPends
  <2>4. Ats' = Ats
    BY <1>0 DEF Ats
  <2>5. /\ \A d \in GuardCalls : guarded[d].at \in Nat /\ guarded[d].at <= clock
        /\ verifying.at \in Nat /\ verifying.at <= clock
    BY DEF GuardInv, GuardTypeOK, TimesPass, GuardCall
  <2>6. /\ \A d \in GuardCalls : guarded[d].at # clock'
        /\ verifying.at # clock'
    BY <1>0, <1>2, <2>5
  <2>7. ASSUME NEW d \in GuardCalls, guarded'[d].pc = "insert"
        PROVE  RowPending(guarded[d].at, guarded[d].prev)'
    <3>1. CASE d = c
      BY <2>1, <2>2, <2>3, <2>4, <3>1 DEF RowPending
    <3>2. CASE d # c
      <4>1. RowPending(guarded[d].at, guarded[d].prev)
        BY <2>2, <2>7, <3>2 DEF RowsKnown
      <4> QED
        BY <2>2, <2>4, <3>2, <4>1 DEF RowPending
    <3> QED
      BY <3>1, <3>2
  <2>8. verifying'.pc = "insert" => RowPending(verifying.at, verifying.prev)'
    BY <1>0, <2>4 DEF RowsKnown, RowPending
  <2>9. ASSUME NEW d \in GuardCalls, NEW e \in GuardCalls, guarded'[d].pc = "insert", guarded'[e].pc = "insert",
               d # e
        PROVE  guarded'[d].at # guarded'[e].at
    <3>1. CASE d = c
      BY <2>1, <2>2, <2>6, <2>9, <3>1
    <3>2. CASE e = c
      BY <2>1, <2>2, <2>6, <2>9, <3>2
    <3>3. CASE d # c /\ e # c
      BY <2>2, <2>9, <3>3 DEF RowsKnown
    <3> QED
      BY <3>1, <3>2, <3>3
  <2>10. ASSUME NEW d \in GuardCalls, guarded'[d].pc = "insert", verifying'.pc = "insert"
         PROVE  guarded'[d].at # verifying'.at
    <3>1. CASE d = c
      BY <1>0, <2>1, <2>2, <2>6, <3>1
    <3>2. CASE d # c
      BY <1>0, <2>2, <2>10, <3>2 DEF RowsKnown
    <3> QED
      BY <3>1, <3>2
  <2>11. deleted' = 0 /\ \A v \in violations' : v.prev < v.at
    BY <1>0 DEF RowsKnown
  <2> QED
    BY <2>7, <2>8, <2>9, <2>10, <2>11 DEF RowsKnown
<1> QED
  BY <1>1, <1>2 DEF Evaluate

\* So does reading the hash for an alarm.
LEMMA AlarmPends ==
    ASSUME GuardInv, RowsKnown, UNCHANGED allowed, ~May("tampering"), ReadForAlarm
    PROVE  RowsKnown'
<1>0. /\ UNCHANGED <<violations, deleted, guarded>> /\ clock' = clock + 1 /\ clock \in Nat
      /\ \A d \in GuardCalls : guarded[d].at \in Nat /\ guarded[d].at <= clock
  BY DEF ReadForAlarm, GuardInv, GuardTypeOK, TimesPass, GuardCall
<1>1. PICK h \in {LatestViolationHash} \cup (IF CacheFetchFails THEN {0} ELSE {}) :
         verifying' = [pc |-> "insert", at |-> clock', prev |-> h]
  BY DEF ReadForAlarm
<1>2. RowPending(clock', h)
  BY <1>0, LatestPends
<1>3. Ats' = Ats
  BY <1>0 DEF Ats
<1>4. RowPending(verifying.at, verifying.prev)'
  BY <1>1, <1>2, <1>3 DEF RowPending
<1>5. ASSUME NEW d \in GuardCalls, guarded'[d].pc = "insert"
      PROVE  RowPending(guarded[d].at, guarded[d].prev)' /\ guarded'[d].at # verifying'.at
  <2>1. RowPending(guarded[d].at, guarded[d].prev)
    BY <1>0, <1>5 DEF RowsKnown
  <2>2. guarded[d].at # clock'
    BY <1>0
  <2> QED
    BY <1>0, <1>1, <1>3, <2>1, <2>2 DEF RowPending
<1>6. deleted' = 0 /\ \A v \in violations' : v.prev < v.at
  BY <1>0 DEF RowsKnown
<1>7. \A c, d \in GuardCalls : guarded'[c].pc = "insert" /\ guarded'[d].pc = "insert" =>
         c = d \/ guarded'[c].at # guarded'[d].at
  BY <1>0 DEF RowsKnown
<1> QED
  BY <1>4, <1>5, <1>6, <1>7 DEF RowsKnown

\* Recording a breach writes the row of the request, or none.
LEMMA BreachExtends ==
    ASSUME GuardInv, RowsKnown, UNCHANGED allowed, ~May("tampering"), NEW c \in GuardCalls, CreateViolation(c)
    PROVE  RowsKnown' /\ (ViolationChain!Extend \/ UNCHANGED violations)
<1> DEFINE k == guarded[c]
           p == k.todo[1]
           rest == Tail(k.todo)
           Goes(pc) == IF pc \in GuardEnded THEN GuardEnds(c, pc)
                       ELSE guarded' = [guarded EXCEPT ![c] = [IdleCall EXCEPT !.pc = pc,
                               !.breach = guarded[c].breach, !.owed = guarded[c].owed,
                               !.todo = IF pc = "evaluate" THEN rest ELSE <<>>]]
<1>0. /\ k.pc = "insert" /\ UNCHANGED <<verifying, deleted>> /\ k \in GuardCall
      /\ guarded \in [GuardCalls -> GuardCall]
      /\ \/ violations' = violations \cup {RowOf(c)} /\ Goes(NextPolicy(p, rest))
         \/ UNCHANGED violations /\ Goes(AfterInsertFailure)
  BY CallNow DEF CreateViolation
<1>1. ASSUME NEW pc, pc # "insert", Goes(pc)
      PROVE  \E g : guarded' = [guarded EXCEPT ![c] = g] /\ g.pc # "insert"
  <2>1. CASE pc \in GuardEnded
    BY <1>1, <2>1, IdleCallForm DEF GuardEnds
  <2>2. CASE pc \notin GuardEnded
    <3> DEFINE g == [IdleCall EXCEPT !.pc = pc,
                               !.breach = guarded[c].breach, !.owed = guarded[c].owed,
                               !.todo = IF pc = "evaluate" THEN rest ELSE <<>>]
    <3>1. g.pc # "insert"
      BY <1>1 DEF IdleCall
    <3>2. guarded' = [guarded EXCEPT ![c] = g]
      BY <1>1, <2>2
    <3> QED
      BY <3>1, <3>2
  <2> QED
    BY <2>1, <2>2
<1>2. NextPolicy(p, rest) # "insert" /\ AfterInsertFailure # "insert"
  BY DEF NextPolicy, AfterInsertFailure
<1> HIDE DEF Goes
<1>3. PICK g : guarded' = [guarded EXCEPT ![c] = g] /\ g.pc # "insert"
  BY <1>0, <1>1, <1>2
<1>4. CASE UNCHANGED violations
  BY <1>0, <1>3, <1>4, OnePends
<1>5. CASE violations' = violations \cup {RowOf(c)}
  <2>1. /\ RowOf(c).at = k.at /\ RowOf(c).prev = k.prev /\ k.at \in Nat /\ k.prev \in Nat
    BY <1>0 DEF RowOf, GuardCall
  <2>2. RowPending(k.at, k.prev)
    BY <1>0 DEF RowsKnown
  <2>3. ViolationsLinear => (\A w \in violations : w.at < k.at) /\ Follows(k.prev, k.at)
    BY <1>0 DEF GuardInv, Linked, ViolationsLinear, RowsKnown
  <2>4. ASSUME NEW d \in GuardCalls, guarded'[d].pc = "insert"
        PROVE  guarded[d].pc = "insert" /\ guarded'[d] = guarded[d] /\ guarded[d].at # k.at
    <3>1. d # c /\ guarded'[d] = guarded[d]
      BY <1>0, <1>3, <2>4
    <3> QED
      BY <1>0, <2>4, <3>1 DEF RowsKnown
  <2>5. verifying'.pc = "insert" => verifying' = verifying /\ verifying.at # k.at
    BY <1>0 DEF RowsKnown
  <2> HIDE DEF k
  <2> DEFINE at == k.at
             prev == k.prev
             v == RowOf(c)
  <2>6. v.at = at /\ v.prev = prev /\ at \in Nat /\ prev \in Nat /\ violations' = violations \cup {v}
    BY <1>5, <2>1
  <2>7. \A d \in GuardCalls : guarded'[d].pc = "insert" =>
           /\ guarded[d].pc = "insert" /\ guarded'[d].at = guarded[d].at
           /\ guarded'[d].prev = guarded[d].prev /\ guarded[d].at # at
    BY <2>4
  <2> HIDE DEF v
  <2> QED
    BY <1>0, <2>2, <2>3, <2>5, <2>6, <2>7, PendingWritten
<1> QED
  BY <1>0, <1>4, <1>5

\* Raising an alarm writes its row, or none; never where requests do not overlap.
LEMMA AlarmExtends ==
    ASSUME GuardInv, RowsKnown, UNCHANGED allowed, ~May("tampering"), RaiseAlarm
    PROVE  RowsKnown' /\ (ViolationChain!Extend \/ UNCHANGED violations)
<1> DEFINE v == [at |-> verifying.at, prev |-> verifying.prev, of |-> None, policy |-> None, status |-> "OPEN"]
<1>1. /\ verifying.pc = "insert" /\ verifying'.pc = "idle"
      /\ violations' = violations \cup {v} \/ violations' = violations
      /\ UNCHANGED <<guarded, deleted>>
  BY DEF RaiseAlarm
<1>2. v.at = verifying.at /\ v.prev = verifying.prev /\ verifying.at \in Nat /\ verifying.prev \in Nat
  BY DEF GuardInv, GuardTypeOK
<1> HIDE DEF v
<1>3. RowPending(verifying.at, verifying.prev) /\ ~ViolationsLinear
  BY <1>1 DEF RowsKnown, GuardInv, Linked, ViolationsLinear
<1>4. \A d \in GuardCalls : guarded[d].pc = "insert" => guarded[d].at # verifying.at /\ guarded[d].at \notin Ats
  BY <1>1 DEF RowsKnown, RowPending
<1>5. CASE violations' = violations \cup {v}
  BY <1>1, <1>2, <1>3, <1>4, <1>5, PendingWritten
<1>6. CASE UNCHANGED violations
  <2>1. Ats' = Ats /\ \A w \in violations' : w.prev < w.at
    BY <1>6 DEF Ats, RowsKnown
  <2> QED
    BY <1>1, <1>4, <1>6, <2>1, StillPending
<1> QED
  BY <1>1, <1>5, <1>6

\* Another status leaves a row where it is in the chain.
LEMMA StatusKeepsLinks ==
    ASSUME GuardInv, RowsKnown, UNCHANGED allowed, ~May("tampering"), NEW v \in violations,
           UpdateViolationStatus(v)
    PROVE  RowsKnown' /\ UNCHANGED ViolationLinks
<1>0. UNCHANGED <<guarded, verifying, deleted>>
  BY DEF UpdateViolationStatus
<1>1. PICK s \in ViolationStatus : violations' = (violations \ {v}) \cup {[v EXCEPT !.status = s]}
  BY DEF UpdateViolationStatus
<1> DEFINE u == [v EXCEPT !.status = s]
<1>2. u.at = v.at /\ u.prev = v.prev
  BY DEF GuardInv, GuardTypeOK, Violation
<1> HIDE DEF u
<1>3. /\ \A w \in violations' : \E x \in violations : x.at = w.at /\ x.prev = w.prev
      /\ \A w \in violations : \E x \in violations' : x.at = w.at /\ x.prev = w.prev
  BY <1>1, <1>2 DEF u
<1>4. Ats' = Ats /\ \A w \in violations' : w.prev < w.at
  BY <1>3 DEF Ats, RowsKnown
<1>5. {<<w.at, w.prev>> : w \in violations'} = {<<w.at, w.prev>> : w \in violations}
  BY <1>3
<1>6. UNCHANGED ViolationLinks
  BY <1>5 DEF ViolationLinks, May
<1>7. /\ \A d \in GuardCalls : guarded[d].pc = "insert" => guarded[d].at \notin Ats
      /\ verifying.pc = "insert" => verifying.at \notin Ats
  BY DEF RowsKnown, RowPending
<1>8. RowsKnown'
  BY <1>0, <1>4, <1>7, StillPending
<1> QED
  BY <1>6, <1>8

\* Every step of the guard extends the chain of violations or leaves it alone.
LEMMA ViolationsStep ==
    ASSUME GuardInv, RowsKnown, UNCHANGED allowed, GuardNext
    PROVE  RowsKnown' /\ [ViolationChain!Extend]_<<ViolationLinks, ViolationsLinear>>
<1>0. UNCHANGED ViolationsLinear
  BY DEF ViolationsLinear, May, CacheFetchFails
<1>1. CASE May("tampering")
  BY <1>0, <1>1 DEF RowsKnown, ViolationLinks, May
<1>2. CASE ~May("tampering")
  <2>0. ASSUME UNCHANGED violations PROVE UNCHANGED ViolationLinks
    <3>1. May("tampering")' = May("tampering")
      BY DEF May
    <3> QED
      BY <2>0, <3>1 DEF ViolationLinks
  <2>1. ASSUME NEW c \in GuardCalls, Receive(c) \/ GuardStep(c)
        PROVE  RowsKnown' /\ [ViolationChain!Extend]_<<ViolationLinks, ViolationsLinear>>
    <3>1. CASE Evaluate(c)
      BY Zenon, <1>0, <1>2, <2>0, <3>1, EvaluationPends DEF Evaluate
    <3>2. CASE CreateViolation(c)
      BY <1>0, <1>2, <2>0, <3>2, BreachExtends
    <3>3. CASE \/ Receive(c) \/ FetchPolicies(c) \/ ApplyPolicies(c) \/ Grant(c) \/ Deny(c)
               \/ Serve(c) \/ LogUse(c)
      <4>1. RowsKnown' /\ UNCHANGED violations
        BY <3>3, RequestsPend
      <4> QED
        BY <1>0, <2>0, <4>1
    <3> QED
      BY Zenon, <2>1, <3>1, <3>2, <3>3 DEF GuardStep
  <2>2. CASE VerifyChain
    <3>1. verifying' = [verifying EXCEPT !.pc = "hash"] /\ UNCHANGED <<guarded, violations, deleted>>
      BY <2>2 DEF VerifyChain
    <3>2. verifying'.pc # "insert" /\ Ats' = Ats /\ \A w \in violations' : w.prev < w.at
      BY <1>2, <3>1 DEF GuardInv, GuardTypeOK, Ats, RowsKnown
    <3>3. \A d \in GuardCalls : guarded[d].pc = "insert" => guarded[d].at \notin Ats
      BY <1>2 DEF RowsKnown, RowPending
    <3>4. RowsKnown'
      BY <3>1, <3>2, <3>3, StillPending
    <3> QED
      BY <1>0, <2>0, <3>1, <3>4
  <2>3. CASE ReadForAlarm
    BY <1>0, <1>2, <2>0, <2>3, AlarmPends DEF ReadForAlarm
  <2>4. CASE RaiseAlarm
    BY <1>0, <1>2, <2>0, <2>4, AlarmExtends
  <2>5. ASSUME NEW q \in Policies, ChangePolicy(q)
        PROVE  RowsKnown' /\ UNCHANGED violations
    <3>1. /\ guarded' = [c \in GuardCalls |-> [guarded[c] EXCEPT !.owed = @ \ {q}]]
          /\ UNCHANGED <<violations, deleted, verifying>>
      BY <2>5 DEF ChangePolicy
    <3>2. ASSUME NEW d \in GuardCalls
          PROVE  guarded'[d].pc = guarded[d].pc /\ guarded'[d].at = guarded[d].at /\ guarded'[d].prev = guarded[d].prev
      <4>1. guarded[d] \in GuardCall /\ guarded'[d] = [guarded[d] EXCEPT !.owed = @ \ {q}]
        BY <3>1, CallNow
      <4> QED
        BY <4>1 DEF GuardCall
    <3> QED
      BY <3>1, <3>2, RequestPends
  <2>6. CASE PolicyCacheAges \/ GenerateReport
    <3>1. UNCHANGED <<guarded, violations, deleted, verifying>>
      BY <2>6 DEF PolicyCacheAges, GenerateReport, unchangedRows
    <3>2. RowsKnown'
      BY <3>1, RequestPends
    <3> QED
      BY <1>0, <2>0, <3>1, <3>2
  <2>7. ASSUME NEW v \in violations, UpdateViolationStatus(v)
        PROVE  RowsKnown' /\ UNCHANGED ViolationLinks
    BY <1>2, <2>7, StatusKeepsLinks
  <2> QED
    BY <1>0, <1>2, <2>0, <2>1, <2>2, <2>3, <2>4, <2>5, <2>6, <2>7 DEF GuardNext
<1> QED
  BY <1>1, <1>2

\* The platform with what is known of its chains.
ChainInv == IndInv /\ EventsKnown /\ ActsKnown /\ RowsKnown

LEMMA ChainsStart ==
    Init => EventsKnown /\ ActsKnown /\ RowsKnown /\ EventChain!Init /\ ActionChain!Init /\ ViolationChain!Init
<1> SUFFICES ASSUME Init
             PROVE  /\ EventsKnown /\ ActsKnown /\ RowsKnown
                    /\ EventChain!Init /\ ActionChain!Init /\ ViolationChain!Init
  OBVIOUS
<1>1. LogInit /\ SessionInit /\ GuardInit
  BY DEF Init
<1>2. EventLinks = {} /\ ActionLinks = {} /\ ViolationLinks = {}
  BY <1>1 DEF LogInit, SessionInit, GuardInit, EventLinks, ActionLinks, ViolationLinks
<1>3. EventsLinear \in BOOLEAN /\ ActionsLinear \in BOOLEAN /\ ViolationsLinear \in BOOLEAN
  BY DEF EventsLinear, ActionsLinear, ViolationsLinear
<1> QED
  BY <1>1, <1>2, <1>3, EventsKnownInit, ActsKnownInit, RowsKnownInit
  DEF EventChain!Init, ActionChain!Init, ViolationChain!Init

\* What a step leaves aside keeps its chain as it was.
LEMMA ChainsAside ==
    ASSUME UNCHANGED allowed
    PROVE  /\ EventsKnown /\ UNCHANGED logVars => EventsKnown' /\ UNCHANGED <<EventLinks, EventsLinear>>
           /\ ActsKnown /\ UNCHANGED sessionVars => ActsKnown' /\ UNCHANGED <<ActionLinks, ActionsLinear>>
           /\ RowsKnown /\ UNCHANGED guardVars => RowsKnown' /\ UNCHANGED <<ViolationLinks, ViolationsLinear>>
<1>1. ASSUME EventsKnown, UNCHANGED logVars PROVE EventsKnown' /\ UNCHANGED <<EventLinks, EventsLinear>>
  BY <1>1 DEF logVars, EventsKnown, StoredEvents, EventLinks, EventsLinear, May
<1>2. ASSUME ActsKnown, UNCHANGED sessionVars PROVE ActsKnown' /\ UNCHANGED <<ActionLinks, ActionsLinear>>
  BY <1>2 DEF sessionVars, ActsKnown, StoredActs, ActionLinks, ActionsLinear, May, FetchFails
<1>3. ASSUME RowsKnown, UNCHANGED guardVars PROVE RowsKnown' /\ UNCHANGED <<ViolationLinks, ViolationsLinear>>
  <2>1. UNCHANGED <<violations, deleted, guarded, verifying>>
    BY <1>3 DEF guardVars
  <2>2. Ats' = Ats /\ \A a, p : RowPending(a, p)' <=> RowPending(a, p)
    BY <2>1 DEF Ats, RowPending
  <2>3. May("tampering")' = May("tampering") /\ ViolationsLinear' = ViolationsLinear
    BY DEF May, ViolationsLinear, CacheFetchFails
  <2>4. RowsKnown'
    BY <1>3, <2>1, <2>2, <2>3 DEF RowsKnown, RowPending
  <2>5. ViolationLinks' = ViolationLinks
    BY <2>1, <2>3 DEF ViolationLinks
  <2> QED
    BY <2>3, <2>4, <2>5
<1> QED
  BY <1>1, <1>2, <1>3

LEMMA ChainsStep ==
    ASSUME ChainInv, [Next]_vars
    PROVE  /\ ChainInv'
           /\ [EventChain!Extend]_<<EventLinks, EventsLinear>>
           /\ [ActionChain!Extend]_<<ActionLinks, ActionsLinear>>
           /\ [ViolationChain!Extend]_<<ViolationLinks, ViolationsLinear>>
<1>0. UNCHANGED allowed /\ LogInv /\ SessInv /\ GuardInv /\ EventsKnown /\ ActsKnown /\ RowsKnown
  BY DEF ChainInv, IndInv, Next, vars
<1>1. EventsKnown' /\ [EventChain!Extend]_<<EventLinks, EventsLinear>>
  <2>1. LogNext \/ UNCHANGED logVars
    BY DEF Next, vars
  <2> QED
    BY <1>0, <2>1, EventsStep, ChainsAside
<1>2. ActsKnown' /\ [ActionChain!Extend]_<<ActionLinks, ActionsLinear>>
  <2>1. SessionNext \/ UNCHANGED sessionVars
    BY DEF Next, vars
  <2> QED
    BY <1>0, <2>1, ActionsStep, ChainsAside
<1>3. RowsKnown' /\ [ViolationChain!Extend]_<<ViolationLinks, ViolationsLinear>>
  <2>1. GuardNext \/ UNCHANGED guardVars
    BY DEF Next, vars
  <2> QED
    BY <1>0, <2>1, ViolationsStep, ChainsAside
<1> QED
  BY <1>1, <1>2, <1>3, StepHolds DEF ChainInv

\* The events, the actions of a session and, while nobody deletes rows, the violations are
\* chains in the sense of HashChain: whatever overlaps or fails, rows are written once, stay,
\* and name none or one that was there before; where HashChain's linear says so, the last.
THEOREM LogsAreChains == Spec => LogsAreChained
<1>1. Init => ChainInv
  BY InitHolds, ChainsStart DEF ChainInv
<1>2. ChainInv /\ [Next]_vars => ChainInv'
  BY ChainsStep
<1>3. Spec => []ChainInv
  BY <1>1, <1>2, PTL DEF Spec
<1>4. Spec => EventsAreChained
  <2>1. Init => EventChain!Init
    BY ChainsStart
  <2>2. ChainInv /\ [Next]_vars => [EventChain!Extend]_<<EventLinks, EventsLinear>>
    BY ChainsStep
  <2> QED
    BY <1>3, <2>1, <2>2, PTL DEF Spec, EventsAreChained, EventChain!Spec
<1>5. Spec => ActionsAreChained
  <2>1. Init => ActionChain!Init
    BY ChainsStart
  <2>2. ChainInv /\ [Next]_vars => [ActionChain!Extend]_<<ActionLinks, ActionsLinear>>
    BY ChainsStep
  <2> QED
    BY <1>3, <2>1, <2>2, PTL DEF Spec, ActionsAreChained, ActionChain!Spec
<1>6. Spec => ViolationsAreChained
  <2>1. Init => ViolationChain!Init
    BY ChainsStart
  <2>2. ChainInv /\ [Next]_vars => [ViolationChain!Extend]_<<ViolationLinks, ViolationsLinear>>
    BY ChainsStep
  <2> QED
    BY <1>3, <2>1, <2>2, PTL DEF Spec, ViolationsAreChained, ViolationChain!Spec
<1> QED
  BY <1>4, <1>5, <1>6 DEF LogsAreChained
=============================================================================
