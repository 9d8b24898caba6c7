----------------------- MODULE RadiusAccountingProofs -----------------------
(***************************************************************************)
(* Any network and any failures: a closed session stays closed and the     *)
(* records are true.  A NAS that waits, a network that repeats and loses   *)
(* but does not reorder, queries that do not fail and counters that do not *)
(* wrap: what was answered is stored, through any deaths of the service.   *)
(* A network that does not reorder and counters that do not wrap: the      *)
(* records follow the use of the line as Metering promises.                *)
(***************************************************************************)
EXTENDS RadiusAccounting, TLAPS

Numbers(s) == 1 .. Len(sent[s])

\* The packet being served was sent, and so was every report that was answered.
ServesSent ==
    /\ packet # Idle => packet.number \in Numbers(packet.session)
    /\ \A s \in Sessions : acked[s] \subseteq Numbers(s)

\* No report counts more than went through, a stop report follows the end, and none
\* comes before the start.
SentOf(s) ==
    /\ link[s] = "down" => Len(sent[s]) = 0
    /\ \A i \in Numbers(s) : /\ sent[s][i].octets <= moved[s]
                             /\ sent[s][i].kind = "stop" => link[s] = "ended"
SentIsTrue == \A s \in Sessions : SentOf(s)

IndInv == AccountingTypeOK /\ ServesSent /\ SentIsTrue /\ RecordsAreTrue

-----------------------------------------------------------------------------
(* The additional invariant of undisturbed histories.                      *)

Undisturbed == Ordered /\ \A s \in Sessions : moved[s] < Wrap

\* The report, once it is stored.
Done(s, i) ==
    /\ row[s].status # "none"
    /\ sent[s][i].kind = "stop" => row[s] = [status |-> "closed", octets |-> moved[s]]
Logged(s, i) == sent[s][i].kind # "start" => usage[s][i] > 0

\* A session sends its start first, then interims, and its stop last.
InOrder(s) ==
    /\ link[s] # "down" => Len(sent[s]) > 0
    /\ \A i \in Numbers(s) : sent[s][i].kind = "start" <=> i = 1
    /\ \A i \in Numbers(s) :
          sent[s][i].kind = "stop" => i = Len(sent[s]) /\ sent[s][i].octets = moved[s]

\* Only its last report can be unanswered, and what is answered is stored.
Answered(s) ==
    /\ 1 .. Len(sent[s]) - 1 \subseteq acked[s]
    /\ \A i \in acked[s] : Done(s, i) /\ Logged(s, i)

\* While an older copy is being served, the last report has no answer; and how far the
\* packet being served has got.
Serves(s, i) ==
    /\ i # Len(sent[s]) => Len(sent[s]) \notin acked[s]
    /\ packet.pc \in {"duplicate", "insert"} => sent[s][i].kind = "start"
    /\ packet.pc \in {"update", "usage"} => sent[s][i].kind # "start"
    /\ packet.pc \in {"usage", "reply"} => Done(s, i)
    /\ packet.pc = "reply" => Logged(s, i)

OrderedInv ==
    /\ \A s \in Sessions : InOrder(s) /\ Answered(s)
    /\ packet # Idle => Serves(packet.session, packet.number)

-----------------------------------------------------------------------------
(* Any network, any failures.                                              *)

LEMMA ModAtMost ==
    ASSUME NEW x \in Nat, NEW w \in Nat \ {0}
    PROVE  x % w \in Nat /\ x % w <= x /\ (x < w => x % w = x)
<1>1. x % w \in 0 .. w - 1
  BY SMT
<1>2. x < w => x % w = x
  BY SMT
<1> QED
  BY <1>1, <1>2, SMT

LEMMA InitHolds == AccountingInit => IndInv
BY RadiusAccountingAssumption
DEF AccountingInit, IndInv, AccountingTypeOK, ServesSent, SentIsTrue, SentOf, RecordsAreTrue, Numbers, Row, Report, Idle, Reports

\* What the NAS appends to the reports of a session.
LEMMA Appended ==
    ASSUME IndInv, NEW s \in Sessions, NEW kind \in Kinds, Send(s, kind),
           Len(sent[s]) < MaxReports
    PROVE  /\ sent' \in [Sessions -> Seq(Report)]
           /\ \A q \in Sessions \ {s} : sent'[q] = sent[q]
           /\ Len(sent'[s]) = Len(sent[s]) + 1 /\ Len(sent[s]) \in Nat
           /\ \A i \in Numbers(s) : sent'[s][i] = sent[s][i]
           /\ sent'[s][Len(sent[s]) + 1] = [kind |-> kind, octets |-> moved[s] % Wrap]
           /\ moved[s] \in Nat /\ moved[s] % Wrap \in Nat /\ moved[s] % Wrap <= moved[s]
           /\ moved[s] < Wrap => moved[s] % Wrap = moved[s]
<1> DEFINE r == [kind |-> kind, octets |-> moved[s] % Wrap]
<1>1. sent[s] \in Seq(Report) /\ moved[s] \in Nat
  BY RadiusAccountingAssumption DEF IndInv, AccountingTypeOK
<1>2. /\ moved[s] % Wrap \in Nat /\ moved[s] % Wrap <= moved[s]
      /\ moved[s] < Wrap => moved[s] % Wrap = moved[s]
  BY <1>1, ModAtMost, RadiusAccountingAssumption
<1>3. r \in Report
  BY <1>2 DEF Report
<1>4. sent' = [sent EXCEPT ![s] = Append(sent[s], r)]
  BY DEF Send
<1> HIDE DEF r
<1>5. /\ Append(sent[s], r) \in Seq(Report)
      /\ Len(Append(sent[s], r)) = Len(sent[s]) + 1 /\ Len(sent[s]) \in Nat
      /\ \A i \in Numbers(s) : Append(sent[s], r)[i] = sent[s][i]
      /\ Append(sent[s], r)[Len(sent[s]) + 1] = r
  BY <1>1, <1>3 DEF Numbers
<1>6. sent'[s] = Append(sent[s], r) /\ \A q \in Sessions \ {s} : sent'[q] = sent[q]
  BY <1>4 DEF IndInv, AccountingTypeOK
<1>7. sent' \in [Sessions -> Seq(Report)]
  BY <1>4, <1>5 DEF IndInv, AccountingTypeOK
<1> QED
  BY <1>1, <1>2, <1>5, <1>6, <1>7 DEF r

LEMMA SendKeeps ==
    ASSUME IndInv, NEW s \in Sessions, NEW kind \in Kinds, Send(s, kind),
           Len(sent[s]) < MaxReports, link[s] # "ended",
           NEW l \in {"up", "ended"}, link' = [link EXCEPT ![s] = l],
           kind = "stop" => l = "ended", UNCHANGED allowed
    PROVE  IndInv'
<1>1. UNCHANGED <<moved, acked, row, usage, packet, deaths>>
  BY DEF Send
<1>2. /\ sent' \in [Sessions -> Seq(Report)]
      /\ \A q \in Sessions \ {s} : sent'[q] = sent[q]
      /\ Len(sent'[s]) = Len(sent[s]) + 1 /\ Len(sent[s]) \in Nat
      /\ \A i \in Numbers(s) : sent'[s][i] = sent[s][i]
  BY Appended
<1>3. /\ sent'[s][Len(sent[s]) + 1].kind = kind
      /\ sent'[s][Len(sent[s]) + 1].octets <= moved[s]
  <2>1. sent'[s][Len(sent[s]) + 1] = [kind |-> kind, octets |-> moved[s] % Wrap]
    BY Appended
  <2>2. moved[s] % Wrap <= moved[s]
    BY Appended
  <2> QED
    BY <2>1, <2>2
<1>4. AccountingTypeOK'
  <2>1. \A q \in Sessions : Len(sent'[q]) <= MaxReports
    <3> SUFFICES ASSUME NEW q \in Sessions PROVE Len(sent'[q]) <= MaxReports
      OBVIOUS
    <3>1. CASE q = s
      BY <1>2, <3>1, RadiusAccountingAssumption
    <3>2. CASE q # s
      BY <1>2, <3>2 DEF IndInv, AccountingTypeOK
    <3> QED
      BY <3>1, <3>2
  <2>2. link' \in [Sessions -> {"down", "up", "ended"}]
    BY DEF IndInv, AccountingTypeOK
  <2> QED
    BY <1>1, <1>2, <2>1, <2>2 DEF IndInv, AccountingTypeOK
<1>5. \A q \in Sessions : Numbers(q) \subseteq Numbers(q)'
  <2> SUFFICES ASSUME NEW q \in Sessions PROVE Numbers(q) \subseteq Numbers(q)'
    OBVIOUS
  <2> QED
    BY <1>2 DEF Numbers
<1>6. ServesSent'
  <2>1. packet # Idle => packet.session \in Sessions
    BY DEF IndInv, AccountingTypeOK, Serving
  <2> QED
    BY <1>1, <1>5, <2>1 DEF IndInv, ServesSent
<1>7. SentIsTrue'
  <2> SUFFICES ASSUME NEW q \in Sessions PROVE SentOf(q)'
    BY DEF SentIsTrue
  <2>1. CASE q # s
    BY <1>1, <1>2, <2>1 DEF IndInv, AccountingTypeOK, SentIsTrue, SentOf, Numbers
  <2>2. CASE q = s
    <3>1. link'[s] = l
      BY DEF IndInv, AccountingTypeOK
    <3>2. \A i \in Numbers(s)' : i \in Numbers(s) \/ i = Len(sent[s]) + 1
      BY <1>2 DEF Numbers
    <3> SentOf(s)
      BY DEF IndInv, SentIsTrue
    <3>3. \A i \in Numbers(s) : sent[s][i].octets <= moved[s] /\ sent[s][i].kind # "stop"
      BY Zenon DEF SentOf
    <3> QED
      BY <1>1, <1>2, <1>3, <2>2, <3>1, <3>2, <3>3 DEF SentOf
  <2> QED
    BY <2>1, <2>2
<1>8. RecordsAreTrue'
  BY <1>1 DEF IndInv, AccountingTypeOK, RecordsAreTrue
<1> QED
  BY <1>4, <1>6, <1>7, <1>8 DEF IndInv

LEMMA NasKeeps ==
    ASSUME IndInv, NEW s \in Sessions,
           StartSession(s) \/ Transfer(s) \/ SendInterim(s) \/ EndSession(s),
           UNCHANGED allowed
    PROVE  IndInv'
<1> USE RadiusAccountingAssumption
<1>1. CASE StartSession(s)
  <2>1. Len(sent[s]) < MaxReports
    BY <1>1 DEF StartSession, IndInv, SentIsTrue, SentOf
  <2> QED
    BY <1>1, <2>1, SendKeeps DEF StartSession, Kinds
<1>2. CASE Transfer(s)
  <2>1. moved' \in [Sessions -> 0 .. MaxOctets] /\ \A q \in Sessions : moved[q] <= moved'[q]
    BY <1>2 DEF Transfer, IndInv, AccountingTypeOK
  <2>2. AccountingTypeOK'
    BY <1>2, <2>1 DEF Transfer, IndInv, AccountingTypeOK
  <2>3. \A q \in Sessions : row[q].octets \in Nat /\ moved[q] \in Nat /\ moved'[q] \in Nat
    BY <2>1 DEF IndInv, AccountingTypeOK, Row
  <2>4. RecordsAreTrue'
    BY <1>2, <2>1, <2>3 DEF Transfer, IndInv, RecordsAreTrue
  <2>5. \A q \in Sessions : \A i \in Numbers(q) : sent[q][i].octets \in Nat
    <3> SUFFICES ASSUME NEW q \in Sessions, NEW i \in Numbers(q) PROVE sent[q][i].octets \in Nat
      OBVIOUS
    <3>1. sent[q] \in Seq(Report) /\ i \in 1 .. Len(sent[q])
      BY DEF IndInv, AccountingTypeOK, Numbers
    <3>2. sent[q][i] \in Report
      BY <3>1
    <3> QED
      BY <3>2 DEF Report
  <2>6. SentIsTrue'
    <3> SUFFICES ASSUME NEW q \in Sessions PROVE SentOf(q)'
      BY DEF SentIsTrue
    <3>1. SentOf(q) /\ UNCHANGED <<link, sent>>
      BY <1>2 DEF IndInv, SentIsTrue, Transfer
    <3>2. \A i \in Numbers(q) : sent[q][i].octets <= moved'[q]
      BY <2>1, <2>3, <2>5, <3>1 DEF SentOf
    <3> QED
      BY <3>1, <3>2 DEF SentOf, Numbers
  <2> QED
    BY <1>2, <2>2, <2>4, <2>6 DEF Transfer, IndInv, ServesSent, Numbers
<1>3. CASE SendInterim(s)
  <2>1. link' = [link EXCEPT ![s] = "up"] /\ link[s] # "ended" /\ Len(sent[s]) < MaxReports
    BY <1>3 DEF SendInterim, IndInv, AccountingTypeOK
  <2> QED
    BY <1>3, <2>1, SendKeeps DEF SendInterim, Kinds
<1>4. CASE EndSession(s)
  BY <1>4, SendKeeps DEF EndSession, Kinds
<1> QED
  BY <1>1, <1>2, <1>3, <1>4

\* A step of the handler is taken for a report that was sent.
LEMMA CurrentReport ==
    ASSUME IndInv, packet # Idle
    PROVE  /\ packet \in Serving /\ packet.session \in Sessions
           /\ packet.number \in Numbers(packet.session) /\ packet.number \in Reports
           /\ Current \in Report /\ row[packet.session] \in Row
           /\ Current.octets <= moved[packet.session]
           /\ Current.kind = "stop" => link[packet.session] = "ended"
<1>1. packet \in Serving /\ packet.session \in Sessions /\ packet.number \in Reports
  BY DEF IndInv, AccountingTypeOK, Serving
<1>2. packet.number \in Numbers(packet.session)
  BY DEF IndInv, ServesSent
<1>3. SentOf(packet.session)
  BY <1>1 DEF IndInv, SentIsTrue
<1>4. sent[packet.session] \in Seq(Report)
  BY <1>1 DEF IndInv, AccountingTypeOK
<1>5. Current \in Report
  BY <1>2, <1>4 DEF Current, Numbers
<1> QED
  BY <1>1, <1>2, <1>3, <1>5 DEF Current, SentOf, IndInv, AccountingTypeOK

LEMMA ServeKeeps ==
    ASSUME IndInv, Serve, UNCHANGED allowed
    PROVE  IndInv'
<1> DEFINE s == packet.session
<1> USE DEF Serve, GetSubscriberOfPacket, IsSessionDuplicate, LogAccountingStart, UpdateSession, InsertUsage, Reply
<1>1. packet # Idle
  BY DEF At
<1>2. UNCHANGED <<link, moved, sent, deaths>>
  BY DEF Pass
<1>3. packet' = Idle \/ \E pc \in Steps : GotoQuery(pc)
  BY DEF Pass, Steps
<1>4. acked' = acked \/ acked' = [acked EXCEPT ![s] = @ \cup {packet.number}]
  BY DEF Pass
<1>5. \/ row' = row
      \/ row' = [row EXCEPT ![s] = [status |-> "active", octets |-> 0]]
      \/ row' = [row EXCEPT ![s] = Stored(row[s], Current)]
  BY DEF Pass
<1>6. usage' = usage \/ usage' = [usage EXCEPT ![s] = CountedUp(usage[s], packet.number)]
  BY DEF Pass
<1> USE DEF s
<1>7. packet' \in Serving \cup {Idle} /\ (packet' # Idle => packet'.session = s /\ packet'.number = packet.number)
  BY <1>1, <1>3, CurrentReport DEF GotoQuery, Serving
<1>8. acked' \in [Sessions -> SUBSET Reports] /\ \A q \in Sessions : acked'[q] \subseteq Numbers(q)
  <2>1. /\ acked \in [Sessions -> SUBSET Reports] /\ s \in Sessions /\ packet.number \in Reports
        /\ \A q \in Sessions : acked[q] \subseteq Numbers(q)
        /\ packet.number \in Numbers(s)
    BY <1>1, CurrentReport DEF IndInv, AccountingTypeOK, ServesSent
  <2> HIDE DEF s
  <2>2. CASE acked' = [acked EXCEPT ![s] = @ \cup {packet.number}]
    BY <2>1, <2>2
  <2> QED
    BY <1>4, <2>1, <2>2
<1>9. /\ row' \in [Sessions -> Row]
      /\ \A q \in Sessions : row'[q].octets <= moved[q] /\ (row'[q].status = "closed" => link[q] = "ended")
  <2>1. /\ row \in [Sessions -> Row] /\ s \in Sessions /\ moved[s] \in Nat
        /\ \A q \in Sessions : row[q].octets <= moved[q] /\ (row[q].status = "closed" => link[q] = "ended")
    BY <1>1, CurrentReport, RadiusAccountingAssumption DEF IndInv, AccountingTypeOK, RecordsAreTrue
  <2>2. CASE row' = row
    BY <2>1, <2>2
  <2>3. CASE row' = [row EXCEPT ![s] = [status |-> "active", octets |-> 0]]
    BY <2>1, <2>3 DEF Row
  <2>4. CASE row' = [row EXCEPT ![s] = Stored(row[s], Current)]
    <3>1. /\ Stored(row[s], Current) \in Row /\ Stored(row[s], Current).octets <= moved[s]
          /\ Stored(row[s], Current).status = "closed" => link[s] = "ended"
      BY <1>1, <2>1, CurrentReport DEF Stored, Row, Report
    <3> HIDE DEF s
    <3> QED
      BY <2>1, <2>4, <3>1
  <2> QED
    BY <1>5, <2>2, <2>3, <2>4
<1>10. usage' \in [Sessions -> [Reports -> 0 .. MaxRows]]
  <2>1. usage[s] \in [Reports -> 0 .. MaxRows] /\ packet.number \in Reports
    BY <1>1, CurrentReport DEF IndInv, AccountingTypeOK
  <2>2. CountedUp(usage[s], packet.number) \in [Reports -> 0 .. MaxRows]
    BY <2>1, RadiusAccountingAssumption DEF CountedUp
  <2> QED
    BY <1>1, <1>6, <2>2, CurrentReport DEF IndInv, AccountingTypeOK
<1>11. AccountingTypeOK'
  BY <1>2, <1>7, <1>8, <1>9, <1>10 DEF IndInv, AccountingTypeOK
<1>12. ServesSent'
  BY <1>1, <1>2, <1>7, <1>8, CurrentReport DEF ServesSent, Numbers
<1>13. SentIsTrue'
  BY <1>2 DEF IndInv, SentIsTrue, SentOf, Numbers
<1>14. RecordsAreTrue'
  BY <1>2, <1>9 DEF RecordsAreTrue
<1> QED
  BY <1>11, <1>12, <1>13, <1>14 DEF IndInv

LEMMA AllowedStays ==
    ASSUME [AccountingNext]_accountingVars
    PROVE  allowed' = allowed
BY DEF AccountingNext, accountingVars

LEMMA StepHolds == IndInv /\ [AccountingNext]_accountingVars => IndInv'
<1> SUFFICES ASSUME IndInv, [AccountingNext]_accountingVars PROVE IndInv'
  OBVIOUS
<1>0. allowed' = allowed
  BY AllowedStays
<1> USE <1>0
<1>1. ASSUME NEW s \in Sessions,
             StartSession(s) \/ Transfer(s) \/ SendInterim(s) \/ EndSession(s)
      PROVE  IndInv'
  BY <1>1, NasKeeps
<1>2. ASSUME NEW s \in Sessions, NEW i \in Reports, Receive(s, i)
      PROVE  IndInv'
  BY <1>2 DEF Receive, IndInv, AccountingTypeOK, ServesSent, SentIsTrue, SentOf, RecordsAreTrue, Numbers,
              Serving, Steps
<1>3. CASE Serve
  BY <1>3, ServeKeeps
<1>4. CASE Die
  <2>1. deaths' \in 0 .. MaxDeaths
    BY <1>4, RadiusAccountingAssumption DEF Die, IndInv, AccountingTypeOK
  <2> QED
    BY <1>4, <2>1
    DEF Die, IndInv, AccountingTypeOK, ServesSent, SentIsTrue, SentOf, RecordsAreTrue, Numbers
<1>5. CASE UNCHANGED accountingVars
  BY <1>5 DEF accountingVars, IndInv, AccountingTypeOK, ServesSent, SentIsTrue, SentOf, RecordsAreTrue, Numbers
<1> QED
  BY <1>1, <1>2, <1>3, <1>4, <1>5 DEF AccountingNext, AccountingStep

LEMMA Inductive == AccountingSpec => []IndInv
BY InitHolds, StepHolds, PTL DEF AccountingSpec

\* Every variable keeps its type.
THEOREM TypeCorrect == AccountingSpec => []AccountingTypeOK
<1>1. IndInv => AccountingTypeOK
  BY DEF IndInv
<1> QED
  BY <1>1, Inductive, PTL

\* Whatever the network and the database do, radius_sessions never says of a session
\* that it ended before it did, nor that it moved more than it had.
THEOREM RecordsStayTrue == AccountingSpec => []RecordsAreTrue
<1>1. IndInv => RecordsAreTrue
  BY DEF IndInv
<1> QED
  BY <1>1, Inductive, PTL

\* And no report opens a closed session again.
THEOREM ClosedForGood == AccountingSpec => ClosedStaysClosed
<1> DEFINE Kept == \A s \in Sessions : row[s].status = "closed" => row'[s].status = "closed"
<1>1. IndInv /\ [AccountingNext]_accountingVars => [Kept]_accountingVars
  <2> SUFFICES ASSUME IndInv, AccountingNext PROVE Kept
    OBVIOUS
  <2>1. \/ row' = row
        \/ /\ row[packet.session].status = "none"
           /\ row' = [row EXCEPT ![packet.session] = [status |-> "active", octets |-> 0]]
        \/ row' = [row EXCEPT ![packet.session] = Stored(row[packet.session], Current)]
    BY DEF AccountingNext, AccountingStep, StartSession, Transfer, SendInterim, EndSession, Send, Receive, Serve, Die, GetSubscriberOfPacket,
           IsSessionDuplicate, LogAccountingStart, UpdateSession, InsertUsage, Reply, Pass
  <2>2. row \in [Sessions -> Row]
    BY DEF IndInv, AccountingTypeOK
  <2> QED
    BY <2>1, <2>2 DEF Stored, Row
<1> QED
  BY <1>1, Inductive, PTL DEF AccountingSpec, ClosedStaysClosed

-----------------------------------------------------------------------------
(* A network that keeps the order, and no failure but death.               *)

LEMMA InitOrdered == AccountingInit => OrderedInv
BY DEF AccountingInit, OrderedInv, InOrder, Answered, Numbers, Idle

LEMMA SendOrders ==
    ASSUME Undisturbed, IndInv, OrderedInv, NEW s \in Sessions, NEW kind \in Kinds, Send(s, kind),
           Len(sent[s]) < MaxReports, link[s] # "ended",
           NEW l \in {"up", "ended"}, link' = [link EXCEPT ![s] = l],
           kind = "start" <=> link[s] = "down"
    PROVE  OrderedInv'
<1> DEFINE n == Len(sent[s])
<1>1. UNCHANGED <<moved, acked, row, usage, packet>> /\ acked[s] = 1 .. n
  BY DEF Send, Undisturbed, Ordered
<1>2. /\ \A q \in Sessions \ {s} : sent'[q] = sent[q]
      /\ Len(sent'[s]) = n + 1 /\ n \in Nat
      /\ \A i \in Numbers(s) : sent'[s][i] = sent[s][i]
  BY Appended
<1>3. sent'[s][n + 1].kind = kind /\ sent'[s][n + 1].octets = moved[s]
  <2>1. sent'[s][n + 1] = [kind |-> kind, octets |-> moved[s] % Wrap]
    BY Appended
  <2>2. moved[s] \in 0 .. MaxOctets /\ moved[s] < Wrap
    BY RadiusAccountingAssumption DEF IndInv, AccountingTypeOK, Undisturbed, Ordered
  <2>3. moved[s] % Wrap = moved[s]
    BY <2>2, Appended
  <2> QED
    BY <2>1, <2>3
<1>4. /\ n = 0 <=> link[s] = "down"
      /\ \A i \in Numbers(s) : sent[s][i].kind # "stop" /\ (sent[s][i].kind = "start" <=> i = 1)
  <2>1. SentOf(s) /\ InOrder(s)
    BY DEF IndInv, SentIsTrue, OrderedInv
  <2> QED
    BY <2>1, <1>2 DEF SentOf, InOrder
<1>5. ASSUME NEW q \in Sessions PROVE InOrder(q)' /\ Answered(q)'
  <2>1. InOrder(q) /\ Answered(q)
    BY DEF OrderedInv
  <2>2. CASE q # s
    <3>1. sent'[q] = sent[q] /\ link'[q] = link[q]
      BY <1>2, <2>2 DEF IndInv, AccountingTypeOK
    <3> QED
      BY <1>1, <2>1, <3>1 DEF InOrder, Answered, Numbers, Done, Logged
  <2>3. CASE q = s
    <3>1. \A i \in Numbers(s)' : i \in Numbers(s) \/ i = n + 1
      BY <1>2 DEF Numbers
    <3>2. InOrder(s)'
      <4>1. Len(sent'[s]) > 0 /\ Len(sent'[s]) = n + 1
        BY <1>2
      <4>2. ASSUME NEW i \in Numbers(s)' PROVE sent'[s][i].kind = "start" <=> i = 1
        BY <1>2, <1>3, <1>4, <3>1, <4>2
      <4>3. ASSUME NEW i \in Numbers(s)', sent'[s][i].kind = "stop"
            PROVE  i = n + 1 /\ sent'[s][i].octets = moved[s]
        BY <1>2, <1>3, <1>4, <3>1, <4>3
      <4> QED
        BY <1>1, <4>1, <4>2, <4>3 DEF InOrder, Numbers
    <3>3. Answered(s)'
      BY <1>1, <1>2, <2>1, <2>3 DEF Answered, Numbers, Done, Logged
    <3> QED
      BY <2>3, <3>2, <3>3
  <2> QED
    BY <2>2, <2>3
<1>6. ASSUME packet # Idle PROVE Serves(packet.session, packet.number)'
  <2>1. packet.session \in Sessions /\ packet.number \in Numbers(packet.session)
    BY <1>6, CurrentReport
  <2>2. Serves(packet.session, packet.number)
    BY <1>6 DEF OrderedInv
  <2>3. CASE packet.session # s
    BY <1>1, <1>2, <2>1, <2>2, <2>3 DEF Serves, Done, Logged
  <2>4. CASE packet.session = s
    <3>1. sent'[s][packet.number] = sent[s][packet.number] /\ Len(sent'[s]) \notin acked'[s]
      BY <1>1, <1>2, <2>1, <2>4
    <3> QED
      BY <1>1, <2>2, <2>4, <3>1 DEF Serves, Done, Logged
  <2> QED
    BY <2>3, <2>4
<1> QED
  BY <1>1, <1>5, <1>6 DEF OrderedInv

LEMMA NasOrders ==
    ASSUME Undisturbed, IndInv, OrderedInv, NEW s \in Sessions,
           StartSession(s) \/ Transfer(s) \/ SendInterim(s) \/ EndSession(s)
    PROVE  OrderedInv'
<1> USE RadiusAccountingAssumption
<1>1. CASE StartSession(s)
  <2>1. Len(sent[s]) < MaxReports
    BY <1>1 DEF StartSession, IndInv, SentIsTrue, SentOf
  <2> QED
    BY <1>1, <2>1, SendOrders DEF StartSession, Kinds
<1>2. CASE Transfer(s)
  <2>1. /\ UNCHANGED <<link, sent, acked, row, usage, packet>>
        /\ \A q \in Sessions \ {s} : moved'[q] = moved[q]
    BY <1>2 DEF Transfer, IndInv, AccountingTypeOK
  <2>2. \A i \in Numbers(s) : sent[s][i].kind # "stop"
    <3>1. SentOf(s)
      BY DEF IndInv, SentIsTrue
    <3> QED
      BY <1>2, <3>1 DEF SentOf, Transfer
  <2>3. acked[s] \subseteq Numbers(s)
    BY DEF IndInv, ServesSent
  <2>4. ASSUME NEW q \in Sessions PROVE InOrder(q)' /\ Answered(q)'
    <3>1. InOrder(q) /\ Answered(q)
      BY DEF OrderedInv
    <3> QED
      BY <2>1, <2>2, <2>3, <3>1 DEF InOrder, Answered, Numbers, Done, Logged
  <2>5. ASSUME packet # Idle PROVE Serves(packet.session, packet.number)'
    <3>1. /\ packet.session \in Sessions /\ packet.number \in Numbers(packet.session)
          /\ Serves(packet.session, packet.number)
      BY <2>5, CurrentReport DEF OrderedInv
    <3> QED
      BY <2>1, <2>2, <3>1 DEF Serves, Done, Logged
  <2> QED
    BY <2>1, <2>4, <2>5 DEF OrderedInv
<1>3. CASE SendInterim(s)
  <2>1. link' = [link EXCEPT ![s] = "up"] /\ link[s] = "up" /\ Len(sent[s]) < MaxReports
    BY <1>3 DEF SendInterim, IndInv, AccountingTypeOK
  <2> QED
    BY <1>3, <2>1, SendOrders DEF SendInterim, Kinds
<1>4. CASE EndSession(s)
  BY <1>4, SendOrders DEF EndSession, Kinds
<1> QED
  BY <1>1, <1>2, <1>3, <1>4

\* What a step of the handler need not show again: the other sessions, and what does
\* not change of its own.
LEMMA OthersKeep ==
    ASSUME IndInv, OrderedInv, UNCHANGED <<link, moved, sent>>,
           NEW s \in Sessions, NEW n \in Reports,
           \A q \in Sessions \ {s} : acked'[q] = acked[q] /\ row'[q] = row[q] /\ usage'[q] = usage[q],
           Answered(s)',
           packet' # Idle => packet'.session = s /\ packet'.number = n /\ Serves(s, n)'
    PROVE  OrderedInv'
<1>1. ASSUME NEW q \in Sessions PROVE InOrder(q)' /\ Answered(q)'
  <2>1. InOrder(q) /\ Answered(q)
    BY DEF OrderedInv
  <2>2. CASE q = s
    BY <2>1, <2>2 DEF InOrder, Numbers
  <2>3. CASE q # s
    BY <2>1, <2>3 DEF InOrder, Answered, Numbers, Done, Logged
  <2> QED
    BY <2>2, <2>3
<1> QED
  BY <1>1 DEF OrderedInv

\* The start was stored before any other report of the session was sent.
LEMMA StartIsStored ==
    ASSUME IndInv, OrderedInv, packet # Idle, Current.kind # "start"
    PROVE  row[packet.session].status # "none"
<1> DEFINE s == packet.session
<1>1. s \in Sessions /\ packet.number \in Numbers(s) /\ Len(sent[s]) \in Nat
  BY CurrentReport DEF IndInv, AccountingTypeOK
<1>2. InOrder(s) /\ Answered(s)
  BY <1>1 DEF OrderedInv
<1>3. packet.number # 1
  BY <1>1, <1>2 DEF InOrder, Current
<1>4. 1 \in acked[s]
  BY <1>1, <1>2, <1>3 DEF Answered, Numbers
<1> QED
  BY <1>2, <1>4 DEF Answered, Done

LEMMA ServeOrders ==
    ASSUME Undisturbed, IndInv, OrderedInv, Serve
    PROVE  OrderedInv'
<1>0. packet # Idle
  BY DEF Serve, GetSubscriberOfPacket, IsSessionDuplicate, LogAccountingStart, UpdateSession, InsertUsage, Reply, At
<1> PICK s \in Sessions, n \in Reports : s = packet.session /\ n = packet.number
  BY <1>0, CurrentReport
<1>1. /\ n \in Numbers(s) /\ packet \in Serving
      /\ Current = sent[s][n] /\ row[s] \in Row /\ row \in [Sessions -> Row]
      /\ usage \in [Sessions -> [Reports -> 0 .. MaxRows]] /\ acked \in [Sessions -> SUBSET Reports]
  BY <1>0, CurrentReport DEF Current, IndInv, AccountingTypeOK
<1>2. InOrder(s) /\ Answered(s) /\ Serves(s, n)
  BY <1>0, <1>1 DEF OrderedInv
<1>3. ASSUME NEW pc \in Steps, Pass(pc),
             pc \in {"duplicate", "insert"} => Current.kind = "start",
             pc \in {"update", "usage"} => Current.kind # "start",
             pc \in {"usage", "reply"} => Done(s, n),
             pc = "reply" => Logged(s, n)
      PROVE  OrderedInv'
  <2>1. packet' # Idle => packet'.session = s /\ packet'.number = n /\ packet'.pc = pc
    BY <1>1, <1>3 DEF Pass, GotoQuery, Serving
  <2>2. Answered(s)'
    BY <1>2, <1>3 DEF Answered, Done, Logged, Pass
  <2>3. packet' # Idle => Serves(s, n)'
    BY <1>1, <1>2, <1>3, <2>1 DEF Serves, Done, Logged, Pass
  <2> QED
    BY <1>0, <1>3, <2>1, <2>2, <2>3, OthersKeep DEF Pass
<1>4. CASE GetSubscriberOfPacket
  <2>1. CASE Current.kind = "start" /\ Pass("duplicate")
    BY <1>3, <2>1 DEF Steps
  <2>2. CASE Current.kind # "start" /\ Pass("update")
    BY <1>3, <2>2 DEF Steps
  <2> QED
    BY <1>4, <2>1, <2>2 DEF GetSubscriberOfPacket, Undisturbed, Ordered
<1>5. ASSUME packet.pc \in {"duplicate", "insert"}, row[s].status # "none", Pass("reply")
      PROVE  OrderedInv'
  <2>1. Current.kind = "start"
    BY <1>1, <1>2, <1>5 DEF Serves
  <2> QED
    BY <1>1, <1>3, <1>5, <2>1 DEF Done, Logged, Steps
<1>6. CASE IsSessionDuplicate
  <2>1. packet.pc = "duplicate"
    BY <1>6 DEF IsSessionDuplicate, At
  <2>2. CASE row[s].status # "none" /\ Pass("reply")
    BY <1>5, <2>1, <2>2
  <2>3. CASE Pass("insert")
    BY <1>1, <1>2, <1>3, <2>1, <2>3 DEF Serves, Steps
  <2> QED
    BY <1>6, <2>2, <2>3 DEF IsSessionDuplicate
<1>7. CASE LogAccountingStart
  <2>1. packet.pc = "insert" /\ Current.kind = "start"
    BY <1>1, <1>2, <1>7 DEF LogAccountingStart, At, Serves
  <2>2. CASE row[s].status # "none" /\ Pass("reply")
    BY <1>5, <2>1, <2>2
  <2>3. CASE /\ row[s].status = "none"
             /\ row' = [row EXCEPT ![s] = [status |-> "active", octets |-> 0]]
             /\ GotoQuery("reply")
             /\ UNCHANGED <<link, moved, sent, acked, usage, deaths>>
    <3>1. packet'.session = s /\ packet'.number = n /\ packet'.pc = "reply"
      BY <1>1, <2>3 DEF GotoQuery, Serving
    <3>2. acked[s] = {}
      BY <1>2, <2>3 DEF Answered, Done
    <3>3. Answered(s)'
      BY <1>2, <2>3, <3>2 DEF Answered
    <3>4. Serves(s, n)'
      BY <1>1, <1>2, <2>1, <2>3, <3>1, <3>2 DEF Serves, Done, Logged
    <3>5. \A q \in Sessions \ {s} : row'[q] = row[q]
      BY <1>1, <2>3
    <3> QED
      BY <1>0, <2>3, <3>1, <3>3, <3>4, <3>5, OthersKeep
  <2> QED
    BY <1>7, <2>2, <2>3 DEF LogAccountingStart, Undisturbed, Ordered
<1>8. CASE UpdateSession
  <2>1. packet.pc = "update" /\ Current.kind # "start"
    BY <1>1, <1>2, <1>8 DEF UpdateSession, At, Serves
  <2>2. row[s].status # "none"
    BY <1>0, <2>1, StartIsStored
  <2>3. /\ row' = [row EXCEPT ![s] = Stored(row[s], Current)]
        /\ GotoQuery("usage")
        /\ UNCHANGED <<link, moved, sent, acked, usage, deaths>>
    BY <1>8, <2>2 DEF UpdateSession, Undisturbed, Ordered
  <2>4. packet'.session = s /\ packet'.number = n /\ packet'.pc = "usage"
    BY <1>1, <2>3 DEF GotoQuery, Serving
  <2>5. row'[s] = Stored(row[s], Current) /\ \A q \in Sessions \ {s} : row'[q] = row[q]
    BY <1>1, <2>3
  <2>6. Done(s, n)'
    BY <1>1, <1>2, <2>2, <2>3, <2>5 DEF Done, Stored, InOrder
  <2>7. Answered(s)'
    <3> SUFFICES ASSUME NEW i \in acked[s] PROVE Done(s, i)'
      BY <1>2, <2>3 DEF Answered, Logged
    <3>1. i \in Numbers(s)
      BY <1>1 DEF IndInv, ServesSent
    <3>2. CASE sent[s][i].kind = "stop"
      <4>1. i = Len(sent[s])
        BY <1>2, <3>1, <3>2 DEF InOrder
      <4>2. i = n
        BY <1>2, <4>1 DEF Serves
      <4> QED
        BY <2>6, <4>2
    <3>3. CASE sent[s][i].kind # "stop"
      BY <2>2, <2>3, <2>5, <3>3 DEF Done, Stored
    <3> QED
      BY <3>2, <3>3
  <2>8. Serves(s, n)'
    BY <1>1, <1>2, <2>1, <2>3, <2>4, <2>6 DEF Serves
  <2> QED
    BY <1>0, <2>3, <2>4, <2>5, <2>7, <2>8, OthersKeep
<1>9. CASE InsertUsage
  <2>1. packet.pc = "usage" /\ Done(s, n)
    BY <1>2, <1>9 DEF InsertUsage, At, Serves
  <2>2. /\ usage' = [usage EXCEPT ![s] = CountedUp(usage[s], n)]
        /\ GotoQuery("reply")
        /\ UNCHANGED <<link, moved, sent, acked, row, deaths>>
    BY <1>9 DEF InsertUsage, Undisturbed, Ordered
  <2>3. packet'.session = s /\ packet'.number = n /\ packet'.pc = "reply"
    BY <1>1, <2>2 DEF GotoQuery, Serving
  <2>4. usage'[s] = CountedUp(usage[s], n) /\ \A q \in Sessions \ {s} : usage'[q] = usage[q]
    BY <1>1, <2>2
  <2>5. usage[s] \in [Reports -> 0 .. MaxRows]
    BY <1>1
  <2>6. usage'[s][n] > 0 /\ \A i \in Reports : usage[s][i] > 0 => usage'[s][i] > 0
    BY <1>1, <2>4, <2>5, RadiusAccountingAssumption DEF CountedUp
  <2>7. Answered(s)'
    BY <1>1, <1>2, <2>2, <2>6 DEF Answered, Done, Logged
  <2>8. Serves(s, n)'
    BY <1>1, <1>2, <2>1, <2>2, <2>3, <2>6 DEF Serves, Done, Logged
  <2> QED
    BY <1>0, <2>2, <2>3, <2>4, <2>7, <2>8, OthersKeep
<1>10. CASE Reply
  <2>1. Done(s, n) /\ Logged(s, n)
    BY <1>2, <1>10 DEF Reply, At, Serves
  <2>2. /\ packet' = Idle /\ UNCHANGED <<link, moved, sent, row, usage>>
        /\ acked' = [acked EXCEPT ![s] = acked[s] \cup {n}] \/ acked' = acked
    BY <1>10 DEF Reply
  <2>3. \A q \in Sessions \ {s} : acked'[q] = acked[q]
    BY <1>1, <2>2
  <2>4. acked[s] \subseteq acked'[s] /\ acked'[s] \subseteq acked[s] \cup {n}
    BY <1>1, <2>2
  <2>5. Answered(s)'
    BY <1>2, <2>1, <2>2, <2>4 DEF Answered, Done, Logged
  <2> QED
    BY <1>0, <2>2, <2>3, <2>5, OthersKeep
<1> QED
  BY <1>4, <1>6, <1>7, <1>8, <1>9, <1>10 DEF Serve

LEMMA StepOrders == Undisturbed /\ IndInv /\ OrderedInv /\ [AccountingNext]_accountingVars => OrderedInv'
<1> SUFFICES ASSUME Undisturbed, IndInv, OrderedInv, [AccountingNext]_accountingVars PROVE OrderedInv'
  OBVIOUS
<1>1. ASSUME NEW s \in Sessions,
             StartSession(s) \/ Transfer(s) \/ SendInterim(s) \/ EndSession(s)
      PROVE  OrderedInv'
  BY <1>1, NasOrders
<1>2. ASSUME NEW s \in Sessions, NEW i \in Reports, Receive(s, i)
      PROVE  OrderedInv'
  BY <1>2 DEF Receive, Undisturbed, Ordered, OrderedInv, InOrder, Answered, Serves, Numbers, Done, Logged
<1>3. CASE Serve
  BY <1>3, ServeOrders
<1>4. CASE Die
  BY <1>4 DEF Die, OrderedInv, InOrder, Answered, Numbers, Done, Logged
<1>5. CASE UNCHANGED accountingVars
  BY <1>5 DEF accountingVars, OrderedInv, InOrder, Answered, Serves, Numbers, Done, Logged
<1> QED
  BY <1>1, <1>2, <1>3, <1>4, <1>5 DEF AccountingNext, AccountingStep

\* A history that wrapped stays one.
LEMMA DisturbedForGood ==
    ASSUME IndInv, [AccountingNext]_accountingVars, Undisturbed'
    PROVE  Undisturbed
<1>1. Ordered
  BY AllowedStays DEF Undisturbed, Ordered, Late, Pipelined, DbMayFail, May
<1>2. ASSUME NEW s \in Sessions PROVE moved[s] < Wrap
  <2>1. moved[s] \in Nat /\ moved \in [Sessions -> 0 .. MaxOctets] /\ moved'[s] < Wrap
    BY <1>2, RadiusAccountingAssumption DEF IndInv, AccountingTypeOK, Undisturbed
  <2>2. moved' = moved \/ \E q \in Sessions : moved' = [moved EXCEPT ![q] = moved[q] + 1]
    BY DEF AccountingNext, AccountingStep, StartSession, Transfer, SendInterim, EndSession, Send, Receive, Serve, Die,
           GetSubscriberOfPacket, IsSessionDuplicate, LogAccountingStart, UpdateSession, InsertUsage,
           Reply, Pass, accountingVars
  <2> QED
    BY <2>1, <2>2, RadiusAccountingAssumption
<1> QED
  BY <1>1, <1>2 DEF Undisturbed

\* If the NAS waits for its answers, copies keep their order and no query fails, then, as
\* long as no counter wraps, what the service answered is stored, whenever it died.
THEOREM AnsweredIsStored == AccountingSpec => []OrderedIsStored
<1> DEFINE Inv == Undisturbed => OrderedInv
<1>1. AccountingInit => Inv
  BY InitOrdered
<1>2. IndInv /\ Inv /\ [AccountingNext]_accountingVars => Inv'
  BY StepOrders, DisturbedForGood
<1>3. Inv => OrderedIsStored
  BY DEF OrderedInv, Answered, Done, Logged, AcknowledgedIsStored, OrderedIsStored, Undisturbed
<1> QED
  BY <1>1, <1>2, <1>3, Inductive, PTL DEF AccountingSpec
-----------------------------------------------------------------------------
(* The records follow the use of the line.                                 *)

\* The reports of a session keep their order, and its counter did not wrap.
Plain(s) == ~Late /\ moved[s] < Wrap

\* Then later reports count more, and a stop report counts everything.
Growing(s) ==
    /\ \A i, j \in Numbers(s) : i <= j => sent[s][i].octets <= sent[s][j].octets
    /\ \A i \in Numbers(s) : sent[s][i].kind = "stop" => sent[s][i].octets = moved[s]

\* And the row is behind the last report and the one being served.
Behind(s) ==
    /\ \A i \in Numbers(s) : i = Len(sent[s]) => row[s].octets <= sent[s][i].octets
    /\ packet # Idle /\ packet.session = s => row[s].octets <= sent[s][packet.number].octets
    /\ row[s].status = "closed" => row[s].octets = moved[s]

MeterInv == \A s \in Sessions : Plain(s) => Growing(s) /\ Behind(s)

LEMMA InitMeters == AccountingInit => MeterInv
BY DEF AccountingInit, MeterInv, Growing, Behind, Numbers, Idle

\* A session that is plain now always was.
LEMMA PlainBefore ==
    ASSUME IndInv, [AccountingNext]_accountingVars, NEW s \in Sessions, Plain(s)'
    PROVE  Plain(s)
<1>1. ~Late
  BY AllowedStays DEF Plain, Late, May
<1>2. moved[s] \in Nat /\ moved \in [Sessions -> 0 .. MaxOctets] /\ moved'[s] < Wrap
  BY RadiusAccountingAssumption DEF IndInv, AccountingTypeOK, Plain
<1>3. moved' = moved \/ \E q \in Sessions : moved' = [moved EXCEPT ![q] = moved[q] + 1]
  BY DEF AccountingNext, AccountingStep, StartSession, Transfer, SendInterim, EndSession, Send, Receive, Serve, Die,
         GetSubscriberOfPacket, IsSessionDuplicate, LogAccountingStart, UpdateSession, InsertUsage,
         Reply, Pass, accountingVars
<1> QED
  BY <1>1, <1>2, <1>3, RadiusAccountingAssumption DEF Plain

\* What is counted are numbers.
LEMMA Counts ==
    ASSUME IndInv, NEW s \in Sessions
    PROVE  /\ moved[s] \in Nat /\ row[s].octets \in Nat /\ Len(sent[s]) \in Nat
           /\ row[s] \in Row /\ row[s].octets <= moved[s]
           /\ \A i \in Numbers(s) : sent[s][i].octets \in Nat /\ sent[s][i].octets <= moved[s]
<1>1. sent[s] \in Seq(Report) /\ row[s] \in Row /\ SentOf(s) /\ row[s].octets <= moved[s]
  BY DEF IndInv, AccountingTypeOK, SentIsTrue, RecordsAreTrue
<1>2. \A i \in 1 .. Len(sent[s]) : sent[s][i] \in Report
  BY <1>1
<1>3. moved[s] \in Nat
  BY RadiusAccountingAssumption DEF IndInv, AccountingTypeOK
<1> QED
  BY <1>1, <1>2, <1>3 DEF Report, Row, SentOf, Numbers

\* A report counts all that went through.
LEMMA SendMeters ==
    ASSUME IndInv, MeterInv, NEW s \in Sessions, NEW kind \in Kinds, Send(s, kind),
           Len(sent[s]) < MaxReports, UNCHANGED allowed
    PROVE  MeterInv'
<1> DEFINE n == Len(sent[s])
<1>1. UNCHANGED <<moved, row, packet>>
  BY DEF Send
<1>2. /\ \A q \in Sessions \ {s} : sent'[q] = sent[q]
      /\ Len(sent'[s]) = n + 1 /\ n \in Nat
      /\ \A i \in Numbers(s) : sent'[s][i] = sent[s][i]
  BY Appended
<1> SUFFICES ASSUME NEW q \in Sessions, Plain(q)' PROVE Growing(q)' /\ Behind(q)'
  BY DEF MeterInv
<1>3. Plain(q) /\ Growing(q) /\ Behind(q)
  BY <1>1 DEF Plain, MeterInv, Late, May
<1>4. CASE q # s
  BY <1>1, <1>2, <1>3, <1>4 DEF Growing, Behind, Numbers
<1>5. CASE q = s
  <2>1. sent'[s][n + 1].octets = moved[s]
    <3>1. sent'[s][n + 1] = [kind |-> kind, octets |-> moved[s] % Wrap]
      BY Appended
    <3>2. moved[s] % Wrap = moved[s]
      BY <1>3, <1>5, Appended DEF Plain
    <3> QED
      BY <3>1, <3>2
  <2>2. \A i \in Numbers(s)' : i \in Numbers(s) \/ i = n + 1
    BY <1>2 DEF Numbers
  <2>3. /\ moved[s] \in Nat /\ row[s].octets <= moved[s]
        /\ \A i \in Numbers(s) : sent[s][i].octets \in Nat /\ sent[s][i].octets <= moved[s] /\ i < n + 1
    BY <1>2, Counts DEF Numbers
  <2>4. ASSUME NEW i \in Numbers(s)', NEW j \in Numbers(s)', i <= j
        PROVE  sent'[s][i].octets <= sent'[s][j].octets
    <3>1. CASE j = n + 1
      BY <1>2, <2>1, <2>2, <2>3, <3>1
    <3>2. CASE j \in Numbers(s)
      <4>1. i \in Numbers(s)
        BY <2>2, <2>3, <2>4, <3>2, <1>2 DEF Numbers
      <4> QED
        BY <1>2, <1>3, <1>5, <2>4, <3>2, <4>1 DEF Growing
    <3> QED
      BY <2>2, <3>1, <3>2
  <2>5. \A i \in Numbers(s)' : sent'[s][i].kind = "stop" => sent'[s][i].octets = moved[s]
    BY <1>2, <1>3, <1>5, <2>1, <2>2 DEF Growing
  <2>6. Growing(s)'
    BY <1>1, <2>4, <2>5 DEF Growing
  <2>7. packet # Idle /\ packet.session = s => packet.number \in Numbers(s)
    BY CurrentReport
  <2>8. Behind(s)'
    <3>1. \A i \in Numbers(s)' : i = Len(sent'[s]) => row[s].octets <= sent'[s][i].octets
      BY <1>2, <2>1, <2>3
    <3>2. packet # Idle /\ packet.session = s => row[s].octets <= sent'[s][packet.number].octets
      BY <1>2, <1>3, <1>5, <2>7 DEF Behind
    <3>3. row[s].status = "closed" => row[s].octets = moved[s]
      BY <1>3, <1>5 DEF Behind
    <3> QED
      BY <1>1, <3>1, <3>2, <3>3 DEF Behind
  <2> QED
    BY <1>5, <2>6, <2>8
<1> QED
  BY <1>4, <1>5

\* More goes through.
LEMMA TransferMeters ==
    ASSUME IndInv, MeterInv, NEW s \in Sessions, Transfer(s), UNCHANGED allowed
    PROVE  MeterInv'
<1>1. /\ UNCHANGED <<link, sent, row, packet>> /\ moved' = [moved EXCEPT ![s] = @ + 1]
      /\ link[s] = "up"
  BY DEF Transfer
<1> SUFFICES ASSUME NEW q \in Sessions, Plain(q)' PROVE Growing(q)' /\ Behind(q)'
  BY DEF MeterInv
<1>2. Plain(q) /\ (q # s => moved'[q] = moved[q])
  <2>1. moved[q] \in Nat /\ moved \in [Sessions -> 0 .. MaxOctets]
    BY Counts DEF IndInv, AccountingTypeOK
  <2> QED
    BY <1>1, <2>1, RadiusAccountingAssumption DEF Plain, Late, May
<1>3. Growing(q) /\ Behind(q)
  BY <1>2 DEF MeterInv
<1>4. (\A i \in Numbers(s) : sent[s][i].kind # "stop") /\ row[s].status # "closed"
  <2>1. SentOf(s) /\ (row[s].status = "closed" => link[s] = "ended")
    BY DEF IndInv, SentIsTrue, RecordsAreTrue
  <2> QED
    BY <1>1, <2>1 DEF SentOf
<1> QED
  BY <1>1, <1>2, <1>3, <1>4 DEF Growing, Behind, Numbers

\* The report being served counts no less than the row.
LEMMA ServeMeters ==
    ASSUME IndInv, MeterInv, Serve, UNCHANGED allowed
    PROVE  MeterInv'
<1> USE DEF Serve, GetSubscriberOfPacket, IsSessionDuplicate, LogAccountingStart, UpdateSession, InsertUsage, Reply
<1>1. packet # Idle /\ UNCHANGED <<link, moved, sent>>
  BY DEF At, Pass
<1> PICK s \in Sessions, n \in Reports : s = packet.session /\ n = packet.number /\ n \in Numbers(s)
  BY <1>1, CurrentReport
<1>2. packet' # Idle => packet'.session = s /\ packet'.number = n
  <2>1. packet' = Idle \/ \E pc \in Steps : GotoQuery(pc)
    BY DEF Pass, Steps
  <2> QED
    BY <1>1, <2>1, CurrentReport DEF GotoQuery, Serving
<1>3. \/ row' = row
      \/ row' = [row EXCEPT ![s] = [status |-> "active", octets |-> 0]]
      \/ row' = [row EXCEPT ![s] = Stored(row[s], sent[s][n])]
  BY DEF Pass, Current
<1> HIDE DEF Serve, GetSubscriberOfPacket, IsSessionDuplicate, LogAccountingStart, UpdateSession, InsertUsage, Reply
<1> SUFFICES ASSUME NEW q \in Sessions, Plain(q)' PROVE Growing(q)' /\ Behind(q)'
  BY DEF MeterInv
<1>4. Growing(q) /\ Behind(q)
  BY <1>1 DEF Plain, MeterInv, Late, May
<1>5. Growing(q)'
  BY <1>1, <1>4 DEF Growing, Numbers
<1>6. row \in [Sessions -> Row] /\ (q # s => row'[q] = row[q])
  BY <1>3 DEF IndInv, AccountingTypeOK
<1>7. CASE q # s
  BY <1>1, <1>2, <1>4, <1>5, <1>6, <1>7 DEF Behind, Numbers
<1>8. CASE q = s
  <2>1. /\ moved[s] \in Nat /\ row[s].octets \in Nat /\ Len(sent[s]) \in Nat /\ row[s] \in Row
        /\ \A i \in Numbers(s) : sent[s][i].octets \in Nat /\ sent[s][i].octets <= moved[s]
    BY Counts
  <2>2. \A i \in Numbers(s) : i = Len(sent[s]) => sent[s][n].octets <= sent[s][i].octets
    <3>1. \A i \in Numbers(s) : i = Len(sent[s]) => n <= i
      BY <2>1 DEF Numbers
    <3> QED
      BY <1>4, <1>8, <3>1 DEF Growing
  <2>3. row[s].octets <= sent[s][n].octets
    BY <1>1, <1>4, <1>8 DEF Behind
  <2>4. CASE row' = row
    BY <1>1, <1>2, <1>4, <1>5, <1>8, <2>3, <2>4 DEF Behind, Numbers
  <2>5. CASE row' = [row EXCEPT ![s] = [status |-> "active", octets |-> 0]]
    <3>1. row'[s] = [status |-> "active", octets |-> 0]
      BY <1>6, <2>5
    <3> QED
      BY <1>1, <1>2, <1>5, <1>8, <2>1, <3>1 DEF Behind, Numbers
  <2>6. CASE row' = [row EXCEPT ![s] = Stored(row[s], sent[s][n])]
    <3>1. row'[s] = Stored(row[s], sent[s][n])
      BY <1>6, <2>6
    <3>2. row'[s].octets = sent[s][n].octets
      BY <3>1 DEF Stored
    <3>3. row'[s].status = "closed" => sent[s][n].octets = moved[s]
      <4>1. CASE sent[s][n].kind = "stop"
        BY <1>4, <1>8, <4>1 DEF Growing
      <4>2. CASE row[s].status = "closed"
        BY <1>4, <1>8, <2>1, <2>3, <4>2 DEF Behind
      <4> QED
        BY <3>1, <4>1, <4>2 DEF Stored
    <3> QED
      BY <1>1, <1>2, <1>5, <1>8, <2>1, <2>2, <3>2, <3>3 DEF Behind, Numbers
  <2> QED
    BY <1>3, <2>4, <2>5, <2>6
<1> QED
  BY <1>7, <1>8

LEMMA StepMeters == IndInv /\ MeterInv /\ [AccountingNext]_accountingVars => MeterInv'
<1> SUFFICES ASSUME IndInv, MeterInv, [AccountingNext]_accountingVars PROVE MeterInv'
  OBVIOUS
<1>0. allowed' = allowed
  BY AllowedStays
<1>1. ASSUME NEW s \in Sessions, StartSession(s) PROVE MeterInv'
  <2>1. Len(sent[s]) < MaxReports
    BY <1>1, RadiusAccountingAssumption DEF StartSession, IndInv, SentIsTrue, SentOf
  <2> QED
    BY <1>0, <1>1, <2>1, SendMeters DEF StartSession, Kinds
<1>2. ASSUME NEW s \in Sessions, Transfer(s) PROVE MeterInv'
  BY <1>0, <1>2, TransferMeters
<1>3. ASSUME NEW s \in Sessions, SendInterim(s) PROVE MeterInv'
  <2>1. Len(sent[s]) < MaxReports
    BY <1>3, Counts, RadiusAccountingAssumption DEF SendInterim
  <2> QED
    BY <1>0, <1>3, <2>1, SendMeters DEF SendInterim, Kinds
<1>4. ASSUME NEW s \in Sessions, EndSession(s) PROVE MeterInv'
  BY <1>0, <1>4, SendMeters DEF EndSession, Kinds
<1>5. ASSUME NEW s \in Sessions, NEW i \in Reports, Receive(s, i) PROVE MeterInv'
  <2>1. /\ UNCHANGED <<link, moved, sent, row>> /\ i \in Numbers(s) /\ (Late \/ i = Len(sent[s]))
        /\ packet' = [pc |-> "customer", session |-> s, number |-> i]
    BY <1>5 DEF Receive, Numbers
  <2> SUFFICES ASSUME NEW q \in Sessions, Plain(q)' PROVE Growing(q)' /\ Behind(q)'
    BY DEF MeterInv
  <2>2. Plain(q) /\ Growing(q) /\ Behind(q)
    BY <1>0, <2>1 DEF Plain, MeterInv, Late, May
  <2>3. packet'.session = s /\ packet'.number = i
    BY <2>1
  <2> QED
    BY <2>1, <2>2, <2>3 DEF Growing, Behind, Numbers, Plain
<1>6. CASE Serve
  BY <1>0, <1>6, ServeMeters
<1>7. CASE Die
  BY <1>0, <1>7 DEF Die, MeterInv, Growing, Behind, Plain, Numbers, Late, May
<1>8. CASE UNCHANGED accountingVars
  BY <1>8 DEF accountingVars, MeterInv, Growing, Behind, Plain, Numbers, Late, May
<1> QED
  BY <1>1, <1>2, <1>3, <1>4, <1>5, <1>6, <1>7, <1>8 DEF AccountingNext, AccountingStep

\* The variables of Metering.
Over == {s \in Sessions : link[s] = "ended"}
PlainOnes == {s \in Sessions : ~Late /\ moved[s] < Wrap}

\* A step of the NAS uses the line, ends the session or is none of the promise's business.
LEMMA NasStep ==
    ASSUME IndInv, NEW s \in Sessions, UNCHANGED allowed,
           StartSession(s) \/ Transfer(s) \/ SendInterim(s) \/ EndSession(s)
    PROVE  Meter!Use(s) \/ Meter!Finish(s) \/ UNCHANGED <<moved, Over, row, PlainOnes>>
<1>1. link \in [Sessions -> {"down", "up", "ended"}] /\ moved \in [Sessions -> 0 .. MaxOctets]
  BY DEF IndInv, AccountingTypeOK
<1>2. CASE Transfer(s)
  <2>1. UNCHANGED <<Over, row>> /\ s \notin Over /\ moved' = [moved EXCEPT ![s] = @ + 1]
    BY <1>2 DEF Transfer, Over
  <2>2. \A q \in Sessions : /\ q # s => moved'[q] = moved[q]
                            /\ moved[q] \in Nat /\ moved'[s] = moved[s] + 1
    BY <1>1, <2>1, RadiusAccountingAssumption
  <2>3. PlainOnes' \in {PlainOnes, PlainOnes \ {s}}
    <3>1. \A q \in Sessions : q # s => (q \in PlainOnes' <=> q \in PlainOnes)
      BY <2>2 DEF PlainOnes, Late, May
    <3> QED
      BY <2>2, <3>1, RadiusAccountingAssumption DEF PlainOnes, Late, May
  <2> QED
    BY <2>1, <2>3 DEF Meter!Use, Over, PlainOnes
<1>3. CASE EndSession(s)
  <2>1. UNCHANGED <<moved, row>> /\ link' = [link EXCEPT ![s] = "ended"]
    BY <1>3 DEF EndSession, Send
  <2>2. Over' = Over \cup {s} /\ PlainOnes' = PlainOnes
    BY <1>1, <2>1 DEF Over, PlainOnes, Late, May
  <2> QED
    BY <2>1, <2>2 DEF Meter!Finish, Over, PlainOnes
<1>4. CASE StartSession(s) \/ SendInterim(s)
  <2>1. UNCHANGED <<moved, row>> /\ (link' = link \/ (link[s] = "down" /\ link' = [link EXCEPT ![s] = "up"]))
    BY <1>4 DEF StartSession, SendInterim, Send
  <2> QED
    BY <1>1, <2>1 DEF Over, PlainOnes, Late, May
<1> QED
  BY <1>2, <1>3, <1>4

\* A step of the handler opens or counts, or changes nothing of the row.
LEMMA ServeStep ==
    ASSUME IndInv, MeterInv, Serve, UNCHANGED allowed
    PROVE  \/ \E s \in Sessions : Meter!Open(s) \/ Meter!Count(s)
           \/ UNCHANGED <<moved, Over, row, PlainOnes>>
<1> USE DEF Serve, GetSubscriberOfPacket, IsSessionDuplicate, LogAccountingStart, UpdateSession, InsertUsage, Reply
<1>1. packet # Idle /\ UNCHANGED <<link, moved, sent>>
  BY DEF At, Pass
<1> PICK s \in Sessions, n \in Reports : s = packet.session /\ n = packet.number /\ n \in Numbers(s)
  BY <1>1, CurrentReport
<1>2. \/ row' = row
      \/ /\ row[s].status = "none"
         /\ row' = [row EXCEPT ![s] = [status |-> "active", octets |-> 0]]
      \/ /\ row[s].status # "none"
         /\ row' = [row EXCEPT ![s] = Stored(row[s], sent[s][n])]
  BY DEF Pass, Current
<1> HIDE DEF Serve, GetSubscriberOfPacket, IsSessionDuplicate, LogAccountingStart, UpdateSession, InsertUsage, Reply
<1>3. UNCHANGED <<moved, Over, PlainOnes>>
  BY <1>1 DEF Over, PlainOnes, Late, May
<1>4. ASSUME row[s].status = "none", row' = [row EXCEPT ![s] = [status |-> "active", octets |-> 0]]
      PROVE  Meter!Open(s)
  BY <1>3, <1>4 DEF Meter!Open, Over, PlainOnes
<1>5. ASSUME row[s].status # "none", row' = [row EXCEPT ![s] = Stored(row[s], sent[s][n])]
      PROVE  Meter!Count(s)
  <2> PICK r \in Report : r = sent[s][n]
    BY <1>1, CurrentReport DEF Current
  <2>1. r.octets \in 0 .. moved[s]
    BY Counts
  <2>2. PICK status \in {row[s].status, "closed"} : status = Stored(row[s], r).status
    BY DEF Stored
  <2>3. Stored(row[s], r) = [status |-> status, octets |-> r.octets]
    BY <2>2 DEF Stored
  <2>4. status = "closed" => s \in Over
    <3>1. (row[s].status = "closed" => link[s] = "ended") /\ (r.kind = "stop" => link[s] = "ended")
      BY <1>1, CurrentReport DEF IndInv, RecordsAreTrue, Current
    <3> QED
      BY <2>2, <3>1 DEF Over, Stored
  <2>5. ASSUME s \in PlainOnes PROVE r.octets >= row[s].octets /\ (status = "closed" => r.octets = moved[s])
    <3>1. Growing(s) /\ Behind(s)
      BY <2>5 DEF PlainOnes, MeterInv, Plain
    <3>2. row[s].octets <= r.octets
      BY <1>1, <3>1 DEF Behind
    <3>3. r.octets \in Nat /\ row[s].octets \in Nat /\ moved[s] \in Nat /\ r.octets <= moved[s]
      BY Counts
    <3>4. status = "closed" => r.kind = "stop" \/ row[s].status = "closed"
      BY <2>2 DEF Stored
    <3>5. r.kind = "stop" => r.octets = moved[s]
      BY <3>1 DEF Growing
    <3>6. row[s].status = "closed" => r.octets = moved[s]
      BY <3>1, <3>2, <3>3 DEF Behind
    <3> QED
      BY <3>2, <3>3, <3>4, <3>5, <3>6
  <2> QED
    BY <1>3, <1>5, <2>1, <2>3, <2>4, <2>5 DEF Meter!Count, Over, PlainOnes
<1> QED
  BY <1>2, <1>3, <1>4, <1>5

LEMMA MeterStep ==
    ASSUME IndInv, MeterInv, [AccountingNext]_accountingVars
    PROVE  [Meter!Next]_<<moved, Over, row, PlainOnes>>
<1>0. allowed' = allowed
  BY AllowedStays
<1>1. ASSUME NEW s \in Sessions,
             StartSession(s) \/ Transfer(s) \/ SendInterim(s) \/ EndSession(s)
      PROVE  [Meter!Next]_<<moved, Over, row, PlainOnes>>
  BY <1>0, <1>1, NasStep DEF Meter!Next
<1>2. CASE Serve
  BY <1>0, <1>2, ServeStep DEF Meter!Next
<1>3. CASE (\E s \in Sessions, i \in Reports : Receive(s, i)) \/ Die \/ UNCHANGED accountingVars
  BY <1>0, <1>3 DEF Receive, Die, accountingVars, Over, PlainOnes, Late, May
<1> QED
  BY <1>1, <1>2, <1>3 DEF AccountingNext, AccountingStep

\* The service keeps what Metering promises: a record counts nothing that did not go through
\* and, where copies keep their order and the counter does not wrap, never goes back and
\* closes with the final count, whatever is repeated, pipelined, fails or dies.
THEOREM MeteringImplemented == AccountingSpec => ImplementsMetering
<1>1. AccountingInit => Meter!Init
  BY DEF AccountingInit, Meter!Init
<1>2. AccountingSpec => []MeterInv
  BY InitMeters, StepMeters, Inductive, PTL DEF AccountingSpec
<1>3. IndInv /\ MeterInv /\ [AccountingNext]_accountingVars => [Meter!Next]_<<moved, Over, row, PlainOnes>>
  BY MeterStep
<1> QED
  BY <1>1, <1>2, <1>3, Inductive, PTL DEF AccountingSpec, ImplementsMetering, Meter!Spec, Over, PlainOnes
=============================================================================
