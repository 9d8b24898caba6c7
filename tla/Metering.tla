------------------------------ MODULE Metering ------------------------------
(***************************************************************************)
(* What accounting promises about a session: its record follows the use of *)
(* the line.  It never counts what did not go through and is closed only   *)
(* after the session, for good.  Where reports keep their order and no     *)
(* counter wraps, the count never goes back, and a closed record holds the *)
(* final one.  How reports are sent, repeated and served is left open.     *)
(***************************************************************************)
EXTENDS Naturals

CONSTANT Sessions

VARIABLES
    used,    \* octets that went through
    over,    \* sessions that are over
    record,  \* status and octets
    plain    \* sessions whose reports keep their order and whose counter did not wrap

Init ==
    /\ used = [s \in Sessions |-> 0]
    /\ over = {}
    /\ record = [s \in Sessions |-> [status |-> "none", octets |-> 0]]
    /\ plain \in SUBSET Sessions

Use(s) ==
    /\ s \notin over
    /\ used' = [used EXCEPT ![s] = @ + 1]
    /\ plain' \in {plain, plain \ {s}}
    /\ UNCHANGED <<over, record>>

Finish(s) ==
    /\ over' = over \cup {s}
    /\ UNCHANGED <<used, record, plain>>

Open(s) ==
    /\ record[s].status = "none"
    /\ record' = [record EXCEPT ![s] = [status |-> "active", octets |-> 0]]
    /\ UNCHANGED <<used, over, plain>>

Count(s) ==
    /\ record[s].status # "none"
    /\ \E n \in 0 .. used[s], status \in {record[s].status, "closed"} :
          /\ record' = [record EXCEPT ![s] = [status |-> status, octets |-> n]]
          /\ status = "closed" => s \in over
          /\ s \in plain => n >= record[s].octets /\ (status = "closed" => n = used[s])
    /\ UNCHANGED <<used, over, plain>>

Next == \E s \in Sessions : Use(s) \/ Finish(s) \/ Open(s) \/ Count(s)

Spec == Init /\ [][Next]_<<used, over, record, plain>>
=============================================================================
