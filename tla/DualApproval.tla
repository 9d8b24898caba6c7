---------------------------- MODULE DualApproval ----------------------------
(***************************************************************************)
(* What a dual-approval workflow promises (backend/src/ctdisr): a request  *)
(* is open until it is approved, rejected or expired; every approver has   *)
(* one vote and never changes it; one rejection rejects, and an approval   *)
(* takes the votes of Required different approvers and no rejection.  A    *)
(* vote cast in time may still be counted after the request expired.       *)
(***************************************************************************)
EXTENDS Integers, FiniteSets

CONSTANTS Requests, Approvers, Required

VARIABLES status, vote

dvars == <<status, vote>>

Voters(r, d) == {a \in Approvers : vote[r][a] = d}
TakesVotes(r) == status[r] \in {"PENDING", "EXPIRED"}

Init ==
    /\ status = [r \in Requests |-> "absent"]
    /\ vote = [r \in Requests |-> [a \in Approvers |-> "none"]]

Open(r) ==
    /\ status[r] = "absent"
    /\ status' = [status EXCEPT ![r] = "PENDING"]
    /\ UNCHANGED vote

Vote(r, a, d) ==
    /\ TakesVotes(r) /\ vote[r][a] = "none"
    /\ vote' = [vote EXCEPT ![r][a] = d]
    /\ UNCHANGED status

Approve(r) ==
    /\ TakesVotes(r) /\ Voters(r, "REJECT") = {}
    /\ Cardinality(Voters(r, "APPROVE")) >= Required[r]
    /\ status' = [status EXCEPT ![r] = "APPROVED"]
    /\ UNCHANGED vote

Reject(r) ==
    /\ TakesVotes(r) /\ Voters(r, "REJECT") # {}
    /\ status' = [status EXCEPT ![r] = "REJECTED"]
    /\ UNCHANGED vote

Expire(stale) ==
    /\ \A r \in stale : status[r] = "PENDING"
    /\ status' = [r \in Requests |-> IF r \in stale THEN "EXPIRED" ELSE status[r]]
    /\ UNCHANGED vote

Next ==
    \/ \E r \in Requests : \/ Open(r) \/ Approve(r) \/ Reject(r)
                           \/ \E a \in Approvers, d \in {"APPROVE", "REJECT"} : Vote(r, a, d)
    \/ \E stale \in SUBSET Requests : Expire(stale)

Spec == Init /\ [][Next]_dvars
=============================================================================
