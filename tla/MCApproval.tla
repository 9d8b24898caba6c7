----------------------------- MODULE MCApproval -----------------------------
(* Small instances of Approval for TLC. *)
EXTENDS Approval, TLC

\* Two approvals for every request.
MCRequired == [r \in Requests |-> 2]

\* One call at a time, calls of different approvers at a time, any overlap without a
\* failure, and any overlap with every failure.
MCEnvironments == {{"writes"}, {"approvers", "writes"}, {"approvers", "calls"},
                   {"approvers", "calls", "reads", "writes"}}
MCOverlap == {{"approvers", "calls"}}

=============================================================================
