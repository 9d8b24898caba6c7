------------------------------ MODULE MCRadius ------------------------------
(* The RADIUS service: authentication and accounting, which share one event *)
(* loop and no table.  A small instance of each; a history is about one.    *)
EXTENDS RadiusAuth, RadiusAccounting

\* Authentication without failures and with all; accounting with every combination of
\* what may go wrong.
MCEnvironments ==
    {{"authentication"}, {"authentication", "reads", "writes"}}
      \cup {{"accounting"} \cup E : E \in SUBSET {"late", "pipelined", "queries"}}

\* Every variable has its type.
RadiusTypeOK == TypeOK /\ AccountingTypeOK

RadiusInit ==
    /\ Init /\ AccountingInit
    /\ May("accounting") =>
          \A u \in Users : account[u] = "active" /\ ~overdue[u] /\ ~subscribed[u]
RadiusNext ==
    \/ /\ May("authentication") /\ Next
       /\ UNCHANGED <<link, moved, sent, acked, row, usage, packet, deaths>>
    \/ /\ May("accounting") /\ AccountingNext
       /\ UNCHANGED <<account, overdue, subscribed, failed, genuine, serving, arrived>>
RadiusSpec == RadiusInit /\ [][RadiusNext]_<<vars, accountingVars>> /\ AccountingFairness
=============================================================================
