----------------------------- MODULE Settlement -----------------------------
(***************************************************************************)
(* What the payment subsystem promises about an invoice: it becomes paid   *)
(* only after a gateway has taken its price, and then stays paid.  How     *)
(* many webhooks, payments and snapshots lie in between is left open.      *)
(***************************************************************************)
CONSTANTS Invoices, Attempts

VARIABLES
    funds,   \* pairs <<gateway transaction, invoice>> whose money was taken
    paid     \* invoices settled

Init == funds = {} /\ paid = {}

Capture(a, i) ==
    /\ \A j \in Invoices : <<a, j>> \notin funds
    /\ funds' = funds \cup {<<a, i>>}
    /\ UNCHANGED paid

Settle(i) ==
    /\ i \notin paid
    /\ \E a \in Attempts : <<a, i>> \in funds
    /\ paid' = paid \cup {i}
    /\ UNCHANGED funds

Next ==
    \/ \E a \in Attempts, i \in Invoices : Capture(a, i)
    \/ \E i \in Invoices : Settle(i)

Spec == Init /\ [][Next]_<<funds, paid>>

=============================================================================
