----------------------------- MODULE MCPayments -----------------------------
(* Small instances of Payments for TLC. *)
EXTENDS Payments, TLC

MCAmount == [i \in Invoices |-> 100]

\* Histories without overlaps and lost writes, histories without lost writes, and
\* histories in which everything happens.
MCEnvironments == {{}, {"webhooks", "intents"}, {"webhooks", "intents", "writes"}}
MCCalm == {{}}
MCOverlap == {{"webhooks"}}

Symmetry == Permutations(Payments) \cup Permutations(Attempts)
              \cup Permutations(Intents) \cup Permutations(Webhooks)
=============================================================================
