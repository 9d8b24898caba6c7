------------------------------ MODULE HashChain ------------------------------
(***************************************************************************)
(* What a log promises whose rows each hold the hash of an earlier one: a  *)
(* row stays as it was written, is written once and names no row, or one   *)
(* that was there before it.  In a history said to be linear, rows come    *)
(* one by one and each names the last.  A hash stands for its row.         *)
(***************************************************************************)
CONSTANT Nothing   \* what a row holds that names none

VARIABLES
    links,   \* pairs of a row and the one it names
    linear   \* whether the log is to be linear; never changes

Kept == {l[1] : l \in links}
Named == {l[2] : l \in links}
Last == IF links = {} THEN {Nothing} ELSE Kept \ Named

Init == links = {} /\ linear \in BOOLEAN

\* A batch of rows, none of which names another.
Extend ==
    LET new == links' \ links IN
      /\ links \subseteq links'
      /\ \A l \in new : l[1] \notin Kept /\ l[2] \in Kept \cup {Nothing}
      /\ \A l, m \in new : l[1] = m[1] => l = m
      /\ linear => \E l \in new : new = {l} /\ l[2] \in Last
      /\ UNCHANGED linear

Spec == Init /\ [][Extend]_<<links, linear>>
=============================================================================
