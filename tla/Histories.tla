----------------------------- MODULE Histories ------------------------------
(***************************************************************************)
(* What the modules of the operations platform share: what may go wrong    *)
(* (and, where a module EXTENDing several components says so, which of     *)
(* them is active) in a history is chosen once and for all.                *)
(***************************************************************************)
CONSTANTS
    Environments,   \* the sets of flags considered, see each component
    None            \* no value

VARIABLE allowed    \* the flags of this history; never changes

May(flag) == flag \in allowed
=============================================================================
