-------------------------------- MODULE MCKyc --------------------------------
(* Small instances of Kyc for TLC. *)
EXTENDS Kyc

\* Overlapping calls and failing queries, with and without failing writes.
MCEnvironments == {{"overlap", "reads"}, {"overlap", "reads", "writes"}}
MCCalm == {{}}
=============================================================================
