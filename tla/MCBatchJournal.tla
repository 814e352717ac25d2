--------------------------- MODULE MCBatchJournal ---------------------------
(***************************************************************************)
(* BatchJournal, with its refinement of EvidenceLog, for TLC.  The         *)
(* constants are model values and small numbers, given in the cfg; no      *)
(* symmetry is used, as the run also checks liveness.                      *)
(***************************************************************************)
EXTENDS BatchEvidence

=============================================================================
