----------------------------- MODULE MCHeldoutRun -----------------------------
(***************************************************************************)
(* HeldoutRun for TLC: a short schedule, a pool of two threads, and        *)
(* processes of two kinds at a time: a run and a resume wrapper, or a run  *)
(* and a reader.                                                           *)
(***************************************************************************)
EXTENDS HeldoutRun

=============================================================================
