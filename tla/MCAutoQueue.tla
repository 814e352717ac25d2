----------------------------- MODULE MCAutoQueue -----------------------------
(***************************************************************************)
(* AutoQueue for TLC: a short schedule, two competing supervisors, one job *)
(* that a person submits by hand.                                          *)
(***************************************************************************)
EXTENDS AutoQueue

=============================================================================
