------------------------------- MODULE MCRuns -------------------------------
(* Runs for TLC.                                                                *)
EXTENDS Runs
=============================================================================
