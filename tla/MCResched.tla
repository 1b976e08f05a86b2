----------------------------- MODULE MCResched -----------------------------
(***************************************************************************)
(* Instances of Resched for TLC.                                           *)
(***************************************************************************)
EXTENDS Resched, TLC

CONSTANTS s1, s2
=============================================================================
