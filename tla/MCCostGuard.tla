---------------------------- MODULE MCCostGuard -----------------------------
(* CostGuard for TLC: three turns of three sessions, one of them run as a  *)
(* whole; two calendar days; hours of two ticks.                           *)
EXTENDS CostGuard

CONSTANTS s1, s2, s3, chatA, chatB, chatC

MCSessionOf ==
  [s \in Tasks |-> CASE s = s1 -> chatA [] s = s2 -> chatB [] s = s3 -> chatC]
=============================================================================
