-------------------------- MODULE MCRequestHistory --------------------------
(* The instance TLC checks: two ids, short and long texts, and budgets that *)
(* cut in the middle of a pair, of a batch, and behind the notice.          *)
EXTENDS RequestHistory, TLC

CONSTANTS a, b

Symmetric == Permutations({a, b})
=============================================================================
