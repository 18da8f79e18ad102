---------------------------- MODULE MCStreamTurn ----------------------------
(* StreamTurn for TLC: the tool calls are model values, and the bounds are  *)
(* chosen in each cfg so that the two retries, an interim save, a second    *)
(* tool batch and a compaction all happen.                                  *)
EXTENDS StreamTurn, TLC

\* no definition tells one tool call from another
ToolSymmetry == Permutations(ToolIds)
=============================================================================
