--------------------------- MODULE MCMemoryDaily ----------------------------
(* The instance TLC checks: two tasks, two days, two summaries. *)
EXTENDS MemoryDaily, TLC

CONSTANTS w1, w2

MCPipeline == <<"Week", "Longterm">>

\* bound: summaries, days and recorded failures together, and the watchdog taking
\* the flag of a living run, which lets two daily runs loose, for two of them
Few ==
  fails["Week"] + fails["Longterm"] + fails["Today"] + fails["Rolling"]
    + rolled.n + day + (IF repaired THEN 2 ELSE 0) <= 3

WorkerSymmetry == Permutations(Workers)
=============================================================================
