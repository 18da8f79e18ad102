---------------------------- MODULE TurnContract ----------------------------
(***************************************************************************)
(* What one streaming turn promises to the window that started it and to   *)
(* the session file, without its tools, retries and events: the turn is    *)
(* refused or runs; it may announce errors while it runs; it closes, is    *)
(* written to the session, and only then is settled with a verdict.        *)
(***************************************************************************)
VARIABLES phase,    \* where the turn stands
          verdict   \* what the window has been told: "none", "error", "complete"

turn == <<phase, verdict>>

Phases == {"idle", "rejected", "running", "closing", "written", "settled", "lost"}
Verdicts == {"none", "error", "complete"}

Init == phase = "idle" /\ verdict = "none"

Refuse == phase = "idle" /\ phase' = "rejected" /\ UNCHANGED verdict

Start == phase = "idle" /\ phase' = "running" /\ UNCHANGED verdict

\* an error may be announced and the turn goes on
ReportError == phase = "running" /\ verdict' = "error" /\ UNCHANGED phase

\* the loop is left: silently, with an error, or with an early completion
Close ==
  /\ phase = "running" /\ phase' = "closing"
  /\ verdict' \in {verdict, "error", "complete"}

Write == phase = "closing" /\ phase' = "written" /\ UNCHANGED verdict

Settle ==
  /\ phase = "written" /\ phase' = "settled"
  /\ verdict' = IF verdict = "none" THEN "complete" ELSE verdict

Lose ==
  /\ phase \in {"running", "closing", "written"} /\ phase' = "lost"
  /\ UNCHANGED verdict

Next == Refuse \/ Start \/ ReportError \/ Close \/ Write \/ Settle \/ Lose

Spec == Init /\ [][Next]_turn
=============================================================================
