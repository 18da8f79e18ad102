------------------------- MODULE MCPermissionPrompt -------------------------
(* PermissionPrompt for TLC: one tool that needs an escalation and one that *)
(* a workspace-write run may use freely, and the modes the window offers.   *)
EXTENDS PermissionPrompt, TLC

CONSTANTS bash, write_file

MCTools == {bash, write_file}
MCRequired == [t \in MCTools |->
                 IF t = bash THEN "DangerFullAccess" ELSE "WorkspaceWrite"]
MCBothDangerous == [t \in MCTools |-> "DangerFullAccess"]
MCUserModes == {"ReadOnly", "WorkspaceWrite"}

\* runs differ only in the mode they start in, and every mode is tried for each
RunSymmetry == Permutations(Runs)
=============================================================================
