-------------------------- MODULE PermissionPrompt --------------------------
(***************************************************************************)
(* How the tool calls of one session get their permission: the policy and  *)
(* the remembered decisions of run_stream_task, the blocking prompter, the *)
(* record that survives a reload, the dialog of the window, and the        *)
(* respond_permission and get_pending_permission commands.                 *)
(*                                                                         *)
(* A run is one streaming task.  The window treats a session as free again *)
(* as soon as the stop command returns, so two runs of the same session    *)
(* may overlap.  Every batch of tool calls makes a channel of its own and  *)
(* puts its sender in the one entry that permission_senders has for the    *)
(* session; the sender it replaces is dropped.  Answers carry no request   *)
(* id: they go to whichever channel the entry holds.                       *)
(***************************************************************************)
EXTENDS Integers, Sequences, FiniteSets

CONSTANTS
  Runs,        \* streaming tasks of the session
  Tools,       \* tool names
  Required,    \* tool_requirements: the mode each tool needs
  UserModes,   \* modes the user starts runs in
  None,        \* no run, no prompt
  MaxCalls,    \* bound of the model: tool calls in the session
  MaxAnswers   \* bound of the model: clicks in the dialog

\* PermissionMode, in the order its derived Ord gives it
Rank == [ReadOnly |-> 0, WorkspaceWrite |-> 1, DangerFullAccess |-> 2,
         Prompt |-> 3, Allow |-> 4]
Modes == DOMAIN Rank

ASSUME RequiredAssumption == Required \in [Tools -> Modes]
ASSUME UserModesAssumption == UserModes \subseteq Modes
ASSUME BoundsAssumption == MaxCalls \in Nat /\ MaxAnswers \in Nat

Calls == [number : 1..MaxCalls, tool : Tools]
Decisions == {"allow", "deny"}
Scopes == {"once", "session"}
Answers == [decision : Decisions, about : Calls]

ASSUME NoneAssumption == None \notin Runs /\ None \notin Calls

VARIABLES
  pc,          \* where each run stands
  mode,        \* permission mode each run was started in
  calls,       \* tool calls begun in the session
  call,        \* the call each run is at
  remembered,  \* the override a run read before its call
  inbox,       \* answers waiting in the channel of a run's batch
  sender,      \* permission_senders: the run whose channel gets answers
  overrides,   \* permission_overrides of the session
  record,      \* pending-permissions/<session>.json
  dialog,      \* the prompt the window shows
  handlers,    \* clicks whose handlePermissionDecision has not finished
  recovery,    \* a record the window asked for, on its way to it
  clicks,      \* number of clicks so far
  outcomes,    \* history: which answer resolved which prompt
  disturbed,   \* history: a prompt timed out, was answered twice or crashed
  overlapped,  \* history: two runs of the session were active together
  stolen,      \* history: a recovery removed a record it had not read
  left,        \* history: prompts whose record was left behind on disk
  crashed      \* history: the application was killed

runs == <<pc, mode, calls, call, remembered>>
channel == <<inbox, sender>>
window == <<dialog, handlers, recovery, clicks>>
history == <<outcomes, disturbed, overlapped, stolen, left, crashed>>
vars == <<runs, channel, overrides, record, window, history>>

InBatch == {"batch", "call", "waiting", "clearing"}
Active == InBatch \cup {"loop"}

\* what get_pending_permission is about to do with the record it has read
NoRecovery == [next |-> "none", prompt |-> None]

\* respond_permission keeps permission_senders locked until it has
\* remembered the decision: others wait for the lock
SendersFree == \A h \in handlers : ~h.remember

Goto(r, where) == pc' = [pc EXCEPT ![r] = where]

\* back to the batch: the run forgets the call it was at
Settle(r) ==
  /\ Goto(r, "batch")
  /\ call' = [call EXCEPT ![r] = None]
  /\ remembered' = [remembered EXCEPT ![r] = "none"]

Init ==
  /\ pc = [r \in Runs |-> "idle"]
  /\ mode \in [Runs -> UserModes]
  /\ calls = 0 /\ call = [r \in Runs |-> None]
  /\ remembered = [r \in Runs |-> "none"]
  /\ inbox = [r \in Runs |-> <<>>] /\ sender = None
  /\ overrides = [t \in Tools |-> "none"]
  /\ record = None /\ dialog = None /\ handlers = {} /\ clicks = 0
  /\ recovery = NoRecovery
  /\ outcomes = {} /\ disturbed = FALSE /\ overlapped = FALSE
  /\ stolen = FALSE /\ left = {} /\ crashed = FALSE

-----------------------------------------------------------------------------
(* The task *)

StartRun(r) ==
  /\ pc[r] = "idle" /\ Goto(r, "loop")
  /\ overlapped' = (overlapped \/ \E o \in Runs : pc[o] \in Active)
  /\ UNCHANGED <<mode, calls, call, remembered, channel, overrides, record,
                 window, outcomes, disturbed, stolen, left, crashed>>

\* mutant: the new channel is not put in the map
BatchKeepsSender(r) ==
  /\ pc[r] = "loop" /\ calls < MaxCalls /\ SendersFree
  /\ Goto(r, "batch")
  /\ inbox' = [inbox EXCEPT ![r] = <<>>]
  /\ UNCHANGED <<mode, calls, call, remembered, sender, overrides, record,
                 window, history>>

StartBatch(r) ==
  /\ pc[r] = "loop" /\ calls < MaxCalls /\ SendersFree
  /\ Goto(r, "batch")
  /\ inbox' = [inbox EXCEPT ![r] = <<>>]
  /\ sender' = r
  /\ UNCHANGED <<mode, calls, call, remembered, overrides, record, window,
                 history>>

BeginCall(r, t) ==
  /\ pc[r] = "batch" /\ calls < MaxCalls
  /\ Goto(r, "call")
  /\ calls' = calls + 1
  /\ call' = [call EXCEPT ![r] = [number |-> calls', tool |-> t]]
  /\ remembered' = [remembered EXCEPT ![r] = overrides[t]]
  /\ UNCHANGED <<mode, channel, overrides, record, window, history>>

\* PermissionPolicy::authorize
Permitted(m, t) == m = "Allow" \/ Rank[m] >= Rank[Required[t]]
Escalates(m, t) ==
  m = "Prompt" \/ (m = "WorkspaceWrite" /\ Required[t] = "DangerFullAccess")

(* The call is settled without a prompt: by a remembered decision, or by   *)
(* the policy.                                                             *)
SettleWithoutPrompt(r) ==
  /\ pc[r] = "call"
  /\ \/ remembered[r] # "none"
     \/ Permitted(mode[r], call[r].tool)
     \/ ~Escalates(mode[r], call[r].tool)
  /\ Settle(r)
  /\ UNCHANGED <<mode, calls, channel, overrides, record,
                 window, history>>

(* TauriPermissionPrompter::decide: write the record, show the dialog,     *)
(* wait.  Without a record the call is denied and nothing is shown; the    *)
(* write that failed may have torn a file that was there, and a file that  *)
(* cannot be read is to every reader as good as none.                      *)
AskUser(r) ==
  /\ pc[r] = "call" /\ remembered[r] = "none"
  /\ ~Permitted(mode[r], call[r].tool) /\ Escalates(mode[r], call[r].tool)
  /\ \/ /\ Goto(r, "waiting")
        /\ record' = call[r] /\ dialog' = call[r]
        /\ UNCHANGED <<call, remembered>>
     \/ /\ Settle(r)
        /\ record' \in {record, None}
        /\ UNCHANGED dialog
  /\ UNCHANGED <<mode, calls, channel, overrides, handlers, recovery,
                 clicks, history>>

\* mutant: the answer is read and left in the channel
AnswerLeftInChannel(r) ==
  /\ pc[r] = "waiting" /\ inbox[r] # <<>>
  /\ Goto(r, "clearing")
  /\ outcomes' = outcomes \cup {[prompt |-> call[r],
                                 answer |-> Head(inbox[r])]}
  /\ UNCHANGED <<mode, calls, call, remembered, channel, overrides, record,
                 window, disturbed, overlapped, stolen, left, crashed>>

\* The answer taken is the oldest one in the channel.
ReceiveAnswer(r) ==
  /\ pc[r] = "waiting" /\ inbox[r] # <<>>
  /\ Goto(r, "clearing")
  /\ inbox' = [inbox EXCEPT ![r] = Tail(@)]
  /\ outcomes' = outcomes \cup {[prompt |-> call[r],
                                 answer |-> Head(inbox[r])]}
  /\ UNCHANGED <<mode, calls, call, remembered, sender, overrides, record,
                 window, disturbed, overlapped, stolen, left, crashed>>

\* mutant: a prompt that timed out returns before it clears its record
TimeoutKeepsRecord(r) ==
  /\ pc[r] = "waiting" /\ inbox[r] = <<>>
  /\ Settle(r)
  /\ disturbed' = TRUE
  /\ UNCHANGED <<mode, calls, channel, overrides, record, window, outcomes,
                 overlapped, stolen, left, crashed>>

(* recv_timeout fails after 60 seconds, and at once when the sender has    *)
(* been dropped; the dialog stays open either way.                         *)
WaitFails(r) ==
  /\ pc[r] = "waiting" /\ inbox[r] = <<>>
  /\ Goto(r, "clearing")
  /\ disturbed' = TRUE
  /\ UNCHANGED <<mode, calls, call, remembered, channel, overrides, record,
                 window, outcomes, overlapped, stolen, left, crashed>>

(* clear_pending_permission removes the session's file, whoever wrote it.  *)
(* A removal that fails is logged, and the run goes on with its decision.  *)
ClearRecord(r) ==
  /\ pc[r] = "clearing" /\ Settle(r)
  /\ \/ record' = None /\ left' = left
     \/ record' = record /\ left' = left \cup {call[r]}
  /\ UNCHANGED <<mode, calls, channel, overrides, window, outcomes, disturbed,
                 overlapped, stolen, crashed>>

(* The receiver goes with the batch; the sender stays in the map. *)
EndBatch(r) ==
  /\ pc[r] = "batch" /\ Goto(r, "loop")
  /\ inbox' = [inbox EXCEPT ![r] = <<>>]
  /\ UNCHANGED <<mode, calls, call, remembered, sender, overrides, record,
                 window, history>>

EndRun(r) ==
  /\ pc[r] = "loop" /\ Goto(r, "ended")
  /\ UNCHANGED <<mode, calls, call, remembered, channel, overrides, record,
                 window, history>>

-----------------------------------------------------------------------------
(* The window and the commands it calls *)

\* history: the user has already answered this prompt
Answered(p) ==
  \/ \E r \in Runs : \E i \in DOMAIN inbox[r] : inbox[r][i].about = p
  \/ \E o \in outcomes : o.answer.about = p

(* handlePermissionDecision calls respond_permission.  Sending fails when  *)
(* the channel in the map has no receiver any more; then nothing is        *)
(* remembered, but the dialog is closed all the same.                      *)
Answer(decision, scope) ==
  LET sent == sender # None /\ pc[sender] \in InBatch IN
  /\ dialog # None /\ clicks < MaxAnswers /\ SendersFree
  /\ clicks' = clicks + 1
  /\ inbox' = IF sent THEN [inbox EXCEPT ![sender] = Append(@,
                        [decision |-> decision, about |-> dialog])]
                      ELSE inbox
  /\ handlers' = handlers \cup {[prompt |-> dialog,
                    decision |-> decision,
                    remember |-> sent /\ scope = "session"]}
  /\ disturbed' = (disturbed \/ Answered(dialog))
  /\ UNCHANGED <<runs, sender, overrides, record, dialog, recovery, outcomes,
                 overlapped, stolen, left, crashed>>

\* mutant: the scope is remembered in place of the decision
RememberScope(h) ==
  /\ h.remember
  /\ overrides' = [overrides EXCEPT ![h.prompt.tool] = "session"]
  /\ handlers' = (handlers \ {h}) \cup {[h EXCEPT !.remember = FALSE]}
  /\ UNCHANGED <<runs, channel, record, dialog, recovery, clicks, history>>

(* The decision is remembered after the answer has been sent. *)
Remember(h) ==
  /\ h.remember
  /\ overrides' = [overrides EXCEPT ![h.prompt.tool] = h.decision]
  /\ handlers' = (handlers \ {h}) \cup {[h EXCEPT !.remember = FALSE]}
  /\ UNCHANGED <<runs, channel, record, dialog, recovery, clicks, history>>

(* permission_resolved closes whatever dialog the session shows by then. *)
CloseDialog(h) ==
  /\ ~h.remember
  /\ dialog' = None
  /\ handlers' = handlers \ {h}
  /\ UNCHANGED <<runs, channel, overrides, record, recovery, clicks, history>>

(* get_pending_permission, when the window selects the session: it reads   *)
(* the record and looks for an entry in permission_senders.  Without one   *)
(* the record is stale and is removed; that, and the dispatch of the       *)
(* answer in the window, come after the lock has been released.            *)
RecoverPrompt ==
  /\ record # None /\ recovery = NoRecovery /\ SendersFree
  /\ recovery' = [next |-> IF sender = None THEN "clear" ELSE "show",
                  prompt |-> record]
  /\ UNCHANGED <<runs, channel, overrides, record, dialog, handlers, clicks,
                 history>>

(* The file is removed by the name of the session, whatever it holds by    *)
(* then; a removal that fails is an error to the window, which shows       *)
(* nothing.                                                                *)
RecoveryClears ==
  /\ recovery.next = "clear" /\ recovery' = NoRecovery
  /\ \/ /\ record' = None
        /\ stolen' = (stolen \/ record \notin {None, recovery.prompt})
     \/ UNCHANGED <<record, stolen>>
  /\ UNCHANGED <<runs, channel, overrides, dialog, handlers, clicks, outcomes,
                 disturbed, overlapped, left, crashed>>

RecoveryShows ==
  /\ recovery.next = "show" /\ recovery' = NoRecovery
  /\ dialog' = recovery.prompt
  /\ UNCHANGED <<runs, channel, overrides, record, handlers, clicks, history>>

(* Killed and started again: only the record is left. *)
Restart ==
  /\ ~crashed /\ \E r \in Runs : pc[r] \in Active
  /\ crashed' = TRUE /\ disturbed' = TRUE
  /\ pc' = [r \in Runs |-> IF pc[r] \in Active THEN "ended" ELSE pc[r]]
  /\ call' = [r \in Runs |-> None] /\ remembered' = [r \in Runs |-> "none"]
  /\ inbox' = [r \in Runs |-> <<>>] /\ sender' = None
  /\ overrides' = [t \in Tools |-> "none"]
  /\ dialog' = None /\ handlers' = {} /\ recovery' = NoRecovery
  /\ left' = left \cup ({record} \ {None})
  /\ UNCHANGED <<mode, calls, record, clicks, outcomes, overlapped, stolen>>

-----------------------------------------------------------------------------

Wait(r) == ReceiveAnswer(r) \/ WaitFails(r)

RunStep(r) ==
  \/ StartRun(r) \/ StartBatch(r) \/ SettleWithoutPrompt(r) \/ AskUser(r)
  \/ \E t \in Tools : BeginCall(r, t)
  \/ Wait(r) \/ ClearRecord(r) \/ EndBatch(r) \/ EndRun(r)

WindowStep ==
  \/ \E decision \in Decisions, scope \in Scopes : Answer(decision, scope)
  \/ \E h \in handlers : Remember(h) \/ CloseDialog(h)
  \/ RecoverPrompt \/ RecoveryClears \/ RecoveryShows

Next == (\E r \in Runs : RunStep(r)) \/ WindowStep \/ Restart

Spec == Init /\ [][Next]_vars

-----------------------------------------------------------------------------
(* Properties *)

TypeOK ==
  /\ pc \in [Runs -> {"idle", "ended"} \cup Active]
  /\ mode \in [Runs -> UserModes] /\ calls \in 0..MaxCalls
  /\ call \in [Runs -> Calls \cup {None}]
  /\ remembered \in [Runs -> Decisions \cup {"none"}]
  /\ inbox \in [Runs -> Seq(Answers)] /\ sender \in Runs \cup {None}
  /\ overrides \in [Tools -> Decisions \cup {"none"}]
  /\ record \in Calls \cup {None} /\ dialog \in Calls \cup {None}
  /\ handlers \subseteq [prompt : Calls, decision : Decisions,
                         remember : BOOLEAN]
  /\ recovery \in [next : {"none", "clear", "show"}, prompt : Calls \cup {None}]
  /\ clicks \in 0..MaxAnswers
  /\ outcomes \subseteq [prompt : Calls, answer : Answers]
  /\ {disturbed, overlapped, stolen, crashed} \subseteq BOOLEAN
  /\ left \subseteq Calls

(* An answer resolves the prompt it was given for, as long as every prompt *)
(* is answered once and in time and the session has one run at a time:     *)
(* the channel carries no request id, so only the order of steps pairs     *)
(* them, also when the next prompt opens before the dialog of the last one *)
(* is closed.                                                              *)
AnswersMatchPrompts ==
  ~disturbed /\ ~overlapped =>
    \A o \in outcomes : o.answer.about = o.prompt

(* While a run waits, the record on disk is its own, so that a reloaded    *)
(* window can show the prompt again: whatever timeouts, late clicks,       *)
(* recoveries and restarts came before, if runs do not overlap.  Only a    *)
(* recovery that found the session without a batch, and removes the file   *)
(* once a batch has started and written its own, leaves it without one.    *)
WaiterHasRecord ==
  ~overlapped /\ ~stolen =>
    \A r \in Runs : pc[r] = "waiting" => record = call[r]

(* A record on disk is that of a run still at the prompt, whoever's file   *)
(* other runs and recoveries have removed, or else it was left behind:     *)
(* the removal its own run tried at the end of the prompt failed, or the   *)
(* application was killed while the record was there.  No path through the *)
(* prompter, a timeout or a dropped channel included, leaves the record    *)
(* without a try at removing it.  What a window shows that had read the    *)
(* record earlier is not in it.                                            *)
RecordIsLive ==
  record \in {None} \cup left \/
    \E r \in Runs : pc[r] \in {"waiting", "clearing"} /\ record = call[r]

-----------------------------------------------------------------------------
(* permission_service.rs: the PermissionResolved event lets the trace      *)
(* "pair this resolution with the earlier PermissionPrompted event".  It   *)
(* carries the tool of the dialog, so the prompt that the answer resolves  *)
(* must be about that tool.  An answer given after a timeout is taken by   *)
(* the next prompt of the session, whatever its tool is.                   *)
ResolutionPairsWithPrompt ==
  \A o \in outcomes : o.answer.about.tool = o.prompt.tool
=============================================================================
