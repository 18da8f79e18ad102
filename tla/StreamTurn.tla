----------------------------- MODULE StreamTurn -----------------------------
(***************************************************************************)
(* One streaming chat turn: TurnService::stream_turn accepts or refuses    *)
(* it, the spawned task (run_stream_task) loops over model requests and    *)
(* tool batches, and finalize_stream_task saves and announces the result.  *)
(*                                                                         *)
(* The module has one action per point where the task can be interleaved   *)
(* with a stop request, a provider event or a crash of the process.        *)
(* Text, tool arguments and messages are reduced to what decides control:  *)
(* whether something has accumulated, which calls have arguments, and the  *)
(* kind, tool and resume cursor of each message.                           *)
(***************************************************************************)
EXTENDS Integers, Sequences, FiniteSets

CONSTANTS
  ToolIds,         \* ids of the tool calls of the turn
  None,            \* "no tool" in a message that is not about one
  MaxIterations,   \* max_iterations, 10 in the code
  MaxStreamRetry,  \* MAX_STREAM_RETRY_ON_TIMEOUT, 1 in the code
  SaveInterval,    \* SAVE_INTERVAL, 50 in the code
  PreserveRecent,  \* preserve_recent_messages, 4 in the code
  MaxTokens        \* bound of the model: text deltas in one turn

ASSUME ToolIdsAssumption == IsFiniteSet(ToolIds) /\ None \notin ToolIds
ASSUME MaxIterationsAssumption == MaxIterations \in Nat \ {0}
ASSUME MaxStreamRetryAssumption == MaxStreamRetry \in Nat
ASSUME SaveIntervalAssumption == SaveInterval \in Nat \ {0}
ASSUME PreserveRecentAssumption == PreserveRecent \in Nat \ {0}
ASSUME MaxTokensAssumption == MaxTokens \in Nat

VARIABLES
  pc,                            \* where the turn stands
  is_resume_turn,                \* the user message carried a resume cursor
  cancel_sender,                 \* stream_cancel_senders holds this stream
  cancel_signal,                 \* the oneshot to the task has been fired
  tool_loop_iter,
  token_count,
  stream_start_retry_count,
  stream_event_retry_count,
  index_to_tool_id,              \* tool blocks that are still open
  tool_arguments,                \* of those, the ones with an argument entry
  pending_tool_uses,             \* calls to run once the response ends
  emitted_stream_delta,          \* emitted_stream_delta_in_iteration
  accumulated,                   \* accumulated text or thinking not empty
  stream_failed,
  completion_already_emitted,
  terminal_status,
  has_successful_tool,
  has_successful_mutating_tool,
  timeline,                      \* timeline_session_messages
  card,                          \* last tool_status emitted for each call
  dropped,                       \* history: ids whose last block was closed
                                 \* without arguments
  events,                        \* history: verdict events emitted so far
  disk,                          \* messages of this turn in the last save
  save_failed                    \* history: the final save returned an error

control == <<pc, is_resume_turn, terminal_status, stream_failed,
             completion_already_emitted>>
cancel == <<cancel_sender, cancel_signal>>
retries == <<stream_start_retry_count, stream_event_retry_count>>
blocks == <<index_to_tool_id, tool_arguments, pending_tool_uses, dropped>>
success == <<has_successful_tool, has_successful_mutating_tool>>
text == <<token_count, emitted_stream_delta, accumulated>>
stored == <<disk, save_failed>>
vars == <<control, cancel, tool_loop_iter, retries, blocks, success, text,
          timeline, card, events, stored>>

-----------------------------------------------------------------------------
(* Data *)

NoCursor == <<>>
Cursors == {NoCursor} \cup (0..MaxIterations) \X (0..MaxTokens)

\* build_resume_cursor: the stream id is this turn's, so the two counters
\* identify the cursor.
build_resume_cursor == <<tool_loop_iter, token_count>>

Statuses == {"none", "cancelled_by_user", "max_iterations_reached",
             "failed_to_start_stream", "stream_error", "model_stop_no_tools"}
Outcomes == {"completed", "partial_success", "failed"}
CardStates == {"none", "queued", "running", "completed", "error"}
Final == {"completed", "error"}

Message(kind, tool, cursor) == [kind |-> kind, tool |-> tool, cursor |-> cursor]
Messages == [kind : {"summary", "user", "assistant", "tool_use", "tool_result"},
             tool : ToolIds \cup {None}, cursor : Cursors]

Event(type, truth, cursor) ==
  [type |-> type, outcome |-> truth.outcome, resume |-> truth.resume,
   cursor |-> cursor]
Events == [type : {"stream_error", "stream_complete", "final_text_override"},
           outcome : Outcomes \cup {"none"}, resume : BOOLEAN, cursor : Cursors]

\* TaskOutcomeResolver::resolve on the task's flags
is_resumable_terminal_status(status) ==
  status \in {"stream_error", "failed_to_start_stream", "model_stop_no_tools"}

Truth(outcome, resume) == [outcome |-> outcome, resume |-> resume]

Resolve(failed, status) ==
  CASE status = "max_iterations_reached" -> Truth("partial_success", TRUE)
    [] status = "cancelled_by_user"      -> Truth("failed", FALSE)
    [] status \notin {"max_iterations_reached", "cancelled_by_user"} ->
         IF ~failed THEN Truth("completed", FALSE)
         ELSE IF has_successful_tool \/ has_successful_mutating_tool
              THEN Truth("partial_success", TRUE)
              ELSE Truth("failed", is_resumable_terminal_status(status))

CursorOf(truth) == IF truth.resume THEN build_resume_cursor ELSE NoCursor

\* the verdict of a turn that fails with the given status
Failure(status) ==
  LET truth == Resolve(TRUE, status)
  IN  Event("stream_error", truth, CursorOf(truth))

\* the rewritten final text, which carries no verdict
TextOverride == Event("final_text_override", Truth("none", FALSE), NoCursor)

Elems(s) == {s[i] : i \in DOMAIN s}

Has(type) == \E i \in DOMAIN events : events[i].type = type
LastOf(s) == s[Len(s)]

\* flush_assistant_timeline_segment: nothing accumulated, nothing pushed
Flush(cursor) ==
  IF accumulated THEN Append(timeline, Message("assistant", None, cursor))
                 ELSE timeline

\* the orders in which the drain of a hash map may yield the elements of S
Orders(S) == {s \in [1..Cardinality(S) -> S] :
                \A i, j \in DOMAIN s : s[i] = s[j] => i = j}

InLoop == {"top", "request", "streaming", "drained", "tools", "authorizing",
           "executing"}
Closing == {"finalize", "saved"}
Ended == {"rejected", "done", "crashed"}

Init ==
  /\ pc = "idle" /\ is_resume_turn \in BOOLEAN
  /\ cancel_sender = FALSE /\ cancel_signal = FALSE
  /\ tool_loop_iter = 0 /\ token_count = 0
  /\ stream_start_retry_count = 0 /\ stream_event_retry_count = 0
  /\ index_to_tool_id = {} /\ tool_arguments = {}
  /\ pending_tool_uses = <<>> /\ dropped = {}
  /\ emitted_stream_delta = FALSE /\ accumulated = FALSE
  /\ stream_failed = FALSE /\ completion_already_emitted = FALSE
  /\ terminal_status = "none"
  /\ has_successful_tool = FALSE /\ has_successful_mutating_tool = FALSE
  /\ timeline = <<>> /\ card = [t \in ToolIds |-> "none"]
  /\ events = <<>> /\ disk = <<>> /\ save_failed = FALSE

-----------------------------------------------------------------------------
(* stream_turn: refuse the request, or register the stop channel and spawn *)

Reject ==
  /\ pc = "idle" /\ pc' = "rejected"
  /\ UNCHANGED <<is_resume_turn, terminal_status, stream_failed,
                 completion_already_emitted, cancel, tool_loop_iter, retries,
                 blocks, success, text, timeline, card, events, stored>>

Accept ==
  /\ pc = "idle" /\ pc' = "top"
  /\ cancel_sender' = TRUE
  /\ UNCHANGED <<is_resume_turn, terminal_status, stream_failed,
                 completion_already_emitted, cancel_signal, tool_loop_iter,
                 retries, blocks, success, text, timeline, card, events, stored>>

(* cancel_stream: take the sender out of the map and fire it.  The entry   *)
(* stays in the map when the task ends, and a fired sender whose receiver  *)
(* is gone is a silent no-op.                                              *)
Cancel ==
  /\ cancel_sender /\ pc # "crashed"
  /\ cancel_sender' = FALSE
  /\ cancel_signal' = (pc # "done")
  /\ UNCHANGED <<control, tool_loop_iter, retries, blocks, success, text,
                 timeline, card, events, stored>>

-----------------------------------------------------------------------------
(* Top of the tool loop *)

Break(status) == pc' = "finalize" /\ terminal_status' = status

\* mutant: the stop is announced once and the loop is continued, not left
StopContinues ==
  /\ pc = "top" /\ cancel_signal /\ ~completion_already_emitted
  /\ UNCHANGED <<pc, terminal_status>>
  /\ completion_already_emitted' = TRUE
  /\ events' = Append(events, Event("stream_complete",
                        Resolve(TRUE, "cancelled_by_user"), NoCursor))
  /\ UNCHANGED <<is_resume_turn, stream_failed, cancel, tool_loop_iter, retries,
                 blocks, success, text, timeline, card, stored>>

CancelSeen ==
  /\ pc = "top" /\ cancel_signal
  /\ Break("cancelled_by_user")
  /\ completion_already_emitted' = TRUE
  /\ events' = Append(events, Event("stream_complete",
                        Resolve(TRUE, "cancelled_by_user"), NoCursor))
  /\ UNCHANGED <<is_resume_turn, stream_failed, cancel, tool_loop_iter, retries,
                 blocks, success, text, timeline, card, stored>>

\* mutant: the limit returns from the task without finalizing
LimitReturns ==
  /\ pc = "top" /\ ~cancel_signal /\ tool_loop_iter >= MaxIterations
  /\ pc' = "done" /\ terminal_status' = "max_iterations_reached"
  /\ UNCHANGED <<is_resume_turn, stream_failed, completion_already_emitted,
                 cancel, tool_loop_iter, retries, blocks, success, text,
                 timeline, card, events, stored>>

\* mutant: the limit is looked at before the stop
LimitBeforeStop ==
  /\ pc = "top" /\ tool_loop_iter >= MaxIterations
  /\ Break("max_iterations_reached")
  /\ UNCHANGED <<is_resume_turn, stream_failed, completion_already_emitted,
                 cancel, tool_loop_iter, retries, blocks, success, text,
                 timeline, card, events, stored>>

MaxIterationsReached ==
  /\ pc = "top" /\ ~cancel_signal /\ tool_loop_iter >= MaxIterations
  /\ Break("max_iterations_reached")
  /\ UNCHANGED <<is_resume_turn, stream_failed, completion_already_emitted,
                 cancel, tool_loop_iter, retries, blocks, success, text,
                 timeline, card, events, stored>>

Admit ==
  /\ pc = "top" /\ ~cancel_signal /\ tool_loop_iter < MaxIterations
  /\ pc' = "request"
  /\ tool_loop_iter' = tool_loop_iter + 1
  /\ UNCHANGED <<is_resume_turn, terminal_status, stream_failed,
                 completion_already_emitted, cancel, retries, blocks, success,
                 text, timeline, card, events, stored>>

(* The cost guard refuses the call: an error that announces no cursor. *)
CostDenied ==
  /\ pc = "request"
  /\ Break("failed_to_start_stream")
  /\ stream_failed' = TRUE
  /\ events' = Append(events, Event("stream_error",
                        Resolve(TRUE, "failed_to_start_stream"), NoCursor))
  /\ UNCHANGED <<is_resume_turn, completion_already_emitted, cancel,
                 tool_loop_iter, retries, blocks, success, text, timeline,
                 card, stored>>

\* mutant: a start is retried as often as it times out
StartRetryWithoutLimit ==
  /\ pc = "request"
  /\ pc' = "top"
  /\ stream_start_retry_count' = stream_start_retry_count + 1
  /\ UNCHANGED <<is_resume_turn, terminal_status, stream_failed,
                 completion_already_emitted, cancel, tool_loop_iter,
                 stream_event_retry_count, blocks, success, text, timeline,
                 card, events, stored>>

StartRetry ==
  /\ pc = "request" /\ stream_start_retry_count < MaxStreamRetry
  /\ pc' = "top"
  /\ stream_start_retry_count' = stream_start_retry_count + 1
  /\ UNCHANGED <<is_resume_turn, terminal_status, stream_failed,
                 completion_already_emitted, cancel, tool_loop_iter,
                 stream_event_retry_count, blocks, success, text, timeline,
                 card, events, stored>>

StartFailed ==
  /\ pc = "request"
  /\ Break("failed_to_start_stream")
  /\ stream_failed' = TRUE
  /\ events' = Append(events, Failure("failed_to_start_stream"))
  /\ UNCHANGED <<is_resume_turn, completion_already_emitted, cancel,
                 tool_loop_iter, retries, blocks, success, text, timeline,
                 card, stored>>

StartOk ==
  /\ pc = "request" /\ pc' = "streaming"
  /\ index_to_tool_id' = {} /\ tool_arguments' = {} /\ pending_tool_uses' = <<>>
  /\ emitted_stream_delta' = FALSE
  /\ UNCHANGED <<is_resume_turn, terminal_status, stream_failed,
                 completion_already_emitted, cancel, tool_loop_iter, retries,
                 dropped, success, token_count, accumulated, timeline, card,
                 events, stored>>

-----------------------------------------------------------------------------
(* Events of the response stream *)

(* The periodic save writes the snapshot taken at the start of the turn    *)
(* plus the text so far, and ignores its own failure.                      *)
TextDelta ==
  /\ pc = "streaming" /\ token_count < MaxTokens
  /\ token_count' = token_count + 1
  /\ accumulated' = TRUE /\ emitted_stream_delta' = TRUE
  /\ IF token_count' % SaveInterval = 0
     THEN disk' \in {disk, <<Message("assistant", None, NoCursor)>>}
     ELSE disk' = disk
  /\ UNCHANGED <<control, cancel, tool_loop_iter, retries, blocks, success,
                 timeline, card, events, save_failed>>

ThinkingDelta ==
  /\ pc = "streaming"
  /\ accumulated' = TRUE /\ emitted_stream_delta' = TRUE
  /\ UNCHANGED <<control, cancel, tool_loop_iter, retries, blocks, success,
                 token_count, timeline, card, events, stored>>

(* The adapters give the blocks of one response ids of their own, and the  *)
(* task looks at nothing: a later response may use the id of an earlier    *)
(* one again, as the OpenAI-compatible adapter does when the provider      *)
(* names no id and it falls back to the index of the call.                 *)
ToolBlockStart(t) ==
  /\ pc = "streaming" /\ t \notin index_to_tool_id \cup Elems(pending_tool_uses)
  /\ index_to_tool_id' = index_to_tool_id \cup {t}
  /\ dropped' = dropped \ {t}
  /\ card' = [card EXCEPT ![t] = "queued"]
  /\ UNCHANGED <<control, cancel, tool_loop_iter, retries, tool_arguments,
                 pending_tool_uses, success, text, timeline, events, stored>>

InputJsonDelta(t) ==
  /\ pc = "streaming" /\ t \in index_to_tool_id
  /\ tool_arguments' = tool_arguments \cup {t}
  /\ UNCHANGED <<control, cancel, tool_loop_iter, retries, index_to_tool_id,
                 pending_tool_uses, dropped, success, text, timeline, card,
                 events, stored>>

(* A block that ends without an argument entry is forgotten: no call is    *)
(* pushed and no further status is emitted for its card.                   *)
ContentBlockStop(t) ==
  /\ pc = "streaming" /\ t \in index_to_tool_id
  /\ index_to_tool_id' = index_to_tool_id \ {t}
  /\ tool_arguments' = tool_arguments \ {t}
  /\ IF t \in tool_arguments
     THEN pending_tool_uses' = Append(pending_tool_uses, t) /\ UNCHANGED dropped
     ELSE dropped' = dropped \cup {t} /\ UNCHANGED pending_tool_uses
  /\ UNCHANGED <<control, cancel, tool_loop_iter, retries, success, text,
                 timeline, card, events, stored>>

(* MessageStop, or the end of the stream without one: blocks still open    *)
(* are drained in the order of the hash map.                               *)
StreamEnds ==
  /\ pc = "streaming" /\ pc' = "drained"
  /\ \E order \in Orders(tool_arguments) :
       pending_tool_uses' = pending_tool_uses \o order
  /\ dropped' = dropped \cup (index_to_tool_id \ tool_arguments)
  /\ index_to_tool_id' = {} /\ tool_arguments' = {}
  /\ UNCHANGED <<is_resume_turn, terminal_status, stream_failed,
                 completion_already_emitted, cancel, tool_loop_iter, retries,
                 success, text, timeline, card, events, stored>>

\* mutant: a stream that has shown text is retried
RetryAfterDelta ==
  /\ pc = "streaming" /\ stream_event_retry_count < MaxStreamRetry
  /\ index_to_tool_id = {} /\ tool_arguments = {}
  /\ pending_tool_uses = <<>>
  /\ pc' = "top"
  /\ stream_event_retry_count' = stream_event_retry_count + 1
  /\ UNCHANGED <<is_resume_turn, terminal_status, stream_failed,
                 completion_already_emitted, cancel, tool_loop_iter,
                 stream_start_retry_count, blocks, success, text, timeline,
                 card, events, stored>>

StreamEventRetry ==
  /\ pc = "streaming" /\ stream_event_retry_count < MaxStreamRetry
  /\ index_to_tool_id = {} /\ tool_arguments = {}
  /\ pending_tool_uses = <<>> /\ ~emitted_stream_delta
  /\ pc' = "top"
  /\ stream_event_retry_count' = stream_event_retry_count + 1
  /\ UNCHANGED <<is_resume_turn, terminal_status, stream_failed,
                 completion_already_emitted, cancel, tool_loop_iter,
                 stream_start_retry_count, blocks, success, text, timeline,
                 card, events, stored>>

\* mutant: the error is announced and not remembered
ErrorNotRecorded ==
  /\ pc = "streaming" /\ pc' = "drained"
  /\ terminal_status' = IF terminal_status = "none" THEN "stream_error"
                                                     ELSE terminal_status
  /\ UNCHANGED stream_failed
  /\ card' = [t \in ToolIds |-> IF t \in index_to_tool_id THEN "error"
                                                           ELSE card[t]]
  /\ index_to_tool_id' = {}
  /\ events' = Append(events, Failure(terminal_status'))
  /\ UNCHANGED <<is_resume_turn, completion_already_emitted, cancel,
                 tool_loop_iter, retries, tool_arguments, pending_tool_uses,
                 dropped, success, text, timeline, stored>>

\* mutant: cards of open blocks are left as they are
OpenCardsNotSettled ==
  /\ pc = "streaming" /\ pc' = "drained"
  /\ terminal_status' = IF terminal_status = "none" THEN "stream_error"
                                                     ELSE terminal_status
  /\ stream_failed' = TRUE
  /\ card' = [t \in ToolIds |-> card[t]]
  /\ index_to_tool_id' = {}
  /\ events' = Append(events, Failure(terminal_status'))
  /\ UNCHANGED <<is_resume_turn, completion_already_emitted, cancel,
                 tool_loop_iter, retries, tool_arguments, pending_tool_uses,
                 dropped, success, text, timeline, stored>>

\* mutant: cards of calls that will still run are settled too
PendingCardsSettledToo ==
  /\ pc = "streaming" /\ pc' = "drained"
  /\ terminal_status' = IF terminal_status = "none" THEN "stream_error"
                                                     ELSE terminal_status
  /\ stream_failed' = TRUE
  /\ card' = [t \in ToolIds |-> IF card[t] = "queued" THEN "error"
                                                           ELSE card[t]]
  /\ index_to_tool_id' = {}
  /\ events' = Append(events, Failure(terminal_status'))
  /\ UNCHANGED <<is_resume_turn, completion_already_emitted, cancel,
                 tool_loop_iter, retries, tool_arguments, pending_tool_uses,
                 dropped, success, text, timeline, stored>>

(* A stream error settles the open cards and is announced at once, but the *)
(* calls already pending are still run and the loop goes on after them.    *)
StreamEventError ==
  /\ pc = "streaming" /\ pc' = "drained"
  /\ terminal_status' = IF terminal_status = "none" THEN "stream_error"
                                                     ELSE terminal_status
  /\ stream_failed' = TRUE
  /\ card' = [t \in ToolIds |-> IF t \in index_to_tool_id THEN "error"
                                                           ELSE card[t]]
  /\ index_to_tool_id' = {}
  /\ events' = Append(events, Failure(terminal_status'))
  /\ UNCHANGED <<is_resume_turn, completion_already_emitted, cancel,
                 tool_loop_iter, retries, tool_arguments, pending_tool_uses,
                 dropped, success, text, timeline, stored>>

-----------------------------------------------------------------------------
(* After the response: leave the loop, or run the batch of tool calls *)

NoToolUses ==
  /\ pc = "drained" /\ pending_tool_uses = <<>>
  /\ Break(IF terminal_status = "none" THEN "model_stop_no_tools"
                                       ELSE terminal_status)
  /\ UNCHANGED <<is_resume_turn, stream_failed, completion_already_emitted,
                 cancel, tool_loop_iter, retries, blocks, success, text,
                 timeline, card, events, stored>>

StartBatch ==
  /\ pc = "drained" /\ pending_tool_uses # <<>>
  /\ pc' = "tools"
  /\ timeline' = Flush(NoCursor)
  /\ accumulated' = FALSE
  /\ UNCHANGED <<is_resume_turn, terminal_status, stream_failed,
                 completion_already_emitted, cancel, tool_loop_iter, retries,
                 blocks, success, token_count, emitted_stream_delta, card,
                 events, stored>>

ToolRunning ==
  /\ pc = "tools" /\ pending_tool_uses # <<>>
  /\ pc' = "authorizing"
  /\ card' = [card EXCEPT ![Head(pending_tool_uses)] = "running"]
  /\ UNCHANGED <<is_resume_turn, terminal_status, stream_failed,
                 completion_already_emitted, cancel, tool_loop_iter, retries,
                 blocks, success, text, timeline, events, stored>>

(* The permission decision is in (PermissionPrompt models how): the call   *)
(* enters the timeline whether it is allowed or denied.                    *)
ToolDecided ==
  /\ pc = "authorizing" /\ pc' = "executing"
  /\ timeline' = Append(timeline,
                   Message("tool_use", Head(pending_tool_uses), NoCursor))
  /\ UNCHANGED <<is_resume_turn, terminal_status, stream_failed,
                 completion_already_emitted, cancel, tool_loop_iter, retries,
                 blocks, success, text, card, events, stored>>

\* mutant: only a successful call adds its result
FailedToolLeavesNoResult(ok, mutating) ==
  /\ pc = "executing" /\ (mutating => ok)
  /\ pc' = "tools"
  /\ has_successful_tool' = (has_successful_tool \/ ok)
  /\ has_successful_mutating_tool' = (has_successful_mutating_tool \/ mutating)
  /\ card' = [card EXCEPT ![Head(pending_tool_uses)] =
                IF ok THEN "completed" ELSE "error"]
  /\ timeline' = IF ok THEN Append(timeline,
                   Message("tool_result", Head(pending_tool_uses), NoCursor))
                ELSE timeline
  /\ pending_tool_uses' = Tail(pending_tool_uses)
  /\ UNCHANGED <<is_resume_turn, terminal_status, stream_failed,
                 completion_already_emitted, cancel, tool_loop_iter, retries,
                 index_to_tool_id, tool_arguments, dropped, text, events, stored>>

ToolSettled(ok, mutating) ==
  /\ pc = "executing" /\ (mutating => ok)
  /\ pc' = "tools"
  /\ has_successful_tool' = (has_successful_tool \/ ok)
  /\ has_successful_mutating_tool' = (has_successful_mutating_tool \/ mutating)
  /\ card' = [card EXCEPT ![Head(pending_tool_uses)] =
                IF ok THEN "completed" ELSE "error"]
  /\ timeline' = Append(timeline,
                   Message("tool_result", Head(pending_tool_uses), NoCursor))
  /\ pending_tool_uses' = Tail(pending_tool_uses)
  /\ UNCHANGED <<is_resume_turn, terminal_status, stream_failed,
                 completion_already_emitted, cancel, tool_loop_iter, retries,
                 index_to_tool_id, tool_arguments, dropped, text, events, stored>>

BatchDone ==
  /\ pc = "tools" /\ pending_tool_uses = <<>>
  /\ pc' = "top"
  /\ UNCHANGED <<is_resume_turn, terminal_status, stream_failed,
                 completion_already_emitted, cancel, tool_loop_iter, retries,
                 blocks, success, text, timeline, card, events, stored>>

-----------------------------------------------------------------------------
(* finalize_stream_task *)

\* mutant: no message is added to carry the cursor
FlushOnly(truth) ==
  LET cursor  == CursorOf(truth)
      marked  == stream_failed \/ truth.outcome = "partial_success"
      flushed == Flush(IF marked THEN cursor ELSE NoCursor)
  IN  flushed

\* the messages the turn leaves in the session: what was still accumulated,
\* and an empty assistant message when no message carries the cursor yet
FinalTimeline(truth) ==
  LET cursor  == CursorOf(truth)
      marked  == stream_failed \/ truth.outcome = "partial_success"
      flushed == Flush(IF marked THEN cursor ELSE NoCursor)
  IN  IF marked /\ (flushed = <<>> \/ LastOf(flushed).cursor # cursor)
      THEN Append(flushed, Message("assistant", None, cursor))
      ELSE flushed

\* a claim of a finished file operation with no mutating tool behind it is
\* replaced, except on a resume turn
OverrideAllowed ==
  accumulated /\ ~is_resume_turn /\ ~has_successful_mutating_tool

\* compact_session: above a token threshold, all but the last messages of
\* the session are replaced by a summary
Compacted(messages) ==
  IF Len(messages) <= PreserveRecent THEN messages
  ELSE <<Message("summary", None, NoCursor)>>
         \o SubSeq(messages, Len(messages) - PreserveRecent + 1, Len(messages))

Saved(messages) == {messages, Compacted(messages)}

\* mutant: the turn is written before its last text is flushed
SaveBeforeFlush(claim, ok) ==
  LET truth == Resolve(stream_failed, terminal_status) IN
  /\ pc = "finalize" /\ (claim => OverrideAllowed)
  /\ pc' = "saved"
  /\ events' = IF claim THEN Append(events, TextOverride) ELSE events
  /\ timeline' = FinalTimeline(truth)
  /\ accumulated' = FALSE
  /\ save_failed' = ~ok
  /\ disk' \in IF ok THEN Saved(<<Message("user", None, NoCursor)>> \o timeline)
                     ELSE {disk}
  /\ UNCHANGED <<is_resume_turn, terminal_status, stream_failed,
                 completion_already_emitted, cancel, tool_loop_iter, retries,
                 blocks, success, token_count, emitted_stream_delta, card>>

(* The outbound hook that runs before this step only passes or warns, so   *)
(* the text it hands on is the text that was accumulated.                  *)
FinalizeSave(claim, ok) ==
  LET truth == Resolve(stream_failed, terminal_status) IN
  /\ pc = "finalize" /\ (claim => OverrideAllowed)
  /\ pc' = "saved"
  /\ events' = IF claim THEN Append(events, TextOverride) ELSE events
  /\ timeline' = FinalTimeline(truth)
  /\ accumulated' = FALSE
  /\ save_failed' = ~ok
  /\ disk' \in IF ok THEN Saved(<<Message("user", None, NoCursor)>> \o timeline')
                     ELSE {disk}
  /\ UNCHANGED <<is_resume_turn, terminal_status, stream_failed,
                 completion_already_emitted, cancel, tool_loop_iter, retries,
                 blocks, success, token_count, emitted_stream_delta, card>>

\* mutant: the completion is announced for completed turns only
CompleteOnlyOnSuccess ==
  LET truth == Resolve(stream_failed, terminal_status) IN
  /\ pc = "saved" /\ pc' = "done"
  /\ events' = IF truth.outcome = "completed" /\ ~completion_already_emitted
               THEN Append(events, Event("stream_complete", truth, CursorOf(truth)))
               ELSE events
  /\ UNCHANGED <<is_resume_turn, terminal_status, stream_failed,
                 completion_already_emitted, cancel, tool_loop_iter, retries,
                 blocks, success, text, timeline, card, stored>>

\* mutant: the early completion of a stopped turn is forgotten
CompleteTwice ==
  LET truth == Resolve(stream_failed, terminal_status) IN
  /\ pc = "saved" /\ pc' = "done"
  /\ events' = IF ~stream_failed
               THEN Append(events, Event("stream_complete", truth, CursorOf(truth)))
               ELSE events
  /\ UNCHANGED <<is_resume_turn, terminal_status, stream_failed,
                 completion_already_emitted, cancel, tool_loop_iter, retries,
                 blocks, success, text, timeline, card, stored>>

FinalizeComplete ==
  LET truth == Resolve(stream_failed, terminal_status) IN
  /\ pc = "saved" /\ pc' = "done"
  /\ events' = IF ~stream_failed /\ ~completion_already_emitted
               THEN Append(events, Event("stream_complete", truth, CursorOf(truth)))
               ELSE events
  /\ UNCHANGED <<is_resume_turn, terminal_status, stream_failed,
                 completion_already_emitted, cancel, tool_loop_iter, retries,
                 blocks, success, text, timeline, card, stored>>

(* The application is closed or killed: what was saved is all that is left. *)
(* A save is one step here; that the file is truncated before it is        *)
(* written, and the write not awaited, is outside this module.             *)
Crash ==
  /\ pc \notin Ended \cup {"idle"}
  /\ pc' = "crashed"
  /\ UNCHANGED <<is_resume_turn, terminal_status, stream_failed,
                 completion_already_emitted, cancel, tool_loop_iter, retries,
                 blocks, success, text, timeline, card, events, stored>>

-----------------------------------------------------------------------------

ProviderEvent ==
  \/ TextDelta \/ ThinkingDelta
  \/ \E t \in ToolIds : \/ ToolBlockStart(t) \/ InputJsonDelta(t)
                        \/ ContentBlockStop(t)

ProviderEnds == StreamEnds \/ StreamEventRetry \/ StreamEventError

ProviderAnswers == StartRetry \/ StartFailed \/ StartOk

TaskStep ==
  \/ CancelSeen \/ MaxIterationsReached \/ Admit
  \/ NoToolUses \/ StartBatch \/ ToolRunning \/ ToolDecided
  \/ \E ok, mutating \in BOOLEAN : ToolSettled(ok, mutating)
  \/ BatchDone
  \/ \E claim, ok \in BOOLEAN : FinalizeSave(claim, ok)
  \/ FinalizeComplete

Next ==
  \/ Reject \/ Accept \/ Cancel \/ Crash \/ CostDenied
  \/ ProviderAnswers \/ ProviderEvent \/ ProviderEnds \/ TaskStep

Spec == Init /\ [][Next]_vars

(* The runtime polls the task until it returns, a permission prompt times  *)
(* out and a tool returns.  Nothing is assumed of the model provider.      *)
TaskFairSpec == Spec /\ WF_vars(TaskStep)

(* With the Anthropic adapter, a request is answered and a stream ends or  *)
(* errs, because that adapter bounds both with timeouts.                   *)
FairSpec == TaskFairSpec /\ WF_vars(ProviderAnswers) /\ WF_vars(ProviderEnds)

-----------------------------------------------------------------------------
(* Properties *)

TypeOK ==
  /\ pc \in {"idle"} \cup InLoop \cup Closing \cup Ended
  /\ is_resume_turn \in BOOLEAN
  /\ cancel_sender \in BOOLEAN /\ cancel_signal \in BOOLEAN
  /\ emitted_stream_delta \in BOOLEAN /\ accumulated \in BOOLEAN
  /\ stream_failed \in BOOLEAN /\ completion_already_emitted \in BOOLEAN
  /\ has_successful_tool \in BOOLEAN
  /\ has_successful_mutating_tool \in BOOLEAN /\ save_failed \in BOOLEAN
  /\ tool_loop_iter \in 0..MaxIterations /\ token_count \in 0..MaxTokens
  /\ stream_start_retry_count \in 0..MaxStreamRetry
  /\ stream_event_retry_count \in 0..MaxStreamRetry
  /\ index_to_tool_id \subseteq ToolIds /\ tool_arguments \subseteq ToolIds
  /\ dropped \subseteq ToolIds /\ pending_tool_uses \in Seq(ToolIds)
  /\ terminal_status \in Statuses
  /\ card \in [ToolIds -> CardStates]
  /\ timeline \in Seq(Messages) /\ disk \in Seq(Messages)
  /\ events \in Seq(Events)

(* Every accepted turn that runs to its end has told the window how it     *)
(* ended: an error or a completion, whatever path left the loop.           *)
SettledTurnAnnounced ==
  pc = "done" => Has("stream_error") \/ Has("stream_complete")

(* The window ends the stream on the first verdict it sees, so the two     *)
(* verdicts must agree: a turn announced as "completed" never announced an *)
(* error before, although tools still run after a stream error.            *)
VerdictsAgree ==
  (\E i \in DOMAIN events : /\ events[i].type = "stream_complete"
                            /\ events[i].outcome = "completed")
     => ~Has("stream_error")

(* When a request to the model is about to be made, nothing is left of an  *)
(* earlier response: a retried stream never doubles text or thinking, and  *)
(* a tool batch has moved them to the timeline.                            *)
NoTextCarriedOver == pc \in {"top", "request"} => ~accumulated

(* A completion is announced only once the turn has been saved, whole or   *)
(* compacted but with its last message, unless the save reported an error: *)
(* the user never sees the completion of a turn the session does not hold. *)
(* (A stopped turn is announced before it is saved, and is not covered.)   *)
CompletedIsSaved ==
  (/\ ~save_failed
   /\ \E i \in DOMAIN events : /\ events[i].type = "stream_complete"
                               /\ events[i].outcome # "failed")
     => LET turn == <<Message("user", None, NoCursor)>> \o timeline
        IN  disk = turn \/ (/\ disk # <<>> /\ disk[1].kind = "summary"
                            /\ LastOf(disk) = LastOf(turn))

(* No save ever writes a tool call without its result right after it, at   *)
(* whatever point the turn is saved, stopped or ends.  A result without    *)
(* its call is found only where a compaction cut the pair, right behind    *)
(* the summary: model APIs refuse histories with broken pairs, and this    *)
(* is the one case that the sanitizer of the next request has to repair.   *)
ToolPairsOnDisk ==
  \A i \in DOMAIN disk :
    /\ disk[i].kind = "tool_use" =>
         /\ i < Len(disk)
         /\ disk[i + 1].kind = "tool_result" /\ disk[i + 1].tool = disk[i].tool
    /\ disk[i].kind = "tool_result" =>
         i > 1 /\ \/ disk[i - 1].kind = "tool_use"
                  \/ i = 2 /\ disk[1].kind = "summary"

(* A tool card is left unsettled at the end of a turn only if the last     *)
(* call under its id was closed without arguments; every other card        *)
(* reaches a final status, also when the stream broke in the middle of it. *)
CardsSettled ==
  pc = "done" =>
    \A t \in ToolIds : card[t] \in {"queued", "running"} =>
                         card[t] = "queued" /\ t \in dropped

(* When the turn ends right after the error that announced a cursor, the   *)
(* last saved message carries that cursor, whatever text, thinking or tool *)
(* results came before it: the resume request will find it.                *)
AnnouncedCursorSaved ==
  (/\ pc = "done" /\ ~save_failed /\ events # <<>>
   /\ LastOf(events).type = "stream_error"
   /\ LastOf(events).cursor = build_resume_cursor)
     => LastOf(disk).cursor = LastOf(events).cursor

(* Once a completion is out, the window hears nothing more of this turn:   *)
(* no verdict, no rewritten text, no token and no tool status.             *)
NothingAfterComplete ==
  [][Has("stream_complete") => UNCHANGED <<events, card, token_count>>]_vars

(* A settled tool card stays as it is, across retries, stream errors and   *)
(* tool batches, unless a new block of a response opens under its id: what *)
(* a batch runs and what a stream error settles is never a settled call.   *)
SettledCardIsFinal ==
  [][\A t \in ToolIds :
       card[t] \in Final /\ card'[t] # card[t] =>
         /\ pc = "streaming" /\ card'[t] = "queued"
         /\ t \in index_to_tool_id' \ index_to_tool_id]_vars

(* A stop accepted while tools are being run decides the turn: no further  *)
(* request is made and the turn ends as cancelled, even when the iteration *)
(* limit is reached at the same moment or the stream failed before.        *)
StopDuringToolsWins ==
  [](cancel_signal /\ pc \in {"tools", "authorizing", "executing"} =>
       [](pc \in Closing \cup {"done"} => terminal_status = "cancelled_by_user"))

(* The turn implements its contract: its program counter and the events it *)
(* has emitted map to the contract's phase and verdict.                    *)
PhaseOf ==
  CASE pc \in InLoop     -> "running"
    [] pc = "finalize"   -> "closing"
    [] pc = "saved"      -> "written"
    [] pc = "done"       -> "settled"
    [] pc = "crashed"    -> "lost"
    [] pc \in {"idle", "rejected"} -> pc

VerdictOf == IF Has("stream_complete") THEN "complete"
             ELSE IF Has("stream_error") THEN "error" ELSE "none"

Contract == INSTANCE TurnContract WITH phase <- PhaseOf, verdict <- VerdictOf

(* Refinement of TurnContract: an early completion closes the turn, errors *)
(* never reopen it, and only a turn that was written is settled.           *)
ImplementsContract == Contract!Spec

(* Every accepted turn ends, unless the application does. *)
AcceptedTurnEnds == pc = "top" ~> pc \in Ended

-----------------------------------------------------------------------------
(* What comments and documents of the repository say, and the code does    *)
(* not do.                                                                 *)

(* stream.rs: the sender is "used by stop_agent_stream to interrupt an     *)
(* in-flight streaming response".  The task looks at it only between two   *)
(* responses, and the OpenAI-compatible adapter never gives up on a silent *)
(* stream: an accepted stop may never end the turn.                        *)
StopEndsTurn == cancel_signal ~> pc \in Ended
=============================================================================
