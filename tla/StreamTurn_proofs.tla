------------------------- MODULE StreamTurn_proofs --------------------------
(***************************************************************************)
(* Theorems about StreamTurn, for every set of tool calls and every value  *)
(* of its bounds.                                                          *)
(***************************************************************************)
EXTENDS StreamTurn, FiniteSetTheorems, TLAPS

-----------------------------------------------------------------------------
(* The types of the values the actions append *)

\* resolve always yields an outcome and says whether to resume
LEMMA ResolveType ==
  ASSUME NEW failed \in BOOLEAN, NEW status \in Statuses
  PROVE  Resolve(failed, status) \in [outcome : Outcomes, resume : BOOLEAN]
<1>1. CASE status = "max_iterations_reached"
  BY <1>1 DEF Resolve, Truth, Outcomes
<1>2. CASE status = "cancelled_by_user"
  BY <1>2 DEF Resolve, Truth, Outcomes
<1>3. CASE status \notin {"max_iterations_reached", "cancelled_by_user"}
  BY <1>3 DEF Resolve, Truth, Outcomes, is_resumable_terminal_status
<1> QED BY <1>1, <1>2, <1>3

\* a cursor is announced or not, never anything else
LEMMA CursorOfType ==
  ASSUME TypeOK, NEW truth \in [outcome : Outcomes, resume : BOOLEAN]
  PROVE  CursorOf(truth) \in Cursors
BY DEF TypeOK, CursorOf, build_resume_cursor, Cursors, NoCursor

\* an event built from a verdict is well formed
LEMMA EventType ==
  ASSUME NEW type \in {"stream_error", "stream_complete", "final_text_override"},
         NEW truth \in [outcome : Outcomes, resume : BOOLEAN],
         NEW cursor \in Cursors
  PROVE  Event(type, truth, cursor) \in Events
BY DEF Event, Events

\* so is the event of a failure
LEMMA FailureType ==
  ASSUME TypeOK, NEW status \in Statuses
  PROVE  Failure(status) \in Events
BY ResolveType, CursorOfType, EventType DEF Failure

\* a message built from its parts is well formed
LEMMA MessageType ==
  ASSUME NEW kind \in {"summary", "user", "assistant", "tool_use", "tool_result"},
         NEW tool \in ToolIds \cup {None}, NEW cursor \in Cursors
  PROVE  Message(kind, tool, cursor) \in Messages
BY DEF Message, Messages

\* flushing keeps the timeline a sequence of messages
LEMMA FlushType ==
  ASSUME TypeOK, NEW cursor \in Cursors
  PROVE  Flush(cursor) \in Seq(Messages)
<1>1. timeline \in Seq(Messages)
  BY DEF TypeOK
<1>2. Message("assistant", None, cursor) \in Messages
  BY MessageType
<1> QED BY <1>1, <1>2 DEF Flush
\* so does putting the end of the turn together
LEMMA FinalTimelineType ==
  ASSUME TypeOK, NEW truth \in [outcome : Outcomes, resume : BOOLEAN]
  PROVE  FinalTimeline(truth) \in Seq(Messages)
<1> DEFINE cursor  == CursorOf(truth)
           marked  == stream_failed \/ truth.outcome = "partial_success"
           flushed == Flush(IF marked THEN cursor ELSE NoCursor)
<1>1. cursor \in Cursors /\ NoCursor \in Cursors
  BY CursorOfType DEF Cursors
<1>2. flushed \in Seq(Messages)
  BY <1>1, FlushType
<1>3. Message("assistant", None, cursor) \in Messages
  BY <1>1, MessageType
<1>4. Append(flushed, Message("assistant", None, cursor)) \in Seq(Messages)
  BY <1>2, <1>3
<1> QED BY <1>2, <1>4 DEF FinalTimeline

\* a compaction leaves a sequence of messages
LEMMA CompactedType ==
  ASSUME NEW messages \in Seq(Messages)
  PROVE  Compacted(messages) \in Seq(Messages)
<1>1. CASE Len(messages) <= PreserveRecent
  BY <1>1 DEF Compacted
<1>2. CASE Len(messages) > PreserveRecent
  <2> DEFINE kept == SubSeq(messages, Len(messages) - PreserveRecent + 1,
                            Len(messages))
             head == <<Message("summary", None, NoCursor)>>
  <2>1. kept \in Seq(Messages)
    BY <1>2, PreserveRecentAssumption
  <2>2. head \in Seq(Messages)
    BY MessageType DEF Cursors
  <2>3. head \o kept \in Seq(Messages)
    BY <2>1, <2>2
  <2>4. ~(Len(messages) <= PreserveRecent)
    BY <1>2, PreserveRecentAssumption
  <2> QED BY <2>3, <2>4 DEF Compacted
<1> QED BY <1>1, <1>2, PreserveRecentAssumption

\* whatever is saved is a sequence of messages
LEMMA SavedType ==
  ASSUME NEW messages \in Seq(Messages), NEW saved \in Saved(messages)
  PROVE  saved \in Seq(Messages)
BY CompactedType DEF Saved

\* whatever order the hash map yields, only elements of S come out
LEMMA OrdersType ==
  ASSUME NEW S \in SUBSET ToolIds, NEW order \in Orders(S)
  PROVE  order \in Seq(ToolIds)
<1>1. IsFiniteSet(S)
  BY FS_Subset, ToolIdsAssumption
<1>2. Cardinality(S) \in Nat
  BY <1>1, FS_CardinalityType
<1>3. order \in [1..Cardinality(S) -> ToolIds]
  BY DEF Orders
<1> QED BY <1>2, <1>3

-----------------------------------------------------------------------------
\* a call is at hand from its permission check to its result
CallAtHand == pc \in {"authorizing", "executing"} => pending_tool_uses # <<>>

(* Every variable keeps its type: no action takes a counter over its bound *)
(* or builds an event, message or cursor of another shape.                 *)
THEOREM TypeCorrect == Spec => []TypeOK
<1> USE MaxIterationsAssumption, MaxStreamRetryAssumption, SaveIntervalAssumption,
        MaxTokensAssumption
<1> USE DEF TypeOK, InLoop, Closing, Ended
<1>1. Init => TypeOK
  <2> SUFFICES ASSUME Init PROVE TypeOK
    OBVIOUS
  <2>1. /\ timeline \in Seq(Messages) /\ disk \in Seq(Messages)
        /\ events \in Seq(Events) /\ pending_tool_uses \in Seq(ToolIds)
    BY DEF Init
  <2>2. card \in [ToolIds -> CardStates]
    BY DEF Init, CardStates
  <2>3. /\ stream_start_retry_count \in 0..MaxStreamRetry
        /\ stream_event_retry_count \in 0..MaxStreamRetry
        /\ tool_loop_iter \in 0..MaxIterations /\ token_count \in 0..MaxTokens
    BY DEF Init
  <2> QED BY <2>1, <2>2, <2>3 DEF Init, Statuses
<1>2. TypeOK /\ CallAtHand /\ [Next]_vars => TypeOK'
  <2> SUFFICES ASSUME TypeOK, CallAtHand, [Next]_vars PROVE TypeOK'
    OBVIOUS
  <2> USE DEF control, cancel, retries, blocks, success, text, stored, Break
  <2>0. NoCursor \in Cursors /\ None \in ToolIds \cup {None}
    BY DEF Cursors
  <2>1. CASE Reject
    BY <2>1 DEF Reject, Statuses, CardStates
  <2>2. CASE Accept
    BY <2>2 DEF Accept, Statuses, CardStates
  <2>3. CASE Cancel
    <3>1. cancel_sender' \in BOOLEAN /\ cancel_signal' \in BOOLEAN
      BY <2>3 DEF Cancel
    <3> QED BY <2>3, <3>1 DEF Cancel
  <2>4. CASE CancelSeen
    <3>1. Event("stream_complete", Resolve(TRUE, "cancelled_by_user"), NoCursor)
            \in Events
      BY <2>0, ResolveType, EventType DEF Statuses
    <3>2. \E e \in Events : events' = Append(events, e)
      BY <2>4, <3>1 DEF CancelSeen
    <3>4. events' \in Seq(Events)
      BY <3>2
    <3>3. terminal_status' \in Statuses
      BY <2>4 DEF CancelSeen, Statuses
    <3> QED BY <2>4, <3>3, <3>4 DEF CancelSeen
  <2>5. CASE MaxIterationsReached
    BY <2>5 DEF MaxIterationsReached, Statuses, CardStates
  <2>6. CASE Admit
    BY <2>6 DEF Admit, Statuses, CardStates
  <2>7. CASE CostDenied
    <3>1. Event("stream_error", Resolve(TRUE, "failed_to_start_stream"), NoCursor)
            \in Events
      BY <2>0, ResolveType, EventType DEF Statuses
    <3>2. \E e \in Events : events' = Append(events, e)
      BY <2>7, <3>1 DEF CostDenied
    <3>4. events' \in Seq(Events)
      BY <3>2
    <3>3. terminal_status' \in Statuses
      BY <2>7 DEF CostDenied, Statuses
    <3> QED BY <2>7, <3>3, <3>4 DEF CostDenied
  <2>8. CASE StartRetry
    BY <2>8 DEF StartRetry, Statuses, CardStates
  <2>9. CASE StartFailed
    <3>1. Failure("failed_to_start_stream") \in Events
      BY FailureType DEF Statuses
    <3> QED BY <2>9, <3>1 DEF StartFailed, Statuses
  <2>10. CASE StartOk
    <3>1. pending_tool_uses' \in Seq(ToolIds)
      BY <2>10 DEF StartOk
    <3> QED BY <2>10, <3>1 DEF StartOk
  <2>11. CASE TextDelta
    <3>0. Message("assistant", None, NoCursor) \in Messages
      BY <2>0, MessageType
    <3>1. <<Message("assistant", None, NoCursor)>> \in Seq(Messages)
      BY <3>0
    <3>2. disk' \in Seq(Messages)
      BY <2>11, <3>1 DEF TextDelta
    <3>3. token_count' \in 0..MaxTokens
      BY <2>11 DEF TextDelta
    <3> QED BY <2>11, <3>2, <3>3 DEF TextDelta
  <2>12. CASE ThinkingDelta
    BY <2>12 DEF ThinkingDelta, Statuses, CardStates
  <2>13. CASE NoToolUses
    BY <2>13 DEF NoToolUses, Statuses, CardStates
  <2>14. CASE StreamEventRetry
    BY <2>14 DEF StreamEventRetry, Statuses, CardStates
  <2>15. CASE StreamEventError
    <3>1. terminal_status' \in Statuses
      BY <2>15 DEF StreamEventError, Statuses
    <3>2. Failure(terminal_status') \in Events
      BY <3>1, FailureType
    <3>3. events' \in Seq(Events)
      BY <2>15, <3>2 DEF StreamEventError
    <3>4. card' \in [ToolIds -> CardStates]
      BY <2>15 DEF StreamEventError, CardStates
    <3> QED BY <2>15, <3>1, <3>3, <3>4 DEF StreamEventError
  <2>16. CASE StreamEnds
    <3>1. PICK order \in Orders(tool_arguments) :
            pending_tool_uses' = pending_tool_uses \o order
      BY <2>16 DEF StreamEnds
    <3>2. order \in Seq(ToolIds)
      BY OrdersType
    <3>3. pending_tool_uses' \in Seq(ToolIds)
      BY <3>1, <3>2
    <3> QED BY <2>16, <3>3 DEF StreamEnds
  <2>17. CASE StartBatch
    <3>1. timeline' \in Seq(Messages)
      BY <2>17, <2>0, FlushType DEF StartBatch
    <3> QED BY <2>17, <3>1 DEF StartBatch
  <2>18. CASE ToolRunning
    <3>1. card' \in [ToolIds -> CardStates]
      BY <2>18 DEF ToolRunning, CardStates
    <3> QED BY <2>18, <3>1 DEF ToolRunning
  <2>19. CASE ToolDecided
    <3>1. Head(pending_tool_uses) \in ToolIds
      BY <2>19 DEF ToolDecided, CallAtHand
    <3>2. Message("tool_use", Head(pending_tool_uses), NoCursor) \in Messages
      BY <3>1, <2>0, MessageType
    <3> QED BY <2>19, <3>2 DEF ToolDecided
  <2>20. CASE BatchDone
    BY <2>20 DEF BatchDone, Statuses, CardStates
  <2>21. CASE FinalizeComplete
    <3> DEFINE truth == Resolve(stream_failed, terminal_status)
    <3>1. Event("stream_complete", truth, CursorOf(truth)) \in Events
      BY ResolveType, CursorOfType, EventType
    <3>2. events' \in Seq(Events)
      BY <2>21, <3>1 DEF FinalizeComplete
    <3> QED BY <2>21, <3>2 DEF FinalizeComplete
  <2>22. CASE Crash
    BY <2>22 DEF Crash, Statuses, CardStates
  <2>23. ASSUME NEW t \in ToolIds, ToolBlockStart(t) PROVE TypeOK'
    BY <2>23 DEF ToolBlockStart, CardStates
  <2>24. ASSUME NEW t \in ToolIds, InputJsonDelta(t) PROVE TypeOK'
    BY <2>24 DEF InputJsonDelta, CardStates
  <2>25. ASSUME NEW t \in ToolIds, ContentBlockStop(t) PROVE TypeOK'
    <3>1. CASE t \in tool_arguments
      <4>1. pending_tool_uses' = Append(pending_tool_uses, t)
        BY <2>25, <3>1 DEF ContentBlockStop
      <4>2. pending_tool_uses' \in Seq(ToolIds)
        BY <4>1
      <4> QED BY <2>25, <3>1, <4>2 DEF ContentBlockStop
    <3>2. CASE t \notin tool_arguments
      BY <2>25, <3>2 DEF ContentBlockStop
    <3> QED BY <3>1, <3>2
  <2>26. ASSUME NEW ok \in BOOLEAN, NEW mutating \in BOOLEAN,
              ToolSettled(ok, mutating)
       PROVE  TypeOK'
    <3>1. /\ Head(pending_tool_uses) \in ToolIds
          /\ Tail(pending_tool_uses) \in Seq(ToolIds)
      BY <2>26 DEF ToolSettled, CallAtHand
    <3>2. Message("tool_result", Head(pending_tool_uses), NoCursor) \in Messages
      BY <3>1, <2>0, MessageType
    <3>3. timeline' \in Seq(Messages) /\ card' \in [ToolIds -> CardStates]
      BY <2>26, <3>1, <3>2 DEF ToolSettled, CardStates
    <3> QED BY <2>26, <3>1, <3>3 DEF ToolSettled
  <2>27. ASSUME NEW claim \in BOOLEAN, NEW ok \in BOOLEAN,
              FinalizeSave(claim, ok)
       PROVE  TypeOK'
    <3> DEFINE truth == Resolve(stream_failed, terminal_status)
               user  == <<Message("user", None, NoCursor)>>
    <3>1. truth \in [outcome : Outcomes, resume : BOOLEAN]
      BY ResolveType
    <3>2. TextOverride \in Events
      BY DEF TextOverride, Event, Events, Truth, Cursors
    <3>3. events' \in Seq(Events)
      BY <2>27, <3>2 DEF FinalizeSave
    <3>4. timeline' \in Seq(Messages)
      BY <2>27, <3>1, FinalTimelineType DEF FinalizeSave
    <3>5. user \in Seq(Messages)
      <4>1. Message("user", None, NoCursor) \in Messages
        BY <2>0, MessageType
      <4> QED BY <4>1
    <3>6. user \o timeline' \in Seq(Messages)
      BY <3>4, <3>5
    <3>7. disk' \in Saved(user \o timeline') \/ disk' = disk
      BY <2>27 DEF FinalizeSave
    <3>8. disk' \in Seq(Messages)
      BY <3>6, <3>7, SavedType
    <3> QED BY <2>27, <3>3, <3>4, <3>8 DEF FinalizeSave
  <2>28. CASE UNCHANGED vars
    BY <2>28 DEF vars
  <2> QED
    BY <2>1, <2>2, <2>3, <2>4, <2>5, <2>6, <2>7, <2>8, <2>9, <2>10,
       <2>11, <2>12, <2>13, <2>14, <2>15, <2>16, <2>17, <2>18, <2>19,
       <2>20, <2>21, <2>22, <2>23, <2>24, <2>25, <2>26, <2>27, <2>28
       DEF Next, ProviderAnswers, ProviderEvent, ProviderEnds, TaskStep
<1>3. TypeOK /\ CallAtHand /\ [Next]_vars => CallAtHand'
  BY DEF CallAtHand, vars, Break, control, blocks, Reject, Accept, Cancel, CancelSeen,
         MaxIterationsReached, Admit, CostDenied, StartRetry,
         StartFailed, StartOk, TextDelta, ThinkingDelta, NoToolUses,
         StreamEventRetry, StreamEventError, StreamEnds, StartBatch,
         ToolRunning, ToolDecided, BatchDone, FinalizeComplete,
         Crash, ToolBlockStart, InputJsonDelta, ContentBlockStop,
         ToolSettled, FinalizeSave, Next, ProviderAnswers,
         ProviderEvent, ProviderEnds, TaskStep
<1>4. Init => CallAtHand
  BY DEF Init, CallAtHand
<1> QED BY <1>1, <1>2, <1>3, <1>4, PTL DEF Spec

-----------------------------------------------------------------------------
(* The invariant behind the verdicts.  An error is remembered exactly when *)
(* it was announced; a completion leaves nothing to announce; and text is  *)
(* only held where a response may have brought it.                         *)

ErrorAnnounced == Has("stream_error")
CompletionAnnounced == Has("stream_complete")
SuccessAnnounced ==
  \E i \in DOMAIN events : /\ events[i].type = "stream_complete"
                           /\ events[i].outcome = "completed"

ErrorsRemembered == stream_failed <=> ErrorAnnounced

EarlyCompletionRemembered == completion_already_emitted => CompletionAnnounced

CompletionCloses ==
  CompletionAnnounced =>
    \/ pc = "done"
    \/ /\ pc \in {"finalize", "saved", "crashed"}
       /\ completion_already_emitted /\ ~accumulated

SuccessIsLast == SuccessAnnounced => pc = "done" /\ ~stream_failed

DoneIsAnnounced == pc = "done" => ErrorAnnounced \/ CompletionAnnounced

TextOnlyInResponse ==
  /\ pc \in {"idle", "top", "request", "tools", "authorizing", "executing"}
       => ~accumulated
  /\ pc = "streaming" /\ ~emitted_stream_delta => ~accumulated

VerdictInv ==
  /\ ErrorsRemembered
  /\ EarlyCompletionRemembered
  /\ CompletionCloses
  /\ SuccessIsLast
  /\ DoneIsAnnounced
  /\ TextOnlyInResponse

\* a step that emits no event announces nothing
LEMMA NothingAnnounced ==
  ASSUME events' = events
  PROVE  /\ ErrorAnnounced' <=> ErrorAnnounced
         /\ CompletionAnnounced' <=> CompletionAnnounced
         /\ SuccessAnnounced' <=> SuccessAnnounced
BY DEF ErrorAnnounced, CompletionAnnounced, SuccessAnnounced, Has

\* what one more event announces, by its type and outcome
LEMMA EventAnnounced ==
  ASSUME TypeOK, NEW e, events' = Append(events, e)
  PROVE  /\ ErrorAnnounced' <=> ErrorAnnounced \/ e.type = "stream_error"
         /\ CompletionAnnounced' <=>
              CompletionAnnounced \/ e.type = "stream_complete"
         /\ SuccessAnnounced' <=>
              \/ SuccessAnnounced
              \/ e.type = "stream_complete" /\ e.outcome = "completed"
<1>1. /\ DOMAIN events' = 1..(Len(events) + 1)
      /\ DOMAIN events = 1..Len(events) /\ Len(events) \in Nat
      /\ \A i \in 1..Len(events) : events'[i] = events[i]
      /\ events'[Len(events) + 1] = e
  BY DEF TypeOK
<1> QED BY <1>1 DEF ErrorAnnounced, CompletionAnnounced, SuccessAnnounced, Has

\* a turn that has not begun has announced nothing and holds no text
LEMMA VerdictInvInit == Init => VerdictInv
BY DEF Init, VerdictInv, ErrorsRemembered, EarlyCompletionRemembered,
       CompletionCloses, SuccessIsLast, DoneIsAnnounced, TextOnlyInResponse,
       ErrorAnnounced, CompletionAnnounced, SuccessAnnounced, Has

\* no action breaks the tie between flags and announcements
LEMMA VerdictInvStep ==
  ASSUME TypeOK, VerdictInv, [Next]_vars
  PROVE  VerdictInv'
<1> USE DEF VerdictInv, ErrorsRemembered, EarlyCompletionRemembered,
            CompletionCloses, SuccessIsLast, DoneIsAnnounced, TextOnlyInResponse
<1> USE DEF control, cancel, retries, blocks, success, text, stored, Break
<1>1. CASE Reject
  BY <1>1, NothingAnnounced DEF Reject, TypeOK
<1>2. CASE Accept
  BY <1>2, NothingAnnounced DEF Accept, TypeOK
<1>3. CASE Cancel
  BY <1>3, NothingAnnounced DEF Cancel, TypeOK
<1>4. CASE MaxIterationsReached
  BY <1>4, NothingAnnounced DEF MaxIterationsReached, TypeOK
<1>5. CASE Admit
  BY <1>5, NothingAnnounced DEF Admit, TypeOK
<1>6. CASE StartRetry
  BY <1>6, NothingAnnounced DEF StartRetry, TypeOK
<1>7. CASE StartOk
  BY <1>7, NothingAnnounced DEF StartOk, TypeOK
<1>8. CASE TextDelta
  BY <1>8, NothingAnnounced DEF TextDelta, TypeOK
<1>9. CASE ThinkingDelta
  BY <1>9, NothingAnnounced DEF ThinkingDelta, TypeOK
<1>10. CASE StreamEnds
  BY <1>10, NothingAnnounced DEF StreamEnds, TypeOK
<1>11. CASE StreamEventRetry
  BY <1>11, NothingAnnounced DEF StreamEventRetry, TypeOK
<1>12. CASE NoToolUses
  BY <1>12, NothingAnnounced DEF NoToolUses, TypeOK
<1>13. CASE StartBatch
  BY <1>13, NothingAnnounced DEF StartBatch, TypeOK
<1>14. CASE ToolRunning
  BY <1>14, NothingAnnounced DEF ToolRunning, TypeOK
<1>15. CASE ToolDecided
  BY <1>15, NothingAnnounced DEF ToolDecided, TypeOK
<1>16. CASE BatchDone
  BY <1>16, NothingAnnounced DEF BatchDone, TypeOK
<1>17. CASE Crash
  BY <1>17, NothingAnnounced DEF Crash, Ended, Closing, InLoop, TypeOK
<1>18. ASSUME NEW t \in ToolIds, ToolBlockStart(t) PROVE VerdictInv'
  BY <1>18, NothingAnnounced DEF ToolBlockStart
<1>19. ASSUME NEW t \in ToolIds, InputJsonDelta(t) PROVE VerdictInv'
  BY <1>19, NothingAnnounced DEF InputJsonDelta
<1>20. ASSUME NEW t \in ToolIds, ContentBlockStop(t) PROVE VerdictInv'
  BY <1>20, NothingAnnounced DEF ContentBlockStop
<1>21. ASSUME NEW ok \in BOOLEAN, NEW mutating \in BOOLEAN,
            ToolSettled(ok, mutating)
     PROVE  VerdictInv'
  BY <1>21, NothingAnnounced DEF ToolSettled
<1>22. CASE UNCHANGED vars
  BY <1>22, NothingAnnounced DEF vars
<1>23. CASE CostDenied
  <2> DEFINE e == Event("stream_error", Resolve(TRUE, "failed_to_start_stream"),
                        NoCursor)
  <2>1. e.type = "stream_error"
    BY DEF Event, Failure
  <2>2. events' = Append(events, e)
    BY <1>23 DEF CostDenied
  <2> HIDE DEF e
  <2> QED BY <1>23, <2>1, <2>2, EventAnnounced DEF CostDenied
<1>24. CASE StartFailed
  <2> DEFINE e == Failure("failed_to_start_stream")
  <2>1. e.type = "stream_error"
    BY DEF Event, Failure
  <2>2. events' = Append(events, e)
    BY <1>24 DEF StartFailed
  <2> HIDE DEF e
  <2> QED BY <1>24, <2>1, <2>2, EventAnnounced DEF StartFailed
<1>25. CASE StreamEventError
  <2> DEFINE e == Failure(terminal_status')
  <2>1. e.type = "stream_error"
    BY DEF Event, Failure
  <2>2. events' = Append(events, e)
    BY <1>25 DEF StreamEventError
  <2> HIDE DEF e
  <2> QED BY <1>25, <2>1, <2>2, EventAnnounced DEF StreamEventError
<1>26. CASE CancelSeen
  <2> DEFINE e == Event("stream_complete", Resolve(TRUE, "cancelled_by_user"),
                        NoCursor)
  <2>1. e.type = "stream_complete" /\ e.outcome = "failed"
    BY DEF Event, Resolve, Truth
  <2>2. events' = Append(events, e)
    BY <1>26 DEF CancelSeen
  <2> HIDE DEF e
  <2> QED BY <1>26, <2>1, <2>2, EventAnnounced DEF CancelSeen
<1>27. ASSUME NEW claim \in BOOLEAN, NEW ok \in BOOLEAN,
            FinalizeSave(claim, ok)
     PROVE  VerdictInv'
  <2> DEFINE e == TextOverride
  <2>1. e.type = "final_text_override"
    BY DEF TextOverride, Event
  <2>2. events' = events \/ events' = Append(events, e)
    BY <1>27 DEF FinalizeSave
  <2> HIDE DEF e
  <2>3. /\ ErrorAnnounced' <=> ErrorAnnounced
        /\ CompletionAnnounced' <=> CompletionAnnounced
        /\ SuccessAnnounced' <=> SuccessAnnounced
    BY <2>1, <2>2, NothingAnnounced, EventAnnounced
  <2> QED BY <1>27, <2>3 DEF FinalizeSave
<1>28. CASE FinalizeComplete
  <2> DEFINE truth == Resolve(stream_failed, terminal_status)
             e == Event("stream_complete", truth, CursorOf(truth))
  <2>1. e.type = "stream_complete"
    BY DEF Event
  <2>2. CASE ~stream_failed /\ ~completion_already_emitted
    <3>1. events' = Append(events, e)
      BY <1>28, <2>2 DEF FinalizeComplete
    <3> HIDE DEF e
    <3> QED BY <1>28, <2>1, <2>2, <3>1, EventAnnounced DEF FinalizeComplete
  <2>3. CASE stream_failed \/ completion_already_emitted
    <3>1. events' = events
      BY <1>28, <2>3 DEF FinalizeComplete, TypeOK
    <3> QED BY <1>28, <2>3, <3>1, NothingAnnounced DEF FinalizeComplete, TypeOK
  <2> QED BY <2>2, <2>3 DEF TypeOK
<1> QED
  BY <1>1, <1>2, <1>3, <1>4, <1>5, <1>6, <1>7, <1>8, <1>9, <1>10, <1>11,
     <1>12, <1>13, <1>14, <1>15, <1>16, <1>17, <1>18, <1>19, <1>20,
     <1>21, <1>22, <1>23, <1>24, <1>25, <1>26, <1>27, <1>28
     DEF Next, ProviderAnswers, ProviderEvent, ProviderEnds, TaskStep

(* Throughout a turn the flags say what has been announced, and text is   *)
(* held only while a response may have brought it.                         *)
THEOREM VerdictInvariant == Spec => []VerdictInv
<1>1. VerdictInv /\ TypeOK /\ [Next]_vars => VerdictInv'
  BY VerdictInvStep
<1> QED BY <1>1, VerdictInvInit, TypeCorrect, PTL DEF Spec

-----------------------------------------------------------------------------
(* A turn that ended has told the window so, on every path out of the loop *)
(* of run_stream_task and through finalize_stream_task.                    *)
THEOREM AnnouncementTheorem == Spec => []SettledTurnAnnounced
<1>1. VerdictInv => SettledTurnAnnounced
  BY DEF VerdictInv, DoneIsAnnounced, SettledTurnAnnounced, ErrorAnnounced,
         CompletionAnnounced
<1> QED BY <1>1, VerdictInvariant, PTL

(* A turn announced as completed never announced an error, although the    *)
(* loop goes on with pending tool calls after a stream error.              *)
THEOREM VerdictsAgreeTheorem == Spec => []VerdictsAgree
<1>1. VerdictInv => VerdictsAgree
  BY DEF VerdictInv, SuccessIsLast, ErrorsRemembered, VerdictsAgree,
         SuccessAnnounced, ErrorAnnounced
<1> QED BY <1>1, VerdictInvariant, PTL

(* No text or thinking of one response is still held when the next request *)
(* is prepared, whichever retry or tool batch led there.                   *)
THEOREM NoTextCarriedOverTheorem == Spec => []NoTextCarriedOver
<1>1. VerdictInv => NoTextCarriedOver
  BY DEF VerdictInv, TextOnlyInResponse, NoTextCarriedOver
<1> QED BY <1>1, VerdictInvariant, PTL

(* After the completion of a turn the window hears nothing more of it: the *)
(* early completion of a stopped turn comes when nothing is accumulated,   *)
(* so finalize_stream_task neither rewrites its text nor completes again.  *)
THEOREM NothingAfterCompleteTheorem == Spec => NothingAfterComplete
<1>1. TypeOK /\ VerdictInv /\ [Next]_vars
        => [Has("stream_complete") => UNCHANGED <<events, card, token_count>>]_vars
  <2> SUFFICES ASSUME TypeOK, VerdictInv, [Next]_vars, CompletionAnnounced
               PROVE  UNCHANGED <<events, card, token_count>>
    BY DEF CompletionAnnounced
  <2>1. \/ pc = "done"
        \/ pc = "crashed"
        \/ pc \in Closing /\ completion_already_emitted /\ ~accumulated
    BY DEF VerdictInv, CompletionCloses, Closing
  <2>2. CASE pc \notin Closing
    BY <2>1, <2>2 DEF Closing, vars, Break, control, text, Reject, Accept,
           Cancel, CancelSeen, MaxIterationsReached, Admit, CostDenied,
           StartRetry, StartFailed, StartOk, TextDelta, ThinkingDelta,
           ToolBlockStart, InputJsonDelta, ContentBlockStop, StreamEnds,
           StreamEventRetry, StreamEventError, NoToolUses, StartBatch,
           ToolRunning, ToolDecided, ToolSettled, BatchDone, FinalizeSave,
           FinalizeComplete, Crash, Ended, Next, ProviderAnswers,
           ProviderEvent, ProviderEnds, TaskStep
  <2>3. CASE pc \in Closing
    BY <2>1, <2>3 DEF Closing, OverrideAllowed, vars, Break, control,
           text, Reject, Accept, Cancel, CancelSeen, MaxIterationsReached,
           Admit, CostDenied, StartRetry, StartFailed, StartOk, TextDelta,
           ThinkingDelta, ToolBlockStart, InputJsonDelta,
           ContentBlockStop, StreamEnds, StreamEventRetry,
           StreamEventError, NoToolUses, StartBatch, ToolRunning,
           ToolDecided, ToolSettled, BatchDone, FinalizeSave,
           FinalizeComplete, Crash, Ended, Next, ProviderAnswers,
           ProviderEvent, ProviderEnds, TaskStep
  <2> QED BY <2>2, <2>3
<1> QED BY <1>1, TypeCorrect, VerdictInvariant, PTL DEF Spec, NothingAfterComplete

-----------------------------------------------------------------------------
(* The refinement of TurnContract *)

\* PhaseOf, one case of the program counter at a time
PhaseMap ==
  /\ pc \in InLoop => PhaseOf = "running"
  /\ pc = "finalize" => PhaseOf = "closing"
  /\ pc = "saved" => PhaseOf = "written"
  /\ pc = "done" => PhaseOf = "settled"
  /\ pc = "crashed" => PhaseOf = "lost"
  /\ pc \in {"idle", "rejected"} => PhaseOf = pc

\* VerdictOf, by what has been announced
VerdictMap ==
  VerdictOf = IF CompletionAnnounced THEN "complete"
              ELSE IF ErrorAnnounced THEN "error" ELSE "none"

\* the phase of the contract, case by case
LEMMA PhaseByPc == PhaseMap
BY DEF PhaseMap, PhaseOf, InLoop

\* the verdict of the contract, from what was announced
LEMMA VerdictByEvents == VerdictMap
BY DEF VerdictMap, VerdictOf, CompletionAnnounced, ErrorAnnounced

\* every step of the turn is a step of its contract or a stutter
LEMMA ContractStep ==
  ASSUME TypeOK, VerdictInv, [Next]_vars, VerdictInv'
  PROVE  [Contract!Next]_(Contract!turn)
<1>1. PhaseMap /\ PhaseMap' /\ VerdictMap /\ VerdictMap'
  BY PhaseByPc, VerdictByEvents, PTL
<1>2. ASSUME PhaseOf' = PhaseOf, VerdictOf' = VerdictOf
      PROVE  [Contract!Next]_(Contract!turn)
  BY <1>2 DEF Contract!turn
<1>3. ASSUME pc \in InLoop, pc' \in InLoop, events' = events
      PROVE  [Contract!Next]_(Contract!turn)
  BY <1>1, <1>2, <1>3, NothingAnnounced DEF PhaseMap, VerdictMap
<1> USE <1>1 DEF InLoop, control
<1>4. CASE Admit
  BY <1>4, <1>3 DEF Admit
<1>5. CASE StartRetry
  BY <1>5, <1>3 DEF StartRetry
<1>6. CASE StartOk
  BY <1>6, <1>3 DEF StartOk
<1>7. CASE TextDelta
  BY <1>7, <1>3 DEF TextDelta
<1>8. CASE ThinkingDelta
  BY <1>8, <1>3 DEF ThinkingDelta
<1>9. CASE StreamEnds
  BY <1>9, <1>3 DEF StreamEnds
<1>10. CASE StreamEventRetry
  BY <1>10, <1>3 DEF StreamEventRetry
<1>11. CASE StartBatch
  BY <1>11, <1>3 DEF StartBatch
<1>12. CASE ToolRunning
  BY <1>12, <1>3 DEF ToolRunning
<1>13. CASE ToolDecided
  BY <1>13, <1>3 DEF ToolDecided
<1>14. CASE BatchDone
  BY <1>14, <1>3 DEF BatchDone
<1>15. ASSUME NEW t \in ToolIds, ToolBlockStart(t)
       PROVE  [Contract!Next]_(Contract!turn)
  BY <1>15, <1>3 DEF ToolBlockStart
<1>16. ASSUME NEW t \in ToolIds, InputJsonDelta(t)
       PROVE  [Contract!Next]_(Contract!turn)
  BY <1>16, <1>3 DEF InputJsonDelta
<1>17. ASSUME NEW t \in ToolIds, ContentBlockStop(t)
       PROVE  [Contract!Next]_(Contract!turn)
  BY <1>17, <1>3 DEF ContentBlockStop
<1>18. ASSUME NEW ok \in BOOLEAN, NEW mutating \in BOOLEAN,
             ToolSettled(ok, mutating)
      PROVE  [Contract!Next]_(Contract!turn)
  BY <1>18, <1>3 DEF ToolSettled
<1>19. CASE UNCHANGED vars
  <2>1. PhaseOf' = PhaseOf
    BY <1>19 DEF vars, PhaseOf
  <2>2. VerdictOf' = VerdictOf
    BY <1>19 DEF vars, VerdictOf, Has
  <2> QED BY <2>1, <2>2, <1>2
<1>20. CASE Cancel
  <2>1. PhaseOf' = PhaseOf
    BY <1>20 DEF Cancel, PhaseOf
  <2>2. VerdictOf' = VerdictOf
    BY <1>20 DEF Cancel, VerdictOf, Has
  <2> QED BY <2>1, <2>2, <1>2
<1>21. CASE Reject
  <2>1. Contract!Refuse
    BY <1>21, NothingAnnounced DEF Reject, PhaseMap, VerdictMap, Contract!Refuse
  <2> QED BY <2>1 DEF Contract!Next
<1>22. CASE Accept
  <2>1. Contract!Start
    BY <1>22, NothingAnnounced DEF Accept, PhaseMap, VerdictMap, Contract!Start
  <2> QED BY <2>1 DEF Contract!Next
<1>23. CASE MaxIterationsReached
  <2>1. Contract!Close
    BY <1>23, NothingAnnounced
       DEF MaxIterationsReached, Break, PhaseMap, VerdictMap, Contract!Close
  <2> QED BY <2>1 DEF Contract!Next
<1>24. CASE NoToolUses
  <2>1. Contract!Close
    BY <1>24, NothingAnnounced
       DEF NoToolUses, Break, PhaseMap, VerdictMap, Contract!Close
  <2> QED BY <2>1 DEF Contract!Next
<1>25. CASE CostDenied
  <2> DEFINE e == Event("stream_error", Resolve(TRUE, "failed_to_start_stream"),
                        NoCursor)
  <2>1. e.type = "stream_error"
    BY DEF Event, Failure
  <2>2. events' = Append(events, e)
    BY <1>25 DEF CostDenied
  <2> HIDE DEF e
  <2>3. ~CompletionAnnounced
    BY <1>25 DEF CostDenied, VerdictInv, CompletionCloses
  <2>4. VerdictOf' = "error"
    BY <2>1, <2>2, <2>3, EventAnnounced DEF VerdictMap
  <2>5. Contract!Close
    BY <1>25, <2>4 DEF CostDenied, Break, PhaseMap, Contract!Close
  <2> QED BY <2>5 DEF Contract!Next
<1>26. CASE StartFailed
  <2> DEFINE e == Failure("failed_to_start_stream")
  <2>1. e.type = "stream_error"
    BY DEF Event, Failure
  <2>2. events' = Append(events, e)
    BY <1>26 DEF StartFailed
  <2> HIDE DEF e
  <2>3. ~CompletionAnnounced
    BY <1>26 DEF StartFailed, VerdictInv, CompletionCloses
  <2>4. VerdictOf' = "error"
    BY <2>1, <2>2, <2>3, EventAnnounced DEF VerdictMap
  <2>5. Contract!Close
    BY <1>26, <2>4 DEF StartFailed, Break, PhaseMap, Contract!Close
  <2> QED BY <2>5 DEF Contract!Next
<1>27. CASE CancelSeen
  <2> DEFINE e == Event("stream_complete", Resolve(TRUE, "cancelled_by_user"),
                        NoCursor)
  <2>1. e.type = "stream_complete"
    BY DEF Event, Failure
  <2>2. events' = Append(events, e)
    BY <1>27 DEF CancelSeen
  <2> HIDE DEF e
  <2>3. ~CompletionAnnounced
    BY <1>27 DEF CancelSeen, VerdictInv, CompletionCloses
  <2>4. VerdictOf' = "complete"
    BY <2>1, <2>2, <2>3, EventAnnounced DEF VerdictMap
  <2>5. Contract!Close
    BY <1>27, <2>4 DEF CancelSeen, Break, PhaseMap, Contract!Close
  <2> QED BY <2>5 DEF Contract!Next
<1>28. CASE StreamEventError
  <2> DEFINE e == Failure(terminal_status')
  <2>1. e.type = "stream_error"
    BY DEF Event, Failure
  <2>2. events' = Append(events, e)
    BY <1>28 DEF StreamEventError
  <2> HIDE DEF e
  <2>3. ~CompletionAnnounced
    BY <1>28 DEF StreamEventError, VerdictInv, CompletionCloses
  <2>4. VerdictOf' = "error"
    BY <2>1, <2>2, <2>3, EventAnnounced DEF VerdictMap
  <2>5. Contract!ReportError
    BY <1>28, <2>4 DEF StreamEventError, Break, PhaseMap, Contract!ReportError
  <2> QED BY <2>5 DEF Contract!Next
<1>29. ASSUME NEW claim \in BOOLEAN, NEW ok \in BOOLEAN,
             FinalizeSave(claim, ok)
      PROVE  [Contract!Next]_(Contract!turn)
  <2> DEFINE e == TextOverride
  <2>1. e.type = "final_text_override"
    BY DEF TextOverride, Event
  <2>2. events' = events \/ events' = Append(events, e)
    BY <1>29 DEF FinalizeSave
  <2> HIDE DEF e
  <2>3. VerdictOf' = VerdictOf
    BY <2>1, <2>2, NothingAnnounced, EventAnnounced DEF VerdictMap
  <2>4. Contract!Write
    BY <1>29, <2>3 DEF FinalizeSave, PhaseMap, Contract!Write
  <2> QED BY <2>4 DEF Contract!Next
<1>30. CASE FinalizeComplete
  <2> DEFINE truth == Resolve(stream_failed, terminal_status)
             e == Event("stream_complete", truth, CursorOf(truth))
  <2>1. e.type = "stream_complete"
    BY DEF Event
  <2>2. CASE ~stream_failed /\ ~completion_already_emitted
    <3>1. events' = Append(events, e)
      BY <1>30, <2>2 DEF FinalizeComplete
    <3> HIDE DEF e
    <3>2. VerdictOf = "none"
      BY <1>30, <2>2 DEF FinalizeComplete, VerdictMap, VerdictInv,
                        ErrorsRemembered, CompletionCloses
    <3>3. VerdictOf' = "complete"
      BY <2>1, <3>1, EventAnnounced DEF VerdictMap
    <3> QED BY <1>30, <3>2, <3>3 DEF FinalizeComplete, PhaseMap,
                                    Contract!Settle, Contract!Next
  <2>3. CASE stream_failed \/ completion_already_emitted
    <3>1. events' = events
      BY <1>30, <2>3 DEF FinalizeComplete, TypeOK
    <3>2. VerdictOf' = VerdictOf /\ VerdictOf # "none"
      BY <2>3, <3>1, NothingAnnounced DEF VerdictMap, VerdictInv,
         ErrorsRemembered, EarlyCompletionRemembered
    <3> QED BY <1>30, <3>2 DEF FinalizeComplete, PhaseMap, Contract!Settle,
                              Contract!Next
  <2> QED BY <2>2, <2>3 DEF TypeOK
<1>31. CASE Crash
  <2>1. Contract!Lose
    BY <1>31, NothingAnnounced
       DEF Crash, Closing, Ended, TypeOK, PhaseMap, VerdictMap, Contract!Lose
  <2> QED BY <2>1 DEF Contract!Next
<1> QED
  BY <1>4, <1>5, <1>6, <1>7, <1>8, <1>9, <1>10, <1>11, <1>12, <1>13,
     <1>14, <1>15, <1>16, <1>17, <1>18, <1>19, <1>20, <1>21, <1>22,
     <1>23, <1>24, <1>25, <1>26, <1>27, <1>28, <1>29, <1>30, <1>31
     DEF Next, ProviderAnswers, ProviderEvent, ProviderEnds, TaskStep

(* The turn implements its contract: whatever retries, tools and stops it  *)
(* went through, it closes, is written and then settled, and the window    *)
(* has its verdict.                                                        *)
THEOREM ContractTheorem == Spec => ImplementsContract
<1>1. Init => Contract!Init
  BY DEF Init, Contract!Init, PhaseOf, VerdictOf, Has, InLoop
<1>2. TypeOK /\ VerdictInv /\ VerdictInv' /\ [Next]_vars
        => [Contract!Next]_(Contract!turn)
  BY ContractStep
<1> QED
  BY <1>1, <1>2, TypeCorrect, VerdictInvariant, PTL
     DEF Spec, ImplementsContract, Contract!Spec
=============================================================================
