----------------------- MODULE PermissionPrompt_proofs -----------------------
(***************************************************************************)
(* Theorems about PermissionPrompt, for any runs, tools and modes and any  *)
(* number of calls and clicks.                                             *)
(***************************************************************************)
EXTENDS PermissionPrompt, SequenceTheorems, TLAPS

\* every tool call has a number of its own, and one that is open was begun
CallsBegun ==
  /\ \A r \in Runs : call[r] # None => call[r].number <= calls
  /\ \A r \in Runs : call[r] # None <=> pc[r] \in {"call", "waiting", "clearing"}
  /\ record # None => record.number <= calls
  /\ recovery.prompt # None => recovery.prompt.number <= calls
  /\ recovery.next # "none" => recovery.prompt # None

TypeInv == TypeOK /\ CallsBegun

LEMMA NoneFacts == None \notin Runs /\ None \notin Calls /\ MaxCalls \in Nat /\ MaxAnswers \in Nat
BY NoneAssumption, BoundsAssumption

LEMMA InitTyped == Init => TypeInv
<1> SUFFICES ASSUME Init PROVE TypeInv
  OBVIOUS
<1>1. [r \in Runs |-> <<>>] \in [Runs -> Seq(Answers)]
  OBVIOUS
<1>2. TypeOK
  <2>1. pc \in [Runs -> {"idle", "ended"} \cup Active] /\ call \in [Runs -> Calls \cup {None}]
    BY DEF Init
  <2>2. /\ remembered \in [Runs -> Decisions \cup {"none"}]
        /\ overrides \in [Tools -> Decisions \cup {"none"}]
        /\ handlers \subseteq [prompt : Calls, decision : Decisions, remember : BOOLEAN]
        /\ recovery \in [next : {"none", "clear", "show"}, prompt : Calls \cup {None}]
    BY DEF Init, NoRecovery
  <2>3. calls \in 0 .. MaxCalls /\ clicks \in 0 .. MaxAnswers
    BY NoneFacts DEF Init
  <2>4. outcomes \subseteq [prompt : Calls, answer : Answers]
    BY DEF Init
  <2> QED BY <1>1, <2>1, <2>2, <2>3, <2>4 DEF Init, TypeOK
<1>3. CallsBegun
  BY NoneFacts DEF Init, CallsBegun, NoRecovery
<1> QED BY <1>2, <1>3 DEF TypeInv

\* what a channel holds stays a sequence of answers
LEMMA ChannelTyped ==
  ASSUME NEW s \in Seq(Answers), NEW a \in Answers
  PROVE  /\ Append(s, a) \in Seq(Answers) /\ <<>> \in Seq(Answers)
         /\ s # <<>> => Tail(s) \in Seq(Answers) /\ Head(s) \in Answers
BY AppendProperties, HeadTailProperties, EmptySeq

-----------------------------------------------------------------------------
(* Types *)

\* a call that is settled leaves its run in the batch
LEMMA SettleTyped ==
  ASSUME TypeInv, NEW r \in Runs, Settle(r)
  PROVE  /\ pc' \in [Runs -> {"idle", "ended"} \cup Active]
         /\ call' \in [Runs -> Calls \cup {None}]
         /\ remembered' \in [Runs -> Decisions \cup {"none"}]
         /\ \A o \in Runs : o # r => pc'[o] = pc[o] /\ call'[o] = call[o]
         /\ pc'[r] = "batch" /\ call'[r] = None
BY DEF TypeInv, TypeOK, Settle, Goto, Active, InBatch

LEMMA RunTyped ==
  ASSUME TypeInv, NEW r \in Runs, RunStep(r) PROVE TypeInv'
<1> USE NoneFacts DEF TypeInv
<1>1. CASE StartRun(r)
  <2>1. overlapped' \in BOOLEAN
    BY <1>1 DEF StartRun
  <2> QED BY <1>1, <2>1 DEF StartRun, Goto, TypeOK, CallsBegun, Active, InBatch, channel, window
<1>2. CASE StartBatch(r) \/ EndBatch(r) \/ EndRun(r)
  <2>1. inbox' \in [Runs -> Seq(Answers)]
    <3>1. <<>> \in Seq(Answers)
      OBVIOUS
    <3>2. inbox' = [inbox EXCEPT ![r] = <<>>] \/ inbox' = inbox
      BY <1>2 DEF StartBatch, EndBatch, EndRun, channel
    <3> QED BY <3>1, <3>2 DEF TypeOK
  <2>2. TypeOK'
    BY <1>2, <2>1 DEF StartBatch, EndBatch, EndRun, Goto, TypeOK, Active, InBatch,
                      channel, window, history
  <2>3. CallsBegun'
    <3>1. call' = call /\ call[r] = None
      BY <1>2 DEF StartBatch, EndBatch, EndRun, CallsBegun
    <3>2. pc'[r] \in {"loop", "batch", "ended"} /\ \A o \in Runs : o # r => pc'[o] = pc[o]
      BY <1>2 DEF StartBatch, EndBatch, EndRun, Goto, TypeOK
    <3>3. UNCHANGED <<calls, record, recovery>>
      BY <1>2 DEF StartBatch, EndBatch, EndRun, window
    <3> QED BY <3>1, <3>2, <3>3 DEF CallsBegun
  <2> QED BY <2>2, <2>3
<1>3. ASSUME NEW t \in Tools, BeginCall(r, t) PROVE TypeInv'
  <2>1. calls' \in 0 .. MaxCalls /\ calls' = calls + 1 /\ calls \in Nat
    BY <1>3 DEF BeginCall, TypeOK
  <2>2. call'[r] = [number |-> calls + 1, tool |-> t] /\ call'[r] \in Calls
    BY <1>3, <2>1 DEF BeginCall, TypeOK, Calls
  <2>3. TypeOK'
    BY <1>3, <2>1, <2>2 DEF BeginCall, Goto, TypeOK, Active, InBatch, channel, window, history
  <2>4. \A o \in Runs : o # r => call'[o] = call[o] /\ pc'[o] = pc[o]
    BY <1>3 DEF BeginCall, Goto, TypeOK
  <2>5. \A c \in Calls : c.number \in Nat
    BY DEF Calls
  <2>6. pc'[r] = "call" /\ call'[r].number <= calls' /\ call'[r] # None
    BY <1>3, <2>1, <2>2 DEF BeginCall, Goto, TypeOK
  <2>7. ASSUME NEW o \in Runs
        PROVE  /\ call'[o] # None => call'[o].number <= calls'
               /\ call'[o] # None <=> pc'[o] \in {"call", "waiting", "clearing"}
    <3>1. call[o] # None => call[o].number \in Nat /\ call[o].number <= calls
      BY <2>5 DEF CallsBegun, TypeOK
    <3> QED BY <2>1, <2>4, <2>6, <3>1 DEF CallsBegun
  <2>8. CallsBegun'
    BY <1>3, <2>1, <2>5, <2>7 DEF BeginCall, CallsBegun, TypeOK, window
  <2> QED BY <2>3, <2>8
<1>4. CASE SettleWithoutPrompt(r) \/ ClearRecord(r)
  <2>1. Settle(r)
    BY <1>4 DEF SettleWithoutPrompt, ClearRecord
  <2>4. left' \subseteq Calls
    <3>1. pc[r] = "clearing" => call[r] \in Calls
      BY DEF TypeOK, CallsBegun
    <3> QED BY <1>4, <3>1 DEF SettleWithoutPrompt, ClearRecord, TypeOK, history
  <2>2. TypeOK'
    BY <1>4, <2>1, <2>4, SettleTyped
       DEF SettleWithoutPrompt, ClearRecord, TypeOK, channel, window, history
  <2>3. CallsBegun'
    BY <1>4, <2>1, SettleTyped DEF SettleWithoutPrompt, ClearRecord, CallsBegun, window, InBatch
  <2> QED BY <2>2, <2>3
<1>5. CASE AskUser(r)
  <2>1. CASE Settle(r) /\ record' \in {record, None} /\ UNCHANGED dialog
    <3>1. TypeOK'
      BY <1>5, <2>1, SettleTyped DEF AskUser, TypeOK, channel, history
    <3>2. CallsBegun'
      BY <1>5, <2>1, SettleTyped DEF AskUser, CallsBegun, InBatch
    <3> QED BY <3>1, <3>2
  <2>2. CASE Goto(r, "waiting") /\ record' = call[r] /\ dialog' = call[r] /\ UNCHANGED <<call, remembered>>
    <3>1. TypeOK'
      BY <1>5, <2>2 DEF AskUser, Goto, TypeOK, Active, InBatch, channel, history
    <3>2. CallsBegun'
      BY <1>5, <2>2 DEF AskUser, Goto, TypeOK, CallsBegun, Active, InBatch
    <3> QED BY <3>1, <3>2
  <2> QED BY <1>5, <2>1, <2>2 DEF AskUser
<1>6. CASE ReceiveAnswer(r)
  <2>1. Head(inbox[r]) \in Answers /\ Tail(inbox[r]) \in Seq(Answers)
    BY <1>6, HeadTailProperties DEF ReceiveAnswer, TypeOK
  <2>2. call[r] \in Calls
    BY <1>6 DEF ReceiveAnswer, TypeOK, CallsBegun
  <2>3. TypeOK'
    <3>1. inbox' \in [Runs -> Seq(Answers)]
      BY <1>6, <2>1 DEF ReceiveAnswer, TypeOK
    <3>2. outcomes' \subseteq [prompt : Calls, answer : Answers]
      BY <1>6, <2>1, <2>2 DEF ReceiveAnswer, TypeOK
    <3> QED BY <1>6, <3>1, <3>2 DEF ReceiveAnswer, Goto, TypeOK, Active, InBatch, window
  <2>4. CallsBegun'
    BY <1>6 DEF ReceiveAnswer, Goto, TypeOK, CallsBegun, Active, InBatch, window
  <2> QED BY <2>3, <2>4
<1>7. CASE WaitFails(r)
  BY <1>7 DEF WaitFails, Goto, TypeOK, CallsBegun, Active, InBatch, channel, window
<1> QED BY <1>1, <1>2, <1>3, <1>4, <1>5, <1>6, <1>7 DEF RunStep, Wait

LEMMA WindowTyped == TypeInv /\ WindowStep => TypeInv'
<1> SUFFICES ASSUME TypeInv, WindowStep PROVE TypeInv'
  OBVIOUS
<1> USE NoneFacts DEF TypeInv
<1>1. ASSUME NEW d \in Decisions, NEW s \in Scopes, Answer(d, s) PROVE TypeInv'
  <2> DEFINE sent == sender # None /\ pc[sender] \in InBatch
  <2>1. dialog \in Calls /\ [decision |-> d, about |-> dialog] \in Answers
    BY <1>1 DEF Answer, TypeOK, Answers
  <2>2. inbox' \in [Runs -> Seq(Answers)]
    <3>1. CASE sent
      <4>1. sender \in Runs /\ inbox[sender] \in Seq(Answers)
        BY <3>1 DEF TypeOK
      <4>2. Append(inbox[sender], [decision |-> d, about |-> dialog]) \in Seq(Answers)
        BY <2>1, <4>1, AppendProperties
      <4> QED BY <1>1, <3>1, <4>1, <4>2 DEF Answer, TypeOK
    <3>2. CASE ~sent
      BY <1>1, <3>2 DEF Answer, TypeOK
    <3> QED BY <3>1, <3>2
  <2>3. disturbed' \in BOOLEAN
    BY <1>1 DEF Answer
  <2>4. (sent /\ s = "session") \in BOOLEAN
    OBVIOUS
  <2>5. handlers' \subseteq [prompt : Calls, decision : Decisions, remember : BOOLEAN]
    <3>1. [prompt |-> dialog, decision |-> d, remember |-> sent /\ s = "session"]
            \in [prompt : Calls, decision : Decisions, remember : BOOLEAN]
      BY <2>1, <2>4
    <3> QED BY <1>1, <3>1 DEF Answer, TypeOK
  <2>6. clicks' \in 0 .. MaxAnswers
    BY <1>1 DEF Answer, TypeOK
  <2> QED BY <1>1, <2>2, <2>3, <2>5, <2>6 DEF Answer, TypeOK, CallsBegun, runs
<1>2. ASSUME NEW h \in handlers, Remember(h) PROVE TypeInv'
  <2>1. h.prompt.tool \in Tools /\ h.decision \in Decisions
    BY DEF TypeOK, Calls
  <2>2. [h EXCEPT !.remember = FALSE] \in [prompt : Calls, decision : Decisions, remember : BOOLEAN]
    <3>1. h \in [prompt : Calls, decision : Decisions, remember : BOOLEAN]
      BY DEF TypeOK
    <3> QED BY <3>1
  <2>3. /\ overrides' \in [Tools -> Decisions \cup {"none"}]
        /\ handlers' \subseteq [prompt : Calls, decision : Decisions, remember : BOOLEAN]
    BY <1>2, <2>1, <2>2 DEF Remember, TypeOK
  <2> QED BY <1>2, <2>3 DEF Remember, TypeOK, CallsBegun, runs, channel, history
<1>3. ASSUME NEW h \in handlers, CloseDialog(h) PROVE TypeInv'
  BY <1>3 DEF CloseDialog, TypeOK, CallsBegun, runs, channel, history
<1>4. CASE RecoverPrompt
  BY <1>4 DEF RecoverPrompt, NoRecovery, TypeOK, CallsBegun, runs, channel, history
<1>5. CASE RecoveryClears
  <2>1. stolen' \in BOOLEAN
    BY <1>5 DEF RecoveryClears, TypeOK
  <2> QED BY <1>5, <2>1 DEF RecoveryClears, NoRecovery, TypeOK, CallsBegun, runs, channel
<1>6. CASE RecoveryShows
  BY <1>6 DEF RecoveryShows, NoRecovery, TypeOK, CallsBegun, runs, channel, history
<1> QED BY <1>1, <1>2, <1>3, <1>4, <1>5, <1>6 DEF WindowStep

LEMMA TypeStep == TypeInv /\ [Next]_vars => TypeInv'
<1> SUFFICES ASSUME TypeInv, [Next]_vars PROVE TypeInv'
  OBVIOUS
<1>1. CASE Restart
  <2>1. [r \in Runs |-> <<>>] \in [Runs -> Seq(Answers)]
    OBVIOUS
  <2>2. TypeOK'
    BY <1>1, <2>1, NoneFacts DEF Restart, TypeInv, TypeOK, NoRecovery
  <2>3. CallsBegun'
    BY <1>1, NoneFacts DEF Restart, TypeInv, TypeOK, CallsBegun, NoRecovery, Active, InBatch
  <2> QED BY <2>2, <2>3 DEF TypeInv
<1>2. CASE UNCHANGED vars
  BY <1>2 DEF vars, runs, channel, window, history, TypeInv, TypeOK, CallsBegun
<1> QED BY <1>1, <1>2, RunTyped, WindowTyped DEF Next

\* Runs, channels, the record, the dialog and the clicks under way are well typed:
\* every prompt, answer and record is about a call within the bound.
THEOREM TypeCorrect == Spec => []TypeOK
<1>1. TypeInv => TypeOK
  BY DEF TypeInv
<1> QED BY <1>1, InitTyped, TypeStep, PTL DEF Spec

-----------------------------------------------------------------------------
(* The record on disk *)

\* what a step of run r does to the others, and to a prompt that is open
LEMMA OnlyOneMoves ==
  ASSUME TypeInv, NEW r \in Runs, RunStep(r), NEW o \in Runs, o # r
  PROVE  pc'[o] = pc[o] /\ call'[o] = call[o]
<1> USE DEF TypeInv, TypeOK
<1>1. CASE SettleWithoutPrompt(r) \/ ClearRecord(r)
  BY <1>1, SettleTyped DEF SettleWithoutPrompt, ClearRecord
<1>2. CASE AskUser(r)
  BY <1>2, SettleTyped DEF AskUser, Goto
<1>3. CASE \E t \in Tools : BeginCall(r, t)
  BY <1>3 DEF BeginCall, Goto
<1>4. CASE StartRun(r) \/ StartBatch(r) \/ EndBatch(r) \/ EndRun(r) \/ ReceiveAnswer(r) \/ WaitFails(r)
  BY <1>4 DEF StartRun, StartBatch, EndBatch, EndRun, ReceiveAnswer, WaitFails, Goto
<1> QED BY <1>1, <1>2, <1>3, <1>4 DEF RunStep, Wait

\* the record stays, is removed, or becomes the one of the run that now waits;
\* a run that waited keeps its call until the record is removed
LEMMA RecordSteps ==
  ASSUME TypeInv, NEW r \in Runs, RunStep(r)
  PROVE  /\ crashed' = crashed /\ stolen' = stolen /\ left \subseteq left'
         /\ \/ record' \in {record, None}
            \/ record' = call[r] /\ call'[r] = call[r] /\ pc'[r] = "waiting"
         /\ pc[r] = "waiting" => pc'[r] = "clearing" /\ call'[r] = call[r]
         /\ pc[r] = "clearing" => record' = None \/ call[r] \in left'
         /\ pc'[r] = "waiting" => record' = call'[r]
<1> USE DEF TypeInv, TypeOK
<1>1. CASE SettleWithoutPrompt(r) \/ ClearRecord(r)
  BY <1>1, SettleTyped DEF SettleWithoutPrompt, ClearRecord, history
<1>2. CASE AskUser(r)
  <2>1. CASE Settle(r) /\ record' \in {record, None} /\ UNCHANGED dialog
    BY <1>2, <2>1, SettleTyped DEF AskUser, history
  <2>2. CASE Goto(r, "waiting") /\ record' = call[r] /\ dialog' = call[r] /\ UNCHANGED <<call, remembered>>
    BY <1>2, <2>2 DEF AskUser, Goto, history
  <2> QED BY <1>2, <2>1, <2>2 DEF AskUser
<1>3. CASE \E t \in Tools : BeginCall(r, t)
  BY <1>3 DEF BeginCall, Goto, history
<1>4. CASE StartRun(r) \/ StartBatch(r) \/ EndBatch(r) \/ EndRun(r)
  BY <1>4 DEF StartRun, StartBatch, EndBatch, EndRun, Goto, history
<1>5. CASE ReceiveAnswer(r) \/ WaitFails(r)
  BY <1>5 DEF ReceiveAnswer, WaitFails, Goto
<1> QED BY <1>1, <1>2, <1>3, <1>4, <1>5 DEF RunStep, Wait

LEMMA RecordIsLiveInductive == RecordIsLive /\ TypeInv /\ [Next]_vars => RecordIsLive'
<1> SUFFICES ASSUME RecordIsLive, TypeInv, [Next]_vars, record' \notin {None} \cup left'
             PROVE  \E r \in Runs : pc'[r] \in {"waiting", "clearing"} /\ record' = call'[r]
  BY DEF RecordIsLive
<1>1. ASSUME NEW r \in Runs, RunStep(r)
      PROVE  \E o \in Runs : pc'[o] \in {"waiting", "clearing"} /\ record' = call'[o]
  <2>1. CASE record' = call[r] /\ call'[r] = call[r] /\ pc'[r] = "waiting"
    BY <2>1
  <2>2. CASE record' = record
    <3>1. PICK o \in Runs : pc[o] \in {"waiting", "clearing"} /\ record = call[o]
      BY <1>1, <2>2, RecordSteps DEF RecordIsLive
    <3>2. pc'[o] \in {"waiting", "clearing"} /\ call'[o] = call[o]
      BY <1>1, <2>2, <3>1, OnlyOneMoves, RecordSteps
    <3> QED BY <2>2, <3>1, <3>2
  <2> QED BY <1>1, <2>1, <2>2, RecordSteps
<1>2. CASE WindowStep
  <2>1. UNCHANGED <<pc, call, left>> /\ record' \in {record, None}
    BY <1>2 DEF WindowStep, Answer, Remember, CloseDialog, RecoverPrompt, RecoveryClears,
                RecoveryShows, runs, history
  <2> QED BY <2>1 DEF RecordIsLive
<1>3. CASE Restart
  BY <1>3 DEF Restart
<1>4. CASE UNCHANGED vars
  BY <1>4 DEF vars, runs, history, RecordIsLive
<1> QED BY <1>1, <1>2, <1>3, <1>4 DEF Next

\* A record on disk is that of a run still at its prompt, also when runs of the
\* session overlap, or one that a failed removal or a kill has left there.
THEOREM RecordIsLiveTheorem == Spec => []RecordIsLive
<1>1. Init => RecordIsLive
  BY DEF Init, RecordIsLive
<1> QED BY <1>1, InitTyped, TypeStep, RecordIsLiveInductive, PTL DEF Spec

-----------------------------------------------------------------------------
(* One run at a time *)

\* runs that are active together are in the history; a batch has its channel
\* in the map, its own unless another run came in between
AloneInv ==
  /\ ~overlapped => \A r, o \in Runs : pc[r] \in Active /\ pc[o] \in Active => r = o
  /\ \A r \in Runs : pc[r] \in InBatch =>
       sender # None /\ (~overlapped => sender = r)

LEMMA RunsWell ==
  ASSUME TypeInv, NEW r \in Runs, RunStep(r)
  PROVE  \/ StartRun(r)
         \/ StartBatch(r)
         \/ /\ UNCHANGED <<sender, overlapped>> /\ pc[r] \in Active
            /\ pc'[r] \in InBatch => pc[r] \in InBatch
<1> USE DEF TypeInv, TypeOK, Active, InBatch
<1>1. CASE SettleWithoutPrompt(r) \/ ClearRecord(r)
  BY <1>1 DEF SettleWithoutPrompt, ClearRecord, channel, history
<1>2. CASE AskUser(r) \/ (\E t \in Tools : BeginCall(r, t)) \/ EndBatch(r) \/ EndRun(r)
  BY <1>2 DEF AskUser, BeginCall, EndBatch, EndRun, Goto, channel, history
<1>3. CASE ReceiveAnswer(r) \/ WaitFails(r)
  BY <1>3 DEF ReceiveAnswer, WaitFails, Goto, channel
<1> QED BY <1>1, <1>2, <1>3 DEF RunStep, Wait

\* the window leaves the runs and their channels in place
LEMMA WindowKeeps ==
  ASSUME WindowStep PROVE UNCHANGED <<pc, call, sender, overlapped, crashed>>
<1>1. ASSUME NEW d \in Decisions, NEW s \in Scopes, Answer(d, s)
      PROVE  UNCHANGED <<pc, call, sender, overlapped, crashed>>
  BY <1>1 DEF Answer, runs
<1>2. ASSUME NEW h \in handlers, Remember(h) \/ CloseDialog(h)
      PROVE  UNCHANGED <<pc, call, sender, overlapped, crashed>>
  BY <1>2 DEF Remember, CloseDialog, runs, channel, history
<1>3. CASE RecoverPrompt \/ RecoveryClears \/ RecoveryShows
  BY <1>3 DEF RecoverPrompt, RecoveryClears, RecoveryShows, runs, channel, history
<1> QED BY <1>1, <1>2, <1>3 DEF WindowStep

LEMMA AloneInductive == AloneInv /\ TypeInv /\ [Next]_vars => AloneInv'
<1> SUFFICES ASSUME AloneInv, TypeInv, [Next]_vars PROVE AloneInv'
  OBVIOUS
<1>1. ASSUME NEW r \in Runs, RunStep(r) PROVE AloneInv'
  <2>0. \A o \in Runs : o # r => pc'[o] = pc[o]
    BY <1>1, OnlyOneMoves
  <2>1. CASE StartRun(r)
    <3>1. pc'[r] = "loop" /\ sender' = sender
      BY <2>1 DEF StartRun, Goto, TypeInv, TypeOK, channel
    <3>2. ~overlapped' => ~overlapped /\ \A o \in Runs : pc[o] \notin Active
      BY <2>1 DEF StartRun
    <3> QED BY <2>0, <3>1, <3>2 DEF AloneInv, InBatch
  <2>2. CASE StartBatch(r)
    <3>1. pc[r] = "loop" /\ pc'[r] = "batch" /\ sender' = r /\ overlapped' = overlapped
      BY <2>2 DEF StartBatch, Goto, TypeInv, TypeOK, history
    <3> QED BY <2>0, <3>1, NoneFacts DEF AloneInv, Active, InBatch
  <2>3. CASE /\ UNCHANGED <<sender, overlapped>> /\ pc[r] \in Active
             /\ pc'[r] \in InBatch => pc[r] \in InBatch
    BY <2>0, <2>3 DEF AloneInv
  <2> QED BY <1>1, <2>1, <2>2, <2>3, RunsWell
<1>2. CASE WindowStep
  BY <1>2, WindowKeeps DEF AloneInv
<1>3. CASE Restart
  BY <1>3 DEF Restart, AloneInv, TypeInv, TypeOK, Active, InBatch
<1>4. CASE UNCHANGED vars
  BY <1>4 DEF vars, runs, channel, history, AloneInv
<1> QED BY <1>1, <1>2, <1>3, <1>4 DEF Next

-----------------------------------------------------------------------------
(* A waiting run and its record *)

\* a recovery that is about to clear does so for a prompt of an earlier process
RecoveryStale == recovery.next = "clear" => \A r \in Runs : call[r] # recovery.prompt

WaiterInv == TypeInv /\ AloneInv /\ RecoveryStale /\ WaiterHasRecord

\* a run changes its call to none or to one that was just begun
LEMMA CallSteps ==
  ASSUME TypeInv, NEW r \in Runs, RunStep(r)
  PROVE  /\ recovery' = recovery
         /\ call'[r] \in {call[r], None} \/ call'[r].number = calls + 1
<1> USE DEF TypeInv, TypeOK
<1>1. CASE SettleWithoutPrompt(r) \/ ClearRecord(r)
  BY <1>1, SettleTyped DEF SettleWithoutPrompt, ClearRecord, window
<1>2. CASE AskUser(r)
  BY <1>2, SettleTyped DEF AskUser
<1>3. CASE \E t \in Tools : BeginCall(r, t)
  BY <1>3 DEF BeginCall, window
<1>4. CASE StartRun(r) \/ StartBatch(r) \/ EndBatch(r) \/ EndRun(r) \/ ReceiveAnswer(r) \/ WaitFails(r)
  BY <1>4 DEF StartRun, StartBatch, EndBatch, EndRun, ReceiveAnswer, WaitFails, window
<1> QED BY <1>1, <1>2, <1>3, <1>4 DEF RunStep, Wait

LEMMA RecoveryInductive == RecoveryStale /\ AloneInv /\ TypeInv /\ [Next]_vars => RecoveryStale'
<1> SUFFICES ASSUME RecoveryStale, AloneInv, TypeInv, [Next]_vars, recovery'.next = "clear",
                    NEW r \in Runs
             PROVE  call'[r] # recovery'.prompt
  BY DEF RecoveryStale
<1>1. ASSUME NEW o \in Runs, RunStep(o) PROVE call'[r] # recovery'.prompt
  <2>1. recovery' = recovery /\ call[r] # recovery.prompt
    BY <1>1, CallSteps DEF RecoveryStale
  <2>2. recovery.prompt # None /\ recovery.prompt \in Calls /\ recovery.prompt.number <= calls
    BY <2>1 DEF TypeInv, TypeOK, CallsBegun
  <2>3. calls \in Nat /\ recovery.prompt.number \in Nat
    BY <2>2 DEF TypeInv, TypeOK, Calls
  <2>4. call'[r] \in {call[r], None} \/ call'[r].number = calls + 1
    BY <1>1, CallSteps, OnlyOneMoves
  <2> QED BY <2>1, <2>2, <2>3, <2>4
<1>2. CASE RecoverPrompt
  <2>1. sender = None /\ call' = call /\ recovery'.prompt = record /\ record # None
    BY <1>2 DEF RecoverPrompt, runs
  <2>2. call[r] = None
    BY <2>1 DEF AloneInv, TypeInv, CallsBegun, InBatch
  <2> QED BY <2>1, <2>2
<1>3. CASE WindowStep /\ ~RecoverPrompt
  <2>1. call' = call /\ recovery' \in {recovery, NoRecovery}
    BY <1>3 DEF WindowStep, Answer, Remember, CloseDialog, RecoveryClears, RecoveryShows, runs
  <2> QED BY <2>1 DEF RecoveryStale, NoRecovery
<1>4. CASE Restart
  BY <1>4 DEF Restart, NoRecovery
<1>5. CASE UNCHANGED vars
  BY <1>5 DEF vars, runs, window, RecoveryStale
<1> QED BY <1>1, <1>2, <1>3, <1>4, <1>5 DEF Next

LEMMA WaiterInductive == WaiterInv /\ [Next]_vars => WaiterHasRecord'
<1> SUFFICES ASSUME WaiterInv, [Next]_vars, ~overlapped', ~stolen', NEW r \in Runs,
                    pc'[r] = "waiting"
             PROVE  record' = call'[r]
  BY DEF WaiterHasRecord
<1> USE DEF WaiterInv
<1>1. ASSUME NEW o \in Runs, RunStep(o) PROVE record' = call'[r]
  <2>1. CASE o = r
    BY <1>1, <2>1, RecordSteps
  <2>2. CASE o # r
    <3>1. pc[r] = "waiting" /\ call'[r] = call[r]
      BY <1>1, <2>2, OnlyOneMoves
    <3>2. pc[r] \in Active
      BY <3>1 DEF Active, InBatch
    <3>3. ~StartRun(o)
      BY <3>2 DEF StartRun
    <3>4. pc[o] \in Active
      BY <1>1, <3>3, RunsWell DEF StartBatch, Active
    <3>5. ~overlapped
      BY <1>1, <3>3, RunsWell DEF StartBatch, history
    <3> QED BY <2>2, <3>2, <3>4, <3>5 DEF AloneInv
  <2> QED BY <2>1, <2>2
<1>2. CASE WindowStep
  <2>1. UNCHANGED <<pc, call, overlapped>> /\ ~overlapped
    BY <1>2, WindowKeeps
  <2>2. CASE RecoveryClears
    <3>1. recovery.next = "clear" /\ ~stolen
      <4>1. CASE stolen' = (stolen \/ record \notin {None, recovery.prompt})
        BY <2>2, <4>1 DEF RecoveryClears
      <4>2. CASE stolen' = stolen
        BY <2>2, <4>2 DEF RecoveryClears
      <4> QED BY <2>2, <4>1, <4>2 DEF RecoveryClears
    <3>2. record = call[r] /\ call[r] # None
      BY <2>1, <3>1 DEF WaiterHasRecord, TypeInv, CallsBegun
    <3>3. record \in {None, recovery.prompt} \/ record' = record
      BY <2>2 DEF RecoveryClears
    <3> QED BY <2>1, <3>1, <3>2, <3>3 DEF RecoveryStale
  <2>3. CASE ~RecoveryClears
    <3>1. UNCHANGED <<record, stolen>>
      BY <1>2, <2>3 DEF WindowStep, Answer, Remember, CloseDialog, RecoverPrompt, RecoveryShows, history
    <3> QED BY <2>1, <3>1 DEF WaiterHasRecord
  <2> QED BY <2>2, <2>3
<1>3. CASE Restart
  BY <1>3 DEF Restart, TypeInv, TypeOK, Active, InBatch
<1>4. CASE UNCHANGED vars
  BY <1>4 DEF vars, runs, history, WaiterHasRecord
<1> QED BY <1>1, <1>2, <1>3, <1>4 DEF Next

\* A run that waits finds its own prompt on disk, whatever timed out, was
\* answered late or died before.
THEOREM WaiterTheorem == Spec => []WaiterHasRecord
<1>1. Init => WaiterInv
  <2>1. Init => AloneInv /\ RecoveryStale /\ WaiterHasRecord
    BY DEF Init, AloneInv, RecoveryStale, WaiterHasRecord, NoRecovery, Active, InBatch
  <2> QED BY <2>1, InitTyped DEF WaiterInv
<1>2. WaiterInv /\ [Next]_vars => WaiterInv'
  BY TypeStep, AloneInductive, RecoveryInductive, WaiterInductive DEF WaiterInv
<1>3. WaiterInv => WaiterHasRecord
  BY DEF WaiterInv
<1> QED BY <1>1, <1>2, <1>3, PTL DEF Spec

-----------------------------------------------------------------------------
(* Answers and prompts *)

\* a prompt the user sees is either answered, or a run still waits at it
Shown(p) == Answered(p) \/ \E r \in Runs : pc[r] = "waiting" /\ call[r] = p

\* no answer lies in a channel but one for the prompt its run waits at
InboxOK ==
  \A r \in Runs : inbox[r] # <<>> =>
    pc[r] = "waiting" /\ \E a \in Answers : inbox[r] = <<a>> /\ a.about = call[r]

PromptsOK ==
  /\ \A r \in Runs : pc[r] = "clearing" => Answered(call[r])
  /\ dialog # None => Shown(dialog)
  /\ record # None => Shown(record)
  /\ recovery.next = "show" => Shown(recovery.prompt)

Undisturbed == ~disturbed /\ ~overlapped

AnswersInv ==
  /\ TypeInv /\ AloneInv
  /\ Undisturbed => ~crashed /\ InboxOK /\ PromptsOK /\ AnswersMatchPrompts

\* once disturbed or overlapped, always so
LEMMA StaysDisturbed == TypeInv /\ [Next]_vars /\ Undisturbed' => Undisturbed
<1> SUFFICES ASSUME TypeInv, [Next]_vars, ~disturbed', ~overlapped' PROVE ~disturbed /\ ~overlapped
  BY DEF Undisturbed
<1>1. ASSUME NEW r \in Runs, RunStep(r) PROVE ~disturbed /\ ~overlapped
  <2>1. CASE StartRun(r)
    <3>1. overlapped' = (overlapped \/ \E o \in Runs : pc[o] \in Active) /\ disturbed' = disturbed
      BY <2>1 DEF StartRun
    <3> QED BY <3>1
  <2>2. CASE ReceiveAnswer(r) \/ WaitFails(r)
    BY <2>2 DEF ReceiveAnswer, WaitFails
  <2>3. CASE \E t \in Tools : BeginCall(r, t)
    BY <2>3 DEF BeginCall, history
  <2>4. CASE StartBatch(r) \/ SettleWithoutPrompt(r) \/ AskUser(r) \/ ClearRecord(r)
                \/ EndBatch(r) \/ EndRun(r)
    BY <2>4 DEF StartBatch, SettleWithoutPrompt, AskUser, ClearRecord, EndBatch, EndRun, history
  <2> QED BY <1>1, <2>1, <2>2, <2>3, <2>4 DEF RunStep, Wait
<1>2. CASE WindowStep
  <2>1. ASSUME NEW d \in Decisions, NEW s \in Scopes, Answer(d, s) PROVE ~disturbed
    BY <2>1 DEF Answer
  <2>2. ASSUME NEW h \in handlers, Remember(h) \/ CloseDialog(h) PROVE ~disturbed
    BY <2>2 DEF Remember, CloseDialog, history
  <2>3. CASE RecoverPrompt \/ RecoveryClears \/ RecoveryShows
    BY <2>3 DEF RecoverPrompt, RecoveryClears, RecoveryShows, history
  <2> QED BY <1>2, <2>1, <2>2, <2>3, WindowKeeps DEF WindowStep
<1>3. CASE Restart \/ UNCHANGED vars
  BY <1>3 DEF Restart, vars, history
<1> QED BY <1>1, <1>2, <1>3 DEF Next

\* channels and prompts that stay as they are keep what was answered
LEMMA AnsweredStays ==
  ASSUME UNCHANGED <<inbox, outcomes>>, NEW p PROVE Answered(p)' <=> Answered(p)
BY DEF Answered

\* the step of a run in an undisturbed session
LEMMA RunAnswers ==
  ASSUME AnswersInv, Undisturbed, Undisturbed', NEW r \in Runs, RunStep(r)
  PROVE  crashed' = crashed /\ InboxOK' /\ PromptsOK' /\ AnswersMatchPrompts'
<1> USE DEF AnswersInv
<1>0. /\ \A o \in Runs : o # r => pc'[o] = pc[o] /\ call'[o] = call[o]
      /\ crashed' = crashed /\ recovery' = recovery
      /\ pc[r] = "waiting" => pc'[r] = "clearing" /\ call'[r] = call[r]
  BY OnlyOneMoves, RecordSteps, CallSteps
<1>1. CASE ReceiveAnswer(r)
  <2>1. PICK a \in Answers : inbox[r] = <<a>> /\ a.about = call[r]
    BY <1>1 DEF ReceiveAnswer, InboxOK
  <2>2. Head(inbox[r]) = a /\ Tail(inbox[r]) = <<>>
    BY <2>1
  <2>3. /\ inbox' = [inbox EXCEPT ![r] = <<>>]
        /\ outcomes' = outcomes \cup {[prompt |-> call[r], answer |-> a]}
    BY <1>1, <2>2 DEF ReceiveAnswer
  <2>4. inbox'[r] = <<>> /\ \A o \in Runs : o # r => inbox'[o] = inbox[o]
    BY <2>3 DEF TypeInv, TypeOK
  <2>5. Answered(call[r])'
    <3>1. [prompt |-> call[r], answer |-> a] \in outcomes' /\ call'[r] = call[r]
      BY <1>0, <1>1, <2>3 DEF ReceiveAnswer
    <3> QED BY <2>1, <3>1 DEF Answered
  <2>6. ASSUME NEW p, Answered(p) PROVE Answered(p)'
    <3>1. CASE \E o \in outcomes : o.answer.about = p
      BY <2>3, <3>1 DEF Answered
    <3>2. ASSUME NEW o \in Runs, NEW i \in DOMAIN inbox[o], inbox[o][i].about = p
          PROVE  Answered(p)'
      <4>1. CASE o # r
        BY <2>4, <3>2, <4>1 DEF Answered
      <4>2. CASE o = r
        <5>1. p = call[r]
          BY <2>1, <3>2, <4>2
        <5> QED BY <1>0, <1>1, <2>5, <5>1 DEF ReceiveAnswer
      <4> QED BY <4>1, <4>2
    <3> QED BY <2>6, <3>1, <3>2 DEF Answered
  <2>7. ASSUME NEW p, Shown(p) PROVE Shown(p)'
    <3>1. CASE Answered(p)
      BY <2>6, <3>1 DEF Shown
    <3>2. ASSUME NEW o \in Runs, pc[o] = "waiting", call[o] = p PROVE Shown(p)'
      BY <1>0, <1>1, <2>5, <3>2 DEF Shown, ReceiveAnswer
    <3> QED BY <2>7, <3>1, <3>2 DEF Shown
  <2>8. InboxOK'
    BY <1>0, <2>4 DEF InboxOK
  <2>9. PromptsOK'
    <3>1. dialog' = dialog /\ call' = call /\ record' = record
      BY <1>1 DEF ReceiveAnswer, window
    <3>2. ASSUME NEW o \in Runs, pc'[o] = "clearing" PROVE Answered(call[o])'
      BY <1>0, <2>5, <2>6, <3>1, <3>2 DEF PromptsOK
    <3> QED BY <1>0, <2>7, <3>1, <3>2 DEF PromptsOK
  <2>10. AnswersMatchPrompts'
    BY <2>1, <2>3 DEF AnswersMatchPrompts, Undisturbed
  <2> QED BY <1>0, <2>8, <2>9, <2>10
<1>2. CASE ~ReceiveAnswer(r)
  <2>1. UNCHANGED <<inbox, outcomes>> /\ pc[r] # "waiting" /\ pc'[r] # "clearing"
    <3>1. CASE StartBatch(r) \/ EndBatch(r)
      <4>1. inbox[r] = <<>> /\ pc[r] \in {"loop", "batch"} /\ pc'[r] \in {"loop", "batch"}
        BY <3>1 DEF StartBatch, EndBatch, Goto, InboxOK, TypeInv, TypeOK
      <4>2. inbox' = [inbox EXCEPT ![r] = <<>>] /\ outcomes' = outcomes
        BY <3>1 DEF StartBatch, EndBatch, history
      <4>3. inbox' = inbox
        BY <4>1, <4>2 DEF TypeInv, TypeOK
      <4> QED BY <4>1, <4>2, <4>3
    <3>2. CASE WaitFails(r)
      BY <3>2 DEF WaitFails, Undisturbed
    <3>3. CASE SettleWithoutPrompt(r) \/ ClearRecord(r)
      BY <3>3, SettleTyped DEF SettleWithoutPrompt, ClearRecord, channel, history
    <3>4. CASE AskUser(r)
      BY <3>4, SettleTyped DEF AskUser, Goto, channel, history, TypeInv, TypeOK
    <3>5. CASE StartRun(r) \/ EndRun(r) \/ (\E t \in Tools : BeginCall(r, t))
      BY <3>5 DEF StartRun, EndRun, BeginCall, Goto, channel, history, TypeInv, TypeOK
    <3> QED BY <1>2, <3>1, <3>2, <3>3, <3>4, <3>5 DEF RunStep, Wait
  <2>2. ASSUME NEW p, Shown(p) PROVE Shown(p)'
    <3>1. CASE Answered(p)
      BY <2>1, <3>1, AnsweredStays DEF Shown
    <3>2. ASSUME NEW o \in Runs, pc[o] = "waiting", call[o] = p PROVE Shown(p)'
      BY <1>0, <2>1, <3>2 DEF Shown
    <3> QED BY <2>2, <3>1, <3>2 DEF Shown
  <2>3. dialog' = dialog \/ (dialog' = call'[r] /\ pc'[r] = "waiting")
    <3>1. CASE AskUser(r)
      BY <3>1 DEF AskUser, Goto, TypeInv, TypeOK
    <3>2. CASE ~AskUser(r)
      BY <3>2 DEF RunStep, StartRun, StartBatch, BeginCall, SettleWithoutPrompt, Wait,
                  ReceiveAnswer, WaitFails, ClearRecord, EndBatch, EndRun, window
    <3> QED BY <3>1, <3>2
  <2>8. record' \in {record, None} \/ (record' = call'[r] /\ pc'[r] = "waiting")
    BY RecordSteps
  <2>4. InboxOK'
    BY <1>0, <2>1 DEF InboxOK
  <2>5. ASSUME NEW o \in Runs, pc'[o] = "clearing" PROVE Answered(call[o])' /\ call'[o] = call[o]
    <3>1. o # r /\ pc[o] = "clearing" /\ call'[o] = call[o]
      BY <1>0, <2>1, <2>5
    <3> QED BY <2>1, <3>1, AnsweredStays DEF PromptsOK, Answered
  <2>6. PromptsOK'
    <3>1. dialog' # None => Shown(dialog)'
      <4>1. CASE dialog' = dialog
        BY <2>2, <4>1 DEF PromptsOK
      <4>2. CASE dialog' = call'[r] /\ pc'[r] = "waiting"
        BY <4>2 DEF Shown
      <4> QED BY <2>3, <4>1, <4>2
    <3>2. record' # None => Shown(record)'
      <4>1. CASE record' \in {record, None}
        BY <2>2, <4>1 DEF PromptsOK
      <4>2. CASE record' = call'[r] /\ pc'[r] = "waiting"
        BY <4>2 DEF Shown
      <4> QED BY <2>8, <4>1, <4>2
    <3> QED BY <1>0, <2>2, <2>5, <3>1, <3>2 DEF PromptsOK, Answered
  <2>7. AnswersMatchPrompts'
    BY <2>1 DEF AnswersMatchPrompts, Undisturbed
  <2> QED BY <1>0, <2>4, <2>6, <2>7
<1> QED BY <1>1, <1>2

\* a click in an undisturbed session is for a prompt at which a run waits, and
\* goes to that run
LEMMA ClickAnswers ==
  ASSUME AnswersInv, Undisturbed, Undisturbed',
         NEW d \in Decisions, NEW s \in Scopes, Answer(d, s)
  PROVE  InboxOK' /\ PromptsOK' /\ AnswersMatchPrompts'
<1> USE DEF AnswersInv
<1> DEFINE answer == [decision |-> d, about |-> dialog]
<1>1. /\ dialog # None /\ dialog \in Calls /\ answer \in Answers /\ ~Answered(dialog)
      /\ UNCHANGED <<pc, call, dialog, record, recovery, outcomes>>
  BY DEF Answer, Undisturbed, TypeInv, TypeOK, Answers, runs
<1>2. PICK r \in Runs : pc[r] = "waiting" /\ call[r] = dialog
  BY <1>1 DEF PromptsOK, Shown
<1>3. sender = r /\ pc[sender] \in InBatch /\ sender # None
  BY <1>2, NoneFacts DEF AloneInv, InBatch, Undisturbed
<1>4. inbox[r] = <<>>
  <2> SUFFICES ASSUME NEW a \in Answers, inbox[r] = <<a>>, a.about = call[r] PROVE FALSE
    BY DEF InboxOK
  <2>1. 1 \in DOMAIN inbox[r] /\ inbox[r][1].about = dialog
    BY <1>2
  <2> QED BY <1>1, <2>1 DEF Answered
<1>5. inbox' = [inbox EXCEPT ![r] = <<answer>>]
  <2>1. inbox' = [inbox EXCEPT ![r] = Append(@, answer)]
    BY <1>3 DEF Answer
  <2>2. Append(inbox[r], answer) = <<answer>>
    BY <1>4
  <2> QED BY <2>1, <2>2 DEF TypeInv, TypeOK
<1>6. inbox'[r] = <<answer>> /\ \A o \in Runs : o # r => inbox'[o] = inbox[o]
  BY <1>5 DEF TypeInv, TypeOK
<1>7. ASSUME NEW p, Answered(p) PROVE Answered(p)'
  <2>1. CASE \E o \in outcomes : o.answer.about = p
    BY <1>1, <2>1 DEF Answered
  <2>2. ASSUME NEW o \in Runs, NEW i \in DOMAIN inbox[o], inbox[o][i].about = p
        PROVE  Answered(p)'
    <3>1. o # r
      BY <1>4, <2>2
    <3> QED BY <1>6, <2>2, <3>1 DEF Answered
  <2> QED BY <1>7, <2>1, <2>2 DEF Answered
<1>8. ASSUME NEW p, Shown(p) PROVE Shown(p)'
  BY <1>1, <1>7, <1>8 DEF Shown
<1>9. InboxOK'
  BY <1>1, <1>2, <1>6 DEF InboxOK
<1>10. PromptsOK'
  <2>1. ASSUME NEW o \in Runs, pc'[o] = "clearing" PROVE Answered(call[o])'
    <3>1. Answered(call[o]) /\ call'[o] = call[o]
      BY <1>1, <2>1 DEF PromptsOK
    <3> QED BY <1>1, <1>7, <3>1 DEF Answered
  <2>2. dialog' # None => Shown(dialog)'
    BY <1>1, <1>8 DEF PromptsOK
  <2>3. recovery'.next = "show" => Shown(recovery.prompt)'
    BY <1>1, <1>8 DEF PromptsOK
  <2>4. record' # None => Shown(record)'
    BY <1>1, <1>8 DEF PromptsOK
  <2> QED BY <2>1, <2>2, <2>3, <2>4 DEF PromptsOK
<1>11. AnswersMatchPrompts'
  BY <1>1 DEF AnswersMatchPrompts, Undisturbed
<1> QED BY <1>9, <1>10, <1>11

LEMMA AnswersInductive == AnswersInv /\ [Next]_vars => AnswersInv'
<1> SUFFICES ASSUME AnswersInv, [Next]_vars PROVE AnswersInv'
  OBVIOUS
<1>0. TypeInv' /\ AloneInv'
  BY TypeStep, AloneInductive DEF AnswersInv
<1> SUFFICES ASSUME Undisturbed'
             PROVE  (~crashed /\ InboxOK /\ PromptsOK /\ AnswersMatchPrompts)'
  BY <1>0 DEF AnswersInv
<1>1. Undisturbed /\ ~crashed /\ InboxOK /\ PromptsOK /\ AnswersMatchPrompts
  BY StaysDisturbed DEF AnswersInv
<1>2. ASSUME NEW r \in Runs, RunStep(r)
      PROVE  (~crashed /\ InboxOK /\ PromptsOK /\ AnswersMatchPrompts)'
  BY <1>1, <1>2, RunAnswers
<1>3. ASSUME NEW d \in Decisions, NEW s \in Scopes, Answer(d, s)
      PROVE  (~crashed /\ InboxOK /\ PromptsOK /\ AnswersMatchPrompts)'
  BY <1>1, <1>3, ClickAnswers, WindowKeeps DEF WindowStep
<1>4. ASSUME UNCHANGED <<pc, call, inbox, outcomes, crashed>>,
             dialog' \in {dialog, None} \/ (recovery.next = "show" /\ dialog' = recovery.prompt),
             \/ recovery'.next # "show" \/ recovery' = recovery
             \/ record # None /\ recovery'.prompt = record,
             record' \in {record, None}
      PROVE  (~crashed /\ InboxOK /\ PromptsOK /\ AnswersMatchPrompts)'
  <2>1. \A p : Answered(p)' <=> Answered(p)
    BY <1>4, AnsweredStays
  <2>2. \A p : Shown(p)' <=> Shown(p)
    BY <1>4, <2>1 DEF Shown
  <2>3. record # None => Shown(record)
    BY <1>1 DEF PromptsOK
  <2>4. PromptsOK'
    <3>1. ASSUME NEW o \in Runs, pc'[o] = "clearing" PROVE Answered(call[o])'
      BY <1>1, <1>4, <3>1 DEF PromptsOK, Answered
    <3>2. dialog' # None => Shown(dialog')
      BY <1>1, <1>4 DEF PromptsOK
    <3>3. recovery'.next = "show" => Shown(recovery'.prompt)
      BY <1>1, <1>4, <2>3 DEF PromptsOK
    <3>5. record' # None => Shown(record')
      BY <1>4, <2>3
    <3>4. /\ dialog' # None => Shown(dialog)'
          /\ recovery'.next = "show" => Shown(recovery.prompt)'
          /\ record' # None => Shown(record)'
      BY <1>4, <3>2, <3>3, <3>5 DEF Shown, Answered
    <3> QED BY <3>1, <3>4 DEF PromptsOK
  <2>5. InboxOK' /\ AnswersMatchPrompts' /\ ~crashed'
    BY <1>1, <1>4 DEF InboxOK, AnswersMatchPrompts, Undisturbed
  <2> QED BY <2>4, <2>5
<1>5. ASSUME NEW h \in handlers, Remember(h) \/ CloseDialog(h)
      PROVE  (~crashed /\ InboxOK /\ PromptsOK /\ AnswersMatchPrompts)'
  BY <1>4, <1>5 DEF Remember, CloseDialog, runs, channel, history
<1>6. CASE RecoverPrompt \/ RecoveryClears \/ RecoveryShows
  <2>1. UNCHANGED <<pc, call, inbox, outcomes, crashed>>
    BY <1>6 DEF RecoverPrompt, RecoveryClears, RecoveryShows, runs, channel, history
  <2>2. dialog' \in {dialog, None} \/ (recovery.next = "show" /\ dialog' = recovery.prompt)
    BY <1>6 DEF RecoverPrompt, RecoveryClears, RecoveryShows
  <2>3. \/ recovery'.next # "show" \/ recovery' = recovery
        \/ record # None /\ recovery'.prompt = record
    BY <1>6 DEF RecoverPrompt, RecoveryClears, RecoveryShows, NoRecovery
  <2>4. record' \in {record, None}
    BY <1>6 DEF RecoverPrompt, RecoveryClears, RecoveryShows
  <2> QED BY <1>4, <2>1, <2>2, <2>3, <2>4
<1>7. CASE Restart
  BY <1>7 DEF Restart, Undisturbed
<1>8. CASE UNCHANGED vars
  BY <1>4, <1>8 DEF vars, runs, channel, window, history
<1> QED BY <1>2, <1>3, <1>5, <1>6, <1>7, <1>8 DEF Next, WindowStep

\* While every prompt is answered once and in time, and runs of the session do
\* not overlap, an answer resolves the prompt it was given for.
THEOREM AnswersTheorem == Spec => []AnswersMatchPrompts
<1>1. Init => AnswersInv
  <2>1. ASSUME Init
        PROVE  AloneInv /\ ~crashed /\ InboxOK /\ PromptsOK /\ AnswersMatchPrompts
    BY <2>1 DEF Init, AloneInv, InboxOK, PromptsOK, AnswersMatchPrompts, NoRecovery,
                Active, InBatch
  <2> QED BY <2>1, InitTyped DEF AnswersInv
<1>2. AnswersInv => AnswersMatchPrompts
  BY DEF AnswersInv, Undisturbed, AnswersMatchPrompts
<1> QED BY <1>1, <1>2, AnswersInductive, PTL DEF Spec
=============================================================================
