# TLA+ verification of if2Ai

if2Ai is a desktop AI assistant: a Tauri backend in Rust (`src-tauri/src`), a
React frontend (`src`), a few older CLI crates (`rust/crates`) and a license
server (`activation-server-rs`). A user's message starts a *streaming turn* in
the backend, which calls a model provider, runs tools with the user's
permission, and writes the conversation to a session file. That path is the
program's core, and these modules start with it. Paths below are relative to
the repository root; `modules/` stands for `src-tauri/src/modules/`.

Run a check with `tlc -config StreamTurn.cfg MCStreamTurn.tla`, and the proofs
about a module, kept in modules of their own, with `tlapm StreamTurn_proofs.tla`.

## 1. Inventory

| Component | State it keeps | Operations | What makes it hard | Correct when |
|---|---|---|---|---|
| Streaming turn (`modules/application/turn_service`) | loop counters, accumulated text, open tool blocks, pending calls, timeline, flags of the outcome | accept, stop, request, stream events, tool batch, finalize | provider errors in the middle of a response, two kinds of retry, stop at any time, crash | one verdict, after the save, consistent with the events before it; saved messages usable by the next request |
| Permission prompts (`permission_service.rs`, `pending_permission.rs`, the dialog of `App.tsx`) | one channel sender and one record file per session, remembered decisions | prompt, answer, remember, time out, recover after reload | uncorrelated answers, timeout against late click, overlapping runs, restart | an answer resolves the prompt it was given for; the record is that of a live prompt |
| Cost guard (`modules/runtime/cost_guard.rs`) | hour window, day, spend per session | check, charge | check and charge are two critical sections, window and day change in between, a turn run as a whole charges all its iterations after one check | limits are overshot by a known amount at most, further iterations of whole turns apart |
| Session store (`modules/session`) | one JSON file per session, undo and redo stacks in memory | load, save, interim save, rename (and pin, memory, identity, skills), delete, undo, redo | every writer saves a whole copy, truncate-then-write in the background, crash | an undisturbed session stays readable, keeps its title, and undo is a linear history |
| Prompt planner (`prompt_planner`) | none (pure), between the messages of a turn and its request | trim by tokens, by count and by size; sanitize; add a notice | two trimmings around one repair pass, histories cut by compaction | every request pairs calls and results and ends with what is to be answered |
| Memory pipeline (`modules/memory/ticker`, `compiler`, `job_runner.rs`, `summary`) | attempt counters in SQLite, compiled files with fingerprints, flags of the ticker | roll a summary, run the daily steps, retry, quarantine, repair | background tasks over shared rows and files, restart between two writes, panics, a watchdog that guesses | counters, fingerprints and the record of the day say what happened; one task at a time summarises a session |
| Activation (`application/activation`, `license_lifecycle_service.rs`, `activation-server-rs`) | license file; requests, codes, licenses and refresh tokens on the server | request, approve, redeem, refresh, revoke, check, deactivate | lost answers, repeated calls, handlers and approvals that read first and write later, a loop beside commands | an approval is spent once, the token stays usable, a cleared license stays out, a revocation arrives |
| Provider resilience (`modules/provider/resilience.rs`) | circuit state of the turn, completion cache | start with retries, failover | retries and failover multiply | circuit opens and closes as configured |
| Event log and projection (`runtime/event_log.rs`, `src/runtime-projection`) | append-only log per run; projected state of each run | append, replay, reduce | live and replayed events meet | replay and live projection agree |
| Learning, skills, TTS, MCP, onboarding, scheduler | own stores and jobs | background jobs, state machines | tickers, retries, rollouts, eviction | see the plan |

Interaction: the window calls commands (`src-tauri/src/commands`), which call
the application layer. `stream_turn` validates the request, loads the session,
registers a stop channel and spawns the task; the task passes the cost guard,
calls the provider, asks for permissions over a channel kept per session, emits
`agent-token` events, and saves the session through the session store. The
window folds the events into its projection and may call `stop_agent_stream`,
`respond_permission` and `get_pending_permission` at any moment. When a turn
completes, the memory ticker is told and may start background tasks. The
license loop runs beside all this and talks to the server. The full list
of components, modelled or not, is in `PROJECT.json`, as is the list of
hazards with the line each one bites at.

## 2. Modules

### StreamTurn: one turn, from request to verdict

`StreamTurn.tla` follows `stream_turn` (accept or refuse), `run_stream_task`
(`stream_task.rs`) and `finalize_stream_task` (`stream_finalize.rs`). The
variables have the names of the code's locals. `pc` says where the task is
waiting:

| `pc` | place in the code | actions |
|---|---|---|
| `idle` | `stream_turn` | `Reject`, `Accept` |
| `top` | head of the tool loop | `CancelSeen`, `MaxIterationsReached`, `Admit` |
| `request` | cost guard and start of the response | `CostDenied`, `StartRetry`, `StartFailed`, `StartOk` |
| `streaming` | `next_event().await` | `TextDelta`, `ThinkingDelta`, `ToolBlockStart`, `InputJsonDelta`, `ContentBlockStop`, `StreamEnds`, `StreamEventRetry`, `StreamEventError` |
| `drained` | after the response | `NoToolUses`, `StartBatch` |
| `tools`, `authorizing`, `executing` | loop over the calls of a batch | `ToolRunning`, `ToolDecided`, `ToolSettled`, `BatchDone` |
| `finalize`, `saved` | `finalize_stream_task` | `FinalizeSave`, `FinalizeComplete` |

`Cancel` (`cancel_stream`) and `Crash` may happen between any two of them.

Abstractions. Text and thinking are one flag, whether anything is accumulated:
the properties ask whether text is carried over, flushed and saved, not what it
says. Tool arguments are present or not, which decides whether a call is run.
A message keeps its kind, its tool and its resume cursor; a cursor is the pair
of counters it is built from, since the stream id is the same for the whole
turn. Of the session only the messages of this turn are kept (`disk`), as the
last save wrote them. A tool call succeeds, fails, or succeeds with an effect
on files; a denied call is one that fails. A tool id may come again in a later
response, as it does when the OpenAI-compatible adapter has to make one up from
the index of the call (`openai_compat.rs:581`): `ToolBlockStart` looks at no card
and starts it anew. Within one response, ids differ. Whether a compaction
happens depends on token counts that are not modelled, so both outcomes are
allowed. The outbound lifecycle hook is left out because the only hook the
program registers never changes the text. `events`, `dropped` and `save_failed` are history
variables: what the window has been told, calls closed without arguments, and
whether the final save reported an error. Only verdict events and rewritten
text are in `events`; tool status events are in `card`.

`TurnContract.tla` is what a turn promises: it is refused or runs, may announce
errors, closes, is written, and only then is settled with a verdict.
`ImplementsContract` is its specification under the mapping `PhaseOf`,
`VerdictOf`.

### PermissionPrompt: prompts of one session

`PermissionPrompt.tla` has the task's side (`run_stream_task`'s batch loop,
`PermissionPolicy::authorize`, `TauriPermissionPrompter::decide`), the commands
`respond_permission` and `get_pending_permission`, and the window's handler.
Two runs of a session may overlap, because the window frees the session when
the stop command returns, not when the task ends. `respond_permission` holds
the lock on the senders until it has remembered the decision; `SendersFree` is
the guard of the steps that need this lock. `get_pending_permission` removes a
stale file after it has released the lock, so that removal is a step of its
own. A file that cannot be removed is logged by the prompter, which goes on
(`ClearRecord`), and is an error of the recovery (`RecoveryClears`): both
outcomes are in the model, and so is a record that cannot be written
(`AskUser`). The channel of a batch is a sequence, since it is an unbounded mpsc
queue. `disturbed`, `overlapped`, `stolen`, `left`, `crashed` and `outcomes` are
history variables that the properties use to say in which circumstances they
hold; `left` has the prompts whose record stayed behind, because its removal
failed or the application was killed. `RecordIsLive` is about the file, not about
what a window shows that read it earlier.

### CostGuard: limits checked and charged in two steps

`CostGuard.tla` has one process per turn. A streaming turn takes `Check`, then
`Charge` or `StartFails`, for each of its requests. A turn run as a whole
(`Runs`; `run.rs:380-418`, on the same guard) is checked once, and when it has
ended charges all the iterations it made: the first is `Charge`, the others are
`ChargeRest`, each with the mutex for itself and none with a check. If such a
turn fails, it charges nothing. `Tick` advances the monotonic clock the hour
window uses; `NewDay` changes the calendar day, which may also be set back.
`starts` is the history of charged requests, `checked` those of them that follow
a check, and `unseen` what the counters hold of the others. The bounds are on
what the guard checks (`calls - unseen.calls`, and so on): on the further
iterations of a whole turn the code puts no bound, which the run `session_cap`
shows. A session that only streams has no such excuse. Saturation of the 64-bit
counters is not modelled: it is out of reach at one call's estimate per step.

### SessionStore: the writers of one session file

`SessionStore.tla` has the session file, the writes on their way to it, the two
stacks of `session_undo.rs`, and tasks that are commands or turns. Each task
loads the session (`Load`), decides its change (`Rename`, `Undo`, `Redo`,
`Finalize`, `RunAnswers`) and saves its own copy (`Save`, `SaveFails`).
`save_session` truncates the file with `File::create` and gives the bytes to
tokio's background writer, which it neither flushes nor awaits: `Write` leaves
`Empty`, and `Land` or `LandFails` come later. A second write that lands over
the first may leave the tail of the longer one, `Garbage`. `Delete`, `Crash`
and the interim saves of a streaming turn may happen at any time.

A transcript is the sequence of the turns in it; a title is the number of the
rename that set it, and the other setters are alike. `ver` numbers changes and
`top` is the last one, so that a task which works on an old copy can be told
(`Stale`). `upsets` records what voids a promise: a stale copy, two writes at a
time, an error of the disk, a crash in the middle of a save.

`UndoHistory.tla` is what undo promises: past, present and future, a linear
history with a cursor. `RefinesUndoHistory` is its specification with the
stacks for past and future and the newest copy of the transcript, wherever it
is, for the present.

What the model shows about the code: a non-streaming turn that fails leaves a
checkpoint equal to the present and has cleared the redo stack, hence the
action `Reply` of the abstract history. A failed save of an undo loses the
checkpoint. The undo dialog says that streaming is stopped first
(`src/App.tsx:1910`), but the stopped task is not awaited and may save its copy
over the undo; in the model that copy is stale.

### RequestHistory: from the session to a provider request

`RequestHistory.tla` translates the pure code as operators: `Admit` is
`ContextGovernor::admit`, `Sanitize` is `sanitize_messages_for_provider` as a
fold with the state of its one pass (`SanitizePass`) and a filter (`NonEmpty`), `BuildRequest` the order in which the tool
loop applies them. The actions produce the histories they are applied to:
streaming turns with rounds of calls, non-streaming turns that put the calls of
a response in one message (at most one such response in a turn), and
compactions that keep the last messages. A block is its kind, its id and its
size; ids may be used again, as providers do. Calls of one response have
different ids. `PairFits` says that a call and the handle of its result fit a
request, which the output limit of a request gives.

`RequestsUsable` is not obvious because the messages are trimmed again behind
the sanitizer. The one-pass repair would leave an orphan result for a batch
that is answered in part; the model shows that no such batch reaches it. A
question that is longer than the budget is replaced by a summary, and a notice
may be cut by the second trimming: the property allows the one and does not
speak of the other. The non-streaming turn sends the session as it is.

### MemoryDaily: ticker, daily run, job runner

`MemoryDaily.tla` composes the ticker, the daily run, the compile steps and the
job runner, since they share the job table and the compiled files. A worker is
a background task; `kind` says whether it rolls the summary after a turn, in a
flush, or runs the day, and `pc` where it stands:

| `pc` | place in the code | actions |
|---|---|---|
| `kicked` | spawned by `maybe_run_daily` | `AlreadyRunning`, `StartDaily` |
| `step` | head of a step | `PassOver`, `PlainStep`, `NothingToDo`, `BeginJob`, `StepFails` |
| `permit` | `JobRunner::run` waits for the semaphore | `Quarantined`, `CallModel` |
| `llm` | the model is called | `ModelAnswers`, `ModelFails` |
| `write`, `stamp` | result and fingerprint are written | `Install`, `SaveSummary`, `Stamp` |
| `end` | behind the last step | `Finish` |

A text is the number of the newest summary it was made from, which is also its
fingerprint: the property of a fingerprint is whether it can be newer than the
file. Concurrent compilations of one file share its temporary file, so `Install`
may install the other's text; such jobs are recorded in `met`. `DeepMemory`
does nothing in this version. Some things worth knowing: quarantine answers
`Ok(None)`, which a daily run takes for a completed step; `JobRunner::reset`,
which would lift a quarantine, has no caller outside tests; `today.md` stays
yesterday's when the new day has no summaries.

`Panics` may end a task in any step. The daily run holds a guard of its flag
and a flush one of its mark; a task that rolls, or that ends a session, takes
its mark away with its last call (`mod.rs:279`, `turn_hook.rs:157`), so that a
panic leaves it for good (`panicked`). `OneSummary` says that this is the only
way to leave it, and that the mark lets one task at a time in. That it is taken
away in the end is not promised.

### Activation: client, network and server

`Activation.tla` has the client (`Redeem`, `Ask`, `Retry`, `Receive...`,
`Deactivate`), the server's handlers in two steps, `Read` and `Commit...`, as
they read before they open their transaction, and the administrator. A handler
is a record that outlives the call it serves: when the connection breaks,
`send_json` sends the same call again while the first may still commit. Signing,
the clock, expiry and grace are left out. `RevokeCheck` and `RevokeCheckFails`
are the two outcomes of the server's query, the second answered like a license
that is not revoked.

An approval reads as well before it writes, in `create_activation_request` as
in `admin_approve_request`: `ReadPending` counts who holds a request pending
(`open`), `QuotaApprove` and `AdminApprove` write "approved" by its id alone,
whatever it has become by then, and `approvals` counts how often. A new request
is one step (`CreateRequest`), since the statement that inserts it decides.
Codes have their uses and a limit: one for the administrator's approval, up to
`MaxUses` for an invite made by hand (`AdminInvite`). Of the statements inside a
redemption the one that counts a use and the one that marks the request may
fail, which the code ignores; that the license or its token could not be
inserted while the transaction commits is left out, and so is a failed write of
an approval, which does what `LeavePending` does. The license file may fail to
be saved (`SaveFails`), to be cleared after a revocation (`ClearFails`), where
the check ends in an error, or on deactivation, where it is only a warning.

The history variables say what the properties excuse. `slipped` has the
decisions and grants for which two handlers ran together, and the grants whose
use could not be written. `dropped` has the licenses cleared while no call was
open that saves one. `lost` says that an answer with a new token was lost.

What the model shows about the code: a redeemed request may become approved
again, by an approval that read it pending before, and be redeemed again
(`GrantsAccounted` counts its licenses against its approvals, and says that
there is one approval unless two handlers held it pending together); one approval
yields a request that can be redeemed and an invite code that can be redeemed as
well, so that two licenses may come of it; a rejection looks at no status; a lost
answer to a refresh leaves the client with a token the server has replaced; and
the check clears whatever license is stored when its answer arrives.

## 3. Runs

| Run | Bounds | Shows |
|---|---|---|
| `stream_turn` | 2 calls, 2 iterations, 2 text deltas, save every 2, 1 retry of each kind | all safety properties of a turn, and that it implements its contract |
| `stream_turn_live` | 1 call, 3 iterations, 1 text delta | accepted turns end; a stop during tools wins |
| `permission_prompt` | 2 runs, 2 calls, 2 clicks, 1 restart | pairing of answers and prompts, life of the record |
| `cost_guard` | 3 turns of 3 sessions, one run as a whole with up to 2 iterations, 4 ticks with hours of 2, 2 days, 7 charges | overshoot of each limit |
| `session_store` | 2 tasks, stacks of 2, 4 changes | what an undisturbed session keeps; undo is a linear history |
| `memory_daily` | 2 tasks, 1 permit, 2 retries, 2 days, pipeline of 2 model steps | counters, fingerprints, the record of the day, one summary at a time |
| `activation` | loop and one command, 1 request, 1 code, 2 deciders, 2 licenses, 2 tokens, 2 attempts | grants, tokens, cleared licenses and revocations over a lossy network |
| `request_history` | 2 ids, 2 sizes of text, budgets of 4 messages, 10 characters, 8 tokens, sessions of 5 messages and one more turn | every request is paired and ends with the newest message |
| `stop_ends_turn` (violation) | 1 call, 2 iterations | a stop does not interrupt a silent response |
| `prompt_pairs` (violation) | 1 run, 2 calls, 1 click | a late answer resolves the next prompt |
| `rolling_hour` (violation) | 1 stream, limit 2 | the "rolling" hour is a tumbling one |
| `session_cap` (violation) | 1 turn run as a whole, up to 3 iterations, cap of 2 | a whole turn is charged past its session's cap |

Why the bounds are enough. In `stream_turn`, two iterations allow a batch, a
second response with an error and calls pending, and the iteration limit; two
calls, each of which may come again in the second response, allow one to be open
or without arguments while the other is pending, two batches, and a settled card
that starts again; two deltas with an interval of two let an interim save happen
between flushes; the user message, two pairs of call and result and a closing
message exceed the four messages a compaction keeps, so compactions that cut
a pair occur. Tool calls are interchangeable, so symmetry is used where no
liveness is checked. `stream_turn_live` gives up a call for a third iteration.
In `permission_prompt` two runs and two prompts are what
a mix-up needs, and two clicks allow a double answer and a late one. In
`cost_guard` the turn run as a whole charges beside two that stream, each session
has one turn, which its own budget supposes, and four ticks with hours of two let
an hour meet two windows.

In `session_store` two tasks are what a lost update, an overlap and a stale
copy need, and four changes fill and trim stacks of two. In `memory_daily` one
permit makes two tasks queue, two retries are the least with a counter between
fresh and exhausted, and the second day meets runs of the first. The pipeline
has `Week` and `Longterm`, one of which is made from the other; `Facts` has the
control of `Week`. In `activation` one request and one code, two who may hold the
request pending, and two licenses let a grant be given twice. In `request_history` the budgets cut in the middle of a
pair, of a batch and behind the notice, and ids are interchangeable.

Three runs have a CONSTRAINT. TLC checks invariants in the first state outside of
it as well.

* `session_store` stops behind a state in which the history has voided the
  properties; a stale copy is followed further, since deletions are about it.
* `memory_daily` bounds failures, summaries and days together (at most three),
  and lets the watchdog's taking of a flag from a living run, behind which two
  daily runs are loose, count for two. Panics are not bounded.
* `activation` follows one of these further: a handler whose connection is gone,
  a decision or grant that slipped, a license cleared for good, a lost token.
  With two of them a behaviour ends, so what such events do in combination is
  seen for one step only. At most two requests are on their way to the server
  together; only the loop asks for revocation and sends each check once; and an
  invite is made by hand only where there is no request. A clear that meets a
  call open to save counts for nothing: what is saved behind it is followed, and
  `RevocationArrives` is checked over it.

Fairness. In `SessionStore` a task that has decided goes on to its save, and
the background writer writes or fails: both are steps tokio runs once they are
queued. `MemoryDaily` has no fairness, since nothing is claimed to happen
there in the end. In `Activation` the loop goes on; of the checks it sends
again and again some reach the server while its database answers, their answers
come back, and the file can be removed in the end (`SF` of `RevokeCheck` and of
`ReceiveRevoked`): without it a network that loses everything, or a file that is
never writable, keeps a revoked license alive, which is what the offline grace
is for. `AcceptedTurnEnds` and `StopDuringToolsWins` assume that the task is
polled (`TaskFairSpec`: tokio runs it, a prompt times out after 60 seconds, a
tool returns) and, in `FairSpec`, that a request is answered and a response
ends or errs. The Anthropic adapter bounds both with timeouts. The
OpenAI-compatible adapter does not, and `stop_ends_turn` is checked without
that assumption: under the fairness of the task alone, a silent response holds
the turn for ever and the stop is never looked at.

`CHECK_DEADLOCK FALSE` is used where the system really stops: a turn that has
ended, a session whose runs have ended, a guard at the bounds of the model.

### Where code and documents disagree

* `modules/application/turn_service/stream.rs:128` says the stop channel is
  used "to interrupt an in-flight streaming response"; it is read between two
  responses only (`stream_task.rs:337`).
* `permission_service.rs:300` says a resolution is paired with its prompt; the
  channel pairs it with the prompt that reads next.
* `cost_guard.rs:18` says "rolling hour"; the window tumbles. The proved and
  checked bounds say what the guard gives instead.
* `cost_guard.rs:20` calls a limit the "Per-session/day cap"; a turn run as a
  whole is checked once and charged for all its iterations (`run.rs:413`).

Two weaker disagreements shaped properties rather than runs: the comment at
`stream_task.rs:1053` says that all in-flight cards are settled after a stream
error, but a block that had ended without arguments keeps its card queued
(`CardsSettled` says exactly which), and the comment at
`stream_finalize.rs:642` says `stream_complete` is emitted exactly once, but a
failed turn emits none (`SettledTurnAnnounced`).

## 4. Proofs

`StreamTurn_proofs.tla`, for every set of tool calls and every limit:

* `TypeCorrect`: `TypeOK` is not inductive by itself, since the head of
  `pending_tool_uses` is used in `authorizing` and `executing`; `CallAtHand`
  says there is one.
* `AnnouncementTheorem`, `VerdictsAgreeTheorem` rest on `VerdictInv`, which
  ties each flag to what has been announced: `stream_failed` holds exactly
  when an error has been announced, `completion_already_emitted` only when a
  completion has been, and a completion before the end leaves nothing
  accumulated and the loop closed. The properties speak of `events` and the
  guards of `finalize_stream_task` of the flags, so without these ties they
  are not inductive.
* `NothingAfterCompleteTheorem` and `ContractTheorem` use the same invariant:
  a completion is announced only on the way out of the loop, so no later step
  emits anything, and every action maps to an action of `TurnContract` or to a
  stutter.
* `NoTextCarriedOverTheorem` strengthens the property with what holds while a
  response is read: text is accumulated only if a delta of this response was
  shown.

`StreamSaves_proofs.tla`, which builds on it:

* `CardsSettledTheorem` and `SettledCardTheorem` rest on `CardInv`: a call is in
  an open block, waits in `pending_tool_uses` or is settled, each at most once,
  and its card says which. The end of a stream and of a batch empty the first
  two, so that nothing but a dropped call can be left. A block that starts
  under an id used before starts its card again, and `SettledCardIsFinal` excepts
  that step alone.
* `ToolPairsTheorem` rests on `PairsInv`: in the timeline every call is followed
  by its result, except that it may end in a call while that call is executing.
  Saves from there on are cut by compaction at most (`SavedPaired`), which can
  leave a result only right behind the summary.
* `CompletedIsSavedTheorem` and `AnnouncedCursorTheorem` need to know why a turn
  ended (`EndStatus`: no error after a completion, no failure without a status)
  and what was saved (`EndSaved`). A turn that failed and was not stopped has a
  status that resumes, so its timeline ends with `build_resume_cursor`; a
  stopped turn is what the two properties leave out.

`CostGuard_proofs.tla`, for any turns of both kinds, sessions, limits and estimates:
`HourlyTheorem`, `DailyTheorem`, `SessionTheorem` bound what a window, a day
and a session can exceed. The invariants count requests that have passed the
check and are not charged yet together with what was charged, less what was
charged unchecked (`SeenCalls`, `SeenSpent`). A check that passes is bounded by
the number of turns, whatever is in flight, since it sees the unchecked charges
too; a charge moves one estimate from one side to the other; an unchecked charge
changes neither; a window that ends only makes the sum smaller. `SessionInv`
adds that only turns run as a whole have charges due, so that a session that
streams has none that is unchecked. `RollingTheorem` bounds any hour, not only a window of the
guard. Its invariant `Windows` counts the checked charges of the present window, of any
stretch shorter than an hour that ends where it begins, and of any hour: only
the middle part makes it inductive, since when a new window begins such a
stretch lies within the old one.

`SessionStore_proofs.tla`, for any set of tasks, any depth of the stacks and
any number of changes:

* `TypeCorrect`: pushes are trimmed and pops come from stacks that are not
  empty, so the stacks never exceed `MaxDepth`.
* `UnreadableIsExplained` rests on `WritesInv`: an undisturbed file is empty
  only while exactly one write is on its way.
* `DeletionsLast` rests on `VersionsInv` (no copy has a number above `top`) and
  `GoneInv` (once the session is deleted, every copy left is older than the
  deletion), which makes the task that brings the session back a stale one.
* `RenamesLast` needs, besides, that every copy of the newest change has the
  title that was acknowledged, or is that of the one task about to save it.
* `UndoIsAHistory` is a refinement proof. The present is wherever the newest
  change is (`HolderInv`: in the file, in flight, or with a task that has
  decided), all copies of it agree (`AgreeInv`), and while a non-streaming
  turn runs its checkpoint is on top of the stack (`CheckpointInv`), so that
  its answer maps to `Reply`. Every action then maps to an action of
  `UndoHistory` or to a stutter, and the first upset maps to `Close`.
* `UndoRedoInverse`: the code trims both stacks to `MAX_DEPTH`, but since a turn
  clears the redo stack and undo and redo only move entries, the two together
  never exceed that depth (`StacksShareDepth`). A push by undo or redo therefore
  never drops an entry, and each gives back exactly what the other took. This
  holds in disturbed sessions too, since the stacks have a lock of their own.

`MemoryDaily_proofs.tla`, for any tasks, pipeline, retries, permits and days:

* `TypeCorrect`: `TypeInv` adds that each task stands at a step of its plan and
  carries what that step needs.
* `QuarantineTheorem`: with one task at a job (`AloneInv`), the count in the
  table is the number of failures (`CountsOK`), and a task inside a call of the
  model still holds that count (`CallsOK`): the counter is read before the call
  and written after it.
* `OneDailyRunTheorem` and `DayEarnedTheorem`: one run and its flag (`RunInv`);
  what a run without a failure has behind it is completed, for the date it
  started with (`RunsInOrder`), and the date recorded as done is never ahead of
  that of the steps (`DatesInOrder`). Without `OrderAssumption` (the long-term
  file comes behind the week's) a run could pass a step without completing it.
* `CacheTheorem`: one task at a time rolls the summary (`OneRoller`), the input of
  a compile is not newer than its source, and its output not older than its
  fingerprint (`FilesOK`).
* `OneSummaryTheorem` follows from the same `OneRoller`, which says besides that
  the mark is set exactly while there is such a task, unless one has panicked.

`PermissionPrompt_proofs.tla`, for any runs, tools, modes and number of calls:

* `TypeCorrect` with `CallsBegun`: call numbers are never used twice.
* `RecordIsLiveTheorem` is inductive with the types alone, also when runs overlap:
  a run leaves its prompt through `ClearRecord` only, which either removes the
  record or notes it in `left`.
* `WaiterTheorem` needs that a run alone owns the session's channel (`AloneInv`)
  and that a recovery about to clear the record holds a prompt of an earlier
  process (`RecoveryStale`).
* `AnswersTheorem` rests on `AnswersInv`: in an undisturbed session what the
  dialog or a recovery shows is answered already or is the prompt at which a run
  waits, and an answer in a channel is for the prompt its run waits at.

`Activation_proofs.tla`, for any client tasks, limits, requests and tokens:

* `TypeCorrect`: `TypeInv` adds what ties client, network and server: calls name
  rows that exist (tables only grow), and a call has one attempt, which is on
  its way, being handled or answered (`OnePending`).
* `DroppedTheorem`: no cleared license is stored, being refreshed or in an answer
  that will be saved (`NoneDropped`).
* `TokenTheorem`: tokens are fresh (`Counted`), and the stored one is taken by the
  server or its replacement is in an answer that will be saved (`TokensOK`).
* `GrantsTheorem`: unless recorded, one handler at a time has read for a grant
  (`OneReader`). A request that is approved, or that a handler has read as
  approved, has been approved once more than it was redeemed (`RedeemedOK`),
  whatever has been written over its status since; one that is pending was never
  approved, and who holds it pending is the only one to approve it
  (`ApprovedOK`); the uses of a code cover its licenses, with one left for the
  handler that has read (`CodeOK`).

`RequestHistory_proofs.tla`, for any ids, limits, sizes and sessions of any
length:

* Counting, sanitizing and filtering are folds over sequences. A fold chooses
  the function that satisfies its equations, so `FoldExists` first builds one,
  and `FoldRuns` turns a fold over a sequence into the list of its intermediate
  values (`Runs`): `CharsRuns`, `TakeRuns`, `PassRuns` and the others say this of
  one operator each. The induction is over sets of natural numbers
  (`SetInduction`, from the well-foundedness of `<`), since the library's
  induction theorems take an operator.
* `AdmitLongest`: a suffix is never larger than the whole (`CharsSuffix`), so the
  count and size limits never undo what the token limit has admitted, and the
  two trimmings act as one.
* `SanitizeSound` follows the one pass. In `WellFormed` conversations the
  results of a message with calls stand right behind it, one message each;
  results whose call was cut away may stand anywhere. Between two messages the
  sanitizer is then idle with nothing expected, or inside a batch and expects
  exactly the results still to come (`Idle`, `Batch`). It never has to give up
  calls, and drops exactly the results that have no call: the outcome is `Whole`.
* `UsableTheorem`: a `Whole` conversation is paired (`WholePaired`). The second
  trimming gets one that fits already, with a notice in front, and can cut the
  notice only (`AdmitClean`), so it does not separate a pair again. The newest
  message survives the first trimming because the last call and its result fit
  together (`PairFits`). `HistoryInv` adds what `RequestsUsable` does not say of
  the other messages: session, messages and timeline are well-formed after every
  turn, finalization and compaction, and before a request the messages end with
  what is new in the timeline. Without it nothing is known of the conversation
  the next request is built from.
* `BudgetsTheorem`: no request exceeds a limit; it fits all of them or is the
  summary alone.

The proofs assume the named assumptions on the constants only. Every safety
property of the passing runs is proved. Liveness (`AcceptedTurnEnds`,
`StopDuringToolsWins`, `EventuallyReadable`, `RevocationArrives`)
is model-checked, being out of the prover's reach.

## 5. Not modelled, and what comes next

Not modelled in the parts above: the content of prompts and text, memory and
learning hooks after a turn, auto-compaction after the completion, the
registration of events in the run log, creation and listing of sessions,
expiry and grace of licenses, accounts and statistics of the server. `StreamTurn` and
`SessionStore` are not composed: in the first a save is one step that succeeds
or fails, in the second a turn is a load, a decision and a save.

Three weaknesses of the code are known from its text and covered by no
property: the session sent unrepaired by the non-streaming turn
(`real_api_client.rs:106`), the count of messages, doubled by the streaming
turn (`stream_finalize.rs:433`, against the comment at `manager.rs:165` and
`run.rs:474`), and the summary of a session that undo has shortened: once new turns make it
longer than before, `rolling.rs:173` takes them up only from the old length on.

Plan, in this order:

1. `Projection`: event log, replay and reducer; live and replayed runs agree.
2. `Resilience`: start retries, failover and circuit breaker of one turn.
3. State machines: strategy rollout, TTS jobs and eviction, MCP over stdio,
   onboarding.

Left out on purpose: vendored data and skills, wire formats of providers,
synthesis and speech engines, browser and git wrappers (I/O with no protocol
of their own), and ranking and scoring code (numeric).
