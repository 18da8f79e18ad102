---------------------------- MODULE MemoryDaily -----------------------------
(***************************************************************************)
(* The memory pipeline (memory/ticker, memory/compiler and                 *)
(* memory/job_runner.rs): tasks that roll the summary of the session and   *)
(* tasks that run the daily compilation share the job table, the compiled  *)
(* files with their fingerprints, and the state of the ticker.  A text is  *)
(* the number of the summaries it was made from, 0 for none.               *)
(***************************************************************************)
EXTENDS Integers, Sequences, FiniteSets

CONSTANTS
  Workers,       \* background tasks that may run at the same time
  Pipeline,      \* the steps of a daily run, in their order
  MaxRetries,    \* max_retries of the job runner
  MaxConcurrent, \* permits of its semaphore
  MaxDay,        \* bound of the model: last day
  MaxSummaries   \* bound of the model: summaries ever saved

Artefacts == {"Today", "Week", "Longterm", "Facts"}
Steps == Artefacts \cup {"Assemble", "DeepMemory"}

ASSUME BoundAssumption ==
  /\ MaxRetries \in Nat \ {0} /\ MaxConcurrent \in Nat \ {0}
  /\ MaxDay \in Nat /\ MaxSummaries \in Nat
ASSUME PipelineAssumption == Pipeline \in Seq(Steps) /\ Pipeline # <<>>
\* the long-term file is compiled behind the week's, which it is made from
ASSUME OrderAssumption == \A i \in DOMAIN Pipeline :
  Pipeline[i] = "Longterm" => \E j \in 1 .. i - 1 : Pipeline[j] = "Week"

VARIABLES
  day, rolled,    \* the logical day; the last summary saved and its day
  rows,           \* job_attempts
  out,            \* each compiled file and its fingerprint
  daily_running, daily_steps_date, daily_steps_completed, last_daily_job_date,
  summary_in_progress,
  pc, kind, at,   \* where each task stands, what it does, its current step
  today, failed,  \* the day a daily run works for, and had_failure
  input, attempt, \* what the task has read: the input and the attempt counter
  fails,          \* history: failures of a job recorded since its last success
  met,            \* history: jobs of which two were under way at a time
  repaired,       \* history: the watchdog cleared the flag of a living run
  panicked        \* history: a task without a guard of its mark has panicked

disk == <<rolled, rows, out>>
ticker == <<daily_running, daily_steps_date, daily_steps_completed,
            last_daily_job_date, summary_in_progress>>
local == <<today, failed, input, attempt>>
tasks == <<pc, kind, at, local>>
ghosts == <<fails, met, repaired, panicked>>
vars == <<day, disk, ticker, tasks, ghosts>>

Keys == Artefacts \cup {"Rolling"}
NoDay == -1

Fresh == [attempt |-> 0, status |-> "active"]

\* A task that rolls the summary goes on to today's file
Plan(w) ==
  IF kind[w] = "daily" THEN Pipeline ELSE <<"Rolling", "Today", "Assemble">>
Step(w) == Plan(w)[at[w]]

\* The input of a job.  Today's summaries are those of the logical day, the
\* long-term file is made from the week's.
Input(s) ==
  CASE s = "Today" -> IF rolled.day = day THEN rolled.n ELSE 0
    [] s = "Longterm" -> out["Week"].md
    [] s = "Rolling" -> rolled.n + 1
    [] OTHER -> rolled.n

\* tasks between reading the input of job s and recording its fingerprint
Busy(s) ==
  {w \in Workers : pc[w] \in {"permit", "llm", "write", "stamp"} /\ Step(w) = s}
Rollers == {w \in Workers : kind[w] \in {"roll", "flush"}}
AtDaily == {w \in Workers : kind[w] = "daily" /\ pc[w] \notin {"idle", "kicked"}}

Init ==
  /\ day = 0 /\ rolled = [n |-> 0, day |-> NoDay]
  /\ rows = [k \in Keys |-> Fresh]
  /\ out = [a \in Artefacts |-> [md |-> 0, fp |-> 0]]
  /\ daily_running = FALSE /\ daily_steps_date = NoDay
  /\ daily_steps_completed = {} /\ last_daily_job_date = NoDay
  /\ summary_in_progress = FALSE
  /\ pc = [w \in Workers |-> "idle"] /\ kind = [w \in Workers |-> "none"]
  /\ at = [w \in Workers |-> 1]
  /\ today = [w \in Workers |-> 0] /\ failed = [w \in Workers |-> FALSE]
  /\ input = [w \in Workers |-> 0] /\ attempt = [w \in Workers |-> 0]
  /\ fails = [k \in Keys |-> 0] /\ met = {} /\ repaired = FALSE
  /\ panicked = FALSE

NewDay == day < MaxDay /\ day' = day + 1 /\ UNCHANGED <<disk, ticker, tasks, ghosts>>

\* The user's turns reach turns_per_summary or the session ends ("roll"), or it
\* is flushed ("flush", which no command does yet): nothing happens while the
\* session is being summarised.
Summarise(w, k) ==
  /\ pc[w] = "idle" /\ ~summary_in_progress /\ rolled.n < MaxSummaries
  /\ summary_in_progress' = TRUE
  /\ pc' = [pc EXCEPT ![w] = "step"]
  /\ kind' = [kind EXCEPT ![w] = k]
  /\ UNCHANGED <<day, disk, daily_running, daily_steps_date, daily_steps_completed,
                 last_daily_job_date, at, local, ghosts>>

\* maybe_run_daily, after every turn and on a timer: the check is made here, the
\* run starts later in a task of its own
MaybeRunDaily(w) ==
  /\ pc[w] = "idle"
  /\ last_daily_job_date # day /\ ~daily_running
  /\ pc' = [pc EXCEPT ![w] = "kicked"]
  /\ kind' = [kind EXCEPT ![w] = "daily"]
  /\ UNCHANGED <<day, disk, ticker, at, local, ghosts>>

Idle(w) ==
  /\ pc' = [pc EXCEPT ![w] = "idle"]
  /\ kind' = [kind EXCEPT ![w] = "none"]
  /\ at' = [at EXCEPT ![w] = 1]
  /\ today' = [today EXCEPT ![w] = 0] /\ failed' = [failed EXCEPT ![w] = FALSE]
  /\ input' = [input EXCEPT ![w] = 0] /\ attempt' = [attempt EXCEPT ![w] = 0]

AlreadyRunning(w) ==
  /\ pc[w] = "kicked" /\ daily_running
  /\ Idle(w)
  /\ UNCHANGED <<day, disk, ticker, ghosts>>

\* mutant: the run trusts the check of maybe_run_daily
StartDailyUnguarded(w) ==
  /\ pc[w] = "kicked"
  /\ daily_running' = TRUE
  /\ daily_steps_completed' = IF daily_steps_date = day THEN daily_steps_completed ELSE {}
  /\ daily_steps_date' = day
  /\ today' = [today EXCEPT ![w] = day]
  /\ pc' = [pc EXCEPT ![w] = "step"]
  /\ UNCHANGED <<day, disk, last_daily_job_date, summary_in_progress, kind, at,
                 failed, input, attempt, ghosts>>

\* run_daily_inline: under the lock of the ticker, take the flag and forget the
\* steps of another day
StartDaily(w) ==
  /\ pc[w] = "kicked" /\ ~daily_running
  /\ daily_running' = TRUE
  /\ daily_steps_completed' = IF daily_steps_date = day THEN daily_steps_completed ELSE {}
  /\ daily_steps_date' = day
  /\ today' = [today EXCEPT ![w] = day]
  /\ pc' = [pc EXCEPT ![w] = "step"]
  /\ UNCHANGED <<day, disk, last_daily_job_date, summary_in_progress, kind, at,
                 failed, input, attempt, ghosts>>

\* mutant: the last step is counted from zero
ForwardPastEnd(w, ok) ==
  /\ IF at[w] > Len(Plan(w)) \/ (kind[w] = "flush" /\ Step(w) = "Rolling" /\ ~ok)
     THEN pc' = [pc EXCEPT ![w] = "end"] /\ UNCHANGED at
     ELSE pc' = [pc EXCEPT ![w] = "step"] /\ at' = [at EXCEPT ![w] = @ + 1]
  /\ input' = [input EXCEPT ![w] = 0] /\ attempt' = [attempt EXCEPT ![w] = 0]
  /\ UNCHANGED <<kind, today>>

\* To the next step; a flush gives up when the summary fails
Forward(w, ok) ==
  /\ IF at[w] = Len(Plan(w)) \/ (kind[w] = "flush" /\ Step(w) = "Rolling" /\ ~ok)
     THEN pc' = [pc EXCEPT ![w] = "end"] /\ UNCHANGED at
     ELSE pc' = [pc EXCEPT ![w] = "step"] /\ at' = [at EXCEPT ![w] = @ + 1]
  /\ input' = [input EXCEPT ![w] = 0] /\ attempt' = [attempt EXCEPT ![w] = 0]
  /\ UNCHANGED <<kind, today>>

\* mutant: a failed step does not count against the day
ReturnsForgiving(w, ok) ==
  /\ daily_steps_completed' =
       IF kind[w] = "daily" /\ ok THEN daily_steps_completed \cup {Step(w)}
       ELSE daily_steps_completed
  /\ UNCHANGED failed
  /\ Forward(w, ok)
  /\ UNCHANGED <<daily_running, daily_steps_date, last_daily_job_date, summary_in_progress>>

\* The current step returns: a daily run marks it as done or notes the failure
Returns(w, ok) ==
  /\ daily_steps_completed' =
       IF kind[w] = "daily" /\ ok THEN daily_steps_completed \cup {Step(w)}
       ELSE daily_steps_completed
  /\ failed' = [failed EXCEPT ![w] = @ \/ (kind[w] = "daily" /\ ~ok)]
  /\ Forward(w, ok)
  /\ UNCHANGED <<daily_running, daily_steps_date, last_daily_job_date, summary_in_progress>>

Passes(w) ==
  /\ kind[w] = "daily"
  /\ \/ Step(w) \in daily_steps_completed
     \/ Step(w) = "Longterm" /\ "Week" \notin daily_steps_completed

PassOver(w) ==
  /\ pc[w] = "step" /\ Passes(w)
  /\ Forward(w, TRUE)
  /\ UNCHANGED <<day, disk, ticker, failed, ghosts>>

\* assemble writes one file or fails; DeepMemory does nothing
PlainStep(w) ==
  /\ pc[w] = "step" /\ ~Passes(w) /\ Step(w) \in {"Assemble", "DeepMemory"}
  /\ \E ok \in IF Step(w) = "Assemble" THEN BOOLEAN ELSE {TRUE} : Returns(w, ok)
  /\ UNCHANGED <<day, disk, ghosts>>

\* is_unchanged, or there is nothing to compile: the step is done
Settled(s) ==
  s \in Artefacts /\ (Input(s) = 0 \/ (out[s].md # 0 /\ out[s].fp = Input(s)))

\* Nor is there anything to roll when the session has no new messages or was
\* compacted a moment ago.
NothingToDo(w) ==
  /\ pc[w] = "step" /\ ~Passes(w)
  /\ Step(w) = "Rolling" \/ Settled(Step(w))
  /\ Returns(w, TRUE)
  /\ UNCHANGED <<day, disk, ghosts>>

\* The input is read now, the job runner is entered with it.  A short list of
\* facts is written without a model.
BeginJob(w) ==
  /\ pc[w] = "step" /\ ~Passes(w) /\ Step(w) \in Keys /\ ~Settled(Step(w))
  /\ \E p \in IF Step(w) = "Facts" THEN {"permit", "write"} ELSE {"permit"} :
       pc' = [pc EXCEPT ![w] = p]
  /\ input' = [input EXCEPT ![w] = Input(Step(w))]
  /\ met' = IF Busy(Step(w)) = {} THEN met ELSE met \cup {Step(w)}
  /\ UNCHANGED <<day, disk, ticker, kind, at, today, failed, attempt, fails, repaired,
                 panicked>>

HasPermit == Cardinality({w \in Workers : pc[w] = "llm"}) < MaxConcurrent

\* JobRunner::run answers Ok(None) for a job that is quarantined, and a compile
\* step takes that for success
Quarantined(w) ==
  /\ pc[w] = "permit" /\ HasPermit
  /\ rows[Step(w)].status = "skipped"
  /\ Returns(w, TRUE)
  /\ UNCHANGED <<day, disk, ghosts>>

CallModel(w) ==
  /\ pc[w] = "permit" /\ HasPermit
  /\ rows[Step(w)].status # "skipped"
  /\ attempt' = [attempt EXCEPT ![w] = rows[Step(w)].attempt]
  /\ pc' = [pc EXCEPT ![w] = "llm"]
  /\ UNCHANGED <<day, disk, ticker, kind, at, today, failed, input, ghosts>>

\* mutant: a success leaves the attempts of earlier failures in place
ModelAnswersKeepsCount(w) ==
  /\ pc[w] = "llm"
  /\ rows' = [rows EXCEPT ![Step(w)].status = "done"]
  /\ fails' = [fails EXCEPT ![Step(w)] = 0]
  /\ pc' = [pc EXCEPT ![w] = "write"]
  /\ UNCHANGED <<day, rolled, out, ticker, kind, at, local, met, repaired, panicked>>

\* persist_done
ModelAnswers(w) ==
  /\ pc[w] = "llm"
  /\ rows' = [rows EXCEPT ![Step(w)] = [attempt |-> 0, status |-> "done"]]
  /\ fails' = [fails EXCEPT ![Step(w)] = 0]
  /\ pc' = [pc EXCEPT ![w] = "write"]
  /\ UNCHANGED <<day, rolled, out, ticker, kind, at, local, met, repaired, panicked>>

\* persist_failed or persist_skipped, from the counter read before the call; the
\* failure that exhausts the budget is answered with Ok(None)
ModelFails(w) ==
  LET next == attempt[w] + 1
      last == next >= MaxRetries
  IN /\ pc[w] = "llm"
     /\ rows' = [rows EXCEPT ![Step(w)] =
          [attempt |-> next, status |-> IF last THEN "skipped" ELSE "active"]]
     /\ fails' = [fails EXCEPT ![Step(w)] = @ + 1]
     /\ Returns(w, last)
     /\ UNCHANGED <<day, rolled, out, met, repaired, panicked>>

\* atomic_write.  Tasks that compile the same file share its temporary file, so
\* the one that renames may install the text of the other.
Install(w) ==
  /\ pc[w] = "write" /\ Step(w) \in Artefacts
  /\ \E u \in {v \in Workers : pc[v] = "write" /\ Step(v) = Step(w)} :
       out' = [out EXCEPT ![Step(w)].md = input[u]]
  /\ pc' = [pc EXCEPT ![w] = "stamp"]
  /\ UNCHANGED <<day, rolled, rows, ticker, kind, at, local, ghosts>>

\* mutant: the fingerprint is computed again when the text has arrived
StampAnew(w) ==
  /\ pc[w] = "stamp"
  /\ out' = [out EXCEPT ![Step(w)].fp = Input(Step(w))]
  /\ Returns(w, TRUE)
  /\ UNCHANGED <<day, rolled, rows, ghosts>>

\* write_fingerprint
Stamp(w) ==
  /\ pc[w] = "stamp"
  /\ out' = [out EXCEPT ![Step(w)].fp = input[w]]
  /\ Returns(w, TRUE)
  /\ UNCHANGED <<day, rolled, rows, ghosts>>

\* An empty answer of the model is not saved
SaveSummary(w) ==
  /\ pc[w] = "write" /\ Step(w) = "Rolling"
  /\ rolled' \in {rolled, [n |-> input[w], day |-> day]}
  /\ Returns(w, TRUE)
  /\ UNCHANGED <<day, rows, out, ghosts>>

\* The input cannot be read, the job table fails, or a file cannot be written:
\* what was done so far stays, and the attempt is not counted
StepFails(w) ==
  /\ \/ pc[w] \in {"permit", "llm", "write", "stamp"}
     \/ pc[w] = "step" /\ ~Passes(w) /\ Step(w) \in Keys
  /\ Returns(w, FALSE)
  /\ UNCHANGED <<day, disk, ghosts>>

\* mutant: a flush takes its mark away with its last statement, as a roll does
ReleasesAtEnd(w) ==
  IF kind[w] = "daily" \/ pc[w] # "end"
  THEN daily_running' = (daily_running /\ kind[w] # "daily") /\ UNCHANGED summary_in_progress
  ELSE summary_in_progress' = FALSE /\ UNCHANGED daily_running

\* The guard that a daily run, or a flush, holds; a task that rolls takes its mark
\* away with its last call
Releases(w) ==
  IF kind[w] = "daily"
  THEN daily_running' = FALSE /\ UNCHANGED summary_in_progress
  ELSE summary_in_progress' = FALSE /\ UNCHANGED daily_running

\* A daily run without a failure sets its date
Finish(w) ==
  /\ pc[w] = "end"
  /\ last_daily_job_date' =
       IF kind[w] = "daily" /\ ~failed[w] THEN today[w] ELSE last_daily_job_date
  /\ Releases(w) /\ Idle(w)
  /\ UNCHANGED <<day, disk, daily_steps_date, daily_steps_completed, ghosts>>

\* A step panics: guards are dropped, a task that rolls has none
Panics(w) ==
  /\ pc[w] \in {"step", "permit", "llm", "write", "stamp"}
  /\ IF kind[w] = "roll"
     THEN panicked' = TRUE /\ UNCHANGED <<daily_running, summary_in_progress>>
     ELSE Releases(w) /\ UNCHANGED panicked
  /\ Idle(w)
  /\ UNCHANGED <<day, disk, daily_steps_date, daily_steps_completed,
                 last_daily_job_date, fails, met, repaired>>

\* The watchdog takes a flag that is set for one that is stuck
RepairClearStuckDaily ==
  /\ daily_running
  /\ daily_running' = FALSE
  /\ repaired' = (repaired \/ AtDaily # {})
  /\ UNCHANGED <<day, disk, daily_steps_date, daily_steps_completed,
                 last_daily_job_date, summary_in_progress, tasks, fails, met, panicked>>

\* The process ends: the ticker and its tasks are gone, tables and files stay
Restart ==
  /\ daily_running' = FALSE /\ daily_steps_date' = NoDay
  /\ daily_steps_completed' = {} /\ last_daily_job_date' = NoDay
  /\ summary_in_progress' = FALSE
  /\ pc' = [w \in Workers |-> "idle"] /\ kind' = [w \in Workers |-> "none"]
  /\ at' = [w \in Workers |-> 1]
  /\ today' = [w \in Workers |-> 0] /\ failed' = [w \in Workers |-> FALSE]
  /\ input' = [w \in Workers |-> 0] /\ attempt' = [w \in Workers |-> 0]
  /\ repaired' = FALSE /\ panicked' = FALSE
  /\ UNCHANGED <<day, disk, fails, met>>

Move(w) ==
  \/ StartDaily(w) \/ AlreadyRunning(w)
  \/ PassOver(w) \/ PlainStep(w) \/ NothingToDo(w) \/ BeginJob(w)
  \/ Quarantined(w) \/ CallModel(w) \/ ModelAnswers(w) \/ ModelFails(w)
  \/ Install(w) \/ Stamp(w) \/ SaveSummary(w) \/ StepFails(w)
  \/ Finish(w)

Next ==
  \/ \E w \in Workers :
       Move(w) \/ Panics(w) \/ MaybeRunDaily(w)
         \/ (\E k \in {"roll", "flush"} : Summarise(w, k))
  \/ NewDay \/ RepairClearStuckDaily \/ Restart

Spec == Init /\ [][Next]_vars

-----------------------------------------------------------------------------
Days == Nat \cup {NoDay}

TypeOK ==
  /\ day \in Nat /\ rolled \in [n: Nat, day: Days]
  /\ rows \in [Keys -> [attempt: Nat, status: {"active", "skipped", "done"}]]
  /\ out \in [Artefacts -> [md: Nat, fp: Nat]]
  /\ daily_running \in BOOLEAN /\ summary_in_progress \in BOOLEAN
  /\ daily_steps_date \in Days /\ last_daily_job_date \in Days
  /\ daily_steps_completed \subseteq Steps
  /\ pc \in [Workers -> {"idle", "kicked", "step", "permit", "llm", "write", "stamp", "end"}]
  /\ kind \in [Workers -> {"none", "daily", "roll", "flush"}]
  /\ at \in [Workers -> Nat \ {0}]
  /\ \A w \in Workers : kind[w] # "none" => at[w] \in 1 .. Len(Plan(w))
  /\ today \in [Workers -> Nat] /\ failed \in [Workers -> BOOLEAN]
  /\ input \in [Workers -> Nat] /\ attempt \in [Workers -> Nat]
  /\ fails \in [Keys -> Nat] /\ met \subseteq Keys /\ {repaired, panicked} \subseteq BOOLEAN

\* A job is quarantined after exactly MaxRetries recorded failures in a row,
\* neither earlier nor later, over any number of tasks, days and restarts, unless two
\* tasks ran the same job at the same time.
QuarantineEarned ==
  \A k \in Keys \ met :
    /\ rows[k].attempt = fails[k]
    /\ rows[k].status = "skipped" <=> fails[k] >= MaxRetries

\* A fingerprint never vouches for a file made from an older input: a compile
\* that is skipped as unchanged hides nothing, through failed writes and the
\* death of the process, unless two tasks compiled the file, or the file it is
\* made from, at the same time.
CacheHonest ==
  \A a \in Artefacts :
    a \notin met /\ (a = "Longterm" => "Week" \notin met) => out[a].fp <= out[a].md

\* The flag is set exactly while one daily run is under way, unless the
\* watchdog took it from a run that was alive.
OneDailyRun ==
  ~repaired => Cardinality(AtDaily) = (IF daily_running THEN 1 ELSE 0)

\* The day that is recorded as compiled is one whose steps all returned without
\* an error, whatever was retried and resumed in between.
DayEarned ==
  ~repaired /\ last_daily_job_date # NoDay /\ last_daily_job_date = daily_steps_date
    => {Pipeline[i] : i \in 1 .. Len(Pipeline)} \subseteq daily_steps_completed

\* A session is summarised by one task at a time, and is marked exactly while it
\* is: whatever fails or panics on the way, the mark does not stay behind and lock
\* the session out of summaries.  The one exception is a task that rolls: it holds
\* no guard, and its panic leaves the mark there until the next start.
OneSummary ==
  /\ Cardinality(Rollers) <= 1
  /\ Rollers # {} => summary_in_progress
  /\ summary_in_progress /\ ~panicked => Rollers # {}
=============================================================================
