------------------------- MODULE MemoryDaily_proofs -------------------------
(***************************************************************************)
(* Theorems about MemoryDaily, for any background tasks, any pipeline, any *)
(* number of retries, permits, days and summaries.                         *)
(***************************************************************************)
EXTENDS MemoryDaily, FiniteSetTheorems, SequenceTheorems, TLAPS

Working == {"permit", "llm", "write", "stamp"}
Phases == {"idle", "kicked", "step", "end"} \cup Working
Sorts == {"none", "daily", "roll", "flush"}

DiskOK ==
  /\ rolled \in [n: Nat, day: Days]
  /\ rows \in [Keys -> [attempt: Nat, status: {"active", "skipped", "done"}]]
  /\ out \in [Artefacts -> [md: Nat, fp: Nat]]

TickerOK ==
  /\ daily_running \in BOOLEAN /\ summary_in_progress \in BOOLEAN
  /\ daily_steps_date \in Days /\ last_daily_job_date \in Days
  /\ daily_steps_completed \subseteq Steps

TasksOK ==
  /\ pc \in [Workers -> Phases] /\ kind \in [Workers -> Sorts]
  /\ at \in [Workers -> Nat \ {0}]
  /\ \A w \in Workers : kind[w] # "none" => at[w] \in 1 .. Len(Plan(w))
  /\ today \in [Workers -> Nat] /\ failed \in [Workers -> BOOLEAN]
  /\ input \in [Workers -> Nat] /\ attempt \in [Workers -> Nat]

GhostsOK ==
  /\ fails \in [Keys -> Nat] /\ met \subseteq Keys
  /\ repaired \in BOOLEAN /\ panicked \in BOOLEAN

\* Where a task stands says what it does and what it carries
ControlOK ==
  \A w \in Workers :
    /\ pc[w] = "idle" <=> kind[w] = "none"
    /\ pc[w] = "kicked" => kind[w] = "daily"
    /\ pc[w] \in {"idle", "kicked"} => at[w] = 1 /\ failed[w] = FALSE
    /\ pc[w] \in Working => Step(w) \in Keys
    /\ pc[w] = "stamp" => Step(w) \in Artefacts

TypeInv ==
  day \in Nat /\ DiskOK /\ TickerOK /\ TasksOK /\ GhostsOK /\ ControlOK

LEMMA TypeInvTypeOK == TypeInv => TypeOK
BY DEF TypeInv, DiskOK, TickerOK, TasksOK, GhostsOK, TypeOK, Phases, Sorts, Working

\* the step at hand is one of the pipeline or of a roll
LEMMA StepIsAStep ==
  ASSUME TasksOK, NEW w \in Workers, kind[w] # "none"
  PROVE  /\ Step(w) \in Steps \cup {"Rolling"}
         /\ kind[w] = "daily" => Step(w) \in Steps
<1>1. Pipeline \in Seq(Steps) /\ at[w] \in 1 .. Len(Plan(w))
  BY PipelineAssumption DEF TasksOK
<1>2. CASE kind[w] = "daily"
  BY <1>1, <1>2 DEF Plan, Step
<1>3. CASE kind[w] # "daily"
  <2>1. Plan(w) = <<"Rolling", "Today", "Assemble">> /\ at[w] \in 1 .. 3
    BY <1>1, <1>3 DEF Plan
  <2>2. Step(w) \in {"Rolling", "Today", "Assemble"}
    BY <2>1 DEF Step
  <2> QED BY <1>3, <2>2 DEF Steps, Artefacts
<1> QED BY <1>2, <1>3

LEMMA InputIsANumber ==
  ASSUME DiskOK, NEW s \in Keys PROVE Input(s) \in Nat
BY DEF DiskOK, Keys, Artefacts, Input

-----------------------------------------------------------------------------
\* a task other than the one that moves stays as it is
Same(v) ==
  /\ pc'[v] = pc[v] /\ kind'[v] = kind[v] /\ at'[v] = at[v]
  /\ today'[v] = today[v] /\ failed'[v] = failed[v]
  /\ input'[v] = input[v] /\ attempt'[v] = attempt[v]

LEMMA SameStep ==
  ASSUME NEW v \in Workers, Same(v)
  PROVE  Step(v)' = Step(v) /\ Plan(v)' = Plan(v)
BY DEF Same, Step, Plan

Acts(w) == Move(w) \/ Panics(w) \/ MaybeRunDaily(w) \/ (\E k \in {"roll", "flush"} : Summarise(w, k))

LEMMA ReturnsKeepsOthers ==
  ASSUME TasksOK, NEW w \in Workers, NEW ok \in BOOLEAN, Returns(w, ok),
         NEW v \in Workers, v # w
  PROVE  Same(v)
BY DEF TasksOK, Returns, Forward, Same

\* the actions in which the step at hand returns
ReturnsNow(w) ==
  \/ PlainStep(w) \/ NothingToDo(w) \/ Quarantined(w) \/ ModelFails(w)
  \/ Stamp(w) \/ SaveSummary(w) \/ StepFails(w)

LEMMA ReturningSteps ==
  ASSUME NEW w \in Workers, ReturnsNow(w)
  PROVE  \E ok \in BOOLEAN : Returns(w, ok)
<1>1. CASE PlainStep(w)
  BY <1>1 DEF PlainStep
<1>2. CASE NothingToDo(w) \/ Quarantined(w) \/ Stamp(w) \/ SaveSummary(w) \/ StepFails(w)
  BY <1>2 DEF NothingToDo, Quarantined, Stamp, SaveSummary, StepFails
<1>3. CASE ModelFails(w)
  <2>1. Returns(w, attempt[w] + 1 >= MaxRetries)
    BY <1>3 DEF ModelFails
  <2>2. (attempt[w] + 1 >= MaxRetries) \in BOOLEAN
    OBVIOUS
  <2> QED BY <2>1, <2>2
<1> QED BY <1>1, <1>2, <1>3 DEF ReturnsNow

LEMMA OnlyOneMoves ==
  ASSUME TasksOK, NEW w \in Workers, Acts(w), NEW v \in Workers, v # w
  PROVE  Same(v)
<1>1. CASE MaybeRunDaily(w) \/ (\E k \in {"roll", "flush"} : Summarise(w, k))
  BY <1>1 DEF TasksOK, MaybeRunDaily, Summarise, local, Same
<1>2. CASE StartDaily(w) \/ AlreadyRunning(w) \/ Finish(w) \/ Panics(w)
  BY <1>2 DEF TasksOK, StartDaily, AlreadyRunning, Finish, Panics, Idle, Same
<1>3. CASE PassOver(w)
  BY <1>3 DEF TasksOK, PassOver, Forward, Same
<1>4. CASE BeginJob(w) \/ CallModel(w) \/ ModelAnswers(w) \/ Install(w)
  BY <1>4 DEF TasksOK, BeginJob, CallModel, ModelAnswers, Install, local, Same
<1>5. CASE ReturnsNow(w)
  BY <1>5, ReturningSteps, ReturnsKeepsOthers
<1> QED BY <1>1, <1>2, <1>3, <1>4, <1>5 DEF Acts, Move, ReturnsNow

-----------------------------------------------------------------------------
\* a step that returns leads to the next one or to the end of the task
LEMMA ForwardTyped ==
  ASSUME TasksOK, NEW w \in Workers, NEW ok \in BOOLEAN, Forward(w, ok),
         kind[w] # "none"
  PROVE  /\ pc' \in [Workers -> Phases] /\ pc'[w] \in {"step", "end"}
         /\ kind' \in [Workers -> Sorts] /\ kind'[w] = kind[w]
         /\ at' \in [Workers -> Nat \ {0}]
         /\ \A v \in Workers : kind'[v] # "none" => at'[v] \in 1 .. Len(Plan(v)')
         /\ today' \in [Workers -> Nat]
         /\ input' \in [Workers -> Nat] /\ attempt' \in [Workers -> Nat]
<1>1. \A v \in Workers : Plan(v)' = Plan(v)
  BY DEF Forward, Plan
<1>2. Len(Plan(w)) \in Nat /\ at[w] \in 1 .. Len(Plan(w))
  <2>1. Pipeline \in Seq(Steps)
    BY PipelineAssumption
  <2> QED BY <2>1 DEF TasksOK, Plan
<1>3. at'[w] \in 1 .. Len(Plan(w)) /\ at' \in [Workers -> Nat \ {0}]
  BY <1>2 DEF TasksOK, Forward
<1>4. \A v \in Workers : kind'[v] # "none" => at'[v] \in 1 .. Len(Plan(v)')
  BY <1>1, <1>3 DEF TasksOK, Forward
<1> QED BY <1>3, <1>4 DEF TasksOK, Forward, Phases

LEMMA ReturnsTyped ==
  ASSUME TypeInv, NEW w \in Workers, NEW ok \in BOOLEAN, Returns(w, ok),
         pc[w] \in Working \cup {"step"}
  PROVE  TickerOK' /\ TasksOK' /\ ControlOK'
<1>1. kind[w] # "none" /\ TasksOK /\ TickerOK /\ ControlOK
  BY DEF TypeInv, ControlOK, Working
<1>2. Forward(w, ok)
  BY DEF Returns
<1>3. kind[w] = "daily" => Step(w) \in Steps
  BY <1>1, StepIsAStep
<1>4. failed' \in [Workers -> BOOLEAN]
  <2>1. (failed[w] \/ (kind[w] = "daily" /\ ~ok)) \in BOOLEAN
    OBVIOUS
  <2> QED BY <1>1, <2>1 DEF TasksOK, Returns
<1>5. TickerOK'
  BY <1>1, <1>3 DEF TickerOK, Returns
<1>6. TasksOK'
  BY <1>1, <1>2, <1>4, ForwardTyped DEF TasksOK
<1>7. ASSUME NEW v \in Workers, v # w
      PROVE  Same(v) /\ Step(v)' = Step(v)
  BY <1>1, <1>7, ReturnsKeepsOthers, SameStep
<1>8. pc'[w] \in {"step", "end"} /\ kind'[w] = kind[w]
  BY <1>1, <1>2, ForwardTyped
<1>9. ControlOK'
  BY <1>1, <1>7, <1>8 DEF ControlOK, Same, Working
<1> QED BY <1>5, <1>6, <1>9

LEMMA IdleTyped ==
  ASSUME TasksOK, NEW w \in Workers, Idle(w)
  PROVE  TasksOK' /\ pc'[w] = "idle" /\ kind'[w] = "none" /\ at'[w] = 1 /\ failed'[w] = FALSE
<1>1. \A v \in Workers : v # w => Plan(v)' = Plan(v)
  BY DEF TasksOK, Idle, Plan
<1> QED BY <1>1 DEF TasksOK, Idle, Phases, Sorts

\* a task that moves without a step returning
LEMMA ControlKept ==
  ASSUME ControlOK, NEW w \in Workers, \A v \in Workers : v # w => Same(v),
         pc'[w] = "idle" <=> kind'[w] = "none",
         pc'[w] = "kicked" => kind'[w] = "daily",
         pc'[w] \in {"idle", "kicked"} => at'[w] = 1 /\ failed'[w] = FALSE,
         pc'[w] \in Working => Step(w)' \in Keys,
         pc'[w] = "stamp" => Step(w)' \in Artefacts
  PROVE  ControlOK'
<1>1. \A v \in Workers : v # w => Step(v)' = Step(v)
  BY SameStep
<1> QED BY <1>1 DEF ControlOK, Same, Working

\* every plan has a first step
LEMMA PlansStart ==
  ASSUME NEW w \in Workers PROVE 1 \in 1 .. Len(Plan(w)) /\ 1 \in 1 .. Len(Plan(w)')
<1>1. Pipeline \in Seq(Steps) /\ Pipeline # <<>>
  BY PipelineAssumption
<1>2. Len(Pipeline) \in Nat /\ Len(Pipeline) # 0
  BY <1>1, EmptySeq, LenProperties
<1> QED BY <1>2 DEF Plan

LEMMA TypeStep == TypeInv /\ [Next]_vars => TypeInv'
<1> SUFFICES ASSUME TypeInv, [Next]_vars PROVE TypeInv'
  OBVIOUS
<1> USE DEF TypeInv
<1>0. ASSUME NEW w \in Workers, Acts(w), NEW v \in Workers, v # w PROVE Same(v)
  BY <1>0, OnlyOneMoves
<1>1. ASSUME NEW w \in Workers, NEW k \in {"roll", "flush"}, Summarise(w, k) PROVE TypeInv'
  <2>1. TasksOK'
    <3>1. \A v \in Workers : v # w => Plan(v)' = Plan(v)
      BY <1>1 DEF TasksOK, Summarise, Plan
    <3> QED BY <1>1, <3>1, PlansStart DEF TasksOK, ControlOK, Summarise, Phases, Sorts, local
  <2>2. ControlOK'
    BY <1>0, <1>1, ControlKept DEF Acts, TasksOK, ControlOK, Summarise, Working, local
  <2> QED BY <1>1, <2>1, <2>2 DEF DiskOK, TickerOK, GhostsOK, Summarise, disk, ghosts
<1>2. ASSUME NEW w \in Workers, MaybeRunDaily(w) PROVE TypeInv'
  <2>1. TasksOK'
    <3>1. \A v \in Workers : v # w => Plan(v)' = Plan(v)
      BY <1>2 DEF TasksOK, MaybeRunDaily, Plan
    <3> QED BY <1>2, <3>1, PlansStart DEF TasksOK, ControlOK, MaybeRunDaily, Phases, Sorts, local
  <2>2. ControlOK'
    BY <1>0, <1>2, ControlKept DEF Acts, TasksOK, ControlOK, MaybeRunDaily, Working, local
  <2> QED BY <1>2, <2>1, <2>2 DEF DiskOK, TickerOK, GhostsOK, MaybeRunDaily, disk, ghosts, ticker
<1>3. ASSUME NEW w \in Workers, AlreadyRunning(w) \/ Finish(w) \/ Panics(w) PROVE TypeInv'
  <2>1. Idle(w)
    BY <1>3 DEF AlreadyRunning, Finish, Panics
  <2>2. TasksOK' /\ pc'[w] = "idle" /\ kind'[w] = "none" /\ at'[w] = 1 /\ failed'[w] = FALSE
    BY <2>1, IdleTyped
  <2>3. ControlOK'
    BY <1>0, <1>3, <2>2, ControlKept DEF Acts, Move, Working
  <2>4. day' \in Nat /\ DiskOK' /\ GhostsOK'
    BY <1>3 DEF AlreadyRunning, Finish, Panics, DiskOK, GhostsOK, disk, ghosts
  <2>5. TickerOK'
    <3>1. CASE AlreadyRunning(w)
      BY <3>1 DEF AlreadyRunning, TickerOK, ticker
    <3>2. CASE Finish(w)
      BY <3>2 DEF Finish, Releases, TickerOK, TasksOK, Days
    <3>3. CASE Panics(w)
      BY <3>3 DEF Panics, Releases, TickerOK
    <3> QED BY <1>3, <3>1, <3>2, <3>3
  <2> QED BY <2>2, <2>3, <2>4, <2>5
<1>4. ASSUME NEW w \in Workers, StartDaily(w) PROVE TypeInv'
  <2>1. TasksOK'
    <3>1. \A v \in Workers : Plan(v)' = Plan(v)
      BY <1>4 DEF StartDaily, Plan
    <3> QED BY <1>4, <3>1 DEF TasksOK, StartDaily, Phases
  <2>2. ControlOK'
    BY <1>0, <1>4, ControlKept DEF Acts, Move, TasksOK, ControlOK, StartDaily, Working
  <2>3. TickerOK'
    BY <1>4 DEF TickerOK, StartDaily, Days
  <2> QED BY <1>4, <2>1, <2>2, <2>3 DEF DiskOK, GhostsOK, StartDaily, disk, ghosts
<1>5. ASSUME NEW w \in Workers, PassOver(w) PROVE TypeInv'
  <2>1. kind[w] # "none"
    BY <1>5 DEF PassOver, ControlOK
  <2>2. Forward(w, TRUE)
    BY <1>5 DEF PassOver
  <2>3. TasksOK' /\ pc'[w] \in {"step", "end"} /\ kind'[w] = kind[w]
    BY <1>5, <2>1, <2>2, ForwardTyped DEF TasksOK, PassOver
  <2>4. ControlOK'
    BY <1>0, <1>5, <2>1, <2>3, ControlKept DEF Acts, Move, Working
  <2> QED BY <1>5, <2>3, <2>4 DEF DiskOK, TickerOK, GhostsOK, PassOver, disk, ticker, ghosts
<1>6. ASSUME NEW w \in Workers, BeginJob(w) \/ CallModel(w) \/ ModelAnswers(w) \/ Install(w)
      PROVE  TypeInv'
  <2>1. Step(w)' = Step(w)
    BY <1>6 DEF BeginJob, CallModel, ModelAnswers, Install, local, Step, Plan
  <2>2. Step(w) \in Keys
    BY <1>6 DEF BeginJob, CallModel, ModelAnswers, Install, ControlOK, Working
  <2>3. ASSUME BeginJob(w) PROVE Input(Step(w)) \in Nat
    BY <2>2, InputIsANumber
  <2>4. TasksOK'
    <3>1. \A v \in Workers : Plan(v)' = Plan(v)
      BY <1>6 DEF BeginJob, CallModel, ModelAnswers, Install, Plan
    <3>2. CASE BeginJob(w)
      BY <2>3, <3>1, <3>2 DEF TasksOK, BeginJob, Phases, Working
    <3>3. CASE CallModel(w)
      <4>1. rows[Step(w)].attempt \in Nat
        BY <2>2 DEF DiskOK
      <4> QED BY <3>1, <3>3, <4>1 DEF TasksOK, CallModel, Phases, Working
    <3>4. CASE ModelAnswers(w) \/ Install(w)
      BY <3>1, <3>4 DEF TasksOK, ModelAnswers, Install, local, Phases, Working
    <3> QED BY <1>6, <3>2, <3>3, <3>4
  <2>5. /\ pc'[w] \in Working /\ kind'[w] = kind[w] /\ kind[w] # "none"
        /\ pc'[w] = "stamp" => Step(w) \in Artefacts
    BY <1>6 DEF BeginJob, CallModel, ModelAnswers, Install, TasksOK, ControlOK, Working, local
  <2>6. ControlOK'
    BY <1>0, <1>6, <2>1, <2>2, <2>5, ControlKept DEF Acts, Move, Working
  <2>7. DiskOK'
    <3>1. CASE BeginJob(w) \/ CallModel(w)
      BY <3>1 DEF DiskOK, BeginJob, CallModel, disk
    <3>2. CASE ModelAnswers(w)
      BY <2>2, <3>2 DEF DiskOK, ModelAnswers
    <3>3. CASE Install(w)
      <4>1. PICK u \in Workers : out' = [out EXCEPT ![Step(w)].md = input[u]]
        BY <3>3 DEF Install
      <4>2. input[u] \in Nat /\ Step(w) \in Artefacts
        BY <3>3 DEF TasksOK, Install
      <4> QED BY <3>3, <4>1, <4>2 DEF DiskOK, Install
    <3> QED BY <1>6, <3>1, <3>2, <3>3
  <2>8. GhostsOK' /\ TickerOK' /\ day' \in Nat
    <3>1. TickerOK' /\ day' \in Nat
      BY <1>6 DEF BeginJob, CallModel, ModelAnswers, Install, TickerOK, ticker
    <3>2. GhostsOK'
      BY <1>6, <2>2 DEF BeginJob, CallModel, ModelAnswers, Install, GhostsOK, ghosts
    <3> QED BY <3>1, <3>2
  <2> QED BY <2>4, <2>6, <2>7, <2>8
<1>7. ASSUME NEW w \in Workers, ReturnsNow(w) PROVE TypeInv'
  <2>1. pc[w] \in Working \cup {"step"} /\ kind[w] # "none"
    BY <1>7 DEF ReturnsNow, PlainStep, NothingToDo, Quarantined, ModelFails, Stamp,
                SaveSummary, StepFails, Working, ControlOK
  <2>2. TickerOK' /\ TasksOK' /\ ControlOK'
    BY <1>7, <2>1, ReturningSteps, ReturnsTyped
  <2>3. pc[w] \in Working => Step(w) \in Keys
    BY DEF ControlOK
  <2>4. DiskOK' /\ GhostsOK' /\ day' \in Nat
    <3>1. CASE PlainStep(w) \/ NothingToDo(w) \/ Quarantined(w) \/ StepFails(w)
      BY <3>1 DEF PlainStep, NothingToDo, Quarantined, StepFails, DiskOK, GhostsOK, disk, ghosts
    <3>2. CASE ModelFails(w)
      <4>1. attempt[w] + 1 \in Nat /\ Step(w) \in Keys
        BY <2>3, <3>2 DEF ModelFails, TasksOK, Working
      <4>2. UNCHANGED <<day, rolled, out, met, repaired, panicked>>
        BY <3>2 DEF ModelFails
      <4>3. rows' \in [Keys -> [attempt: Nat, status: {"active", "skipped", "done"}]]
        BY <3>2, <4>1 DEF ModelFails, DiskOK
      <4>4. fails' \in [Keys -> Nat]
        <5>1. fails' = [fails EXCEPT ![Step(w)] = @ + 1] /\ fails \in [Keys -> Nat]
          BY <3>2 DEF ModelFails, GhostsOK, TypeInv
        <5> QED BY <4>1, <5>1
      <4> QED BY <4>2, <4>3, <4>4 DEF DiskOK, GhostsOK
    <3>3. CASE Stamp(w)
      BY <3>3 DEF Stamp, DiskOK, GhostsOK, TasksOK, ghosts
    <3>4. CASE SaveSummary(w)
      BY <3>4 DEF SaveSummary, DiskOK, GhostsOK, TasksOK, ghosts, Days
    <3> QED BY <1>7, <3>1, <3>2, <3>3, <3>4 DEF ReturnsNow
  <2> QED BY <2>2, <2>4
<1>8. CASE NewDay
  <2>1. \A v \in Workers : Plan(v)' = Plan(v) /\ Step(v)' = Step(v)
    BY <1>8 DEF NewDay, tasks, Plan, Step
  <2> QED BY <1>8, <2>1 DEF NewDay, DiskOK, TickerOK, TasksOK, GhostsOK, ControlOK,
                        disk, ticker, tasks, local, ghosts
<1>9. CASE RepairClearStuckDaily
  <2>1. \A v \in Workers : Plan(v)' = Plan(v) /\ Step(v)' = Step(v)
    BY <1>9 DEF RepairClearStuckDaily, tasks, Plan, Step
  <2> QED BY <1>9, <2>1 DEF RepairClearStuckDaily, DiskOK, TickerOK, TasksOK, GhostsOK,
                        ControlOK, disk, tasks, local, ghosts
<1>10. CASE Restart
  <2>1. TasksOK' /\ ControlOK'
    BY <1>10 DEF Restart, TasksOK, ControlOK, Phases, Sorts, Working
  <2>2. TickerOK'
    BY <1>10 DEF Restart, TickerOK, Days
  <2> QED BY <1>10, <2>1, <2>2 DEF Restart, DiskOK, GhostsOK, disk
<1>11. CASE UNCHANGED vars
  <2>1. \A v \in Workers : Plan(v)' = Plan(v) /\ Step(v)' = Step(v)
    BY <1>11 DEF vars, tasks, Plan, Step
  <2> QED BY <1>11, <2>1 DEF vars, DiskOK, TickerOK, TasksOK, GhostsOK, ControlOK,
                        disk, ticker, tasks, local, ghosts
<1> QED BY <1>1, <1>2, <1>3, <1>4, <1>5, <1>6, <1>7, <1>8, <1>9, <1>10, <1>11
        DEF Next, Move, ReturnsNow

LEMMA InitTyped == Init => TypeInv
<1> SUFFICES ASSUME Init PROVE TypeInv
  OBVIOUS
<1>1. TasksOK /\ ControlOK
  BY DEF Init, TasksOK, ControlOK, Phases, Sorts, Working
<1>2. TickerOK /\ GhostsOK /\ day \in Nat
  BY DEF Init, TickerOK, GhostsOK, Days
<1>3. DiskOK
  BY DEF Init, DiskOK, Fresh, Days
<1> QED BY <1>1, <1>2, <1>3 DEF TypeInv

\* The tables, files, flags and tasks of the pipeline are well typed, and every
\* task stands at a step of its plan.
THEOREM TypeCorrect == Spec => []TypeOK
<1>1. Spec => []TypeInv
  BY InitTyped, TypeStep, PTL DEF Spec
<1> QED BY <1>1, TypeInvTypeOK, PTL

-----------------------------------------------------------------------------
(* Quarantine *)

LEMMA ReturnsEnds ==
  ASSUME TypeInv, NEW w \in Workers, ReturnsNow(w)
  PROVE  pc'[w] \in {"step", "end"} /\ kind'[w] = kind[w] /\ kind[w] # "none"
<1>1. kind[w] # "none" /\ TasksOK
  BY DEF TypeInv, ControlOK, ReturnsNow, PlainStep, NothingToDo, Quarantined, ModelFails,
         Stamp, SaveSummary, StepFails
<1>2. PICK ok \in BOOLEAN : Forward(w, ok)
  BY ReturningSteps DEF Returns
<1> QED BY <1>1, <1>2, ForwardTyped

\* two tasks are at the same job only if the history says so
AloneInv == \A k \in Keys \ met : \A w, v \in Busy(k) : w = v

\* no task comes to a job but by entering it
LEMMA BusySteps ==
  ASSUME TypeInv, [Next]_vars, NEW k \in Keys
  PROVE  \/ Busy(k)' \subseteq Busy(k)
         \/ \E w \in Workers : BeginJob(w) /\ Step(w) = k /\ Busy(k)' \subseteq Busy(k) \cup {w}
<1> USE DEF TypeInv
<1>1. ASSUME NEW w \in Workers, Acts(w), NEW v \in Workers, v # w
      PROVE  Same(v) /\ Step(v)' = Step(v)
  BY <1>1, OnlyOneMoves, SameStep
<1>2. ASSUME NEW w \in Workers, Acts(w), pc'[w] \notin Working
      PROVE  Busy(k)' \subseteq Busy(k)
  BY <1>1, <1>2 DEF Busy, Working, Same
<1>3. ASSUME NEW w \in Workers, (\E s \in {"roll", "flush"} : Summarise(w, s)) \/ MaybeRunDaily(w)
      PROVE  Busy(k)' \subseteq Busy(k)
  BY <1>2, <1>3 DEF Acts, Summarise, MaybeRunDaily, TasksOK, Working
<1>4. ASSUME NEW w \in Workers, AlreadyRunning(w) \/ Finish(w) \/ StartDaily(w) \/ Panics(w)
      PROVE  Busy(k)' \subseteq Busy(k)
  BY <1>2, <1>4 DEF Acts, Move, AlreadyRunning, Finish, StartDaily, Panics, Idle, TasksOK, Working
<1>5. ASSUME NEW w \in Workers, PassOver(w) PROVE Busy(k)' \subseteq Busy(k)
  BY <1>2, <1>5 DEF Acts, Move, PassOver, Forward, TasksOK, Working
<1>6. ASSUME NEW w \in Workers, ReturnsNow(w) PROVE Busy(k)' \subseteq Busy(k)
  <2>1. pc'[w] \in {"step", "end"}
    BY <1>6, ReturnsEnds
  <2> QED BY <1>2, <1>6, <2>1 DEF Acts, Move, ReturnsNow, Working
<1>7. ASSUME NEW w \in Workers, CallModel(w) \/ ModelAnswers(w) \/ Install(w)
      PROVE  Busy(k)' \subseteq Busy(k)
  <2>1. pc[w] \in Working /\ Step(w)' = Step(w)
    BY <1>7 DEF CallModel, ModelAnswers, Install, Working, local, Step, Plan
  <2> QED BY <1>1, <1>7, <2>1 DEF Acts, Move, Busy, Working, Same
<1>8. ASSUME NEW w \in Workers, BeginJob(w)
      PROVE  IF Step(w) = k THEN Busy(k)' \subseteq Busy(k) \cup {w} ELSE Busy(k)' \subseteq Busy(k)
  <2>1. Step(w)' = Step(w)
    BY <1>8 DEF BeginJob, Step, Plan
  <2> QED BY <1>1, <1>8, <2>1 DEF Acts, Move, Busy, Same
<1>9. ASSUME NewDay \/ RepairClearStuckDaily \/ UNCHANGED vars PROVE Busy(k)' \subseteq Busy(k)
  <2>1. pc' = pc /\ \A v \in Workers : Step(v)' = Step(v)
    BY <1>9 DEF NewDay, RepairClearStuckDaily, vars, tasks, Step, Plan
  <2> QED BY <2>1 DEF Busy
<1>10. ASSUME Restart PROVE Busy(k)' \subseteq Busy(k)
  BY <1>10 DEF Restart, Busy
<1> QED BY <1>3, <1>4, <1>5, <1>6, <1>7, <1>8, <1>9, <1>10 DEF Next, Move, ReturnsNow

LEMMA MetGrows == [Next]_vars => met \subseteq met'
<1>1. ASSUME NEW w \in Workers, BeginJob(w) PROVE met \subseteq met'
  BY <1>1 DEF BeginJob
<1>2. ASSUME NEW w \in Workers, Acts(w), ~BeginJob(w) PROVE met' = met
  BY <1>2 DEF Acts, Move, Summarise, MaybeRunDaily, StartDaily, AlreadyRunning, PassOver,
              PlainStep, NothingToDo, Quarantined, CallModel, ModelAnswers, ModelFails,
              Install, Stamp, SaveSummary, StepFails, Finish, Panics, ghosts
<1>3. ASSUME NewDay \/ RepairClearStuckDaily \/ Restart \/ UNCHANGED vars PROVE met' = met
  BY <1>3 DEF NewDay, RepairClearStuckDaily, Restart, vars, ghosts
<1> QED BY <1>1, <1>2, <1>3 DEF Next, Acts

LEMMA AloneInductive == AloneInv /\ TypeInv /\ [Next]_vars => AloneInv'
<1> SUFFICES ASSUME AloneInv, TypeInv, [Next]_vars, NEW k \in Keys \ met',
                    NEW w \in Busy(k)', NEW v \in Busy(k)'
             PROVE  w = v
  BY DEF AloneInv
<1>1. k \notin met
  BY MetGrows
<1>2. CASE Busy(k)' \subseteq Busy(k)
  BY <1>1, <1>2 DEF AloneInv
<1>3. ASSUME NEW u \in Workers, BeginJob(u), Step(u) = k, Busy(k)' \subseteq Busy(k) \cup {u}
      PROVE  w = v
  <2>1. Busy(k) = {}
    BY <1>3 DEF BeginJob
  <2> QED BY <1>3, <2>1
<1> QED BY <1>2, <1>3, BusySteps

CountsOK ==
  \A k \in Keys \ met :
    /\ rows[k].attempt = fails[k]
    /\ rows[k].status = "skipped" <=> fails[k] >= MaxRetries

\* a call of the model works with the count that is still in the table
CallsOK ==
  \A w \in Workers :
    pc[w] = "llm" /\ Step(w) \notin met =>
      attempt[w] = fails[Step(w)] /\ rows[Step(w)].status # "skipped"

QuarantineInv == TypeInv /\ AloneInv /\ CountsOK /\ CallsOK

\* steps that neither write the table nor begin a call
LEMMA CountsKept ==
  ASSUME QuarantineInv, [Next]_vars, UNCHANGED <<rows, fails>>,
         \A v \in Workers : pc'[v] = "llm" =>
           pc[v] = "llm" /\ Step(v)' = Step(v) /\ attempt'[v] = attempt[v]
  PROVE  CountsOK' /\ CallsOK'
<1>1. met \subseteq met'
  BY MetGrows
<1>2. CountsOK'
  BY <1>1 DEF QuarantineInv, CountsOK
<1>3. CallsOK'
  BY <1>1 DEF QuarantineInv, CallsOK
<1> QED BY <1>2, <1>3

\* a task that writes the table is the only one at its job
LEMMA Alone ==
  ASSUME QuarantineInv, NEW w \in Workers, NEW v \in Workers, v # w, pc[w] = "llm",
         pc[v] = "llm", Step(w) = Step(v)
  PROVE  Step(w) \in met
<1>1. Step(w) \in Keys /\ w \in Busy(Step(w)) /\ v \in Busy(Step(w))
  BY DEF QuarantineInv, TypeInv, ControlOK, Busy, Working
<1> QED BY <1>1 DEF QuarantineInv, AloneInv

LEMMA QuarantineInductive ==
  QuarantineInv /\ [Next]_vars => CountsOK' /\ CallsOK'
<1> SUFFICES ASSUME QuarantineInv, [Next]_vars PROVE CountsOK' /\ CallsOK'
  OBVIOUS
<1>a. TypeInv /\ TasksOK /\ ControlOK /\ DiskOK /\ GhostsOK
  BY DEF QuarantineInv, TypeInv
<1>b. MaxRetries \in Nat \ {0}
  BY BoundAssumption
<1>0. ASSUME NEW w \in Workers, Acts(w), NEW v \in Workers, v # w
      PROVE  Same(v) /\ Step(v)' = Step(v)
  BY <1>0, <1>a, OnlyOneMoves, SameStep
<1>1. ASSUME NEW w \in Workers, Acts(w), UNCHANGED <<rows, fails>>, pc'[w] # "llm"
      PROVE  CountsOK' /\ CallsOK'
  <2>1. \A v \in Workers : pc'[v] = "llm" =>
          pc[v] = "llm" /\ Step(v)' = Step(v) /\ attempt'[v] = attempt[v]
    BY <1>0, <1>1 DEF Same
  <2> QED BY <1>1, <2>1, CountsKept
<1>2. ASSUME NEW w \in Workers, (\E s \in {"roll", "flush"} : Summarise(w, s)) \/ MaybeRunDaily(w)
                \/ StartDaily(w) \/ AlreadyRunning(w) \/ Finish(w) \/ Panics(w)
      PROVE  CountsOK' /\ CallsOK'
  BY <1>1, <1>2, <1>a DEF Acts, Move, Summarise, MaybeRunDaily, StartDaily, AlreadyRunning,
       Finish, Panics, Idle, TasksOK, disk, ghosts
<1>3. ASSUME NEW w \in Workers, BeginJob(w) \/ Install(w) PROVE CountsOK' /\ CallsOK'
  BY <1>1, <1>3, <1>a DEF Acts, Move, BeginJob, Install, TasksOK, disk, ghosts
<1>4. ASSUME NEW w \in Workers, PassOver(w) PROVE CountsOK' /\ CallsOK'
  BY <1>1, <1>4, <1>a DEF Acts, Move, PassOver, Forward, TasksOK, disk, ghosts
<1>5. ASSUME NEW w \in Workers, ReturnsNow(w), ~ModelFails(w) PROVE CountsOK' /\ CallsOK'
  <2>1. pc'[w] # "llm"
    BY <1>5, <1>a, ReturnsEnds
  <2>2. UNCHANGED <<rows, fails>>
    BY <1>5 DEF ReturnsNow, PlainStep, NothingToDo, Quarantined, Stamp, SaveSummary, StepFails,
         disk, ghosts
  <2> QED BY <1>1, <1>5, <2>1, <2>2 DEF Acts, Move, ReturnsNow
<1>6. ASSUME NEW w \in Workers, CallModel(w) PROVE CountsOK' /\ CallsOK'
  <2>1. /\ UNCHANGED <<rows, fails, met>> /\ Step(w)' = Step(w) /\ Step(w) \in Keys
        /\ attempt'[w] = rows[Step(w)].attempt /\ rows[Step(w)].status # "skipped"
    BY <1>6, <1>a DEF CallModel, disk, ghosts, Step, Plan, TasksOK, ControlOK, Working
  <2>2. CountsOK'
    BY <2>1 DEF QuarantineInv, CountsOK
  <2>3. CallsOK'
    BY <1>0, <1>6, <2>1 DEF Acts, Move, QuarantineInv, CountsOK, CallsOK, Same
  <2> QED BY <2>2, <2>3
<1>7. ASSUME NEW w \in Workers, ModelAnswers(w) \/ ModelFails(w) PROVE CountsOK' /\ CallsOK'
  <2> DEFINE k == Step(w)
  <2>1. pc[w] = "llm" /\ k \in Keys /\ met' = met /\ pc'[w] # "llm"
    <3>1. pc[w] = "llm" /\ k \in Keys /\ met' = met
      BY <1>7, <1>a DEF ModelAnswers, ModelFails, ControlOK, Working
    <3>2. CASE ModelAnswers(w)
      BY <3>1, <3>2, <1>a DEF ModelAnswers, TasksOK
    <3>3. CASE ModelFails(w)
      BY <3>1, <3>3, <1>a, ReturnsEnds DEF ReturnsNow
    <3> QED BY <1>7, <3>1, <3>2, <3>3
  <2>2. \A v \in Workers : pc'[v] = "llm" /\ Step(v)' \notin met =>
          v # w /\ pc[v] = "llm" /\ Step(v)' = Step(v) /\ attempt'[v] = attempt[v] /\ Step(v) # k
    BY <1>0, <1>7, <2>1, Alone DEF Acts, Move, Same
  <2>3. \A j \in Keys : j # k => rows'[j] = rows[j] /\ fails'[j] = fails[j]
    BY <1>7, <1>a, <2>1 DEF ModelAnswers, ModelFails, DiskOK, GhostsOK
  <2>4. \A v \in Workers : pc[v] = "llm" => Step(v) \in Keys
    BY <1>a DEF ControlOK, Working
  <2>5. CallsOK'
    BY <2>1, <2>2, <2>3, <2>4 DEF QuarantineInv, CallsOK
  <2>6. CASE ModelAnswers(w)
    <3>1. rows'[k].attempt = 0 /\ rows'[k].status = "done" /\ fails'[k] = 0
      BY <1>a, <2>1, <2>6 DEF ModelAnswers, DiskOK, GhostsOK
    <3>2. CountsOK'
      BY <1>b, <2>1, <2>3, <3>1 DEF QuarantineInv, CountsOK
    <3> QED BY <2>5, <3>2
  <2>7. CASE ModelFails(w)
    <3>1. /\ rows'[k].attempt = attempt[w] + 1 /\ fails'[k] = fails[k] + 1
          /\ rows'[k].status = IF attempt[w] + 1 >= MaxRetries THEN "skipped" ELSE "active"
      BY <1>a, <2>1, <2>7 DEF ModelFails, DiskOK, GhostsOK
    <3>2. k \notin met => attempt[w] = fails[k]
      BY <2>1 DEF QuarantineInv, CallsOK
    <3>3. CountsOK'
      BY <1>b, <2>1, <2>3, <3>1, <3>2 DEF QuarantineInv, CountsOK
    <3> QED BY <2>5, <3>3
  <2> QED BY <1>7, <2>6, <2>7
<1>8. ASSUME NewDay \/ RepairClearStuckDaily \/ UNCHANGED vars PROVE CountsOK' /\ CallsOK'
  BY <1>8, CountsKept DEF NewDay, RepairClearStuckDaily, vars, disk, tasks, local, ghosts, Step, Plan
<1>9. ASSUME Restart PROVE CountsOK' /\ CallsOK'
  BY <1>9, CountsKept DEF Restart, disk
<1> QED BY <1>2, <1>3, <1>4, <1>5, <1>6, <1>7, <1>8, <1>9 DEF Next, Move, ReturnsNow

\* The attempt counter of a job counts its failures since its last success, and
\* the job is quarantined exactly when they have used up its retries.
THEOREM QuarantineTheorem == Spec => []QuarantineEarned
<1>1. Init => QuarantineInv
  <2>1. ASSUME Init PROVE AloneInv /\ CountsOK /\ CallsOK
    BY <2>1, BoundAssumption DEF Init, AloneInv, CountsOK, CallsOK, Busy, Fresh
  <2> QED BY <2>1, InitTyped DEF QuarantineInv
<1>2. QuarantineInv /\ [Next]_vars => QuarantineInv'
  BY TypeStep, AloneInductive, QuarantineInductive DEF QuarantineInv
<1>3. QuarantineInv => QuarantineEarned
  BY DEF QuarantineInv, CountsOK, QuarantineEarned
<1> QED BY <1>1, <1>2, <1>3, PTL DEF Spec

-----------------------------------------------------------------------------
(* The daily run *)

RunInv ==
  ~repaired =>
    /\ daily_running <=> AtDaily # {}
    /\ \A w, v \in AtDaily : w = v

DailyDone(n) == \A i \in 1 .. n : Pipeline[i] \in daily_steps_completed

\* the steps a run has behind it
Behind(w) == IF pc[w] = "end" THEN at[w] ELSE at[w] - 1

\* what a run without a failure has behind it is completed
RunsInOrder ==
  \A w \in AtDaily :
    /\ today[w] = daily_steps_date
    /\ pc[w] = "end" => at[w] = Len(Pipeline)
    /\ ~failed[w] => DailyDone(Behind(w))

DatesInOrder ==
  /\ last_daily_job_date <= daily_steps_date /\ daily_steps_date <= day
  /\ last_daily_job_date # NoDay /\ last_daily_job_date = daily_steps_date
       => DailyDone(Len(Pipeline))

DayInv == ~repaired => RunsInOrder /\ DatesInOrder

DailyInv == TypeInv /\ RunInv /\ DayInv

LEMMA PipelineFacts ==
  /\ Len(Pipeline) \in Nat /\ Len(Pipeline) >= 1 /\ DOMAIN Pipeline = 1 .. Len(Pipeline)
  /\ \A i \in 1 .. Len(Pipeline) : Pipeline[i] \in Steps
<1>1. Pipeline \in Seq(Steps) /\ Pipeline # <<>>
  BY PipelineAssumption
<1> QED BY <1>1, EmptySeq, LenProperties

\* a daily task that is not at the start or the end of its run stays in it
LEMMA DailySteps ==
  ASSUME TypeInv, NEW w \in Workers, Acts(w), ~StartDaily(w), ~Finish(w), ~Panics(w)
  PROVE  AtDaily' = AtDaily
<1> USE DEF TypeInv
<1>1. \A v \in Workers : v # w => Same(v)
  BY OnlyOneMoves
<1>2. w \in AtDaily' <=> w \in AtDaily
  <2>1. CASE (\E s \in {"roll", "flush"} : Summarise(w, s)) \/ MaybeRunDaily(w) \/ AlreadyRunning(w)
    BY <2>1 DEF Summarise, MaybeRunDaily, AlreadyRunning, Idle, TasksOK, ControlOK, AtDaily
  <2>2. CASE BeginJob(w) \/ CallModel(w) \/ ModelAnswers(w) \/ Install(w)
    BY <2>2 DEF BeginJob, CallModel, ModelAnswers, Install, TasksOK, AtDaily, local
  <2>3. CASE PassOver(w)
    <3>1. kind[w] # "none" /\ Forward(w, TRUE) /\ pc[w] = "step"
      BY <2>3 DEF PassOver, ControlOK
    <3> QED BY <3>1, ForwardTyped DEF AtDaily
  <2>4. CASE ReturnsNow(w)
    <3>1. pc[w] \notin {"idle", "kicked"}
      BY <2>4 DEF ReturnsNow, PlainStep, NothingToDo, Quarantined, ModelFails, Stamp,
                  SaveSummary, StepFails
    <3> QED BY <2>4, <3>1, ReturnsEnds DEF AtDaily
  <2> QED BY <2>1, <2>2, <2>3, <2>4 DEF Acts, Move, ReturnsNow
<1> QED BY <1>1, <1>2 DEF AtDaily, Same

LEMMA FlagKept ==
  ASSUME NEW w \in Workers, Acts(w), ~StartDaily(w), ~Finish(w), ~Panics(w)
  PROVE  UNCHANGED <<day, daily_running, repaired, daily_steps_date, last_daily_job_date>>
<1>1. CASE ReturnsNow(w)
  <2>1. UNCHANGED <<daily_running, daily_steps_date, last_daily_job_date>>
    BY <1>1, ReturningSteps DEF Returns
  <2>2. UNCHANGED <<day, repaired>>
    BY <1>1 DEF ReturnsNow, PlainStep, NothingToDo, Quarantined, ModelFails, Stamp,
                SaveSummary, StepFails, ghosts
  <2> QED BY <2>1, <2>2
<1>2. CASE ~ReturnsNow(w)
  BY <1>2 DEF Acts, Move, ReturnsNow, Summarise, MaybeRunDaily, AlreadyRunning, PassOver,
              BeginJob, CallModel, ModelAnswers, Install, ticker, ghosts
<1> QED BY <1>1, <1>2

\* where a run begins and ends
LEMMA StartAndFinish ==
  ASSUME TypeInv, NEW w \in Workers
  PROVE  /\ StartDaily(w) => AtDaily' = AtDaily \cup {w} /\ w \notin AtDaily
         /\ Finish(w) \/ Panics(w) =>
              AtDaily' = AtDaily \ {w} /\ (kind[w] = "daily" <=> w \in AtDaily)
<1> USE DEF TypeInv
<1>1. ASSUME StartDaily(w)
      PROVE  AtDaily' = AtDaily \cup {w} /\ w \notin AtDaily
  BY <1>1 DEF StartDaily, AtDaily, TasksOK, ControlOK
<1>2. ASSUME Finish(w) \/ Panics(w)
      PROVE  AtDaily' = AtDaily \ {w} /\ (kind[w] = "daily" <=> w \in AtDaily)
  BY <1>2 DEF Finish, Panics, Idle, AtDaily, TasksOK, ControlOK
<1> QED BY <1>1, <1>2

LEMMA RunInductive == RunInv /\ TypeInv /\ [Next]_vars => RunInv'
<1> SUFFICES ASSUME RunInv, TypeInv, [Next]_vars PROVE RunInv'
  OBVIOUS
<1>1. ASSUME NEW w \in Workers, Acts(w), ~StartDaily(w), ~Finish(w), ~Panics(w) PROVE RunInv'
  BY <1>1, DailySteps, FlagKept DEF RunInv
<1>2. ASSUME NEW w \in Workers, StartDaily(w) PROVE RunInv'
  <2>1. ~daily_running /\ daily_running' = TRUE /\ repaired' = repaired
    BY <1>2 DEF StartDaily, ghosts
  <2> QED BY <1>2, <2>1, StartAndFinish DEF RunInv
<1>3. ASSUME NEW w \in Workers, Finish(w) \/ Panics(w) PROVE RunInv'
  <2>1. repaired' = repaired /\ AtDaily' = AtDaily \ {w}
    BY <1>3, StartAndFinish DEF Finish, Panics, ghosts
  <2>2. CASE kind[w] = "daily"
    <3>1. w \in AtDaily /\ daily_running' = FALSE
      BY <1>3, <2>2, StartAndFinish DEF Finish, Panics, Releases
    <3> QED BY <2>1, <3>1 DEF RunInv
  <2>3. CASE kind[w] # "daily"
    <3>1. w \notin AtDaily /\ daily_running' = daily_running
      BY <1>3, <2>3, StartAndFinish DEF Finish, Panics, Releases
    <3> QED BY <2>1, <3>1 DEF RunInv
  <2> QED BY <2>2, <2>3
<1>4. CASE NewDay \/ UNCHANGED vars
  BY <1>4 DEF NewDay, vars, ticker, tasks, ghosts, RunInv, AtDaily
<1>5. CASE RepairClearStuckDaily
  <2>1. AtDaily' = AtDaily
    BY <1>5 DEF RepairClearStuckDaily, tasks, AtDaily
  <2> QED BY <1>5, <2>1 DEF RepairClearStuckDaily, RunInv
<1>6. CASE Restart
  BY <1>6 DEF Restart, RunInv, AtDaily
<1> QED BY <1>1, <1>2, <1>3, <1>4, <1>5, <1>6 DEF Next, Acts

\* The flag of the ticker is set exactly while one daily run is under way, as
\* long as the watchdog has not taken it from a living run.
THEOREM OneDailyRunTheorem == Spec => []OneDailyRun
<1>1. Init => RunInv
  BY DEF Init, RunInv, AtDaily
<1>2. ASSUME RunInv PROVE OneDailyRun
  <2> SUFFICES ASSUME ~repaired
               PROVE  Cardinality(AtDaily) = IF daily_running THEN 1 ELSE 0
    BY DEF OneDailyRun
  <2>1. CASE AtDaily = {}
    BY <1>2, <2>1, FS_EmptySet DEF RunInv
  <2>2. ASSUME NEW w \in AtDaily PROVE Cardinality(AtDaily) = 1 /\ daily_running
    <3>1. AtDaily = {w}
      BY <1>2, <2>2 DEF RunInv
    <3> QED BY <1>2, <3>1, FS_Singleton DEF RunInv
  <2> QED BY <2>1, <2>2
<1> QED BY <1>1, <1>2, InitTyped, TypeStep, RunInductive, PTL DEF Spec

\* a daily run that steps forward has one more step behind it
LEMMA ForwardDaily ==
  ASSUME TasksOK, NEW w \in Workers, NEW ok \in BOOLEAN, Forward(w, ok), kind[w] = "daily",
         pc[w] # "end"
  PROVE  /\ Step(w) = Pipeline[at[w]] /\ at[w] \in 1 .. Len(Pipeline)
         /\ today'[w] = today[w] /\ (pc'[w] = "end" => at'[w] = Len(Pipeline))
         /\ Behind(w)' = at[w]
<1>1. Plan(w) = Pipeline /\ Step(w) = Pipeline[at[w]] /\ at[w] \in 1 .. Len(Pipeline)
  BY DEF TasksOK, Plan, Step
<1>2. kind[w] # "flush" /\ at[w] \in Nat /\ Len(Pipeline) \in Nat
  BY <1>1, PipelineFacts
<1>3. CASE at[w] = Len(Pipeline)
  BY <1>1, <1>2, <1>3 DEF TasksOK, Forward, Behind
<1>4. CASE at[w] # Len(Pipeline)
  <2>1. pc'[w] = "step" /\ at'[w] = at[w] + 1 /\ today'[w] = today[w]
    BY <1>1, <1>2, <1>4 DEF TasksOK, Forward
  <2> QED BY <1>1, <1>2, <2>1 DEF Behind
<1> QED BY <1>3, <1>4

LEMMA DatesKept ==
  ASSUME DatesInOrder, UNCHANGED <<day, last_daily_job_date, daily_steps_date>>,
         daily_steps_completed \subseteq daily_steps_completed'
  PROVE  DatesInOrder'
BY DEF DatesInOrder, DailyDone

LEMMA DayInductive == DailyInv /\ [Next]_vars => DayInv'
<1> SUFFICES ASSUME DailyInv, [Next]_vars, ~repaired' PROVE RunsInOrder' /\ DatesInOrder'
  BY DEF DayInv
<1>a. TypeInv /\ TasksOK /\ TickerOK /\ ControlOK /\ day \in Nat
  BY DEF DailyInv, TypeInv
<1>b. last_daily_job_date \in Nat \cup {-1} /\ daily_steps_date \in Nat \cup {-1} /\ NoDay = -1
  BY <1>a DEF TickerOK, Days, NoDay
<1>1. ASSUME NEW w \in Workers, Acts(w), ~StartDaily(w), ~Finish(w), ~Panics(w)
      PROVE  RunsInOrder' /\ DatesInOrder'
  <2>1. AtDaily' = AtDaily
        /\ UNCHANGED <<day, repaired, daily_steps_date, last_daily_job_date>>
    BY <1>1, <1>a, DailySteps, FlagKept
  <2>2. RunsInOrder /\ DatesInOrder
    BY <2>1 DEF DailyInv, DayInv
  <2>3. \A v \in AtDaily : v # w => Same(v)
    BY <1>1, <1>a, OnlyOneMoves DEF AtDaily
  <2>4. daily_steps_completed \subseteq daily_steps_completed'
    <3>1. CASE ReturnsNow(w)
      BY <3>1, ReturningSteps DEF Returns
    <3>2. CASE ~ReturnsNow(w)
      BY <1>1, <3>2 DEF Acts, Move, ReturnsNow, Summarise, MaybeRunDaily, AlreadyRunning,
           PassOver, BeginJob, CallModel, ModelAnswers, Install, ticker
    <3> QED BY <3>1, <3>2
  <2>5. ASSUME w \in AtDaily, pc[w] # "end"
        PROVE  /\ today'[w] = today[w]
               /\ pc'[w] = "end" => at'[w] = Len(Pipeline)
               /\ ~failed'[w] => \A i \in 1 .. Behind(w)' : Pipeline[i] \in daily_steps_completed'
    <3>1. kind[w] = "daily"
      BY <2>5 DEF AtDaily
    <3>2. ~failed[w] => \A i \in 1 .. at[w] - 1 : Pipeline[i] \in daily_steps_completed
      BY <2>2, <2>5 DEF RunsInOrder, DailyDone, Behind
    <3>3. ASSUME NEW ok \in BOOLEAN, Forward(w, ok),
                 ~failed'[w] => /\ ~failed[w]
                               /\ Step(w) \in daily_steps_completed'
          PROVE  /\ today'[w] = today[w]
                 /\ pc'[w] = "end" => at'[w] = Len(Pipeline)
                 /\ ~failed'[w] => \A i \in 1 .. Behind(w)' : Pipeline[i] \in daily_steps_completed'
      <4>1. /\ Step(w) = Pipeline[at[w]] /\ at[w] \in 1 .. Len(Pipeline)
            /\ today'[w] = today[w] /\ (pc'[w] = "end" => at'[w] = Len(Pipeline))
            /\ Behind(w)' = at[w]
        BY <1>a, <2>5, <3>1, <3>3, ForwardDaily
      <4>2. ~failed'[w] => \A i \in 1 .. at[w] : Pipeline[i] \in daily_steps_completed'
        <5> SUFFICES ASSUME ~failed'[w], NEW i \in 1 .. at[w]
                     PROVE  Pipeline[i] \in daily_steps_completed'
          OBVIOUS
        <5>1. CASE i = at[w]
          BY <3>3, <4>1, <5>1
        <5>2. CASE i # at[w]
          <6>1. i \in 1 .. at[w] - 1
            BY <4>1, <5>2, PipelineFacts
          <6> QED BY <2>4, <3>2, <3>3, <6>1
        <5> QED BY <5>1, <5>2
      <4> QED BY <4>1, <4>2
    <3>4. CASE PassOver(w)
      <4>1. Forward(w, TRUE) /\ failed' = failed /\ Passes(w)
        BY <3>4 DEF PassOver
      <4>2. Step(w) = Pipeline[at[w]] /\ at[w] \in 1 .. Len(Pipeline)
        BY <1>a, <2>5, <3>1, <4>1, ForwardDaily
      <4>3. ASSUME ~failed[w], Step(w) = "Longterm" PROVE "Week" \in daily_steps_completed
        <5>1. PICK j \in 1 .. at[w] - 1 : Pipeline[j] = "Week"
          BY <4>2, <4>3, OrderAssumption, PipelineFacts
        <5> QED BY <3>2, <4>3, <5>1
      <4>4. ~failed[w] => Step(w) \in daily_steps_completed
        BY <4>1, <4>3 DEF Passes
      <4> QED BY <2>4, <3>3, <4>1, <4>4
    <3>5. CASE ReturnsNow(w)
      <4>1. PICK ok \in BOOLEAN : Returns(w, ok)
        BY <3>5, ReturningSteps
      <4>2. Forward(w, ok)
        BY <4>1 DEF Returns
      <4>3. ~failed'[w] => ~failed[w] /\ Step(w) \in daily_steps_completed'
        BY <1>a, <3>1, <4>1 DEF Returns, TasksOK
      <4> QED BY <3>3, <4>2, <4>3
    <3>6. CASE BeginJob(w) \/ CallModel(w) \/ ModelAnswers(w) \/ Install(w)
      <4>1. pc'[w] # "end" /\ at'[w] = at[w] /\ today'[w] = today[w] /\ failed'[w] = failed[w]
        BY <1>a, <3>6 DEF BeginJob, CallModel, ModelAnswers, Install, TasksOK, local
      <4>2. Behind(w)' = at[w] - 1
        BY <4>1 DEF Behind
      <4> QED BY <2>4, <3>2, <4>1, <4>2
    <3> QED
      BY <1>1, <2>5, <3>1, <3>4, <3>5, <3>6, <1>a
         DEF Acts, Move, ReturnsNow, Summarise, MaybeRunDaily, AlreadyRunning, AtDaily
  <2>6. w \in AtDaily => pc[w] # "end"
    <3>1. CASE ReturnsNow(w)
      BY <3>1 DEF ReturnsNow, PlainStep, NothingToDo, Quarantined, ModelFails, Stamp,
                  SaveSummary, StepFails
    <3>2. CASE ~ReturnsNow(w)
      BY <1>1, <3>2 DEF Acts, Move, ReturnsNow, Summarise, MaybeRunDaily, AlreadyRunning,
           PassOver, BeginJob, CallModel, ModelAnswers, Install
    <3> QED BY <3>1, <3>2
  <2>7. RunsInOrder'
    <3> SUFFICES ASSUME NEW v \in AtDaily
                 PROVE  /\ today'[v] = daily_steps_date'
                        /\ pc'[v] = "end" => at'[v] = Len(Pipeline)
                        /\ ~failed'[v] => \A i \in 1 .. Behind(v)' : Pipeline[i] \in daily_steps_completed'
      BY <2>1 DEF RunsInOrder, DailyDone
    <3>1. CASE v = w
      BY <2>1, <2>2, <2>5, <2>6, <3>1 DEF RunsInOrder
    <3>2. CASE v # w
      BY <2>1, <2>2, <2>3, <2>4, <3>2 DEF RunsInOrder, Same, DailyDone, Behind
    <3> QED BY <3>1, <3>2
  <2> QED BY <2>1, <2>2, <2>4, <2>7, DatesKept
<1>2. ASSUME NEW w \in Workers, StartDaily(w) PROVE RunsInOrder' /\ DatesInOrder'
  <2>1. /\ repaired' = repaired /\ ~daily_running /\ day' = day
        /\ last_daily_job_date' = last_daily_job_date /\ daily_steps_date' = day
        /\ daily_steps_date = day => daily_steps_completed' = daily_steps_completed
    BY <1>2 DEF StartDaily, ghosts
  <2>2. AtDaily = {} /\ AtDaily' = {w} /\ DatesInOrder
    BY <1>2, <1>a, <2>1, StartAndFinish DEF DailyInv, DayInv, RunInv
  <2>3. today'[w] = day /\ pc'[w] = "step" /\ at'[w] = 1
    BY <1>2, <1>a DEF StartDaily, TasksOK, ControlOK
  <2>4. RunsInOrder'
    BY <2>1, <2>2, <2>3 DEF RunsInOrder, DailyDone, Behind
  <2>5. DatesInOrder'
    BY <1>a, <1>b, <2>1, <2>2 DEF DatesInOrder, DailyDone
  <2> QED BY <2>4, <2>5
<1>3. ASSUME NEW w \in Workers, Finish(w) PROVE RunsInOrder' /\ DatesInOrder'
  <2>1. repaired' = repaired /\ UNCHANGED <<day, daily_steps_date, daily_steps_completed>>
    BY <1>3 DEF Finish, ghosts
  <2>2. RunsInOrder /\ DatesInOrder /\ RunInv
    BY <2>1 DEF DailyInv, DayInv
  <2>3. AtDaily' = AtDaily \ {w} /\ \A v \in AtDaily : v # w => Same(v)
    BY <1>3, <1>a, StartAndFinish, OnlyOneMoves DEF AtDaily, Acts, Move
  <2>4. RunsInOrder'
    BY <2>1, <2>2, <2>3 DEF RunsInOrder, DailyDone, Behind, Same
  <2>5. CASE kind[w] = "daily" /\ ~failed[w]
    <3>1. w \in AtDaily /\ pc[w] = "end" /\ last_daily_job_date' = today[w]
      BY <1>3, <1>a, <2>5, StartAndFinish DEF Finish
    <3>2. today[w] = daily_steps_date /\ DailyDone(Len(Pipeline))
      BY <2>2, <2>5, <3>1 DEF RunsInOrder, Behind
    <3> QED BY <1>a, <1>b, <2>1, <2>2, <2>4, <3>1, <3>2 DEF DatesInOrder, DailyDone
  <2>6. CASE ~(kind[w] = "daily" /\ ~failed[w])
    <3>1. last_daily_job_date' = last_daily_job_date
      BY <1>3, <2>6 DEF Finish
    <3> QED BY <2>1, <2>2, <2>4, <3>1, DatesKept
  <2> QED BY <2>5, <2>6
<1>8. ASSUME NEW w \in Workers, Panics(w) PROVE RunsInOrder' /\ DatesInOrder'
  <2>1. UNCHANGED <<repaired, day, daily_steps_date, daily_steps_completed, last_daily_job_date>>
    BY <1>8 DEF Panics
  <2>2. RunsInOrder /\ DatesInOrder
    BY <2>1 DEF DailyInv, DayInv
  <2>3. AtDaily' = AtDaily \ {w} /\ \A v \in AtDaily : v # w => Same(v)
    BY <1>8, <1>a, StartAndFinish, OnlyOneMoves DEF AtDaily, Acts
  <2>4. RunsInOrder'
    BY <2>1, <2>2, <2>3 DEF RunsInOrder, DailyDone, Behind, Same
  <2> QED BY <2>1, <2>2, <2>4, DatesKept
<1>4. CASE NewDay
  <2>1. /\ UNCHANGED <<repaired, daily_steps_date, last_daily_job_date, daily_steps_completed>>
        /\ UNCHANGED <<pc, kind, at, today, failed>> /\ day' = day + 1
    BY <1>4 DEF NewDay, ticker, tasks, local, ghosts
  <2>2. RunsInOrder /\ DatesInOrder
    BY <2>1 DEF DailyInv, DayInv
  <2>3. RunsInOrder'
    BY <2>1, <2>2 DEF RunsInOrder, DailyDone, Behind, AtDaily
  <2> QED BY <1>a, <1>b, <2>1, <2>2, <2>3 DEF DatesInOrder, DailyDone
<1>5. CASE RepairClearStuckDaily
  BY <1>5 DEF RepairClearStuckDaily, DailyInv, RunInv
<1>6. CASE Restart
  <2>1. AtDaily' = {} /\ daily_steps_date' = -1 /\ last_daily_job_date' = -1 /\ day' = day
    BY <1>6 DEF Restart, AtDaily, NoDay
  <2> QED BY <1>a, <2>1 DEF RunsInOrder, DatesInOrder, NoDay
<1>7. CASE UNCHANGED vars
  <2>1. UNCHANGED <<day, repaired, daily_steps_date, last_daily_job_date, daily_steps_completed,
                    pc, kind, at, today, failed>>
    BY <1>7 DEF vars, ticker, tasks, local, ghosts
  <2> QED BY <2>1 DEF DailyInv, DayInv, RunsInOrder, DatesInOrder, DailyDone, Behind, AtDaily
<1> QED BY <1>1, <1>2, <1>3, <1>4, <1>5, <1>6, <1>7, <1>8 DEF Next, Acts

\* A day is recorded as compiled only when every step of the pipeline is
\* completed for it.
THEOREM DayEarnedTheorem == Spec => []DayEarned
<1>1. Init => DailyInv
  <2>1. ASSUME Init PROVE RunInv /\ DayInv
    BY <2>1 DEF Init, RunInv, DayInv, AtDaily, RunsInOrder, DatesInOrder, NoDay
  <2> QED BY <2>1, InitTyped DEF DailyInv
<1>2. DailyInv /\ [Next]_vars => DailyInv'
  BY TypeStep, RunInductive, DayInductive DEF DailyInv
<1>3. DailyInv => DayEarned
  BY DEF DailyInv, DayInv, DatesInOrder, DailyDone, DayEarned
<1> QED BY <1>1, <1>2, <1>3, PTL DEF Spec

-----------------------------------------------------------------------------
(* The compiled files *)

\* one task rolls the summary at a time, with the number of the next one
OneRoller ==
  /\ Rollers # {} => summary_in_progress
  /\ summary_in_progress /\ ~panicked => Rollers # {}
  /\ \A w, v \in Rollers : w = v
  /\ \A w \in Busy("Rolling") : input[w] = rolled.n + 1

\* what a compiled file is made from
Source(a) == IF a = "Longterm" THEN out["Week"].md ELSE rolled.n

Vouched(a) == a \notin met /\ (a = "Longterm" => "Week" \notin met)

FilesOK ==
  \A a \in Artefacts : Vouched(a) =>
    /\ out[a].fp <= out[a].md /\ out[a].md <= Source(a)
    /\ \A w \in Busy(a) :
         /\ out[a].md <= input[w] /\ input[w] <= Source(a)
         /\ pc[w] = "stamp" => out[a].md = input[w]

CacheInv == TypeInv /\ AloneInv /\ OneRoller /\ FilesOK

\* a task at a job was there before, with the same input, or enters it now
LEMMA AtAJob ==
  ASSUME TypeInv, [Next]_vars, NEW k \in Keys, NEW v \in Busy(k)'
  PROVE  \/ /\ v \in Busy(k) /\ input'[v] = input[v]
            /\ pc'[v] = "stamp" => pc[v] = "stamp" \/ Install(v)
         \/ BeginJob(v) /\ Step(v) = k /\ pc'[v] # "stamp"
<1> DEFINE Kept == /\ v \in Busy(k) /\ input'[v] = input[v]
                   /\ pc'[v] = "stamp" => pc[v] = "stamp" \/ Install(v)
<1> USE DEF TypeInv
<1>0. v \in Workers /\ pc'[v] \in Working /\ Step(v)' = k
  BY DEF Busy, Working
<1>1. ASSUME NEW w \in Workers, Acts(w), v # w PROVE Kept
  <2>1. Same(v) /\ Step(v)' = Step(v)
    BY <1>0, <1>1, OnlyOneMoves, SameStep
  <2> QED BY <1>0, <2>1 DEF Busy, Working, Same
<1>2. CASE CallModel(v) \/ ModelAnswers(v) \/ Install(v)
  <2>1. pc[v] \in Working /\ Step(v)' = Step(v) /\ input'[v] = input[v]
    BY <1>2 DEF CallModel, ModelAnswers, Install, Working, local, Step, Plan
  <2>2. pc'[v] = "stamp" => Install(v)
    BY <1>0, <1>2 DEF CallModel, ModelAnswers, TasksOK
  <2> QED BY <1>0, <2>1, <2>2 DEF Busy, Working
<1>3. CASE BeginJob(v)
  <2>1. Step(v)' = Step(v) /\ pc'[v] # "stamp"
    BY <1>0, <1>3 DEF BeginJob, Step, Plan, TasksOK
  <2> QED BY <1>0, <1>3, <2>1
<1>4. ASSUME Acts(v), ~BeginJob(v), ~(CallModel(v) \/ ModelAnswers(v) \/ Install(v)) PROVE FALSE
  <2>1. ~ReturnsNow(v)
    BY <1>0, ReturnsEnds DEF Working
  <2>2. ~PassOver(v)
    BY <1>0 DEF PassOver, Forward, TasksOK, Working
  <2> QED BY <1>0, <1>4, <2>1, <2>2
          DEF Acts, Move, ReturnsNow, Summarise, MaybeRunDaily, AlreadyRunning, StartDaily,
              Finish, Panics, Idle, TasksOK, Working
<1>5. CASE NewDay \/ RepairClearStuckDaily \/ UNCHANGED vars
  BY <1>0, <1>5 DEF NewDay, RepairClearStuckDaily, vars, tasks, local, Busy, Working, Step, Plan
<1>6. CASE Restart
  BY <1>0, <1>6 DEF Restart, Working
<1> QED BY <1>1, <1>2, <1>3, <1>4, <1>5, <1>6 DEF Next, Acts

\* only these write the summary and the compiled files
LEMMA Writers ==
  ASSUME [Next]_vars
  PROVE  /\ (\A w \in Workers : ~SaveSummary(w)) => rolled' = rolled
         /\ (\A w \in Workers : ~Install(w) /\ ~Stamp(w)) => out' = out
<1>1. ASSUME NEW w \in Workers, Acts(w)
      PROVE  (~SaveSummary(w) => rolled' = rolled) /\ (~Install(w) /\ ~Stamp(w) => out' = out)
  BY <1>1 DEF Acts, Move, Summarise, MaybeRunDaily, StartDaily, AlreadyRunning, PassOver,
              PlainStep, NothingToDo, BeginJob, Quarantined, CallModel, ModelAnswers, ModelFails,
              Install, Stamp, SaveSummary, StepFails, Finish, Panics, disk
<1>2. ASSUME NewDay \/ RepairClearStuckDaily \/ Restart \/ UNCHANGED vars
      PROVE  rolled' = rolled /\ out' = out
  BY <1>2 DEF NewDay, RepairClearStuckDaily, Restart, vars, disk
<1> QED BY <1>1, <1>2 DEF Next, Acts

LEMMA RollersRoll ==
  ASSUME TypeInv, NEW w \in Busy("Rolling") PROVE w \in Rollers
<1>1. w \in Workers /\ Step(w) = "Rolling" /\ kind[w] # "none" /\ kind[w] \in Sorts
  BY DEF TypeInv, ControlOK, TasksOK, Busy
<1>2. kind[w] # "daily"
  BY <1>1, StepIsAStep DEF TypeInv, Steps, Artefacts
<1> QED BY <1>1, <1>2 DEF Sorts, Rollers

LEMMA RollerInductive == OneRoller /\ TypeInv /\ [Next]_vars => OneRoller'
<1> SUFFICES ASSUME OneRoller, TypeInv, [Next]_vars PROVE OneRoller'
  OBVIOUS
<1> USE DEF TypeInv
<1> DEFINE Flag == /\ Rollers' # {} => summary_in_progress'
                   /\ summary_in_progress' /\ ~panicked' => Rollers' # {}
                   /\ \A w, v \in Rollers' : w = v
<1>1. Flag
  <2>0. ASSUME Rollers' = Rollers, UNCHANGED <<summary_in_progress, panicked>> PROVE Flag
    BY <2>0 DEF OneRoller
  <2>1. ASSUME NEW w \in Workers, NEW k \in {"roll", "flush"}, Summarise(w, k) PROVE Flag
    <3>1. Rollers' = Rollers \cup {w} /\ summary_in_progress' = TRUE /\ Rollers = {}
      BY <2>1 DEF Summarise, Rollers, TasksOK, OneRoller
    <3> QED BY <3>1
  <2>2. ASSUME NEW w \in Workers, Finish(w) \/ Panics(w) PROVE Flag
    <3>1. Rollers' = Rollers \ {w}
      BY <2>2 DEF Finish, Panics, Idle, Rollers, TasksOK
    <3>2. CASE kind[w] = "daily"
      <4>1. Rollers' = Rollers /\ UNCHANGED <<summary_in_progress, panicked>>
        BY <2>2, <3>1, <3>2 DEF Finish, Panics, Releases, Rollers, ghosts
      <4> QED BY <2>0, <4>1
    <3>3. CASE kind[w] # "daily"
      <4>1. w \in Rollers
        BY <2>2, <3>3 DEF Finish, Panics, Rollers, ControlOK, TasksOK, Sorts
      <4>2. Rollers' = {}
        BY <3>1, <4>1 DEF OneRoller
      <4>3. summary_in_progress' = FALSE \/ panicked' = TRUE
        BY <2>2, <3>3 DEF Finish, Panics, Releases
      <4> QED BY <4>2, <4>3
    <3> QED BY <3>2, <3>3
  <2>3. ASSUME NEW w \in Workers, MaybeRunDaily(w) \/ AlreadyRunning(w) PROVE Flag
    <3>1. Rollers' = Rollers /\ UNCHANGED <<summary_in_progress, panicked>>
      BY <2>3 DEF MaybeRunDaily, AlreadyRunning, Idle, Rollers, TasksOK, ControlOK, ticker, ghosts
    <3> QED BY <2>0, <3>1
  <2>4. ASSUME NEW w \in Workers, ReturnsNow(w) PROVE Flag
    <3>1. kind' = kind /\ summary_in_progress' = summary_in_progress
      BY <2>4, ReturningSteps DEF Returns, Forward
    <3>2. panicked' = panicked
      BY <2>4 DEF ReturnsNow, PlainStep, NothingToDo, Quarantined, ModelFails, Stamp,
                  SaveSummary, StepFails, ghosts
    <3> QED BY <2>0, <3>1, <3>2 DEF Rollers
  <2>5. ASSUME NEW w \in Workers, StartDaily(w) \/ PassOver(w) \/ BeginJob(w) \/ CallModel(w)
                  \/ ModelAnswers(w) \/ Install(w)
        PROVE  Flag
    <3>1. kind' = kind /\ UNCHANGED <<summary_in_progress, panicked>>
      BY <2>5 DEF StartDaily, PassOver, Forward, BeginJob, CallModel, ModelAnswers, Install,
                  ticker, ghosts
    <3> QED BY <2>0, <3>1 DEF Rollers
  <2>6. ASSUME NewDay \/ RepairClearStuckDaily \/ UNCHANGED vars PROVE Flag
    <3>1. kind' = kind /\ UNCHANGED <<summary_in_progress, panicked>>
      BY <2>6 DEF NewDay, RepairClearStuckDaily, vars, ticker, tasks, ghosts
    <3> QED BY <2>0, <3>1 DEF Rollers
  <2>7. CASE Restart
    BY <2>7 DEF Restart, Rollers
  <2> QED BY <2>1, <2>2, <2>3, <2>4, <2>5, <2>6, <2>7 DEF Next, Move, ReturnsNow
<1>2. ASSUME NEW v \in Busy("Rolling")' PROVE input'[v] = rolled'.n + 1
  <2>1. \/ v \in Busy("Rolling") /\ input'[v] = input[v]
        \/ BeginJob(v) /\ Step(v) = "Rolling"
    BY <1>2, AtAJob DEF Keys
  <2>2. rolled' = rolled
    <3> SUFFICES ASSUME NEW w \in Workers, SaveSummary(w) PROVE FALSE
      BY Writers
    <3>1. w \in Busy("Rolling") /\ pc'[w] \in {"step", "end"} /\ Acts(w) /\ ~BeginJob(v)
      <4>1. pc'[w] \in {"step", "end"}
        BY ReturnsEnds DEF ReturnsNow
      <4>2. ~BeginJob(v)
        <5>1. CASE v = w
          BY <5>1 DEF SaveSummary, BeginJob
        <5>2. ASSUME v # w, BeginJob(v) PROVE FALSE
          <6>1. Same(w) /\ v \in Workers
            BY <5>2, OnlyOneMoves DEF Acts, Move, Busy
          <6> QED BY <4>1, <6>1 DEF Same, SaveSummary
        <5> QED BY <5>1, <5>2
      <4> QED BY <4>1, <4>2 DEF SaveSummary, Busy, Acts, Move
    <3>2. v \in Busy("Rolling") /\ v \in Rollers /\ w \in Rollers
      BY <2>1, <3>1, RollersRoll
    <3>3. v = w
      BY <3>2 DEF OneRoller
    <3> QED BY <1>2, <3>1, <3>3 DEF Busy
  <2>3. CASE v \in Busy("Rolling") /\ input'[v] = input[v]
    BY <2>2, <2>3 DEF OneRoller
  <2>4. CASE BeginJob(v) /\ Step(v) = "Rolling"
    BY <2>2, <2>4 DEF BeginJob, Input, TasksOK, Busy
  <2> QED BY <2>1, <2>3, <2>4
<1> QED BY <1>1, <1>2 DEF OneRoller

\* a file that is vouched for changes by the task that is alone at it
LEMMA FileSteps ==
  ASSUME TypeInv, AloneInv, [Next]_vars, NEW a \in Artefacts, a \notin met
  PROVE  \/ out'[a] = out[a]
         \/ \E w \in Busy(a) : /\ Install(w) /\ pc'[w] = "stamp"
                               /\ out'[a] = [md |-> input[w], fp |-> out[a].fp]
         \/ \E w \in Busy(a) : /\ Stamp(w) /\ pc'[w] \in {"step", "end"}
                               /\ out'[a] = [md |-> out[a].md, fp |-> input[w]]
<1> USE DEF TypeInv
<1>0. out[a] = [md |-> out[a].md, fp |-> out[a].fp] /\ a \in Keys
  BY DEF DiskOK, Keys
<1>1. ASSUME NEW w \in Workers, Install(w), Step(w) = a
      PROVE  /\ w \in Busy(a) /\ pc'[w] = "stamp"
             /\ out'[a] = [md |-> input[w], fp |-> out[a].fp]
  <2>1. w \in Busy(a)
    BY <1>1 DEF Install, Busy
  <2>2. PICK u \in Workers : /\ pc[u] = "write" /\ Step(u) = a
                             /\ out' = [out EXCEPT ![a].md = input[u]]
    BY <1>1 DEF Install
  <2>3. u = w
    BY <1>0, <2>1, <2>2 DEF AloneInv, Busy
  <2> QED BY <1>0, <1>1, <2>1, <2>2, <2>3 DEF Install, DiskOK, TasksOK
<1>2. ASSUME NEW w \in Workers, Stamp(w), Step(w) = a
      PROVE  /\ w \in Busy(a) /\ pc'[w] \in {"step", "end"}
             /\ out'[a] = [md |-> out[a].md, fp |-> input[w]]
  <2>1. pc'[w] \in {"step", "end"}
    BY <1>2, ReturnsEnds DEF ReturnsNow
  <2> QED BY <1>0, <1>2, <2>1 DEF Stamp, Busy, DiskOK
<1>3. ASSUME NEW w \in Workers, Install(w) \/ Stamp(w), Step(w) # a PROVE out'[a] = out[a]
  BY <1>3 DEF Install, Stamp, DiskOK
<1> QED BY <1>1, <1>2, <1>3, Writers

\* the summary and, while it is vouched for, the file of the week only grow
LEMMA SourceGrows ==
  ASSUME CacheInv, [Next]_vars, NEW a \in Artefacts, Vouched(a)
  PROVE  Source(a) \in Nat /\ Source(a)' \in Nat /\ Source(a) <= Source(a)'
<1> USE DEF CacheInv
<1>0. TypeInv' /\ "Week" \in Artefacts
  BY TypeStep DEF Artefacts
<1>1. rolled.n <= rolled'.n /\ rolled.n \in Nat /\ rolled'.n \in Nat
  <2>1. rolled.n \in Nat /\ rolled'.n \in Nat
    BY <1>0 DEF TypeInv, DiskOK
  <2>2. ASSUME NEW w \in Workers, SaveSummary(w) PROVE rolled.n <= rolled'.n
    <3>1. input[w] = rolled.n + 1
      BY <2>2 DEF SaveSummary, Busy, OneRoller
    <3> QED BY <2>1, <2>2, <3>1 DEF SaveSummary
  <2>3. CASE rolled' = rolled
    BY <2>1, <2>3
  <2> QED BY <2>1, <2>2, <2>3, Writers
<1>2. CASE a # "Longterm"
  BY <1>1, <1>2 DEF Source
<1>3. CASE a = "Longterm"
  <2>1. "Week" \notin met /\ Vouched("Week")
    BY <1>3 DEF Vouched
  <2>2. out["Week"].md \in Nat /\ out'["Week"].md \in Nat
    BY <1>0 DEF TypeInv, DiskOK
  <2>3. \A w \in Busy("Week") : out["Week"].md <= input[w]
    BY <1>0, <2>1 DEF FilesOK
  <2>4. \/ out'["Week"] = out["Week"]
        \/ \E w \in Busy("Week") : out'["Week"] = [md |-> input[w], fp |-> out["Week"].fp]
        \/ \E w \in Busy("Week") : out'["Week"] = [md |-> out["Week"].md, fp |-> input[w]]
    BY <1>0, <2>1, FileSteps
  <2>5. out["Week"].md <= out'["Week"].md
    <3>1. CASE out'["Week"] = out["Week"]
      BY <2>2, <3>1
    <3>2. ASSUME NEW w \in Busy("Week"), out'["Week"] = [md |-> input[w], fp |-> out["Week"].fp]
          PROVE  out["Week"].md <= out'["Week"].md
      BY <2>3, <3>2
    <3>3. ASSUME NEW w \in Busy("Week"), out'["Week"] = [md |-> out["Week"].md, fp |-> input[w]]
          PROVE  out["Week"].md <= out'["Week"].md
      BY <2>2, <3>3
    <3> QED BY <2>4, <3>1, <3>2, <3>3
  <2> QED BY <1>3, <2>2, <2>5 DEF Source
<1> QED BY <1>2, <1>3

\* a job is entered with what its file is made from now
LEMMA EntryInput ==
  ASSUME TypeInv, NEW w \in Workers, BeginJob(w), Step(w) \in Artefacts
  PROVE  input'[w] = Source(Step(w)) /\ out' = out /\ rolled' = rolled
<1>1. input'[w] = Input(Step(w)) /\ Input(Step(w)) # 0 /\ out' = out /\ rolled' = rolled
  BY DEF BeginJob, Settled, TypeInv, TasksOK, disk
<1>2. Input(Step(w)) = Source(Step(w))
  BY <1>1 DEF Input, Source, Artefacts
<1> QED BY <1>1, <1>2

LEMMA FilesInductive == CacheInv /\ [Next]_vars => FilesOK'
<1> SUFFICES ASSUME CacheInv, [Next]_vars, NEW a \in Artefacts, Vouched(a)'
             PROVE  /\ out'[a].fp <= out'[a].md /\ out'[a].md <= Source(a)'
                    /\ \A v \in Busy(a)' :
                         /\ out'[a].md <= input'[v] /\ input'[v] <= Source(a)'
                         /\ pc'[v] = "stamp" => out'[a].md = input'[v]
  BY DEF FilesOK
<1>1. Vouched(a) /\ a \notin met /\ a \in Keys /\ TypeInv' /\ AloneInv'
  BY MetGrows, TypeStep, AloneInductive DEF Vouched, CacheInv, Keys
<1>2. Source(a) \in Nat /\ Source(a)' \in Nat /\ Source(a) <= Source(a)'
  BY <1>1, SourceGrows
<1>3. /\ out[a].fp \in Nat /\ out[a].md \in Nat
      /\ \A w \in Workers : input[w] \in Nat /\ input'[w] \in Nat
  BY <1>1 DEF CacheInv, TypeInv, DiskOK, TasksOK
<1>4. /\ out[a].fp <= out[a].md /\ out[a].md <= Source(a)
      /\ \A w \in Busy(a) : /\ out[a].md <= input[w] /\ input[w] <= Source(a)
                            /\ pc[w] = "stamp" => out[a].md = input[w]
  BY <1>1 DEF CacheInv, FilesOK
<1>5. ASSUME NEW v \in Busy(a)'
      PROVE  \/ /\ v \in Busy(a) /\ input'[v] = input[v]
                /\ pc'[v] = "stamp" => pc[v] = "stamp" \/ Install(v)
             \/ BeginJob(v) /\ Step(v) = a /\ pc'[v] # "stamp" /\ v \in Workers
  BY <1>1, <1>5, AtAJob DEF CacheInv, Busy
<1>6. ASSUME NEW v \in Workers, BeginJob(v), Step(v) = a
      PROVE  input'[v] = Source(a) /\ out' = out
  BY <1>6, EntryInput DEF CacheInv
<1>7. CASE out'[a] = out[a]
  <2>1. out'[a].fp <= out'[a].md /\ out'[a].md <= Source(a)'
    BY <1>2, <1>3, <1>4, <1>7
  <2> SUFFICES ASSUME NEW v \in Busy(a)'
               PROVE  /\ out'[a].md <= input'[v] /\ input'[v] <= Source(a)'
                      /\ pc'[v] = "stamp" => out'[a].md = input'[v]
    BY <2>1
  <2>2. CASE BeginJob(v) /\ Step(v) = a /\ pc'[v] # "stamp" /\ v \in Workers
    BY <1>2, <1>3, <1>4, <1>6, <1>7, <2>2
  <2>3. ASSUME v \in Busy(a), input'[v] = input[v],
               pc'[v] = "stamp" => pc[v] = "stamp" \/ Install(v)
        PROVE  /\ out'[a].md <= input'[v] /\ input'[v] <= Source(a)'
               /\ pc'[v] = "stamp" => out'[a].md = input'[v]
    <3>1. v \in Workers /\ Step(v) = a
      BY <2>3 DEF Busy
    <3>2. out[a].md <= input[v] /\ input[v] <= Source(a)
      BY <1>4, <2>3
    <3>3. input'[v] <= Source(a)'
      BY <1>2, <1>3, <2>3, <3>1, <3>2
    <3>4. ASSUME Install(v) PROVE out'[a].md = input'[v]
      <4>1. PICK u \in Workers : /\ pc[u] = "write" /\ Step(u) = a
                                 /\ out' = [out EXCEPT ![a].md = input[u]]
        BY <3>1, <3>4 DEF Install
      <4>2. u = v
        BY <1>1, <2>3, <4>1 DEF CacheInv, AloneInv, Busy
      <4> QED BY <2>3, <4>1, <4>2 DEF CacheInv, TypeInv, DiskOK
    <3> QED BY <1>4, <1>7, <2>3, <3>2, <3>3, <3>4
  <2> QED BY <1>5, <2>2, <2>3
<1>8. ASSUME NEW w \in Busy(a), Install(w), pc'[w] = "stamp",
             out'[a] = [md |-> input[w], fp |-> out[a].fp]
      PROVE  /\ out'[a].fp <= out'[a].md /\ out'[a].md <= Source(a)'
             /\ \A v \in Busy(a)' :
                  /\ out'[a].md <= input'[v] /\ input'[v] <= Source(a)'
                  /\ pc'[v] = "stamp" => out'[a].md = input'[v]
  <2>1. w \in Workers /\ Step(w) = a /\ input'[w] = input[w] /\ w \in Busy(a)'
    <3>1. w \in Workers /\ Step(w) = a /\ input' = input /\ Step(w)' = Step(w)
      BY <1>8 DEF Busy, Install, local, Step, Plan
    <3> QED BY <1>8, <3>1 DEF Busy
  <2>2. out'[a].fp <= out'[a].md /\ out'[a].md <= Source(a)'
    BY <1>2, <1>3, <1>4, <1>8, <2>1
  <2>3. \A v \in Busy(a)' : v = w
    BY <1>1, <2>1 DEF AloneInv, Vouched
  <2> QED BY <1>3, <1>8, <2>1, <2>2, <2>3
<1>9. ASSUME NEW w \in Busy(a), Stamp(w), pc'[w] \in {"step", "end"},
             out'[a] = [md |-> out[a].md, fp |-> input[w]]
      PROVE  /\ out'[a].fp <= out'[a].md /\ out'[a].md <= Source(a)'
             /\ \A v \in Busy(a)' :
                  /\ out'[a].md <= input'[v] /\ input'[v] <= Source(a)'
                  /\ pc'[v] = "stamp" => out'[a].md = input'[v]
  <2>1. w \in Workers /\ input[w] = out[a].md /\ w \notin Busy(a)'
    BY <1>4, <1>9 DEF Busy, Stamp
  <2>2. out'[a].fp <= out'[a].md /\ out'[a].md <= Source(a)'
    BY <1>2, <1>3, <1>4, <1>9, <2>1
  <2>3. ASSUME NEW v \in Busy(a)' PROVE FALSE
    <3>1. CASE v \in Busy(a)
      BY <1>1, <1>9, <2>1, <2>3, <3>1 DEF CacheInv, AloneInv
    <3>2. CASE BeginJob(v) /\ Step(v) = a /\ v \in Workers
      <4>1. Busy(a) # {} /\ a \in met'
        BY <1>9, <3>2 DEF BeginJob
      <4> QED BY <1>1, <4>1 DEF Vouched
    <3> QED BY <1>5, <2>3, <3>1, <3>2
  <2> QED BY <2>2, <2>3
<1> QED BY <1>1, <1>7, <1>8, <1>9, FileSteps DEF CacheInv

\* Whatever fails, dies or overlaps, no fingerprint is newer than the text it
\* stands for, unless two tasks compiled the file or its source together.
THEOREM CacheTheorem == Spec => []CacheHonest
<1>1. Init => CacheInv
  <2>1. ASSUME Init PROVE AloneInv /\ OneRoller /\ FilesOK
    <3>1. Rollers = {} /\ \A k \in Keys : Busy(k) = {}
      BY <2>1 DEF Init, Rollers, Busy
    <3>2. \A a \in Artefacts : out[a].md = 0 /\ out[a].fp = 0 /\ Source(a) = 0 /\ a \in Keys
      BY <2>1 DEF Init, Source, Artefacts, Keys
    <3> QED BY <2>1, <3>1, <3>2 DEF Init, AloneInv, OneRoller, FilesOK, Keys
  <2> QED BY <2>1, InitTyped DEF CacheInv
<1>2. CacheInv /\ [Next]_vars => CacheInv'
  BY TypeStep, AloneInductive, RollerInductive, FilesInductive DEF CacheInv
<1>3. CacheInv => CacheHonest
  BY DEF CacheInv, FilesOK, Vouched, CacheHonest
<1> QED BY <1>1, <1>2, <1>3, PTL DEF Spec

\* A session is summarised by one task at a time and marked exactly while it is,
\* whatever fails or panics, but for the panic of a task that holds no guard.
THEOREM OneSummaryTheorem == Spec => []OneSummary
<1>1. Init => OneRoller
  BY DEF Init, OneRoller, Rollers, Busy
<1>2. ASSUME OneRoller PROVE OneSummary
  <2>1. CASE Rollers = {}
    BY <1>2, <2>1, FS_EmptySet DEF OneRoller, OneSummary
  <2>2. ASSUME NEW w \in Rollers PROVE OneSummary
    <3>1. Rollers = {w}
      BY <1>2, <2>2 DEF OneRoller
    <3>2. Cardinality(Rollers) = 1
      BY <3>1, FS_Singleton
    <3> QED BY <1>2, <3>2 DEF OneRoller, OneSummary
  <2> QED BY <2>1, <2>2
<1> QED BY <1>1, <1>2, InitTyped, TypeStep, RollerInductive, PTL DEF Spec
=============================================================================
