----------------------------- MODULE CostGuard ------------------------------
(***************************************************************************)
(* The spend and rate limits of model requests (runtime/cost_guard.rs) and *)
(* the two ways turns use them.  A streaming task (run_stream_task) checks *)
(* before every request and charges it once its stream has started.  A     *)
(* turn run as a whole (run_agent_turn) checks once and charges all the    *)
(* iterations it made when it has ended.  Every check and every charge     *)
(* takes the mutex separately: between a check and its charge lies the     *)
(* start of a stream or a whole turn, which may take minutes, may fail,    *)
(* and may see the hour window or the day change.                          *)
(***************************************************************************)
EXTENDS Integers, FiniteSets

CONSTANTS
  Tasks,       \* turns that may run at the same time
  Runs,        \* those of them that are run as a whole, the others stream
  Sessions,
  SessionOf,   \* the session each task belongs to
  Unlimited,   \* a limit that is not set
  HourLimit,   \* max_llm_calls_per_hour
  DayLimit,    \* max_cost_per_day_cents
  SessionLimit,\* max_cost_per_session_per_day_cents
  Estimate,    \* estimated_cost_per_llm_call_cents, at least 1
  Hour,        \* length of the hour window, in ticks of the clock
  Days,        \* calendar days the clock of the machine may show
  MaxTime,     \* bound of the model: last tick
  MaxStarts,   \* bound of the model: charged requests
  MaxIterations\* bound of the model: requests of a turn run as a whole

ASSUME TasksAssumption ==
  /\ IsFiniteSet(Tasks) /\ Tasks # {} /\ Runs \subseteq Tasks
  /\ SessionOf \in [Tasks -> Sessions]
ASSUME LimitsAssumption ==
  /\ Unlimited \notin Nat
  /\ {HourLimit, DayLimit, SessionLimit} \subseteq Nat \cup {Unlimited}
ASSUME EstimateAssumption == Estimate \in Nat \ {0}
ASSUME HourAssumption == Hour \in Nat \ {0}
ASSUME BoundsAssumption ==
  MaxTime \in Nat /\ MaxStarts \in Nat /\ MaxIterations \in Nat \ {0}

VARIABLES
  pc,           \* "idle", or "checked" between the check and its charge
  due,          \* charges a whole turn still has to make, with no check
  hour_start,   \* hour.hour_start
  calls,        \* hour.calls
  day_id,       \* day.day_id
  spent,        \* day.spent_cents
  per_session,  \* day.per_session, 0 for a session without an entry
  now,          \* the monotonic clock
  today,        \* the calendar day
  starts,       \* history: tick and number of every charged request
  checked,      \* history: those of them that are the first after a check
  unseen        \* history: what the counters hold of charges with no check,
                \* as calls of the hour, cents of the day and of each session

task == <<pc, due>>
hour == <<hour_start, calls>>
day == <<day_id, spent, per_session>>
clock == <<now, today>>
history == <<starts, checked, unseen>>
vars == <<task, hour, day, clock, history>>

NothingSpent == [s \in Sessions |-> 0]

any_limit_enabled == {HourLimit, DayLimit, SessionLimit} # {Unlimited}

\* rollover_hour_if_needed and rollover_day_if_needed, as the values the
\* counters have after them
HourOver == now - hour_start >= Hour
DayOver == day_id # today
CallsNow == IF HourOver THEN 0 ELSE calls
SpentNow == IF DayOver THEN 0 ELSE spent
PerSessionNow == IF DayOver THEN NothingSpent ELSE per_session
UnseenNow ==
  [calls |-> IF HourOver THEN 0 ELSE unseen.calls,
   spent |-> IF DayOver THEN 0 ELSE unseen.spent,
   of    |-> IF DayOver THEN NothingSpent ELSE unseen.of]

\* mutant: the count of an hour that is over is reset, its start is not moved
WindowNotMoved == hour_start' = hour_start /\ day_id' = today

RollOver ==
  /\ hour_start' = IF HourOver THEN now ELSE hour_start
  /\ day_id' = today

Within(amount, limit) == limit = Unlimited \/ amount <= limit

\* mutant: the hourly limit is off by one
PassesOneMore(s) ==
  /\ HourLimit = Unlimited \/ CallsNow <= HourLimit
  /\ Within(PerSessionNow[SessionOf[s]] + Estimate, SessionLimit)
  /\ Within(SpentNow + Estimate, DayLimit)

\* mutant: the call about to be made is not counted in the budgets
PassesWithoutEstimate(s) ==
  /\ HourLimit = Unlimited \/ CallsNow < HourLimit
  /\ Within(PerSessionNow[SessionOf[s]], SessionLimit)
  /\ Within(SpentNow, DayLimit)

\* check_before_llm_call returns Ok
Passes(s) ==
  /\ HourLimit = Unlimited \/ CallsNow < HourLimit
  /\ Within(PerSessionNow[SessionOf[s]] + Estimate, SessionLimit)
  /\ Within(SpentNow + Estimate, DayLimit)

Init ==
  /\ pc = [s \in Tasks |-> "idle"] /\ due = [s \in Tasks |-> 0]
  /\ hour_start = 0 /\ calls = 0
  /\ today \in Days /\ day_id = today /\ spent = 0
  /\ per_session = NothingSpent
  /\ now = 0 /\ starts = {} /\ checked = {}
  /\ unseen = [calls |-> 0, spent |-> 0, of |-> NothingSpent]

(* A refused request ends the turn; the counters have rolled over all the  *)
(* same.                                                                   *)
Check(s) ==
  /\ pc[s] = "idle" /\ due[s] = 0
  /\ IF any_limit_enabled
     THEN /\ pc' = [pc EXCEPT ![s] = IF Passes(s) THEN "checked" ELSE "idle"]
          /\ RollOver
          /\ calls' = CallsNow /\ spent' = SpentNow
          /\ per_session' = PerSessionNow /\ unseen' = UnseenNow
     ELSE pc' = [pc EXCEPT ![s] = "checked"] /\ UNCHANGED <<hour, day, unseen>>
  /\ UNCHANGED <<due, clock, starts, checked>>

\* mutant: the estimate is taken off what is spent
TakesEstimateOff(s, first) ==
  /\ Cardinality(starts) < MaxStarts
  /\ IF any_limit_enabled
     THEN /\ RollOver
          /\ calls' = CallsNow + 1 /\ spent' = SpentNow - Estimate
          /\ per_session' = [PerSessionNow EXCEPT ![SessionOf[s]] = @ + Estimate]
          /\ unseen' = UnseenNow
     ELSE UNCHANGED <<hour, day, unseen>>
  /\ LET start == <<now, Cardinality(starts) + 1>>
     IN  /\ starts' = starts \cup {start}
         /\ checked' = IF first THEN checked \cup {start} ELSE checked
  /\ UNCHANGED clock

\* record_llm_call_charged; first: the charge is the first after a check
RecordCharge(s, first) ==
  /\ Cardinality(starts) < MaxStarts
  /\ IF any_limit_enabled
     THEN /\ RollOver
          /\ calls' = CallsNow + 1 /\ spent' = SpentNow + Estimate
          /\ per_session' = [PerSessionNow EXCEPT ![SessionOf[s]] = @ + Estimate]
          /\ unseen' =
               IF first THEN UnseenNow
               ELSE [calls |-> UnseenNow.calls + 1,
                     spent |-> UnseenNow.spent + Estimate,
                     of |-> [UnseenNow.of EXCEPT ![SessionOf[s]] = @ + Estimate]]
     ELSE UNCHANGED <<hour, day, unseen>>
  /\ LET start == <<now, Cardinality(starts) + 1>>
     IN  /\ starts' = starts \cup {start}
         /\ checked' = IF first THEN checked \cup {start} ELSE checked
  /\ UNCHANGED clock

(* The stream has started, or the whole turn has ended well after any      *)
(* number of iterations: the request the check was for is charged.         *)
Charge(s) ==
  /\ pc[s] = "checked"
  /\ pc' = [pc EXCEPT ![s] = "idle"]
  /\ \E more \in IF s \in Runs THEN 0..(MaxIterations - 1) ELSE {0} :
        due' = [due EXCEPT ![s] = more]
  /\ RecordCharge(s, TRUE)

(* The further iterations of a whole turn are charged one by one in a      *)
(* loop, and nothing checks the limits for them.                           *)
ChargeRest(s) ==
  /\ due[s] > 0
  /\ due' = [due EXCEPT ![s] = @ - 1]
  /\ RecordCharge(s, FALSE)
  /\ UNCHANGED pc

(* The stream did not start, after retries and failover, or the whole turn *)
(* failed, however many requests it had made: nothing is charged.          *)
StartFails(s) ==
  /\ pc[s] = "checked"
  /\ pc' = [pc EXCEPT ![s] = "idle"]
  /\ UNCHANGED <<due, hour, day, clock, history>>

Tick == now < MaxTime /\ now' = now + 1 /\ UNCHANGED <<task, hour, day, today, history>>

\* the calendar may also be set back
NewDay == today' \in Days \ {today} /\ UNCHANGED <<task, hour, day, now, history>>

Next ==
  \/ \E s \in Tasks : Check(s) \/ Charge(s) \/ ChargeRest(s) \/ StartFails(s)
  \/ Tick \/ NewDay

Spec == Init /\ [][Next]_vars

-----------------------------------------------------------------------------
(* Properties *)

\* requests that have passed the check and are not charged yet
InFlight == {s \in Tasks : pc[s] = "checked"}
TasksOf(session) == {s \in Tasks : SessionOf[s] = session}
InFlightOf(session) == InFlight \cap TasksOf(session)

TypeOK ==
  /\ pc \in [Tasks -> {"idle", "checked"}] /\ due \in [Tasks -> 0..(MaxIterations - 1)]
  /\ now \in 0..MaxTime /\ hour_start \in 0..now /\ calls \in Nat
  /\ today \in Days /\ day_id \in Days /\ spent \in Nat
  /\ per_session \in [Sessions -> Nat]
  /\ starts \subseteq (0..MaxTime) \X (1..MaxStarts) /\ checked \subseteq starts
  /\ unseen \in [calls : 0..calls, spent : 0..spent, of : [Sessions -> Nat]]
  /\ \A session \in Sessions : unseen.of[session] <= per_session[session]

(* Apart from the further iterations of turns run as a whole, the hour     *)
(* window overshoots its limit by less than one call per task: a check     *)
(* sees every charge made, with or without a check, and misses only the    *)
(* calls that passed and are not charged yet, also when the window ends in *)
(* between.                                                                *)
HourlyOvershootBounded ==
  HourLimit # Unlimited =>
    (calls - unseen.calls) + Cardinality(InFlight) < HourLimit + Cardinality(Tasks)

(* The same for the day's budget, by less than the estimate of one call    *)
(* per task, also when the calendar day changes, or is set back, between a *)
(* check and its charge or between two charges of one turn.                *)
DailyOvershootBounded ==
  DayLimit # Unlimited =>
    (spent - unseen.spent) + Estimate * Cardinality(InFlight)
      <= DayLimit + Estimate * (Cardinality(Tasks) - 1)

(* A session that runs one turn at a time exceeds its own budget only by   *)
(* the further iterations of its turns that are run as a whole, whatever   *)
(* the other sessions spend; one that streams all its turns never does.    *)
SessionBudgetKept ==
  SessionLimit # Unlimited =>
    \A session \in Sessions :
      Cardinality(TasksOf(session)) = 1 =>
        /\ per_session[session] - unseen.of[session] <= SessionLimit
        /\ TasksOf(session) \cap Runs = {} => per_session[session] <= SessionLimit

InHourFrom(t, S) == {x \in S : x[1] \in t..(t + Hour - 1)}

(* Within any hour, not only an hour window of the guard, fewer than twice *)
(* the checked starts one window may see: the windows never overlap, and   *)
(* no hour meets three of them.                                            *)
RollingHourAtMostDouble ==
  HourLimit # Unlimited =>
    \A t \in 0..now : Cardinality(InHourFrom(t, checked))
                        <= 2 * (HourLimit + Cardinality(Tasks) - 1)

-----------------------------------------------------------------------------
(* cost_guard.rs: max_llm_calls_per_hour is "Max LLM stream starts per     *)
(* rolling hour".  The window tumbles: the calls of its last minutes and   *)
(* those of the first minutes of the next one fall into one hour.          *)
RollingHourlyLimit ==
  HourLimit # Unlimited =>
    \A t \in 0..now : Cardinality(InHourFrom(t, starts))
                        < HourLimit + Cardinality(Tasks)

(* cost_guard.rs: max_cost_per_session_per_day_cents is the "Per-session/day *)
(* cap".  A turn that is run as a whole passes it once, while nothing is     *)
(* spent, and is charged for all its iterations.                             *)
SessionDayCap ==
  SessionLimit # Unlimited =>
    \A session \in Sessions :
      Cardinality(TasksOf(session)) = 1 => per_session[session] <= SessionLimit
=============================================================================
