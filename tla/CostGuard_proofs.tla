-------------------------- MODULE CostGuard_proofs --------------------------
(***************************************************************************)
(* Theorems about CostGuard: how far its limits can be overshot, for every *)
(* number of tasks and sessions   and every value of the limits.           *)
(***************************************************************************)
EXTENDS CostGuard, FiniteSetTheorems, TLAPS

-----------------------------------------------------------------------------
(* Requests in flight *)

\* the requests in flight of any group of tasks can be counted
LEMMA InFlightFinite ==
  ASSUME NEW group \in SUBSET Tasks
  PROVE  /\ IsFiniteSet(InFlight \cap group)
         /\ Cardinality(InFlight \cap group) \in Nat
         /\ Cardinality(group) \in Nat
         /\ Cardinality(InFlight \cap group) <= Cardinality(group)
<1>1. IsFiniteSet(group)
  BY FS_Subset, TasksAssumption
<1> QED BY <1>1, FS_Subset, FS_CardinalityType

\* there are tasks, and finitely many
LEMMA TasksCounted == Cardinality(Tasks) \in Nat \ {0}
BY FS_CardinalityType, FS_EmptySet, TasksAssumption

\* a request is in flight from its check to its charge, or to its failure
LEMMA RequestLeaves ==
  ASSUME TypeOK, NEW s \in Tasks, pc[s] = "checked",
         pc' = [pc EXCEPT ![s] = "idle"], NEW group \in SUBSET Tasks
  PROVE  Cardinality(InFlight' \cap group) =
           IF s \in group THEN Cardinality(InFlight \cap group) - 1
                          ELSE Cardinality(InFlight \cap group)
<1>1. InFlight' \cap group = (InFlight \cap group) \ {s}
  BY DEF InFlight, TypeOK
<1>2. s \in InFlight \cap group <=> s \in group
  BY DEF InFlight
<1>3. IsFiniteSet(InFlight \cap group)
  BY InFlightFinite
<1>4. Cardinality((InFlight \cap group) \ {s}) =
        IF s \in InFlight \cap group THEN Cardinality(InFlight \cap group) - 1
                                     ELSE Cardinality(InFlight \cap group)
  BY <1>3, FS_RemoveElement
<1> QED BY <1>1, <1>2, <1>4

\* the same for all tasks
LEMMA RequestLeavesAll ==
  ASSUME TypeOK, NEW s \in Tasks, pc[s] = "checked",
         pc' = [pc EXCEPT ![s] = "idle"]
  PROVE  Cardinality(InFlight') = Cardinality(InFlight) - 1
<1>1. InFlight' \cap Tasks = InFlight' /\ InFlight \cap Tasks = InFlight
  BY DEF InFlight
<1> QED BY <1>1, RequestLeaves

-----------------------------------------------------------------------------
(* What the counters hold after a rollover, without the charges that no    *)
(* check saw                                                               *)

SeenCalls == calls - unseen.calls
SeenSpent == spent - unseen.spent
SeenOf(x) == per_session[x] - unseen.of[x]
SeenCallsNow == CallsNow - UnseenNow.calls
SeenSpentNow == SpentNow - UnseenNow.spent
SeenOfNow(x) == PerSessionNow[x] - UnseenNow.of[x]

\* a rollover keeps the types and never adds to a counter
LEMMA CountersNow ==
  ASSUME TypeOK
  PROVE  /\ CallsNow \in Nat /\ SpentNow \in Nat /\ PerSessionNow \in [Sessions -> Nat]
         /\ UnseenNow.calls \in 0..CallsNow /\ UnseenNow.spent \in 0..SpentNow
         /\ UnseenNow.of \in [Sessions -> Nat]
         /\ UnseenNow = [calls |-> UnseenNow.calls, spent |-> UnseenNow.spent,
                         of |-> UnseenNow.of]
         /\ \A x \in Sessions : UnseenNow.of[x] <= PerSessionNow[x]
<1>1. /\ unseen.calls \in 0..calls /\ unseen.spent \in 0..spent
      /\ unseen.of \in [Sessions -> Nat]
  BY DEF TypeOK
<1> QED BY <1>1 DEF TypeOK, CallsNow, SpentNow, PerSessionNow, UnseenNow, NothingSpent

\* the seen parts are natural numbers, and a rollover never adds to them
LEMMA SeenNow ==
  ASSUME TypeOK
  PROVE  /\ SeenCalls \in Nat /\ SeenCallsNow \in Nat /\ SeenCallsNow <= SeenCalls
         /\ SeenSpent \in Nat /\ SeenSpentNow \in Nat /\ SeenSpentNow <= SeenSpent
         /\ SeenCallsNow <= CallsNow /\ SeenSpentNow <= SpentNow
         /\ \A x \in Sessions :
              /\ SeenOf(x) \in Nat /\ SeenOfNow(x) \in Nat /\ SeenOfNow(x) <= SeenOf(x)
              /\ SeenOfNow(x) <= PerSessionNow[x]
<1>1. /\ unseen.calls \in 0..calls /\ unseen.spent \in 0..spent
      /\ unseen.of \in [Sessions -> Nat] /\ per_session \in [Sessions -> Nat]
      /\ calls \in Nat /\ spent \in Nat
      /\ \A x \in Sessions : unseen.of[x] <= per_session[x]
  BY DEF TypeOK
<1>2. SeenCalls \in Nat /\ SeenCallsNow \in Nat /\ SeenCallsNow <= SeenCalls
  BY <1>1 DEF SeenCalls, SeenCallsNow, CallsNow, UnseenNow
<1>3. SeenSpent \in Nat /\ SeenSpentNow \in Nat /\ SeenSpentNow <= SeenSpent
  BY <1>1 DEF SeenSpent, SeenSpentNow, SpentNow, UnseenNow
<1>4. SeenCallsNow <= CallsNow /\ SeenSpentNow <= SpentNow
  BY CountersNow DEF SeenCallsNow, SeenSpentNow
<1>5. ASSUME NEW x \in Sessions
      PROVE  /\ SeenOf(x) \in Nat /\ SeenOfNow(x) \in Nat /\ SeenOfNow(x) <= SeenOf(x)
             /\ SeenOfNow(x) <= PerSessionNow[x]
  <2>1. CASE DayOver
    BY <1>1, <2>1 DEF SeenOf, SeenOfNow, PerSessionNow, UnseenNow, NothingSpent
  <2>2. CASE ~DayOver
    BY <1>1, <2>2 DEF SeenOf, SeenOfNow, PerSessionNow, UnseenNow
  <2> QED BY <2>1, <2>2
<1> QED BY <1>2, <1>3, <1>4, <1>5

\* what a check leaves, when limits are set
LEMMA CheckSeen ==
  ASSUME TypeOK, any_limit_enabled, NEW s \in Tasks, Check(s)
  PROVE  /\ SeenCalls' = SeenCallsNow /\ SeenSpent' = SeenSpentNow
         /\ \A x \in Sessions : SeenOf(x)' = SeenOfNow(x)
         /\ ~Passes(s) => InFlight' = InFlight
<1>1. ~Passes(s) => InFlight' = InFlight
  BY DEF Check, InFlight, TypeOK
<1> QED
  BY <1>1 DEF Check, SeenCalls, SeenSpent, SeenOf, SeenCallsNow, SeenSpentNow, SeenOfNow

\* the first charge after a check is seen, a further one is not
LEMMA RecordSeen ==
  ASSUME TypeOK, any_limit_enabled, NEW s \in Tasks, NEW first \in BOOLEAN,
         RecordCharge(s, first)
  PROVE  /\ SeenCalls' = IF first THEN SeenCallsNow + 1 ELSE SeenCallsNow
         /\ SeenSpent' = IF first THEN SeenSpentNow + Estimate ELSE SeenSpentNow
         /\ \A x \in Sessions :
              SeenOf(x)' = IF first /\ SessionOf[s] = x
                           THEN SeenOfNow(x) + Estimate ELSE SeenOfNow(x)
<1>1. /\ calls' = CallsNow + 1 /\ spent' = SpentNow + Estimate
      /\ per_session' = [PerSessionNow EXCEPT ![SessionOf[s]] = @ + Estimate]
  BY DEF RecordCharge
<1>2. first => unseen' = UnseenNow
  BY DEF RecordCharge
<1>3. ~first =>
        /\ unseen'.calls = UnseenNow.calls + 1
        /\ unseen'.spent = UnseenNow.spent + Estimate
        /\ unseen'.of = [UnseenNow.of EXCEPT ![SessionOf[s]] = @ + Estimate]
  BY DEF RecordCharge
<1>4. SessionOf[s] \in Sessions
  BY TasksAssumption
<1>5. SeenCalls' = IF first THEN SeenCallsNow + 1 ELSE SeenCallsNow
  BY <1>1, <1>2, <1>3, CountersNow DEF SeenCalls, SeenCallsNow
<1>6. SeenSpent' = IF first THEN SeenSpentNow + Estimate ELSE SeenSpentNow
  BY <1>1, <1>2, <1>3, CountersNow, EstimateAssumption DEF SeenSpent, SeenSpentNow
<1>7. ASSUME NEW x \in Sessions
      PROVE  SeenOf(x)' = IF first /\ SessionOf[s] = x
                          THEN SeenOfNow(x) + Estimate ELSE SeenOfNow(x)
  <2>1. /\ PerSessionNow[x] \in Nat /\ UnseenNow.of[x] \in Nat
        /\ UnseenNow.of \in [Sessions -> Nat] /\ PerSessionNow \in [Sessions -> Nat]
    BY CountersNow
  <2>2. per_session'[x] = IF SessionOf[s] = x THEN PerSessionNow[x] + Estimate
                                              ELSE PerSessionNow[x]
    BY <1>1, <1>4, <2>1
  <2>3. unseen'.of[x] = IF ~first /\ SessionOf[s] = x THEN UnseenNow.of[x] + Estimate
                                                        ELSE UnseenNow.of[x]
    BY <1>2, <1>3, <1>4, <2>1
  <2> QED BY <2>1, <2>2, <2>3, EstimateAssumption DEF SeenOf, SeenOfNow
<1> QED BY <1>5, <1>6, <1>7

-----------------------------------------------------------------------------
\* the charges so far can be counted
LEMMA StartsCounted == TypeOK => IsFiniteSet(starts)
<1>1. IsFiniteSet((0..MaxTime) \X (1..MaxStarts))
  <2>1. IsFiniteSet(0..MaxTime) /\ IsFiniteSet(1..MaxStarts)
    BY BoundsAssumption, FS_Interval
  <2> QED BY <2>1, FS_Product
<1> QED BY <1>1, FS_Subset DEF TypeOK

\* a charge keeps the types of the counters and of the history
LEMMA RecordTyped ==
  ASSUME TypeOK, NEW s \in Tasks, NEW first \in BOOLEAN, RecordCharge(s, first),
         pc' \in [Tasks -> {"idle", "checked"}], due' \in [Tasks -> 0..(MaxIterations - 1)]
  PROVE  TypeOK'
<1>1. Cardinality(starts) \in Nat
  BY StartsCounted, FS_CardinalityType
<1>2. starts' \subseteq (0..MaxTime) \X (1..MaxStarts) /\ checked' \subseteq starts'
  <2>1. /\ now \in 0..MaxTime /\ checked \subseteq starts
        /\ starts \subseteq (0..MaxTime) \X (1..MaxStarts)
    BY DEF TypeOK
  <2>2. Cardinality(starts) + 1 \in 1..MaxStarts
    BY <1>1, BoundsAssumption DEF RecordCharge
  <2> QED BY <2>1, <2>2 DEF RecordCharge
<1>3. CASE any_limit_enabled
  <2>1. SessionOf[s] \in Sessions
    BY TasksAssumption
  <2>2. /\ calls' = CallsNow + 1 /\ spent' = SpentNow + Estimate
        /\ per_session' = [PerSessionNow EXCEPT ![SessionOf[s]] = @ + Estimate]
        /\ RollOver /\ UNCHANGED <<now, today>>
    BY <1>3 DEF RecordCharge, clock
  <2>3. /\ calls' \in Nat /\ spent' \in Nat /\ per_session' \in [Sessions -> Nat]
        /\ now' \in 0..MaxTime /\ hour_start' \in 0..now' /\ today' \in Days
        /\ day_id' \in Days
    BY <2>1, <2>2, CountersNow, EstimateAssumption DEF TypeOK, RollOver
  <2>4. CASE first
    <3>1. unseen' = UnseenNow
      BY <1>3, <2>4 DEF RecordCharge
    <3>2. unseen' \in [calls : 0..calls', spent : 0..spent', of : [Sessions -> Nat]]
      BY <2>2, <3>1, CountersNow, EstimateAssumption
    <3>3. \A x \in Sessions : unseen'.of[x] <= per_session'[x]
      BY <2>1, <2>2, <3>1, CountersNow, EstimateAssumption
    <3> QED BY <1>2, <2>3, <3>2, <3>3 DEF TypeOK
  <2>5. CASE ~first
    <3>1. unseen' = [calls |-> UnseenNow.calls + 1, spent |-> UnseenNow.spent + Estimate,
                     of |-> [UnseenNow.of EXCEPT ![SessionOf[s]] = @ + Estimate]]
      BY <1>3, <2>5 DEF RecordCharge
    <3>2. /\ UnseenNow.calls + 1 \in 0..calls' /\ UnseenNow.spent + Estimate \in 0..spent'
      BY <2>2, CountersNow, EstimateAssumption
    <3>3. [UnseenNow.of EXCEPT ![SessionOf[s]] = @ + Estimate] \in [Sessions -> Nat]
      BY <2>1, CountersNow, EstimateAssumption
    <3>4. unseen' \in [calls : 0..calls', spent : 0..spent', of : [Sessions -> Nat]]
      BY <3>1, <3>2, <3>3
    <3>5. \A x \in Sessions : unseen'.of[x] <= per_session'[x]
      BY <2>1, <2>2, <3>1, CountersNow, EstimateAssumption
    <3> QED BY <1>2, <2>3, <3>4, <3>5 DEF TypeOK
  <2> QED BY <2>4, <2>5
<1>4. CASE ~any_limit_enabled
  BY <1>2, <1>4 DEF RecordCharge, TypeOK, hour, day, clock
<1> QED BY <1>3, <1>4

(* The counters stay natural numbers, what they hold of unchecked charges  *)
(* never exceeds them, the hour window never starts in the future, and the *)
(* history holds no more charges than the bound allows.                    *)
THEOREM TypeCorrect == Spec => []TypeOK
<1>1. Init => TypeOK
  BY BoundsAssumption DEF Init, NothingSpent, TypeOK
<1>2. TypeOK /\ [Next]_vars => TypeOK'
  <2> SUFFICES ASSUME TypeOK, [Next]_vars PROVE TypeOK'
    OBVIOUS
  <2>1. ASSUME NEW s \in Tasks, Check(s) PROVE TypeOK'
    <3>1. CASE any_limit_enabled
      <4>1. /\ calls' = CallsNow /\ spent' = SpentNow /\ per_session' = PerSessionNow
            /\ unseen' = UnseenNow
        BY <2>1, <3>1 DEF Check
      <4>2. unseen' \in [calls : 0..calls', spent : 0..spent', of : [Sessions -> Nat]]
        BY <4>1, CountersNow
      <4> QED BY <2>1, <3>1, <4>1, <4>2, CountersNow DEF TypeOK, Check, RollOver, clock
    <3>2. CASE ~any_limit_enabled
      BY <2>1, <3>2 DEF TypeOK, Check, hour, day, clock
    <3> QED BY <3>1, <3>2
  <2>2. ASSUME NEW s \in Tasks, Charge(s) PROVE TypeOK'
    <3>1. /\ pc' \in [Tasks -> {"idle", "checked"}]
          /\ due' \in [Tasks -> 0..(MaxIterations - 1)]
      BY <2>2, BoundsAssumption DEF Charge, TypeOK
    <3> QED BY <2>2, <3>1, RecordTyped DEF Charge
  <2>3. ASSUME NEW s \in Tasks, ChargeRest(s) PROVE TypeOK'
    <3>1. /\ pc' \in [Tasks -> {"idle", "checked"}]
          /\ due' \in [Tasks -> 0..(MaxIterations - 1)]
      BY <2>3, BoundsAssumption DEF ChargeRest, TypeOK
    <3> QED BY <2>3, <3>1, RecordTyped DEF ChargeRest
  <2>4. ASSUME NEW s \in Tasks, StartFails(s) PROVE TypeOK'
    BY <2>4 DEF TypeOK, StartFails, hour, day, clock, history
  <2>5. CASE Tick
    BY <2>5, BoundsAssumption DEF TypeOK, Tick, task, hour, day, history
  <2>6. CASE NewDay
    BY <2>6 DEF TypeOK, NewDay, task, hour, day, history
  <2>7. CASE UNCHANGED vars
    BY <2>7 DEF TypeOK, vars, task, hour, day, clock, history
  <2> QED BY <2>1, <2>2, <2>3, <2>4, <2>5, <2>6, <2>7 DEF Next
<1> QED BY <1>1, <1>2, PTL DEF Spec

\* a step that is no check, charge or failed start leaves requests and
\* counters alone
LEMMA OtherSteps ==
  ASSUME Tick \/ NewDay \/ UNCHANGED vars
  PROVE  UNCHANGED <<pc, due, calls, spent, per_session, unseen>>
BY DEF Tick, NewDay, vars, task, hour, day, history

\* a charge needs a limit to count, and there is one
LEMMA LimitSet ==
  ASSUME HourLimit # Unlimited \/ DayLimit # Unlimited \/ SessionLimit # Unlimited
  PROVE  any_limit_enabled
BY DEF any_limit_enabled

(* The calls of an hour window that followed a check, with the requests in *)
(* flight, stay below the limit plus the number of tasks.                  *)
THEOREM HourlyTheorem == Spec => []HourlyOvershootBounded
<1>1. Init => HourlyOvershootBounded
  <2> SUFFICES ASSUME Init, HourLimit # Unlimited
               PROVE  (calls - unseen.calls) + Cardinality(InFlight)
                        < HourLimit + Cardinality(Tasks)
    BY DEF HourlyOvershootBounded
  <2>1. InFlight = {}
    BY DEF Init, InFlight
  <2> QED BY <2>1, TasksCounted, FS_EmptySet, LimitsAssumption DEF Init
<1>2. TypeOK /\ TypeOK' /\ HourlyOvershootBounded /\ [Next]_vars
        => HourlyOvershootBounded'
  <2> DEFINE Goal == SeenCalls' + Cardinality(InFlight') < HourLimit + Cardinality(Tasks)
  <2> SUFFICES ASSUME TypeOK, TypeOK', HourlyOvershootBounded, [Next]_vars,
                      HourLimit # Unlimited
               PROVE  Goal
    BY DEF HourlyOvershootBounded, SeenCalls
  <2>1. /\ HourLimit \in Nat /\ Cardinality(Tasks) \in Nat
        /\ SeenCalls \in Nat /\ SeenCallsNow \in Nat /\ SeenCallsNow <= SeenCalls
        /\ CallsNow \in Nat /\ SeenCallsNow <= CallsNow /\ any_limit_enabled
    BY LimitsAssumption, TasksCounted, SeenNow, CountersNow, LimitSet
  <2>2. /\ SeenCalls + Cardinality(InFlight) < HourLimit + Cardinality(Tasks)
        /\ Cardinality(InFlight) \in Nat
    <3>1. InFlight \cap Tasks = InFlight
      BY DEF InFlight
    <3> QED BY <3>1, InFlightFinite DEF HourlyOvershootBounded, SeenCalls
  <2>3. Cardinality(InFlight') \in Nat /\ Cardinality(InFlight') <= Cardinality(Tasks)
    BY FS_Subset, FS_CardinalityType, TasksAssumption DEF InFlight
  <2>4. ASSUME NEW s \in Tasks, Check(s) PROVE Goal
    <3>1. SeenCalls' = SeenCallsNow
      BY <2>1, <2>4, CheckSeen
    <3>2. CASE Passes(s)
      <4>1. CallsNow < HourLimit
        BY <3>2 DEF Passes
      <4> QED BY <2>1, <2>3, <3>1, <4>1
    <3>3. CASE ~Passes(s)
      <4>1. InFlight' = InFlight
        BY <2>1, <2>4, <3>3, CheckSeen
      <4> QED BY <2>1, <2>2, <3>1, <4>1
    <3> QED BY <3>2, <3>3
  <2>5. ASSUME NEW s \in Tasks, Charge(s) PROVE Goal
    <3>1. SeenCalls' = SeenCallsNow + 1
      BY <2>1, <2>5, RecordSeen DEF Charge
    <3>2. Cardinality(InFlight') = Cardinality(InFlight) - 1
      BY <2>5, RequestLeavesAll DEF Charge
    <3> QED BY <2>1, <2>2, <3>1, <3>2
  <2>6. ASSUME NEW s \in Tasks, ChargeRest(s) PROVE Goal
    <3>1. SeenCalls' = SeenCallsNow
      BY <2>1, <2>6, RecordSeen DEF ChargeRest
    <3>2. InFlight' = InFlight
      BY <2>6 DEF ChargeRest, InFlight
    <3> QED BY <2>1, <2>2, <3>1, <3>2
  <2>7. ASSUME NEW s \in Tasks, StartFails(s) PROVE Goal
    <3>1. SeenCalls' = SeenCalls
      BY <2>7 DEF StartFails, hour, history, SeenCalls
    <3>2. Cardinality(InFlight') = Cardinality(InFlight) - 1
      BY <2>7, RequestLeavesAll DEF StartFails
    <3> QED BY <2>1, <2>2, <3>1, <3>2
  <2>8. CASE Tick \/ NewDay \/ UNCHANGED vars
    BY <2>2, <2>8, OtherSteps DEF InFlight, SeenCalls
  <2> QED BY <2>4, <2>5, <2>6, <2>7, <2>8 DEF Next
<1> QED BY <1>1, <1>2, TypeCorrect, PTL DEF Spec
-----------------------------------------------------------------------------
(* A budget over a group of n tasks: what is spent and what the requests *)
(* of the group in flight will add overshoot the limit by less than one    *)
(* estimate per task.                                                      *)
Kept(amount, flying, limit, n) ==
  amount + Estimate * flying <= limit + Estimate * (n - 1)

\* a check that passed keeps the budget, however many requests are in flight
LEMMA KeptAfterPass ==
  ASSUME NEW amount \in Nat, NEW limit \in Nat, NEW k \in Nat, NEW n \in Nat,
         k <= n, amount + Estimate <= limit
  PROVE  Kept(amount, k, limit, n)
<1>1. Estimate * (n - k) >= 0
  BY EstimateAssumption
<1>2. Estimate * (n - 1) = Estimate * n - Estimate
  BY EstimateAssumption
<1>3. Estimate * (n - k) = Estimate * n - Estimate * k
  BY EstimateAssumption
<1>4. Estimate * n \in Int /\ Estimate * k \in Int
  BY EstimateAssumption
<1> QED BY <1>1, <1>2, <1>3, <1>4, EstimateAssumption DEF Kept

\* a smaller amount and fewer requests in flight keep it
LEMMA KeptShrinks ==
  ASSUME NEW a \in Nat, NEW b \in Nat, NEW j \in Nat, NEW k \in Nat,
         NEW limit \in Nat, NEW n \in Nat, b <= a, j <= k, Kept(a, k, limit, n)
  PROVE  Kept(b, j, limit, n)
<1>1. Estimate * (k - j) >= 0
  BY EstimateAssumption
<1>2. Estimate * (k - j) = Estimate * k - Estimate * j
  BY EstimateAssumption
<1>3. /\ Estimate * k \in Int /\ Estimate * j \in Int
      /\ Estimate * (n - 1) \in Int
  BY EstimateAssumption
<1> QED BY <1>1, <1>2, <1>3 DEF Kept

\* a charge moves one estimate from the requests in flight to the amount
LEMMA KeptAfterCharge ==
  ASSUME NEW a \in Nat, NEW b \in Nat, NEW k \in Nat \ {0},
         NEW limit \in Nat, NEW n \in Nat, b <= a, Kept(a, k, limit, n)
  PROVE  Kept(b + Estimate, k - 1, limit, n)
<1>1. Estimate * (k - 1) = Estimate * k - Estimate
  BY EstimateAssumption
<1>2. Estimate * k \in Int /\ Estimate * (n - 1) \in Int
  BY EstimateAssumption
<1> QED BY <1>1, <1>2, EstimateAssumption DEF Kept

\* with nothing in flight and nothing spent it is kept, if there is a task
LEMMA KeptAtFirst ==
  ASSUME NEW limit \in Nat, NEW n \in Nat \ {0}
  PROVE  Kept(0, 0, limit, n)
<1>1. Estimate * (n - 1) >= 0 /\ Estimate * 0 = 0
  BY EstimateAssumption
<1>2. Estimate * (n - 1) \in Int
  BY EstimateAssumption
<1> QED BY <1>1, <1>2 DEF Kept

(* What is spent in a day on requests that were checked, with the          *)
(* estimates of those in flight, overshoots the day's budget by less than  *)
(* one estimate per task.                                                  *)
THEOREM DailyTheorem == Spec => []DailyOvershootBounded
<1> DEFINE Inv == Kept(SeenSpent, Cardinality(InFlight), DayLimit, Cardinality(Tasks))
<1>0. DailyOvershootBounded <=> (DayLimit # Unlimited => Inv)
  BY DEF DailyOvershootBounded, Kept, SeenSpent
<1>1. Init => (DayLimit # Unlimited => Inv)
  <2> SUFFICES ASSUME Init, DayLimit # Unlimited PROVE Inv
    OBVIOUS
  <2>1. InFlight = {} /\ SeenSpent = 0
    BY DEF Init, InFlight, SeenSpent
  <2> QED BY <2>1, TasksCounted, FS_EmptySet, LimitsAssumption, KeptAtFirst
<1>2. TypeOK /\ TypeOK' /\ (DayLimit # Unlimited => Inv) /\ [Next]_vars
        => (DayLimit # Unlimited => Inv)'
  <2> SUFFICES ASSUME TypeOK, TypeOK', DayLimit # Unlimited, Inv, [Next]_vars
               PROVE  Inv'
    OBVIOUS
  <2>1. /\ DayLimit \in Nat /\ Cardinality(Tasks) \in Nat
        /\ SeenSpent \in Nat /\ SeenSpentNow \in Nat /\ SeenSpentNow <= SeenSpent
        /\ SpentNow \in Nat /\ SeenSpentNow <= SpentNow /\ any_limit_enabled
    BY LimitsAssumption, TasksCounted, SeenNow, CountersNow, LimitSet
  <2>2. Cardinality(InFlight) \in Nat
    BY FS_Subset, FS_CardinalityType, TasksAssumption DEF InFlight
  <2>3. /\ Cardinality(InFlight') \in Nat
        /\ Cardinality(InFlight') <= Cardinality(Tasks)
    BY FS_Subset, FS_CardinalityType, TasksAssumption DEF InFlight
  <2>4. ASSUME NEW s \in Tasks, Check(s) PROVE Inv'
    <3>1. SeenSpent' = SeenSpentNow
      BY <2>1, <2>4, CheckSeen
    <3>2. CASE Passes(s)
      <4>1. SpentNow + Estimate <= DayLimit
        BY <2>1, <3>2 DEF Passes, Within
      <4>2. SeenSpentNow + Estimate <= DayLimit
        BY <2>1, <4>1, EstimateAssumption
      <4> QED BY <2>1, <2>3, <3>1, <4>2, KeptAfterPass
    <3>3. CASE ~Passes(s)
      <4>1. InFlight' = InFlight
        BY <2>1, <2>4, <3>3, CheckSeen
      <4> QED BY <2>1, <2>2, <3>1, <4>1, KeptShrinks
    <3> QED BY <3>2, <3>3
  <2>5. ASSUME NEW s \in Tasks, Charge(s) PROVE Inv'
    <3>1. SeenSpent' = SeenSpentNow + Estimate
      BY <2>1, <2>5, RecordSeen DEF Charge
    <3>2. Cardinality(InFlight') = Cardinality(InFlight) - 1
      BY <2>5, RequestLeavesAll DEF Charge
    <3>3. Cardinality(InFlight) \in Nat \ {0}
      BY <2>2, <2>3, <3>2
    <3> QED BY <2>1, <3>1, <3>2, <3>3, KeptAfterCharge
  <2>6. ASSUME NEW s \in Tasks, ChargeRest(s) PROVE Inv'
    <3>1. SeenSpent' = SeenSpentNow
      BY <2>1, <2>6, RecordSeen DEF ChargeRest
    <3>2. InFlight' = InFlight
      BY <2>6 DEF ChargeRest, InFlight
    <3> QED BY <2>1, <2>2, <3>1, <3>2, KeptShrinks
  <2>7. ASSUME NEW s \in Tasks, StartFails(s) PROVE Inv'
    <3>1. SeenSpent' = SeenSpent
      BY <2>7 DEF StartFails, day, history, SeenSpent
    <3>2. Cardinality(InFlight') = Cardinality(InFlight) - 1
      BY <2>7, RequestLeavesAll DEF StartFails
    <3>3. /\ SeenSpent' \in Nat /\ SeenSpent' <= SeenSpent
          /\ Cardinality(InFlight') <= Cardinality(InFlight)
      BY <2>1, <2>2, <3>1, <3>2
    <3> QED BY <2>1, <2>2, <2>3, <3>3, KeptShrinks
  <2>8. CASE Tick \/ NewDay \/ UNCHANGED vars
    BY <2>8, OtherSteps DEF InFlight, SeenSpent
  <2> QED BY <2>4, <2>5, <2>6, <2>7, <2>8 DEF Next
<1> QED BY <1>0, <1>1, <1>2, TypeCorrect, PTL DEF Spec

(* The same for the budget of each session, over the session's own tasks;  *)
(* only a turn run as a whole charges a session with no check.             *)
SessionInv ==
  /\ SessionLimit # Unlimited =>
       \A x \in Sessions :
         TasksOf(x) # {} =>
           Kept(SeenOf(x), Cardinality(InFlightOf(x)), SessionLimit,
                Cardinality(TasksOf(x)))
  /\ \A s \in Tasks : due[s] > 0 => s \in Runs
  /\ \A x \in Sessions : TasksOf(x) \cap Runs = {} => unseen.of[x] = 0

\* the tasks of a session are a finite group, its requests in flight fewer
LEMMA SessionGroup ==
  ASSUME NEW x \in Sessions
  PROVE  /\ TasksOf(x) \in SUBSET Tasks
         /\ IsFiniteSet(TasksOf(x)) /\ Cardinality(TasksOf(x)) \in Nat
         /\ TasksOf(x) # {} => Cardinality(TasksOf(x)) \in Nat \ {0}
         /\ InFlightOf(x) = InFlight \cap TasksOf(x)
         /\ Cardinality(InFlightOf(x)) \in Nat
         /\ Cardinality(InFlightOf(x)) <= Cardinality(TasksOf(x))
<1>1. TasksOf(x) \in SUBSET Tasks
  BY DEF TasksOf
<1>2. IsFiniteSet(TasksOf(x))
  BY <1>1, FS_Subset, TasksAssumption
<1>3. InFlightOf(x) = InFlight \cap TasksOf(x)
  BY DEF InFlightOf
<1>4. /\ Cardinality(InFlight \cap TasksOf(x)) \in Nat
      /\ Cardinality(InFlight \cap TasksOf(x)) <= Cardinality(TasksOf(x))
      /\ Cardinality(TasksOf(x)) \in Nat
  BY <1>1, InFlightFinite
<1>5. TasksOf(x) # {} => Cardinality(TasksOf(x)) # 0
  BY <1>2, FS_EmptySet
<1> QED BY <1>1, <1>2, <1>3, <1>4, <1>5

\* a budget shared by several tasks is overshot, one held by a single task
\* is kept: its next check comes after its charge
LEMMA SessionInvImplies == TypeOK /\ SessionInv => SessionBudgetKept
<1> SUFFICES ASSUME TypeOK, SessionInv, SessionLimit # Unlimited,
                    NEW x \in Sessions, Cardinality(TasksOf(x)) = 1
             PROVE  /\ per_session[x] - unseen.of[x] <= SessionLimit
                    /\ TasksOf(x) \cap Runs = {} => per_session[x] <= SessionLimit
  BY DEF SessionBudgetKept
<1>1. TasksOf(x) # {}
  BY FS_EmptySet
<1>2. /\ SeenOf(x) \in Nat /\ SessionLimit \in Nat
      /\ Cardinality(InFlightOf(x)) \in Nat
  BY SessionGroup, LimitsAssumption, SeenNow
<1>3. SeenOf(x) + Estimate * Cardinality(InFlightOf(x))
        <= SessionLimit + Estimate * (1 - 1)
  BY <1>1 DEF SessionInv, Kept
<1>4. /\ Estimate * Cardinality(InFlightOf(x)) \in Nat
      /\ Estimate * (1 - 1) = 0
  BY <1>2, EstimateAssumption
<1>5. SeenOf(x) <= SessionLimit
  BY <1>2, <1>3, <1>4
<1>6. TasksOf(x) \cap Runs = {} => unseen.of[x] = 0
  BY DEF SessionInv
<1>7. per_session[x] \in Nat
  BY DEF TypeOK
<1> QED BY <1>5, <1>6, <1>7 DEF SeenOf

\* a session without whole turns is only ever charged after a check
LEMMA OnlyRunsUnseen ==
  ASSUME TypeOK, SessionInv, [Next]_vars
  PROVE  /\ \A s \in Tasks : due'[s] > 0 => s \in Runs
         /\ \A x \in Sessions : TasksOf(x) \cap Runs = {} => unseen'.of[x] = 0
<1>1. /\ \A s \in Tasks : due[s] > 0 => s \in Runs
      /\ \A x \in Sessions : TasksOf(x) \cap Runs = {} => unseen.of[x] = 0
      /\ \A s \in Tasks : due[s] \in 0..(MaxIterations - 1)
      /\ due \in [Tasks -> 0..(MaxIterations - 1)]
  BY DEF SessionInv, TypeOK
<1>2. \A x \in Sessions : TasksOf(x) \cap Runs = {} => UnseenNow.of[x] = 0
  BY <1>1 DEF UnseenNow, NothingSpent
<1>3. ASSUME NEW s \in Tasks, Check(s)
      PROVE  /\ due' = due
             /\ \A x \in Sessions : TasksOf(x) \cap Runs = {} => unseen'.of[x] = 0
  BY <1>1, <1>2, <1>3 DEF Check
<1>4. ASSUME NEW s \in Tasks, Charge(s)
      PROVE  /\ \A t \in Tasks : due'[t] > 0 => t \in Runs
             /\ \A x \in Sessions : TasksOf(x) \cap Runs = {} => unseen'.of[x] = 0
  <2>1. \A t \in Tasks : due'[t] > 0 => t \in Runs
    <3>1. PICK more \in IF s \in Runs THEN 0..(MaxIterations - 1) ELSE {0} :
                 due' = [due EXCEPT ![s] = more]
      BY <1>4 DEF Charge
    <3> QED BY <1>1, <3>1
  <2>2. unseen' = UnseenNow \/ unseen' = unseen
    BY <1>4 DEF Charge, RecordCharge
  <2> QED BY <1>1, <1>2, <2>1, <2>2
<1>5. ASSUME NEW s \in Tasks, ChargeRest(s)
      PROVE  /\ \A t \in Tasks : due'[t] > 0 => t \in Runs
             /\ \A x \in Sessions : TasksOf(x) \cap Runs = {} => unseen'.of[x] = 0
  <2>1. s \in Runs
    BY <1>1, <1>5 DEF ChargeRest
  <2>2. \A t \in Tasks : due'[t] > 0 => t \in Runs
    <3>1. due' = [due EXCEPT ![s] = @ - 1]
      BY <1>5 DEF ChargeRest
    <3> QED BY <1>1, <2>1, <3>1
  <2>3. ASSUME NEW x \in Sessions, TasksOf(x) \cap Runs = {} PROVE unseen'.of[x] = 0
    <3>1. SessionOf[s] # x
      BY <2>1, <2>3 DEF TasksOf
    <3>2. UnseenNow.of \in [Sessions -> Nat]
      BY CountersNow
    <3>3. unseen' = unseen
            \/ unseen'.of = [UnseenNow.of EXCEPT ![SessionOf[s]] = @ + Estimate]
      BY <1>5 DEF ChargeRest, RecordCharge
    <3> QED BY <1>1, <1>2, <2>3, <3>1, <3>2, <3>3
  <2> QED BY <2>2, <2>3
<1>6. ASSUME NEW s \in Tasks, StartFails(s) PROVE UNCHANGED <<due, unseen>>
  BY <1>6 DEF StartFails, history
<1>7. CASE Tick \/ NewDay \/ UNCHANGED vars
  BY <1>1, <1>7, OtherSteps
<1> QED BY <1>1, <1>3, <1>4, <1>5, <1>6, <1>7 DEF Next

(* A session that runs one turn at a time keeps its own budget but for the *)
(* unchecked iterations of whole turns, whatever the other sessions spend  *)
(* and whenever the day changes.                                           *)
THEOREM SessionTheorem == Spec => []SessionBudgetKept
<1>1. Init => SessionInv
  <2>1. ASSUME Init, SessionLimit # Unlimited, NEW x \in Sessions, TasksOf(x) # {}
        PROVE  Kept(SeenOf(x), Cardinality(InFlightOf(x)), SessionLimit,
                    Cardinality(TasksOf(x)))
    <3>1. InFlightOf(x) = {} /\ SeenOf(x) = 0
      BY <2>1 DEF Init, InFlight, InFlightOf, NothingSpent, SeenOf
    <3> QED BY <2>1, <3>1, SessionGroup, FS_EmptySet, LimitsAssumption, KeptAtFirst
  <2>2. ASSUME Init
        PROVE  /\ \A s \in Tasks : due[s] > 0 => s \in Runs
               /\ \A x \in Sessions : unseen.of[x] = 0
    BY <2>2 DEF Init, NothingSpent
  <2> QED BY <2>1, <2>2 DEF SessionInv
<1>2. TypeOK /\ TypeOK' /\ SessionInv /\ [Next]_vars => SessionInv'
  <2> SUFFICES ASSUME TypeOK, TypeOK', SessionInv, [Next]_vars,
                      SessionLimit # Unlimited, NEW x \in Sessions,
                      TasksOf(x) # {}
               PROVE  Kept(SeenOf(x), Cardinality(InFlightOf(x)),
                           SessionLimit, Cardinality(TasksOf(x)))'
    BY OnlyRunsUnseen DEF SessionInv, TasksOf
  <2> DEFINE a == SeenOf(x)
             b == SeenOfNow(x)
             k == Cardinality(InFlightOf(x))
             n == Cardinality(TasksOf(x))
  <2>0. SUFFICES Kept(a', k', SessionLimit, n)
    BY DEF Kept, TasksOf, SeenOf
  <2>1. /\ SessionLimit \in Nat /\ n \in Nat \ {0} /\ k \in Nat
        /\ a \in Nat /\ b \in Nat /\ b <= a /\ any_limit_enabled
    BY LimitsAssumption, SessionGroup, SeenNow, LimitSet
  <2>2. k' \in Nat /\ k' <= n
    <3>1. InFlightOf(x)' \subseteq TasksOf(x)
      BY DEF InFlightOf, TasksOf
    <3> QED BY <3>1, SessionGroup, FS_Subset, FS_CardinalityType
  <2>3. Kept(a, k, SessionLimit, n)
    BY DEF SessionInv
  <2>9. /\ \A s \in Tasks : Check(s) =>
             a' = b /\ (~Passes(s) => InFlightOf(x)' = InFlightOf(x))
        /\ \A s \in Tasks : Charge(s) =>
             a' = IF SessionOf[s] = x THEN b + Estimate ELSE b
        /\ \A s \in Tasks : ChargeRest(s) => a' = b
        /\ \A s \in Tasks : StartFails(s) => a' = a
    <3>1. ASSUME NEW s \in Tasks, Check(s)
          PROVE  a' = b /\ (~Passes(s) => InFlightOf(x)' = InFlightOf(x))
      BY <2>1, <3>1, CheckSeen DEF InFlightOf, TasksOf
    <3>2. ASSUME NEW s \in Tasks, Charge(s)
          PROVE  a' = IF SessionOf[s] = x THEN b + Estimate ELSE b
      BY <2>1, <3>2, RecordSeen DEF Charge
    <3>3. ASSUME NEW s \in Tasks, ChargeRest(s) PROVE a' = b
      BY <2>1, <3>3, RecordSeen DEF ChargeRest
    <3>4. ASSUME NEW s \in Tasks, StartFails(s) PROVE a' = a
      BY <3>4 DEF StartFails, day, history, SeenOf
    <3> QED BY <3>1, <3>2, <3>3, <3>4
  <2>10. PerSessionNow[x] \in Nat /\ b <= PerSessionNow[x]
    BY SeenNow, CountersNow
  <2> HIDE DEF a, b, k, n
  <2>4. ASSUME NEW s \in Tasks, Check(s) PROVE Kept(a', k', SessionLimit, n)
    <3>1. a' = b
      BY <2>4, <2>9
    <3>2. CASE Passes(s) /\ SessionOf[s] = x
      <4>1. PerSessionNow[x] + Estimate <= SessionLimit
        BY <2>1, <3>2 DEF Passes, Within
      <4>2. b + Estimate <= SessionLimit
        BY <2>1, <2>10, <4>1, EstimateAssumption
      <4> QED BY <2>1, <2>2, <3>1, <4>2, KeptAfterPass
    <3>3. CASE ~(Passes(s) /\ SessionOf[s] = x)
      <4>1. InFlightOf(x)' = InFlightOf(x)
        BY <2>1, <2>4, <3>3 DEF Check, InFlight, InFlightOf, TasksOf, TypeOK
      <4>2. k' = k
        BY <4>1 DEF k
      <4> QED BY <2>1, <2>3, <3>1, <4>2, KeptShrinks
    <3> QED BY <3>2, <3>3
  <2>5. ASSUME NEW s \in Tasks, pc[s] = "checked",
               pc' = [pc EXCEPT ![s] = "idle"]
        PROVE  k' = IF SessionOf[s] = x THEN k - 1 ELSE k
    <3>1. s \in TasksOf(x) <=> SessionOf[s] = x
      BY DEF TasksOf
    <3>2. TasksOf(x) \in SUBSET Tasks
      BY SessionGroup
    <3>3. Cardinality(InFlight' \cap TasksOf(x)) =
            IF s \in TasksOf(x)
            THEN Cardinality(InFlight \cap TasksOf(x)) - 1
            ELSE Cardinality(InFlight \cap TasksOf(x))
      BY <2>5, <3>2, RequestLeaves
    <3>4. InFlightOf(x)' = InFlight' \cap TasksOf(x)
      BY DEF InFlightOf, TasksOf
    <3> QED BY <3>1, <3>3, <3>4 DEF k, InFlightOf
  <2>6. ASSUME NEW s \in Tasks, Charge(s) PROVE Kept(a', k', SessionLimit, n)
    <3>1. a' = IF SessionOf[s] = x THEN b + Estimate ELSE b
      BY <2>6, <2>9
    <3>2. k' = IF SessionOf[s] = x THEN k - 1 ELSE k
      BY <2>5, <2>6 DEF Charge
    <3>3. CASE SessionOf[s] = x
      <4>1. k \in Nat \ {0}
        BY <2>1, <2>2, <3>2, <3>3
      <4> QED BY <2>1, <2>3, <3>1, <3>2, <3>3, <4>1, KeptAfterCharge
    <3>4. CASE SessionOf[s] # x
      BY <2>1, <2>3, <3>1, <3>2, <3>4, KeptShrinks
    <3> QED BY <3>3, <3>4
  <2>7. ASSUME NEW s \in Tasks, ChargeRest(s) PROVE Kept(a', k', SessionLimit, n)
    <3>1. a' = b
      BY <2>7, <2>9
    <3>2. k' = k
      BY <2>7 DEF ChargeRest, InFlight, InFlightOf, TasksOf, k
    <3> QED BY <2>1, <2>3, <3>1, <3>2, KeptShrinks
  <2>8. ASSUME NEW s \in Tasks, StartFails(s)
        PROVE  Kept(a', k', SessionLimit, n)
    <3>1. a' = a
      BY <2>8, <2>9
    <3>2. k' = IF SessionOf[s] = x THEN k - 1 ELSE k
      BY <2>5, <2>8 DEF StartFails
    <3> QED BY <2>1, <2>2, <2>3, <3>1, <3>2, KeptShrinks
  <2>11. CASE Tick \/ NewDay \/ UNCHANGED vars
    <3>1. a' = a /\ InFlightOf(x)' = InFlightOf(x)
      BY <2>11, OtherSteps DEF InFlight, InFlightOf, TasksOf, SeenOf, a
    <3>2. k' = k
      BY <3>1 DEF k
    <3> QED BY <2>3, <3>1, <3>2
  <2> QED BY <2>4, <2>6, <2>7, <2>8, <2>11 DEF Next
<1> QED BY <1>1, <1>2, SessionInvImplies, TypeCorrect, PTL DEF Spec
-----------------------------------------------------------------------------
(* Any hour.  The windows do not overlap, so an hour that begins inside a  *)
(* window meets at most that one and its successor.  The invariant counts  *)
(* the charges of the present window, those of a stretch that ends where   *)
(* the present window begins and is shorter than an hour, and those of any *)
(* hour.                                                                   *)

\* what one window of the guard may hold
WindowLimit == HourLimit + Cardinality(Tasks) - 1

\* the charges of S from tick a on and before tick b
Charged(S, a, b) == {x \in S : a <= x[1] /\ x[1] < b}

Windows(S, window, n) ==
  /\ \A x \in S : x[1] < window + Hour
  /\ Cardinality(Charged(S, window, window + Hour)) <= n
  /\ \A t \in Nat : t + Hour > window => Cardinality(Charged(S, t, window)) <= WindowLimit
  /\ \A t \in Nat : Cardinality(Charged(S, t, t + Hour)) <= 2 * WindowLimit

Ticked(S) == IsFiniteSet(S) /\ \A x \in S : x[1] \in Nat

\* part of the charges can be counted, and is no more than the whole
LEMMA ChargedCounted ==
  ASSUME NEW S, IsFiniteSet(S), NEW T \in SUBSET S, NEW U \in SUBSET T
  PROVE  /\ IsFiniteSet(T) /\ Cardinality(T) \in Nat /\ Cardinality(U) \in Nat
         /\ Cardinality(U) <= Cardinality(T)
<1>1. IsFiniteSet(T)
  BY FS_Subset
<1>2. IsFiniteSet(U) /\ Cardinality(U) <= Cardinality(T)
  BY <1>1, FS_Subset
<1> QED BY <1>1, <1>2, FS_CardinalityType

\* a new window begins when the old one is over, with no charge in it
LEMMA WindowsRollOver ==
  ASSUME NEW S, Ticked(S), NEW window \in Nat, NEW n \in Nat, NEW tick \in Nat,
         WindowLimit \in Nat, n <= WindowLimit,
         tick - window >= Hour, Windows(S, window, n)
  PROVE  Windows(S, tick, 0)
<1>1. \A x \in S : x[1] \in Nat /\ x[1] < window + Hour
  BY DEF Windows, Ticked
<1>2. Charged(S, tick, tick + Hour) = {}
  BY <1>1, HourAssumption DEF Charged
<1>3. ASSUME NEW t \in Nat, t + Hour > tick
      PROVE  Cardinality(Charged(S, t, tick)) <= WindowLimit
  <2>1. Charged(S, t, tick) \subseteq Charged(S, window, window + Hour)
    BY <1>1, <1>3, HourAssumption DEF Charged
  <2>2. /\ Cardinality(Charged(S, t, tick)) \in Nat
        /\ Cardinality(Charged(S, window, window + Hour)) \in Nat
        /\ Cardinality(Charged(S, t, tick))
             <= Cardinality(Charged(S, window, window + Hour))
    <3> DEFINE T == Charged(S, window, window + Hour)
    <3>1. T \in SUBSET S /\ Charged(S, t, tick) \in SUBSET T
      BY <2>1 DEF Charged
    <3> HIDE DEF T
    <3>2. /\ Cardinality(T) \in Nat /\ Cardinality(Charged(S, t, tick)) \in Nat
          /\ Cardinality(Charged(S, t, tick)) <= Cardinality(T)
      BY <3>1, ChargedCounted DEF Ticked
    <3> QED BY <3>2 DEF T
  <2> QED BY <2>2 DEF Windows
<1>4. \A x \in S : x[1] < tick + Hour
  BY <1>1, HourAssumption
<1>5. Cardinality(Charged(S, tick, tick + Hour)) <= 0
  BY <1>2, FS_EmptySet
<1>6. \A t \in Nat : Cardinality(Charged(S, t, t + Hour)) <= 2 * WindowLimit
  BY DEF Windows
<1> QED BY <1>3, <1>4, <1>5, <1>6 DEF Windows

\* a charge inside the window that keeps its limit keeps that of any hour
LEMMA WindowsCharge ==
  ASSUME NEW S, Ticked(S), NEW window \in Nat, NEW n \in Nat, NEW x,
         WindowLimit \in Nat, n + 1 <= WindowLimit,
         x[1] \in Nat, window <= x[1], x[1] < window + Hour, Windows(S, window, n)
  PROVE  Windows(S \cup {x}, window, n + 1)
<1> DEFINE S1 == S \cup {x}
           Cur == Charged(S, window, window + Hour)
           Cur1 == Charged(S1, window, window + Hour)
<1>1. Cur1 = Cur \cup {x}
  BY DEF Charged
<1>2. IsFiniteSet(Cur) /\ Cardinality(Cur) \in Nat /\ Cardinality(Cur) <= n
  <2>1. Cur \in SUBSET S
    BY DEF Charged
  <2> QED BY <2>1, FS_Subset, FS_CardinalityType DEF Windows, Ticked
<1>3. IsFiniteSet(Cur1) /\ Cardinality(Cur1) \in Nat /\ Cardinality(Cur1) <= n + 1
  <2> HIDE DEF Cur, Cur1
  <2>1. /\ IsFiniteSet(Cur1)
        /\ Cardinality(Cur1) = IF x \in Cur THEN Cardinality(Cur) ELSE Cardinality(Cur) + 1
    BY <1>1, <1>2, FS_AddElement
  <2> QED BY <1>2, <2>1
<1>4. \A t \in Nat : Charged(S1, t, window) = Charged(S, t, window)
  BY DEF Charged
<1>5. ASSUME NEW t \in Nat
      PROVE  Cardinality(Charged(S1, t, t + Hour)) <= 2 * WindowLimit
  <2>1. CASE t + Hour <= window
    <3>1. Charged(S1, t, t + Hour) = Charged(S, t, t + Hour)
      BY <2>1, HourAssumption DEF Charged
    <3> QED BY <3>1 DEF Windows
  <2>2. CASE t + Hour > window
    <3> DEFINE Old == Charged(S, t, window)
               In == Charged(S1, t, t + Hour)
    <3>1. In \subseteq Old \cup Cur1
      BY HourAssumption DEF Charged, Windows, Ticked
    <3>2. IsFiniteSet(Old) /\ Cardinality(Old) \in Nat /\ Cardinality(Old) <= WindowLimit
      <4>1. Old \in SUBSET S
        BY DEF Charged
      <4> QED BY <2>2, <4>1, FS_Subset, FS_CardinalityType DEF Windows, Ticked
    <3> HIDE DEF Old, In, Cur1
    <3>3. /\ IsFiniteSet(Old \cup Cur1)
          /\ Cardinality(Old \cup Cur1)
               = Cardinality(Old) + Cardinality(Cur1) - Cardinality(Old \cap Cur1)
      BY <1>3, <3>2, FS_Union
    <3>4. Cardinality(Old \cap Cur1) \in Nat
      BY <3>2, FS_Subset, FS_CardinalityType
    <3>5. Cardinality(In) \in Nat /\ Cardinality(In) <= Cardinality(Old \cup Cur1)
      BY <3>1, <3>3, FS_Subset, FS_CardinalityType
    <3>6. Cardinality(In) <= 2 * WindowLimit
      BY <1>3, <3>2, <3>3, <3>4, <3>5
    <3> QED BY <3>6 DEF In
  <2> QED BY <2>1, <2>2, HourAssumption
<1> QED BY <1>3, <1>4, <1>5 DEF Windows

\* those that were checked can be counted, and have a tick
LEMMA StartsTicked == TypeOK => Ticked(checked)
<1> SUFFICES ASSUME TypeOK PROVE Ticked(checked)
  OBVIOUS
<1>1. checked \subseteq (0..MaxTime) \X (1..MaxStarts) /\ checked \subseteq starts
  BY DEF TypeOK
<1>2. IsFiniteSet(checked)
  BY <1>1, StartsCounted, FS_Subset
<1> QED BY <1>1, <1>2 DEF Ticked

\* no window ever holds more checked calls than its limit
LEMMA WindowCalls ==
  ASSUME TypeOK, HourlyOvershootBounded, HourLimit # Unlimited
  PROVE  WindowLimit \in Nat /\ SeenCalls \in Nat /\ SeenCalls <= WindowLimit
<1>1. Cardinality(InFlight) \in Nat
  BY FS_Subset, FS_CardinalityType, TasksAssumption DEF InFlight
<1>2. SeenCalls \in Nat /\ HourLimit \in Nat
  BY SeenNow, LimitsAssumption
<1>3. SeenCalls + Cardinality(InFlight) < HourLimit + Cardinality(Tasks)
  BY DEF HourlyOvershootBounded, SeenCalls
<1> QED
  BY <1>1, <1>2, <1>3, TasksCounted DEF WindowLimit

RollingInv == HourLimit # Unlimited => Windows(checked, hour_start, SeenCalls)

(* No hour, wherever it begins, sees more checked charges than two windows *)
(* of the guard may hold, for every limit and every number of tasks.       *)
THEOREM RollingTheorem == Spec => []RollingHourAtMostDouble
<1>1. Init /\ TypeOK /\ HourlyOvershootBounded => RollingInv
  <2> SUFFICES ASSUME Init, TypeOK, HourlyOvershootBounded, HourLimit # Unlimited
               PROVE  Windows(checked, hour_start, SeenCalls)
    BY DEF RollingInv
  <2>1. /\ \A a, b : Charged(checked, a, b) = {}
        /\ checked = {} /\ SeenCalls = 0 /\ hour_start = 0
    BY DEF Init, Charged, SeenCalls
  <2> QED BY <2>1, FS_EmptySet, WindowCalls DEF Windows
<1>2. TypeOK /\ TypeOK' /\ HourlyOvershootBounded /\ HourlyOvershootBounded'
        /\ RollingInv /\ [Next]_vars => RollingInv'
  <2> SUFFICES ASSUME TypeOK, TypeOK', HourlyOvershootBounded, HourlyOvershootBounded',
                      RollingInv, [Next]_vars, HourLimit # Unlimited
               PROVE  Windows(checked, hour_start, SeenCalls)'
    BY DEF RollingInv
  <2> DEFINE S == checked
             S1 == S'
             Goal == Windows(S1, hour_start', SeenCalls')
             window == IF HourOver THEN now ELSE hour_start
  <2>0. SUFFICES Goal
    BY DEF Windows, Charged, WindowLimit
  <2>1. /\ Windows(S, hour_start, SeenCalls) /\ Ticked(S)
        /\ hour_start \in Nat /\ now \in Nat /\ any_limit_enabled
        /\ hour_start <= now
    BY StartsTicked, BoundsAssumption, LimitSet DEF RollingInv, TypeOK
  <2>2. WindowLimit \in Nat /\ SeenCalls \in Nat /\ SeenCalls <= WindowLimit
    BY WindowCalls
  <2>3. SeenCalls' \in Nat /\ SeenCalls' <= WindowLimit
    <3>1. Cardinality(InFlight') \in Nat
      BY FS_Subset, FS_CardinalityType, TasksAssumption DEF InFlight
    <3>2. SeenCalls' \in Nat
      BY DEF TypeOK, SeenCalls
    <3>3. SeenCalls' + Cardinality(InFlight') < HourLimit + Cardinality(Tasks)
      BY DEF HourlyOvershootBounded, SeenCalls
    <3> QED BY <3>1, <3>2, <3>3, LimitsAssumption, TasksCounted DEF WindowLimit
  <2>4. Windows(S, window, SeenCallsNow) /\ window \in Nat /\ SeenCallsNow \in Nat
    <3>1. CASE HourOver
      <4>1. SeenCallsNow = 0
        BY <3>1 DEF SeenCallsNow, CallsNow, UnseenNow
      <4>2. Windows(S, now, 0)
        BY <2>1, <2>2, <3>1, WindowsRollOver DEF HourOver
      <4> QED BY <2>1, <3>1, <4>1, <4>2
    <3>2. CASE ~HourOver
      <4>1. SeenCallsNow = SeenCalls
        BY <3>2 DEF SeenCallsNow, SeenCalls, CallsNow, UnseenNow
      <4> QED BY <2>1, <2>2, <3>2, <4>1
    <3> QED BY <3>1, <3>2
  <2>5. ASSUME NEW s \in Tasks, Check(s) PROVE Goal
    <3>1. SeenCalls' = SeenCallsNow
      BY <2>1, <2>5, CheckSeen
    <3>2. hour_start' = window /\ S1 = S
      BY <2>1, <2>5 DEF Check, RollOver
    <3> QED BY <2>4, <3>1, <3>2
  <2>6. ASSUME NEW s \in Tasks, Charge(s) PROVE Goal
    <3> DEFINE x == <<now, Cardinality(starts) + 1>>
    <3>1. hour_start' = window
      BY <2>1, <2>6 DEF Charge, RecordCharge, RollOver
    <3>2. S1 = S \cup {x}
      BY <2>6 DEF Charge, RecordCharge
    <3>3. SeenCalls' = SeenCallsNow + 1
      BY <2>1, <2>6, RecordSeen DEF Charge
    <3>4. x[1] = now /\ window <= now /\ now < window + Hour
      BY <2>1, HourAssumption DEF HourOver
    <3> HIDE DEF x, window, S, S1
    <3>5. Windows(S \cup {x}, window, SeenCallsNow + 1)
      BY <2>1, <2>2, <2>3, <2>4, <3>3, <3>4, WindowsCharge
    <3> QED BY <3>1, <3>2, <3>3, <3>5
  <2>7. ASSUME NEW s \in Tasks, ChargeRest(s) PROVE Goal
    <3>1. SeenCalls' = SeenCallsNow
      BY <2>1, <2>7, RecordSeen DEF ChargeRest
    <3>2. hour_start' = window /\ S1 = S
      BY <2>1, <2>7 DEF ChargeRest, RecordCharge, RollOver
    <3> QED BY <2>4, <3>1, <3>2
  <2>8. ASSUME NEW s \in Tasks, StartFails(s) PROVE Goal
    BY <2>1, <2>8 DEF StartFails, hour, history, SeenCalls
  <2>9. CASE Tick \/ NewDay \/ UNCHANGED vars
    BY <2>1, <2>9 DEF Tick, NewDay, vars, hour, history, SeenCalls
  <2> QED BY <2>5, <2>6, <2>7, <2>8, <2>9 DEF Next
<1>3. TypeOK /\ RollingInv => RollingHourAtMostDouble
  <2> SUFFICES ASSUME TypeOK, Windows(checked, hour_start, SeenCalls),
                      NEW t \in 0..now
               PROVE  Cardinality(InHourFrom(t, checked))
                        <= 2 * (HourLimit + Cardinality(Tasks) - 1)
    BY DEF RollingInv, RollingHourAtMostDouble
  <2>1. t \in Nat
    OBVIOUS
  <2>2. InHourFrom(t, checked) = Charged(checked, t, t + Hour)
    BY <2>1, StartsTicked, HourAssumption DEF InHourFrom, Charged, Ticked
  <2> QED BY <2>1, <2>2 DEF Windows, WindowLimit
<1> QED BY <1>1, <1>2, <1>3, TypeCorrect, HourlyTheorem, PTL DEF Spec
=============================================================================
