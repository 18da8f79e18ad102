------------------------- MODULE StreamSaves_proofs -------------------------
(***************************************************************************)
(* Theorems about the tool cards of StreamTurn, and about what the turn    *)
(* leaves in the session, for every set of tool calls and every value of   *)
(* its bounds.                                                             *)
(***************************************************************************)
EXTENDS StreamTurn_proofs

-----------------------------------------------------------------------------
(* Cards *)

Distinct(s) == \A i, j \in DOMAIN s : s[i] = s[j] => i = j

\* the call whose card says that it runs
Running == IF pc \in {"authorizing", "executing"} THEN {Head(pending_tool_uses)} ELSE {}

\* blocks are open only while the response is read
BlocksOK ==
  /\ index_to_tool_id # {} => pc = "streaming"
  /\ pc = "streaming" => tool_arguments \subseteq index_to_tool_id

\* calls wait from the end of their block to their result, each one once
PendingOK ==
  /\ Distinct(pending_tool_uses)
  /\ pc \in {"authorizing", "executing"} => pending_tool_uses # <<>>
  /\ pending_tool_uses # <<>> =>
       pc \in {"streaming", "drained", "tools", "authorizing", "executing"}

\* what a card says is what is going on with its call
CardsOK ==
  /\ \A t \in index_to_tool_id : card[t] = "queued" /\ t \notin Elems(pending_tool_uses)
  /\ \A t \in Elems(pending_tool_uses) : card[t] = IF t \in Running THEN "running" ELSE "queued"
  /\ \A t \in ToolIds : card[t] = "running" => t \in Running
  /\ \A t \in ToolIds :
       card[t] = "queued" => t \in index_to_tool_id \cup Elems(pending_tool_uses) \cup dropped

CardInv == pc # "crashed" => BlocksOK /\ PendingOK /\ CardsOK

LEMMA AppendElems ==
  ASSUME NEW s \in Seq(ToolIds), NEW t \in ToolIds, Distinct(s), t \notin Elems(s)
  PROVE  Elems(Append(s, t)) = Elems(s) \cup {t} /\ Distinct(Append(s, t))
<1>1. /\ Len(s) \in Nat /\ DOMAIN s = 1 .. Len(s) /\ DOMAIN Append(s, t) = 1 .. Len(s) + 1
      /\ \A i \in 1 .. Len(s) : Append(s, t)[i] = s[i]
      /\ Append(s, t)[Len(s) + 1] = t
  OBVIOUS
<1>2. \A i \in 1 .. Len(s) + 1 : i \in DOMAIN s \/ i = Len(s) + 1
  BY <1>1
<1>3. \A i \in DOMAIN s : s[i] # t
  BY DEF Elems
<1>4. Distinct(Append(s, t))
  BY <1>1, <1>2, <1>3 DEF Distinct
<1>5. Elems(Append(s, t)) \subseteq Elems(s) \cup {t}
  BY <1>1, <1>2 DEF Elems
<1>6. t \in Elems(Append(s, t))
  <2>1. Len(s) + 1 \in DOMAIN Append(s, t)
    BY <1>1
  <2> QED BY <1>1, <2>1 DEF Elems
<1>7. Elems(s) \subseteq Elems(Append(s, t))
  BY <1>1 DEF Elems
<1> QED BY <1>4, <1>5, <1>6, <1>7

LEMMA TailElems ==
  ASSUME NEW s \in Seq(ToolIds), s # <<>>, Distinct(s)
  PROVE  Elems(Tail(s)) = Elems(s) \ {Head(s)} /\ Distinct(Tail(s)) /\ Head(s) \in Elems(s)
<1>1. /\ Len(s) \in Nat \ {0} /\ DOMAIN s = 1 .. Len(s) /\ Head(s) = s[1]
      /\ DOMAIN Tail(s) = 1 .. Len(s) - 1
      /\ \A i \in 1 .. Len(s) - 1 : Tail(s)[i] = s[i + 1]
  OBVIOUS
<1>2. Head(s) \in Elems(s)
  BY <1>1 DEF Elems
<1>3. Distinct(Tail(s))
  BY <1>1 DEF Distinct
<1>4. ASSUME NEW t \in Elems(Tail(s)) PROVE t \in Elems(s) /\ t # Head(s)
  BY <1>1 DEF Elems, Distinct
<1>5. ASSUME NEW t \in Elems(s), t # Head(s) PROVE t \in Elems(Tail(s))
  <2>1. PICK i \in 1 .. Len(s) : t = s[i]
    BY <1>1 DEF Elems
  <2>2. i - 1 \in 1 .. Len(s) - 1 /\ Tail(s)[i - 1] = t
    BY <1>1, <1>5, <2>1
  <2> QED BY <1>1, <2>2 DEF Elems
<1> QED BY <1>2, <1>3, <1>4, <1>5

\* the drain of the hash map yields each element of S once
LEMMA OrderElems ==
  ASSUME NEW S \in SUBSET ToolIds, NEW order \in Orders(S)
  PROVE  Elems(order) = S /\ Distinct(order)
<1>1. IsFiniteSet(S)
  BY FS_Subset, ToolIdsAssumption
<1>2. Cardinality(S) \in Nat
  BY <1>1, FS_CardinalityType
<1>3. /\ order \in [1 .. Cardinality(S) -> S]
      /\ \A i, j \in DOMAIN order : order[i] = order[j] => i = j
  BY DEF Orders
<1>4. Cardinality(1 .. Cardinality(S)) = Cardinality(S)
  BY <1>2, FS_Interval
<1>5. order \in Injection(1 .. Cardinality(S), S)
  BY <1>3 DEF Injection, IsInjective
<1>6. order \in Surjection(1 .. Cardinality(S), S)
  BY <1>1, <1>4, <1>5, FS_Injection
<1>7. \A t \in S : \E i \in 1 .. Cardinality(S) : order[i] = t
  BY <1>6 DEF Surjection
<1> QED BY <1>3, <1>7 DEF Elems, Distinct

LEMMA ConcatElems ==
  ASSUME NEW s \in Seq(ToolIds), NEW r \in Seq(ToolIds), Distinct(s), Distinct(r),
         Elems(s) \cap Elems(r) = {}
  PROVE  Elems(s \o r) = Elems(s) \cup Elems(r) /\ Distinct(s \o r)
<1>1. /\ Len(s) \in Nat /\ Len(r) \in Nat /\ DOMAIN s = 1 .. Len(s) /\ DOMAIN r = 1 .. Len(r)
      /\ DOMAIN (s \o r) = 1 .. Len(s) + Len(r)
      /\ \A i \in 1 .. Len(s) : (s \o r)[i] = s[i]
      /\ \A i \in 1 .. Len(r) : (s \o r)[Len(s) + i] = r[i]
  OBVIOUS
<1>2. ASSUME NEW i \in DOMAIN (s \o r)
      PROVE  \/ i \in DOMAIN s /\ (s \o r)[i] = s[i]
             \/ i - Len(s) \in DOMAIN r /\ (s \o r)[i] = r[i - Len(s)]
  <2>1. CASE i <= Len(s)
    BY <1>1, <1>2, <2>1
  <2>2. CASE i > Len(s)
    <3>1. i - Len(s) \in 1 .. Len(r) /\ Len(s) + (i - Len(s)) = i
      BY <1>1, <1>2, <2>2
    <3> QED BY <1>1, <3>1
  <2> QED BY <1>1, <1>2, <2>1, <2>2
<1>3. Elems(s \o r) \subseteq Elems(s) \cup Elems(r)
  BY <1>2 DEF Elems
<1>4. Elems(s) \subseteq Elems(s \o r)
  BY <1>1 DEF Elems
<1>5. ASSUME NEW i \in DOMAIN r PROVE r[i] \in Elems(s \o r)
  <2>1. Len(s) + i \in DOMAIN (s \o r)
    BY <1>1
  <2> QED BY <1>1, <2>1 DEF Elems
<1>6. ASSUME NEW i \in DOMAIN (s \o r), NEW j \in DOMAIN (s \o r), (s \o r)[i] = (s \o r)[j]
      PROVE  i = j
  <2>1. \A k \in DOMAIN s, l \in DOMAIN r : s[k] # r[l]
    BY DEF Elems
  <2>2. i \in Int /\ j \in Int
    BY <1>1
  <2>3. CASE i \in DOMAIN s /\ (s \o r)[i] = s[i] /\ j \in DOMAIN s /\ (s \o r)[j] = s[j]
    BY <1>6, <2>3 DEF Distinct
  <2>4. CASE /\ i - Len(s) \in DOMAIN r /\ (s \o r)[i] = r[i - Len(s)]
             /\ j - Len(s) \in DOMAIN r /\ (s \o r)[j] = r[j - Len(s)]
    <3>1. i - Len(s) = j - Len(s)
      BY <1>6, <2>4 DEF Distinct
    <3> QED BY <1>1, <2>2, <3>1
  <2> QED BY <1>2, <1>6, <2>1, <2>3, <2>4
<1>7. Elems(r) \subseteq Elems(s \o r)
  BY <1>5 DEF Elems
<1>8. Distinct(s \o r)
  BY <1>6 DEF Distinct
<1> QED BY <1>3, <1>4, <1>7, <1>8

LEMMA NoElems == Elems(<<>>) = {} /\ Distinct(<<>>)
BY DEF Elems, Distinct

\* what the calls and their cards do in one step
Parts == BlocksOK /\ PendingOK /\ CardsOK

\* a step that only moves on between two points without a running call
LEMMA CardsMove ==
  ASSUME TypeOK, Parts, UNCHANGED <<index_to_tool_id, tool_arguments, pending_tool_uses, card, dropped>>,
         Running' = Running, index_to_tool_id # {} => pc' = "streaming", pc' = "streaming" => pc = "streaming",
         pc' \in {"authorizing", "executing"} => pending_tool_uses # <<>>,
         pending_tool_uses # <<>> =>
           pc' \in {"streaming", "drained", "tools", "authorizing", "executing"}
  PROVE  Parts'
BY DEF Parts, BlocksOK, PendingOK, CardsOK, Elems, Distinct

LEMMA CardStep == TypeOK /\ CardInv /\ [Next]_vars => CardInv'
<1> SUFFICES ASSUME TypeOK, CardInv, [Next]_vars PROVE CardInv'
  OBVIOUS
<1> USE DEF control, cancel, retries, blocks, success, text, stored, Break
<1>a. pc = "crashed" => pc' = "crashed"
  BY DEF vars, Reject, Accept, Cancel, CancelSeen, MaxIterationsReached, Admit, CostDenied,
         StartRetry, StartFailed, StartOk, TextDelta, ThinkingDelta, NoToolUses, StreamEventRetry,
         StreamEventError, StreamEnds, StartBatch, ToolRunning, ToolDecided, BatchDone,
         FinalizeComplete, Crash, ToolBlockStart, InputJsonDelta, ContentBlockStop, ToolSettled,
         FinalizeSave, Next, ProviderAnswers, ProviderEvent, ProviderEnds, TaskStep, Ended
<1> SUFFICES ASSUME pc # "crashed", pc' # "crashed" PROVE Parts'
  BY <1>a DEF CardInv, Parts
<1>b. Parts
  BY DEF CardInv, Parts
<1>c. /\ pending_tool_uses \in Seq(ToolIds) /\ card \in [ToolIds -> CardStates]
      /\ index_to_tool_id \subseteq ToolIds /\ tool_arguments \subseteq ToolIds
  BY DEF TypeOK
<1>d. Elems(pending_tool_uses) \subseteq ToolIds
  BY <1>c DEF Elems
<1>e. ASSUME NEW s, pending_tool_uses' = s
      PROVE  Elems(pending_tool_uses)' = Elems(s) /\ (Distinct(pending_tool_uses)' <=> Distinct(s))
  BY <1>e DEF Elems, Distinct
<1>1. CASE \/ Reject \/ Accept \/ Cancel \/ CancelSeen \/ MaxIterationsReached \/ Admit
           \/ CostDenied \/ StartRetry \/ StartFailed \/ TextDelta \/ ThinkingDelta \/ NoToolUses
           \/ StreamEventRetry \/ StartBatch \/ BatchDone \/ FinalizeComplete \/ UNCHANGED vars
           \/ \E claim, ok \in BOOLEAN : FinalizeSave(claim, ok)
  <2>1. /\ UNCHANGED <<index_to_tool_id, tool_arguments, pending_tool_uses, card, dropped>>
        /\ \/ pc' = pc
           \/ /\ pc \notin {"streaming", "authorizing", "executing"} \/ pending_tool_uses = <<>>
              /\ pc' \notin {"streaming", "authorizing", "executing"}
              /\ pending_tool_uses # <<>> => pc' = "tools"
        /\ pc' # pc => pc \notin {"authorizing", "executing"} /\ index_to_tool_id = {}
    BY <1>1, <1>b DEF vars, Reject, Accept, Cancel, CancelSeen, MaxIterationsReached, Admit,
         CostDenied, StartRetry, StartFailed, TextDelta, ThinkingDelta, NoToolUses,
         StreamEventRetry, StartBatch, BatchDone, FinalizeComplete, FinalizeSave,
         Parts, BlocksOK, PendingOK
  <2>2. Running' = Running
    BY <2>1 DEF Running
  <2>3. /\ index_to_tool_id # {} => pc' = "streaming"
        /\ pc' = "streaming" => pc = "streaming"
        /\ pc' \in {"authorizing", "executing"} => pending_tool_uses # <<>>
        /\ pending_tool_uses # <<>> =>
             pc' \in {"streaming", "drained", "tools", "authorizing", "executing"}
    BY <1>b, <2>1 DEF Parts, BlocksOK, PendingOK
  <2> QED BY <1>b, <2>1, <2>2, <2>3, CardsMove
<1>2. CASE StartOk
  <2>1. /\ pc = "request" /\ pc' = "streaming" /\ UNCHANGED <<card, dropped>>
        /\ index_to_tool_id' = {} /\ tool_arguments' = {} /\ pending_tool_uses' = <<>>
        /\ pending_tool_uses = <<>> /\ index_to_tool_id = {}
    BY <1>2, <1>b DEF StartOk, Parts, PendingOK, BlocksOK
  <2> QED BY <1>b, <2>1, NoElems DEF Parts, BlocksOK, PendingOK, CardsOK, Running
<1>3. ASSUME NEW t \in ToolIds, ToolBlockStart(t) PROVE Parts'
  <2>1. /\ pc = "streaming" /\ pc' = "streaming" /\ dropped' = dropped \ {t}
        /\ index_to_tool_id' = index_to_tool_id \cup {t} /\ card' = [card EXCEPT ![t] = "queued"]
        /\ UNCHANGED <<tool_arguments, pending_tool_uses>>
    BY <1>3 DEF ToolBlockStart
  <2>2. card'[t] = "queued" /\ \A u \in ToolIds : u # t => card'[u] = card[u]
    BY <1>c, <2>1
  <2>3. t \notin Elems(pending_tool_uses)
    BY <1>3 DEF ToolBlockStart
  <2>4. BlocksOK' /\ PendingOK'
    BY <1>b, <2>1 DEF Parts, BlocksOK, PendingOK, Distinct
  <2>5. CardsOK'
    BY <1>b, <1>c, <1>d, <2>1, <2>2, <2>3 DEF Parts, CardsOK, Running, Elems
  <2> QED BY <2>4, <2>5 DEF Parts
<1>4. ASSUME NEW t \in ToolIds, InputJsonDelta(t) PROVE Parts'
  BY <1>4, <1>b DEF InputJsonDelta, Parts, BlocksOK, PendingOK, CardsOK, Running, Elems, Distinct
<1>5. ASSUME NEW t \in ToolIds, ContentBlockStop(t) PROVE Parts'
  <2>1. /\ pc = "streaming" /\ pc' = "streaming" /\ card' = card /\ t \in index_to_tool_id
        /\ index_to_tool_id' = index_to_tool_id \ {t} /\ tool_arguments' = tool_arguments \ {t}
        /\ \/ pending_tool_uses' = Append(pending_tool_uses, t) /\ dropped' = dropped
           \/ pending_tool_uses' = pending_tool_uses /\ dropped' = dropped \cup {t}
    BY <1>5 DEF ContentBlockStop
  <2>2. t \notin Elems(pending_tool_uses) /\ card[t] = "queued" /\ Distinct(pending_tool_uses)
    BY <1>b, <2>1 DEF Parts, CardsOK, PendingOK
  <2>3. CASE pending_tool_uses' = Append(pending_tool_uses, t) /\ dropped' = dropped
    <3>1. Elems(pending_tool_uses)' = Elems(pending_tool_uses) \cup {t}
          /\ Distinct(pending_tool_uses)'
      BY <1>c, <2>2, <2>3, AppendElems DEF Elems, Distinct
    <3> QED BY <1>b, <2>1, <2>2, <2>3, <3>1 DEF Parts, BlocksOK, PendingOK, CardsOK, Running
  <2>4. CASE pending_tool_uses' = pending_tool_uses /\ dropped' = dropped \cup {t}
    <3>1. Elems(pending_tool_uses)' = Elems(pending_tool_uses) /\ Distinct(pending_tool_uses)'
      BY <2>2, <2>4 DEF Elems, Distinct
    <3> QED BY <1>b, <2>1, <2>2, <2>4, <3>1 DEF Parts, BlocksOK, PendingOK, CardsOK, Running
  <2> QED BY <2>1, <2>3, <2>4
<1>6. CASE StreamEnds
  <2>1. PICK order \in Orders(tool_arguments) : pending_tool_uses' = pending_tool_uses \o order
    BY <1>6 DEF StreamEnds
  <2>2. /\ pc = "streaming" /\ pc' = "drained" /\ card' = card
        /\ dropped' = dropped \cup (index_to_tool_id \ tool_arguments)
        /\ index_to_tool_id' = {} /\ tool_arguments' = {} /\ tool_arguments \subseteq index_to_tool_id
    BY <1>6, <1>b DEF StreamEnds, Parts, BlocksOK
  <2>3. order \in Seq(ToolIds) /\ Elems(order) = tool_arguments /\ Distinct(order)
    BY <1>c, OrdersType, OrderElems
  <2>4. Elems(pending_tool_uses) \cap Elems(order) = {} /\ Distinct(pending_tool_uses)
    BY <1>b, <2>2, <2>3 DEF Parts, CardsOK, PendingOK
  <2>5. Elems(pending_tool_uses)' = Elems(pending_tool_uses) \cup tool_arguments
        /\ Distinct(pending_tool_uses)'
    <3>1. Elems(pending_tool_uses \o order) = Elems(pending_tool_uses) \cup tool_arguments
          /\ Distinct(pending_tool_uses \o order)
      BY <1>c, <2>3, <2>4, ConcatElems
    <3> QED BY <1>e, <2>1, <3>1
  <2> QED BY <1>b, <2>2, <2>5 DEF Parts, BlocksOK, PendingOK, CardsOK, Running
<1>7. CASE StreamEventError
  <2>1. /\ pc = "streaming" /\ pc' = "drained" /\ index_to_tool_id' = {}
        /\ \A t \in ToolIds : card'[t] = IF t \in index_to_tool_id THEN "error" ELSE card[t]
        /\ UNCHANGED <<tool_arguments, pending_tool_uses, dropped>>
    BY <1>7 DEF StreamEventError
  <2>2. BlocksOK' /\ PendingOK'
    BY <1>b, <2>1 DEF Parts, BlocksOK, PendingOK, Distinct
  <2>3. Elems(pending_tool_uses)' = Elems(pending_tool_uses)
    BY <2>1 DEF Elems
  <2>4. CardsOK'
    BY <1>b, <1>d, <2>1, <2>3 DEF Parts, CardsOK, Running
  <2> QED BY <2>2, <2>4 DEF Parts
<1>8. CASE ToolRunning
  <2>1. /\ pc = "tools" /\ pc' = "authorizing" /\ pending_tool_uses # <<>>
        /\ card' = [card EXCEPT ![Head(pending_tool_uses)] = "running"]
        /\ UNCHANGED <<index_to_tool_id, tool_arguments, pending_tool_uses, dropped>>
        /\ index_to_tool_id = {} /\ Distinct(pending_tool_uses)
    BY <1>8, <1>b DEF ToolRunning, Parts, BlocksOK, PendingOK
  <2>2. Head(pending_tool_uses) \in Elems(pending_tool_uses)
    BY <1>c, <2>1, TailElems
  <2>3. /\ card'[Head(pending_tool_uses)] = "running"
        /\ \A t \in ToolIds : t # Head(pending_tool_uses) => card'[t] = card[t]
    BY <1>c, <1>d, <2>1, <2>2
  <2>4. /\ Running = {} /\ Running' = {Head(pending_tool_uses)}
        /\ Elems(pending_tool_uses)' = Elems(pending_tool_uses)
    BY <2>1 DEF Running, Elems
  <2>5. BlocksOK' /\ PendingOK'
    BY <1>b, <2>1 DEF Parts, BlocksOK, PendingOK, Distinct
  <2>6. CardsOK'
    BY <1>b, <1>d, <2>1, <2>2, <2>3, <2>4 DEF Parts, CardsOK
  <2> QED BY <2>5, <2>6 DEF Parts
<1>9. CASE ToolDecided
  <2>1. /\ pc = "authorizing" /\ pc' = "executing"
        /\ UNCHANGED <<index_to_tool_id, tool_arguments, pending_tool_uses, card, dropped>>
    BY <1>9 DEF ToolDecided
  <2>2. Running' = Running
    BY <2>1 DEF Running
  <2>3. index_to_tool_id = {} /\ pending_tool_uses # <<>>
    BY <1>b, <2>1 DEF Parts, BlocksOK, PendingOK
  <2> QED BY <1>b, <2>1, <2>2, <2>3, CardsMove
<1>10. ASSUME NEW ok \in BOOLEAN, NEW mutating \in BOOLEAN, ToolSettled(ok, mutating) PROVE Parts'
  <2> DEFINE h == Head(pending_tool_uses)
  <2>1. /\ pc = "executing" /\ pc' = "tools" /\ pending_tool_uses' = Tail(pending_tool_uses)
        /\ card' = [card EXCEPT ![h] = IF ok THEN "completed" ELSE "error"]
        /\ UNCHANGED <<index_to_tool_id, tool_arguments, dropped>>
        /\ index_to_tool_id = {} /\ pending_tool_uses # <<>> /\ Distinct(pending_tool_uses)
    BY <1>10, <1>b DEF ToolSettled, Parts, BlocksOK, PendingOK
  <2>2. /\ Elems(pending_tool_uses)' = Elems(pending_tool_uses) \ {h}
        /\ Distinct(pending_tool_uses)' /\ h \in Elems(pending_tool_uses)
    BY <1>c, <1>e, <2>1, TailElems
  <2>3. /\ card'[h] \in {"completed", "error"}
        /\ \A t \in ToolIds : t # h => card'[t] = card[t]
    BY <1>c, <1>d, <2>1, <2>2
  <2>4. Running = {h} /\ Running' = {}
    BY <2>1 DEF Running
  <2> HIDE DEF h
  <2>5. BlocksOK' /\ PendingOK'
    BY <1>b, <2>1, <2>2 DEF Parts, BlocksOK, PendingOK
  <2>6. CardsOK'
    BY <1>b, <1>d, <2>1, <2>2, <2>3, <2>4 DEF Parts, CardsOK
  <2> QED BY <2>5, <2>6 DEF Parts
<1>11. CASE Crash
  BY <1>11 DEF Crash
<1> QED BY <1>1, <1>2, <1>3, <1>4, <1>5, <1>6, <1>7, <1>8, <1>9, <1>10, <1>11
        DEF Next, ProviderAnswers, ProviderEvent, ProviderEnds, TaskStep

THEOREM CardInvariant == Spec => []CardInv
<1>1. Init => CardInv
  BY NoElems DEF Init, CardInv, BlocksOK, PendingOK, CardsOK, Running
<1> QED BY <1>1, CardStep, TypeCorrect, PTL DEF Spec

\* A card is left behind only by a call that was closed without arguments: a
\* turn that is done has no open block and no pending call.
THEOREM CardsSettledTheorem == Spec => []CardsSettled
<1>1. TypeOK /\ CardInv => CardsSettled
  BY NoElems DEF CardInv, BlocksOK, PendingOK, CardsOK, Running, CardsSettled
<1> QED BY <1>1, CardInvariant, TypeCorrect, PTL

\* A settled card stays as it is until a new block opens under its id: what
\* runs, settles or breaks off is always a call whose card is not settled.
THEOREM SettledCardTheorem == Spec => SettledCardIsFinal
<1> DEFINE Reopened(t) == /\ pc = "streaming" /\ card'[t] = "queued"
                          /\ t \in index_to_tool_id' \ index_to_tool_id
           Settled == \A t \in ToolIds :
                        card[t] \in Final /\ card'[t] # card[t] => Reopened(t)
<1>1. TypeOK /\ CardInv /\ [Next]_vars => [Settled]_vars
  <2> SUFFICES ASSUME TypeOK, CardInv, [Next]_vars, NEW t \in ToolIds, card[t] \in Final
               PROVE  card'[t] = card[t] \/ Reopened(t)
    OBVIOUS
  <2> USE DEF control, cancel, retries, blocks, success, text, stored, Break
  <2>0. card \in [ToolIds -> CardStates] /\ card[t] \in {"completed", "error"}
    BY DEF TypeOK, Final
  <2>1. CASE card' = card
    BY <2>1
  <2>2. ASSUME NEW u \in ToolIds, ToolBlockStart(u)
        PROVE  card'[t] = card[t] \/ Reopened(t)
    <3>1. CASE u = t
      BY <2>0, <2>2, <3>1 DEF ToolBlockStart
    <3>2. CASE u # t
      BY <2>0, <2>2, <3>2 DEF ToolBlockStart
    <3> QED BY <3>1, <3>2
  <2>3. CASE StreamEventError
    <3>1. pc = "streaming" /\ card' = [u \in ToolIds |-> IF u \in index_to_tool_id THEN "error" ELSE card[u]]
      BY <2>3 DEF StreamEventError
    <3>2. t \notin index_to_tool_id
      BY <2>0, <3>1 DEF CardInv, CardsOK
    <3> QED BY <3>1, <3>2
  <2>4. ASSUME pending_tool_uses # <<>>, pc \in {"tools", "executing"}
        PROVE  Head(pending_tool_uses) # t
    <3>1. Head(pending_tool_uses) \in Elems(pending_tool_uses)
      BY <2>4, TailElems DEF CardInv, PendingOK, TypeOK
    <3> QED BY <2>0, <2>4, <3>1 DEF CardInv, CardsOK, Running
  <2>5. CASE ToolRunning
    BY <2>0, <2>4, <2>5 DEF ToolRunning
  <2>6. ASSUME NEW ok \in BOOLEAN, NEW mutating \in BOOLEAN, ToolSettled(ok, mutating)
        PROVE  card'[t] = card[t]
    <3>1. pc = "executing" /\ pending_tool_uses # <<>>
      BY <2>6 DEF ToolSettled, CardInv, PendingOK
    <3> QED BY <2>0, <2>4, <2>6, <3>1 DEF ToolSettled
  <2>7. \/ card' = card \/ StreamEventError \/ ToolRunning
        \/ \E u \in ToolIds : ToolBlockStart(u)
        \/ \E ok, mutating \in BOOLEAN : ToolSettled(ok, mutating)
    BY DEF vars, Reject, Accept, Cancel, CancelSeen, MaxIterationsReached, Admit, CostDenied,
         StartRetry, StartFailed, StartOk, TextDelta, ThinkingDelta, NoToolUses, StreamEventRetry,
         StreamEnds, StartBatch, ToolDecided, BatchDone, FinalizeComplete, Crash, InputJsonDelta,
         ContentBlockStop, FinalizeSave, Next, ProviderAnswers, ProviderEvent, ProviderEnds, TaskStep
  <2> QED BY <2>1, <2>2, <2>3, <2>5, <2>6, <2>7
<1> QED BY <1>1, CardInvariant, TypeCorrect, PTL DEF Spec, SettledCardIsFinal

-----------------------------------------------------------------------------
(* Calls and results *)

\* every call is followed by its result, but for one at the end that is still
\* running, and every result is behind a call
Paired(s) ==
  \A i \in DOMAIN s :
    /\ s[i].kind = "tool_use" /\ i < Len(s) =>
         s[i + 1].kind = "tool_result" /\ s[i + 1].tool = s[i].tool
    /\ s[i].kind = "tool_result" => i > 1 /\ s[i - 1].kind = "tool_use"

\* the call at the end of the messages has no result yet
EndsInCall(s) == s # <<>> /\ LastOf(s).kind = "tool_use"

\* all messages of the turn
Turn == <<Message("user", None, NoCursor)>> \o timeline

PairsInv ==
  /\ Paired(timeline) /\ ToolPairsOnDisk
  /\ pc = "executing" => EndsInCall(timeline) /\ LastOf(timeline).tool = Head(pending_tool_uses)
  /\ pc \notin {"executing", "crashed"} => ~EndsInCall(timeline)

LEMMA PairedAppend ==
  ASSUME NEW s \in Seq(Messages), NEW m \in Messages, Paired(s),
         IF EndsInCall(s) THEN m.kind = "tool_result" /\ m.tool = LastOf(s).tool
                          ELSE m.kind # "tool_result"
  PROVE  /\ Paired(Append(s, m)) /\ LastOf(Append(s, m)) = m
         /\ EndsInCall(Append(s, m)) <=> m.kind = "tool_use"
<1> DEFINE r == Append(s, m)
<1>1. /\ Len(s) \in Nat /\ DOMAIN s = 1 .. Len(s) /\ Len(r) = Len(s) + 1
      /\ DOMAIN r = 1 .. Len(s) + 1 /\ r[Len(s) + 1] = m
      /\ \A i \in 1 .. Len(s) : r[i] = s[i]
  OBVIOUS
<1>2. s # <<>> <=> Len(s) > 0
  OBVIOUS
<1>3. r # <<>>
  BY <1>1
<1> HIDE DEF r
<1>4. ASSUME NEW i \in DOMAIN r
      PROVE  /\ r[i].kind = "tool_use" /\ i < Len(r) =>
                  r[i + 1].kind = "tool_result" /\ r[i + 1].tool = r[i].tool
             /\ r[i].kind = "tool_result" => i > 1 /\ r[i - 1].kind = "tool_use"
  <2>1. CASE i < Len(s)
    <3>1. i \in 1 .. Len(s) /\ i + 1 \in 1 .. Len(s)
      BY <1>1, <1>4, <2>1
    <3>2. i > 1 => i - 1 \in 1 .. Len(s)
      BY <1>1, <3>1
    <3> QED BY <1>1, <2>1, <3>1, <3>2 DEF Paired
  <2>2. CASE i = Len(s)
    <3>1. i \in 1 .. Len(s) /\ i + 1 = Len(s) + 1 /\ (i > 1 => i - 1 \in 1 .. Len(s))
      BY <1>1, <1>4, <2>2
    <3>2. r[i].kind = "tool_use" => EndsInCall(s)
      BY <1>1, <1>2, <2>2, <3>1 DEF EndsInCall, LastOf
    <3>3. r[i].kind = "tool_use" => m.kind = "tool_result" /\ m.tool = r[i].tool
      BY <1>1, <2>2, <3>1, <3>2 DEF LastOf
    <3> QED BY <1>1, <2>2, <3>1, <3>3 DEF Paired
  <2>3. CASE i = Len(s) + 1
    <3>1. m.kind = "tool_result" => s # <<>> /\ s[Len(s)].kind = "tool_use"
      BY DEF EndsInCall, LastOf
    <3>2. m.kind = "tool_result" => Len(s) \in 1 .. Len(s) /\ i > 1 /\ i - 1 = Len(s)
      BY <1>1, <1>2, <2>3, <3>1
    <3> QED BY <1>1, <2>3, <3>1, <3>2
  <2> QED BY <1>1, <1>4, <2>1, <2>2, <2>3
<1>5. Paired(r)
  BY <1>4 DEF Paired
<1>6. LastOf(r) = m
  BY <1>1 DEF LastOf
<1> QED BY <1>3, <1>5, <1>6 DEF r, EndsInCall

LEMMA MessageParts ==
  \A kind, tool, cursor : LET m == Message(kind, tool, cursor)
                          IN  m.kind = kind /\ m.tool = tool /\ m.cursor = cursor
BY DEF Message

\* text put at the end of a timeline without a running call breaks no pair
LEMMA PairedText ==
  ASSUME NEW s \in Seq(Messages), Paired(s), ~EndsInCall(s), NEW cursor \in Cursors,
         NEW m, m = Message("assistant", None, cursor)
  PROVE  Append(s, m) \in Seq(Messages) /\ Paired(Append(s, m)) /\ ~EndsInCall(Append(s, m))
<1>1. m \in Messages /\ m.kind = "assistant"
  BY MessageType, MessageParts
<1> QED BY <1>1, PairedAppend

LEMMA PairedFlush ==
  ASSUME TypeOK, Paired(timeline), ~EndsInCall(timeline), NEW cursor \in Cursors
  PROVE  Flush(cursor) \in Seq(Messages) /\ Paired(Flush(cursor)) /\ ~EndsInCall(Flush(cursor))
<1>1. timeline \in Seq(Messages)
  BY DEF TypeOK
<1> QED BY <1>1, PairedText DEF Flush

LEMMA PairedFinal ==
  ASSUME TypeOK, Paired(timeline), ~EndsInCall(timeline),
         NEW truth \in [outcome : Outcomes, resume : BOOLEAN]
  PROVE  LET s == FinalTimeline(truth) IN s \in Seq(Messages) /\ Paired(s) /\ ~EndsInCall(s)
<1> DEFINE cursor  == CursorOf(truth)
           marked  == stream_failed \/ truth.outcome = "partial_success"
           flushed == Flush(IF marked THEN cursor ELSE NoCursor)
           m == Message("assistant", None, cursor)
<1>1. cursor \in Cursors /\ NoCursor \in Cursors
  BY CursorOfType DEF Cursors
<1>2. flushed \in Seq(Messages) /\ Paired(flushed) /\ ~EndsInCall(flushed)
  BY <1>1, PairedFlush
<1>3. /\ Append(flushed, m) \in Seq(Messages) /\ Paired(Append(flushed, m))
      /\ ~EndsInCall(Append(flushed, m))
  BY <1>1, <1>2, PairedText
<1>4. FinalTimeline(truth) \in {flushed, Append(flushed, m)}
  BY DEF FinalTimeline
<1> QED BY <1>2, <1>3, <1>4

\* the message of the user in front breaks no pair
LEMMA PairedTurn ==
  ASSUME NEW u \in Messages, u.kind = "user", NEW s \in Seq(Messages), Paired(s), ~EndsInCall(s)
  PROVE  LET f == <<u>> \o s
         IN  f \in Seq(Messages) /\ f # <<>> /\ Paired(f) /\ ~EndsInCall(f)
               /\ (s # <<>> => LastOf(f) = LastOf(s))
<1> DEFINE f == <<u>> \o s
<1>1. /\ Len(s) \in Nat /\ DOMAIN s = 1 .. Len(s) /\ f \in Seq(Messages) /\ Len(f) = Len(s) + 1
      /\ DOMAIN f = 1 .. Len(s) + 1 /\ f[1] = u
      /\ \A i \in 2 .. Len(s) + 1 : f[i] = s[i - 1]
      /\ s # <<>> <=> Len(s) > 0
  OBVIOUS
<1>2. f # <<>>
  BY <1>1
<1> HIDE DEF f
<1>3. s # <<>> => LastOf(f) = LastOf(s)
  BY <1>1 DEF LastOf
<1>4. ~EndsInCall(f)
  <2>1. CASE s = <<>>
    BY <1>1, <2>1 DEF EndsInCall, LastOf
  <2>2. CASE s # <<>>
    BY <1>3, <2>2 DEF EndsInCall
  <2> QED BY <2>1, <2>2
<1>5. ASSUME NEW i \in DOMAIN f
      PROVE  /\ f[i].kind = "tool_use" /\ i < Len(f) =>
                  f[i + 1].kind = "tool_result" /\ f[i + 1].tool = f[i].tool
             /\ f[i].kind = "tool_result" => i > 1 /\ f[i - 1].kind = "tool_use"
  <2>1. CASE i = 1
    BY <1>1, <2>1
  <2>2. CASE i > 1
    <3> DEFINE j == i - 1
    <3>1. j \in 1 .. Len(s) /\ f[i] = s[j] /\ i = j + 1
      BY <1>1, <1>5, <2>2
    <3>2. i < Len(f) => j < Len(s) /\ f[i + 1] = s[j + 1]
      BY <1>1, <1>5, <2>2
    <3>3. j > 1 => f[i - 1] = s[j - 1]
      BY <1>1, <1>5, <2>2
    <3> HIDE DEF j
    <3> QED BY <1>1, <2>2, <3>1, <3>2, <3>3 DEF Paired
  <2> QED BY <1>1, <1>5, <2>1, <2>2
<1> QED BY <1>1, <1>2, <1>3, <1>4, <1>5 DEF f, Paired

\* the messages behind a summary
LEMMA CompactedElems ==
  ASSUME NEW f \in Seq(Messages), Len(f) > PreserveRecent
  PROVE  LET d == Compacted(f)
         IN  /\ Len(d) = PreserveRecent + 1 /\ DOMAIN d = 1 .. PreserveRecent + 1
             /\ d[1].kind = "summary"
             /\ \A k \in 2 .. PreserveRecent + 1 : d[k] = f[Len(f) - PreserveRecent + k - 1]
<1> DEFINE n == Len(f)
           kept == SubSeq(f, n - PreserveRecent + 1, n)
           top == Message("summary", None, NoCursor)
<1>1. n \in Nat /\ PreserveRecent \in Nat \ {0} /\ n > PreserveRecent
  BY PreserveRecentAssumption
<1>2. /\ Len(kept) = PreserveRecent /\ kept \in Seq(Messages)
      /\ \A k \in 1 .. PreserveRecent : kept[k] = f[n - PreserveRecent + k]
  BY <1>1
<1>3. Compacted(f) = <<top>> \o kept
  BY <1>1 DEF Compacted
<1>4. top.kind = "summary"
  BY MessageParts
<1> HIDE DEF kept, top
<1> DEFINE d == <<top>> \o kept
<1>5. /\ Len(d) = PreserveRecent + 1 /\ DOMAIN d = 1 .. PreserveRecent + 1 /\ d[1] = top
      /\ \A k \in 2 .. PreserveRecent + 1 : d[k] = kept[k - 1]
  BY <1>1, <1>2
<1> HIDE DEF d
<1>6. ASSUME NEW k \in 2 .. PreserveRecent + 1 PROVE d[k] = f[n - PreserveRecent + k - 1]
  <2>1. k - 1 \in 1 .. PreserveRecent /\ n - PreserveRecent + (k - 1) = n - PreserveRecent + k - 1
    BY <1>1
  <2> QED BY <1>2, <1>5, <2>1
<1> QED BY <1>3, <1>4, <1>5, <1>6 DEF d

\* a save writes all messages or, if there are too many, a compaction of them
LEMMA SavedCases ==
  ASSUME NEW f \in Seq(Messages), NEW d \in Saved(f)
  PROVE  d = f \/ (d = Compacted(f) /\ Len(f) > PreserveRecent)
<1>1. Len(f) \in Nat /\ PreserveRecent \in Nat
  BY PreserveRecentAssumption
<1>2. Compacted(f) = f \/ Len(f) > PreserveRecent
  BY <1>1 DEF Compacted
<1>3. d = f \/ d = Compacted(f)
  BY DEF Saved
<1> QED BY <1>2, <1>3

\* what is saved ends like the messages it was made from, and starts with a
\* summary if it is not all of them
LEMMA SavedLast ==
  ASSUME NEW f \in Seq(Messages), f # <<>>, NEW d \in Saved(f)
  PROVE  d # <<>> /\ LastOf(d) = LastOf(f) /\ (d = f \/ d[1].kind = "summary")
<1>0. Len(f) \in Nat /\ PreserveRecent \in Nat \ {0}
  BY PreserveRecentAssumption
<1>1. CASE d = f
  BY <1>1
<1>2. CASE d = Compacted(f) /\ Len(f) > PreserveRecent
  <2>1. /\ Len(d) = PreserveRecent + 1 /\ d[1].kind = "summary"
        /\ DOMAIN d = 1 .. PreserveRecent + 1
        /\ \A k \in 2 .. PreserveRecent + 1 : d[k] = f[Len(f) - PreserveRecent + k - 1]
    BY <1>2, CompactedElems
  <2>2. d[PreserveRecent + 1] = f[Len(f)]
    <3>1. /\ PreserveRecent + 1 \in 2 .. PreserveRecent + 1
          /\ Len(f) - PreserveRecent + (PreserveRecent + 1) - 1 = Len(f)
      BY <1>0
    <3> QED BY <2>1, <3>1
  <2>3. d # <<>>
    BY <1>0, <2>1
  <2> QED BY <2>1, <2>2, <2>3 DEF LastOf
<1> QED BY <1>1, <1>2, SavedCases

\* a save keeps the pairs, but for one that the compaction may cut
LEMMA SavedPaired ==
  ASSUME NEW f \in Seq(Messages), f # <<>>, Paired(f), ~EndsInCall(f), disk' \in Saved(f)
  PROVE  ToolPairsOnDisk'
<1> DEFINE d == disk'
<1>0. Len(f) \in Nat /\ DOMAIN f = 1 .. Len(f) /\ PreserveRecent \in Nat \ {0}
  BY PreserveRecentAssumption
<1>1. f[Len(f)].kind # "tool_use"
  BY DEF EndsInCall, LastOf
<1> SUFFICES ASSUME NEW i \in DOMAIN d
             PROVE  /\ d[i].kind = "tool_use" =>
                         /\ i < Len(d)
                         /\ d[i + 1].kind = "tool_result" /\ d[i + 1].tool = d[i].tool
                    /\ d[i].kind = "tool_result" =>
                         i > 1 /\ \/ d[i - 1].kind = "tool_use"
                                  \/ i = 2 /\ d[1].kind = "summary"
  BY DEF ToolPairsOnDisk
<1> HIDE DEF d
<1>2. CASE d = f
  <2>1. d[i].kind = "tool_use" => i < Len(d)
    BY <1>0, <1>1, <1>2
  <2> QED BY <1>0, <1>2, <2>1 DEF Paired
<1>3. CASE d = Compacted(f) /\ Len(f) > PreserveRecent
  <2>1. /\ Len(d) = PreserveRecent + 1 /\ DOMAIN d = 1 .. PreserveRecent + 1
        /\ d[1].kind = "summary"
        /\ \A k \in 2 .. PreserveRecent + 1 : d[k] = f[Len(f) - PreserveRecent + k - 1]
    BY <1>3, CompactedElems
  <2>2. CASE i = 1
    BY <2>1, <2>2
  <2>3. CASE i > 1
    <3> DEFINE j == Len(f) - PreserveRecent + i - 1
    <3>1. i \in 2 .. PreserveRecent + 1 /\ j \in 1 .. Len(f) /\ d[i] = f[j]
      BY <1>0, <1>3, <2>1, <2>3
    <3>2. d[i].kind = "tool_use" => j < Len(f)
      <4> HIDE DEF j
      <4>1. CASE j = Len(f)
        BY <1>1, <3>1, <4>1
      <4>2. j \in 1 .. Len(f) /\ Len(f) \in Nat
        BY <1>0, <3>1
      <4>3. ASSUME j # Len(f) PROVE j < Len(f)
        BY ONLY <4>2, <4>3
      <4> QED BY <4>1, <4>3
    <3>3. j < Len(f) => i < Len(d) /\ d[i + 1] = f[j + 1]
      <4>1. ASSUME j < Len(f) PROVE i + 1 \in 2 .. PreserveRecent + 1
        BY <1>0, <3>1, <4>1
      <4>2. Len(f) - PreserveRecent + (i + 1) - 1 = j + 1
        BY <1>0, <3>1
      <4>3. ASSUME j < Len(f) PROVE d[i + 1] = f[Len(f) - PreserveRecent + (i + 1) - 1]
        BY <2>1, <4>1, <4>3
      <4>4. ASSUME j < Len(f) PROVE i < Len(d)
        BY <1>0, <2>1, <3>1, <4>1, <4>4
      <4> QED BY <4>2, <4>3, <4>4
    <3>4. i > 2 => d[i - 1] = f[j - 1]
      <4>1. i > 2 => i - 1 \in 2 .. PreserveRecent + 1
        BY <1>0, <3>1
      <4>2. Len(f) - PreserveRecent + (i - 1) - 1 = j - 1
        BY <1>0, <3>1
      <4> QED BY <2>1, <4>1, <4>2
    <3> HIDE DEF j
    <3>5. i = 2 \/ i > 2
      BY <1>0, <3>1
    <3>6. /\ f[j].kind = "tool_use" /\ j < Len(f) =>
               f[j + 1].kind = "tool_result" /\ f[j + 1].tool = f[j].tool
          /\ f[j].kind = "tool_result" => f[j - 1].kind = "tool_use"
      BY <1>0, <3>1 DEF Paired
    <3> QED BY <2>1, <2>3, <3>1, <3>2, <3>3, <3>4, <3>5, <3>6
  <2> QED BY <2>1, <2>2, <2>3
<1>4. d = f \/ (d = Compacted(f) /\ Len(f) > PreserveRecent)
  BY SavedCases DEF d
<1> QED BY <1>2, <1>3, <1>4

LEMMA UserTyped ==
  LET u == Message("user", None, NoCursor) IN u \in Messages /\ u.kind = "user"
BY MessageType, MessageParts DEF Cursors

LEMMA FinalResolved ==
  TypeOK => Resolve(stream_failed, terminal_status) \in [outcome : Outcomes, resume : BOOLEAN]
BY ResolveType DEF TypeOK

LEMMA PairsStep == TypeOK /\ CardInv /\ PairsInv /\ [Next]_vars => PairsInv'
<1> SUFFICES ASSUME TypeOK, CardInv, PairsInv, [Next]_vars PROVE PairsInv'
  OBVIOUS
<1> USE DEF control, cancel, retries, blocks, success, text, stored, Break
<1>0. timeline \in Seq(Messages) /\ NoCursor \in Cursors
  BY DEF TypeOK, Cursors
<1>a. ASSUME UNCHANGED <<timeline, disk>>, pc' = pc \/ pc' = "crashed" \/
               (pc \notin {"executing", "crashed"} /\ pc' # "executing"),
             pc = "executing" /\ pc' = pc => UNCHANGED pending_tool_uses
      PROVE  PairsInv'
  BY <1>a DEF PairsInv, ToolPairsOnDisk
<1>1. CASE \/ Reject \/ Accept \/ Cancel \/ CancelSeen \/ MaxIterationsReached \/ Admit
           \/ CostDenied \/ StartRetry \/ StartFailed \/ StartOk \/ ThinkingDelta \/ NoToolUses
           \/ StreamEventRetry \/ StreamEnds \/ StreamEventError \/ ToolRunning \/ BatchDone
           \/ FinalizeComplete \/ Crash \/ UNCHANGED vars
           \/ \E t \in ToolIds : ToolBlockStart(t) \/ InputJsonDelta(t) \/ ContentBlockStop(t)
  <2>1. /\ UNCHANGED <<timeline, disk>>
        /\ \/ pc' = pc \/ pc' = "crashed"
           \/ pc \notin {"executing", "crashed"} /\ pc' # "executing"
        /\ pc = "executing" /\ pc' = pc => UNCHANGED pending_tool_uses
    BY <1>1 DEF vars, Reject, Accept, Cancel, CancelSeen, MaxIterationsReached, Admit,
         CostDenied, StartRetry, StartFailed, StartOk, ThinkingDelta, NoToolUses, StreamEventRetry,
         StreamEnds, StreamEventError, ToolRunning, BatchDone, FinalizeComplete, Crash,
         ToolBlockStart, InputJsonDelta, ContentBlockStop
  <2> QED BY <1>a, <2>1
<1>2. CASE TextDelta
  <2> DEFINE m == Message("assistant", None, NoCursor)
  <2>1. /\ pc = "streaming" /\ pc' = pc /\ timeline' = timeline
        /\ disk' = disk \/ disk' = <<m>>
    BY <1>2 DEF TextDelta
  <2>2. m.kind = "assistant"
    BY MessageParts
  <2> HIDE DEF m
  <2>3. ToolPairsOnDisk'
    BY <2>1, <2>2 DEF PairsInv, ToolPairsOnDisk
  <2> QED BY <2>1, <2>3 DEF PairsInv
<1>3. CASE StartBatch
  <2>1. /\ pc = "drained" /\ pc' = "tools" /\ disk' = disk /\ timeline' = Flush(NoCursor)
    BY <1>3 DEF StartBatch
  <2>2. Paired(timeline)' /\ ~EndsInCall(timeline)'
    <3>1. Paired(Flush(NoCursor)) /\ ~EndsInCall(Flush(NoCursor))
      BY <1>0, <2>1, PairedFlush DEF PairsInv
    <3> QED BY <2>1, <3>1 DEF Paired, EndsInCall, LastOf
  <2> QED BY <2>1, <2>2 DEF PairsInv, ToolPairsOnDisk
<1>4. ASSUME pc \in {"authorizing", "executing"} PROVE Head(pending_tool_uses) \in ToolIds
  BY <1>4 DEF CardInv, PendingOK, TypeOK
<1>5. ASSUME NEW m \in Messages, timeline' = Append(timeline, m), Paired(timeline),
             IF EndsInCall(timeline) THEN m.kind = "tool_result" /\ m.tool = LastOf(timeline).tool
                                     ELSE m.kind # "tool_result"
      PROVE  Paired(timeline)' /\ LastOf(timeline)' = m
               /\ (EndsInCall(timeline)' <=> m.kind = "tool_use")
  <2>1. /\ Paired(Append(timeline, m)) /\ LastOf(Append(timeline, m)) = m
        /\ EndsInCall(Append(timeline, m)) <=> m.kind = "tool_use"
    BY <1>0, <1>5, PairedAppend
  <2> QED BY <1>5, <2>1 DEF Paired, EndsInCall, LastOf
<1>6. CASE ToolDecided
  <2> DEFINE m == Message("tool_use", Head(pending_tool_uses), NoCursor)
  <2>1. /\ pc = "authorizing" /\ pc' = "executing" /\ disk' = disk
        /\ timeline' = Append(timeline, m) /\ pending_tool_uses' = pending_tool_uses
    BY <1>6 DEF ToolDecided
  <2>2. m \in Messages /\ m.kind = "tool_use" /\ m.tool = Head(pending_tool_uses)
    BY <1>0, <1>4, <2>1, MessageType, MessageParts
  <2> HIDE DEF m
  <2>3. Paired(timeline)' /\ LastOf(timeline)' = m /\ EndsInCall(timeline)'
    BY <1>5, <2>1, <2>2 DEF PairsInv
  <2> QED BY <2>1, <2>2, <2>3 DEF PairsInv, ToolPairsOnDisk
<1>7. ASSUME NEW ok \in BOOLEAN, NEW mutating \in BOOLEAN, ToolSettled(ok, mutating) PROVE PairsInv'
  <2> DEFINE m == Message("tool_result", Head(pending_tool_uses), NoCursor)
  <2>1. /\ pc = "executing" /\ pc' = "tools" /\ disk' = disk /\ timeline' = Append(timeline, m)
    BY <1>7 DEF ToolSettled
  <2>2. m \in Messages /\ m.kind = "tool_result" /\ m.tool = Head(pending_tool_uses)
    BY <1>0, <1>4, <2>1, MessageType, MessageParts
  <2> HIDE DEF m
  <2>3. Paired(timeline)' /\ ~EndsInCall(timeline)'
    BY <1>5, <2>1, <2>2 DEF PairsInv
  <2> QED BY <2>1, <2>3 DEF PairsInv, ToolPairsOnDisk
<1>8. ASSUME NEW claim \in BOOLEAN, NEW ok \in BOOLEAN, FinalizeSave(claim, ok) PROVE PairsInv'
  <2> DEFINE truth == Resolve(stream_failed, terminal_status)
             u == Message("user", None, NoCursor)
  <2>1. /\ pc = "finalize" /\ pc' = "saved" /\ timeline' = FinalTimeline(truth)
        /\ disk' = disk \/ disk' \in Saved(<<u>> \o timeline')
    BY <1>8 DEF FinalizeSave
  <2>2. truth \in [outcome : Outcomes, resume : BOOLEAN]
    BY FinalResolved
  <2>3. u \in Messages /\ u.kind = "user"
    BY UserTyped
  <2> HIDE DEF truth, u
  <2>4. timeline' \in Seq(Messages) /\ Paired(timeline') /\ ~EndsInCall(timeline')
    BY <2>1, <2>2, PairedFinal DEF PairsInv
  <2>5. LET f == <<u>> \o timeline'
        IN  f \in Seq(Messages) /\ f # <<>> /\ Paired(f) /\ ~EndsInCall(f)
    BY <2>3, <2>4, PairedTurn
  <2>6. ToolPairsOnDisk'
    <3>1. CASE disk' = disk
      BY <3>1 DEF PairsInv, ToolPairsOnDisk
    <3>2. CASE disk' \in Saved(<<u>> \o timeline')
      BY <2>5, <3>2, SavedPaired
    <3> QED BY <2>1, <3>1, <3>2
  <2>7. Paired(timeline)' /\ ~EndsInCall(timeline)'
    BY <2>4 DEF Paired, EndsInCall, LastOf
  <2> QED BY <2>1, <2>6, <2>7 DEF PairsInv
<1> QED BY <1>1, <1>2, <1>3, <1>6, <1>7, <1>8
        DEF Next, ProviderAnswers, ProviderEvent, ProviderEnds, TaskStep

\* No save holds a call without its result, at whatever point of the turn it is
\* made; only a compaction separates a result from its call.
THEOREM ToolPairsTheorem == Spec => []ToolPairsOnDisk
<1>1. Init => PairsInv
  BY DEF Init, PairsInv, ToolPairsOnDisk, Paired, EndsInCall
<1>2. PairsInv => ToolPairsOnDisk
  BY DEF PairsInv
<1> QED BY <1>1, <1>2, PairsStep, CardInvariant, TypeCorrect, PTL DEF Spec

-----------------------------------------------------------------------------
(* The end of the turn *)

EndStatus ==
  /\ pc \in {"finalize", "saved", "done"} => terminal_status # "none"
  /\ terminal_status = "cancelled_by_user" => CompletionAnnounced
  /\ CompletionAnnounced => LastOf(events).type # "stream_error"

\* what is saved, and the cursor it ends with
EndSaved ==
  /\ pc \in {"saved", "done"} /\ ~save_failed => disk \in Saved(Turn)
  /\ pc \in {"saved", "done"} /\ stream_failed /\ terminal_status # "cancelled_by_user" =>
       timeline # <<>> /\ LastOf(timeline).cursor = build_resume_cursor

\* a turn that failed and was not stopped can be resumed
LEMMA FailureResumes ==
  ASSUME NEW status \in Statuses \ {"none", "cancelled_by_user"}
  PROVE  Resolve(TRUE, status).resume = TRUE
<1>1. CASE status = "max_iterations_reached"
  BY <1>1 DEF Resolve, Truth
<1>2. CASE status # "max_iterations_reached"
  <2>1. is_resumable_terminal_status(status) = TRUE
    BY <1>2 DEF is_resumable_terminal_status, Statuses
  <2>2. Resolve(TRUE, status) = IF has_successful_tool \/ has_successful_mutating_tool
                                THEN Truth("partial_success", TRUE)
                                ELSE Truth("failed", is_resumable_terminal_status(status))
    BY <1>2 DEF Resolve
  <2>3. Resolve(TRUE, status) \in {Truth("partial_success", TRUE), Truth("failed", TRUE)}
    BY <2>1, <2>2
  <2>4. \A outcome : Truth(outcome, TRUE).resume = TRUE
    BY DEF Truth
  <2> QED BY <2>3, <2>4
<1> QED BY <1>1, <1>2

\* the timeline of a failed turn ends with its cursor
LEMMA FinalCursor ==
  ASSUME TypeOK, stream_failed, NEW truth \in [outcome : Outcomes, resume : BOOLEAN]
  PROVE  FinalTimeline(truth) # <<>> /\ LastOf(FinalTimeline(truth)).cursor = CursorOf(truth)
<1> DEFINE cursor  == CursorOf(truth)
           flushed == Flush(IF stream_failed \/ truth.outcome = "partial_success"
                            THEN cursor ELSE NoCursor)
           m == Message("assistant", None, cursor)
<1>1. cursor \in Cursors /\ NoCursor \in Cursors
  BY CursorOfType DEF Cursors
<1>2. flushed \in Seq(Messages)
  BY <1>1, FlushType
<1>3. m.cursor = cursor
  BY MessageParts
<1>4. FinalTimeline(truth) = IF flushed = <<>> \/ LastOf(flushed).cursor # cursor
                             THEN Append(flushed, m) ELSE flushed
  BY DEF FinalTimeline
<1> HIDE DEF flushed, m, cursor
<1>5. Append(flushed, m) # <<>> /\ LastOf(Append(flushed, m)) = m
  BY <1>2 DEF LastOf
<1> QED BY <1>3, <1>4, <1>5 DEF cursor

LEMMA EventLast ==
  ASSUME TypeOK, NEW e, events' = Append(events, e) PROVE LastOf(events)' = e /\ events' # <<>>
<1>1. /\ Len(events) \in Nat /\ Len(events') = Len(events) + 1
      /\ events'[Len(events) + 1] = e
  BY DEF TypeOK
<1> QED BY <1>1 DEF LastOf

LEMMA EndStatusStep ==
  TypeOK /\ VerdictInv /\ EndStatus /\ [Next]_vars => EndStatus'
<1> SUFFICES ASSUME TypeOK, VerdictInv, EndStatus, [Next]_vars PROVE EndStatus'
  OBVIOUS
<1> USE DEF control, cancel, retries, blocks, success, text, stored, Break
<1>0. CompletionAnnounced => pc \in {"finalize", "saved", "crashed", "done"}
  BY DEF VerdictInv, CompletionCloses
\* steps that announce nothing
<1>a. ASSUME events' = events, terminal_status' = terminal_status,
             pc' \in {"finalize", "saved", "done"} => pc \in {"finalize", "saved", "done"}
      PROVE  EndStatus'
  BY <1>a, NothingAnnounced DEF EndStatus, LastOf
<1>1. CASE \/ Reject \/ Accept \/ Cancel \/ Admit \/ StartRetry \/ StartOk \/ TextDelta
           \/ ThinkingDelta \/ StreamEventRetry \/ StreamEnds \/ StartBatch \/ ToolRunning
           \/ ToolDecided \/ BatchDone \/ Crash \/ UNCHANGED vars
           \/ \E ok, mutating \in BOOLEAN : ToolSettled(ok, mutating)
           \/ \E t \in ToolIds : ToolBlockStart(t) \/ InputJsonDelta(t) \/ ContentBlockStop(t)
  <2>1. /\ events' = events /\ terminal_status' = terminal_status
        /\ pc' \in {"finalize", "saved", "done"} => pc \in {"finalize", "saved", "done"}
    BY <1>1 DEF vars, Reject, Accept, Cancel, Admit, StartRetry, StartOk, TextDelta, ThinkingDelta,
         StreamEventRetry, StreamEnds, StartBatch, ToolRunning, ToolDecided, BatchDone, Crash,
         ToolSettled, ToolBlockStart, InputJsonDelta, ContentBlockStop
  <2> QED BY <1>a, <2>1
<1>2. CASE MaxIterationsReached \/ NoToolUses
  <2>1. /\ events' = events /\ terminal_status' # "none" /\ pc \notin {"finalize", "saved", "done"}
        /\ terminal_status' = "cancelled_by_user" => terminal_status = "cancelled_by_user"
    BY <1>2 DEF MaxIterationsReached, NoToolUses
  <2> QED BY <2>1, NothingAnnounced DEF EndStatus, LastOf
<1>3. ASSUME NEW e, events' = Append(events, e), e.type = "stream_error", ~CompletionAnnounced,
             pc' \in {"finalize", "saved", "done"} => terminal_status' # "none",
             terminal_status' = "cancelled_by_user" => terminal_status = "cancelled_by_user"
      PROVE  EndStatus'
  BY <1>3, EventAnnounced DEF EndStatus
<1>4. CASE CostDenied
  <2> DEFINE e == Event("stream_error", Resolve(TRUE, "failed_to_start_stream"), NoCursor)
  <2>1. /\ events' = Append(events, e) /\ ~CompletionAnnounced
        /\ terminal_status' = "failed_to_start_stream"
    BY <1>0, <1>4 DEF CostDenied
  <2>2. e.type = "stream_error"
    BY DEF Event
  <2> HIDE DEF e
  <2> QED BY <1>3, <2>1, <2>2
<1>5. CASE StartFailed
  <2> DEFINE e == Failure("failed_to_start_stream")
  <2>1. /\ events' = Append(events, e) /\ ~CompletionAnnounced
        /\ terminal_status' = "failed_to_start_stream"
    BY <1>0, <1>5 DEF StartFailed
  <2>2. e.type = "stream_error"
    BY DEF Event, Failure
  <2> HIDE DEF e
  <2> QED BY <1>3, <2>1, <2>2
<1>6. CASE StreamEventError
  <2> DEFINE e == Failure(terminal_status')
  <2>1. /\ events' = Append(events, e) /\ ~CompletionAnnounced
        /\ terminal_status' # "none" /\ terminal_status' \in {terminal_status, "stream_error"}
    BY <1>0, <1>6 DEF StreamEventError
  <2>2. e.type = "stream_error"
    BY DEF Event, Failure
  <2> HIDE DEF e
  <2> QED BY <1>3, <2>1, <2>2
<1>7. CASE CancelSeen
  <2> DEFINE e == Event("stream_complete", Resolve(TRUE, "cancelled_by_user"), NoCursor)
  <2>1. events' = Append(events, e) /\ terminal_status' = "cancelled_by_user"
    BY <1>7 DEF CancelSeen
  <2>2. e.type = "stream_complete"
    BY DEF Event
  <2> HIDE DEF e
  <2> QED BY <2>1, <2>2, EventAnnounced, EventLast DEF EndStatus
<1>8. ASSUME NEW e, events' = Append(events, e), e.type # "stream_error",
             pc \in {"finalize", "saved"}, terminal_status' = terminal_status
      PROVE  EndStatus'
  BY <1>8, EventAnnounced, EventLast DEF EndStatus
<1>9. ASSUME NEW claim \in BOOLEAN, NEW ok \in BOOLEAN, FinalizeSave(claim, ok) PROVE EndStatus'
  <2>1. /\ events' = events \/ events' = Append(events, TextOverride)
        /\ pc = "finalize" /\ terminal_status' = terminal_status
    BY <1>9 DEF FinalizeSave
  <2>2. TextOverride.type # "stream_error"
    BY DEF TextOverride, Event
  <2> QED BY <1>8, <1>a, <2>1, <2>2
<1>10. CASE FinalizeComplete
  <2> DEFINE truth == Resolve(stream_failed, terminal_status)
             e == Event("stream_complete", truth, CursorOf(truth))
  <2>1. /\ events' = events \/ events' = Append(events, e)
        /\ pc = "saved" /\ terminal_status' = terminal_status
    BY <1>10 DEF FinalizeComplete
  <2>2. e.type # "stream_error"
    BY DEF Event
  <2> HIDE DEF e
  <2> QED BY <1>8, <1>a, <2>1, <2>2
<1> QED BY <1>1, <1>2, <1>4, <1>5, <1>6, <1>7, <1>9, <1>10
        DEF Next, ProviderAnswers, ProviderEvent, ProviderEnds, TaskStep

LEMMA EndSavedStep ==
  TypeOK /\ EndStatus /\ EndSaved /\ [Next]_vars => EndSaved'
<1> SUFFICES ASSUME TypeOK, EndStatus, EndSaved, [Next]_vars PROVE EndSaved'
  OBVIOUS
<1> USE DEF control, cancel, retries, blocks, success, text, stored, Break
<1>1. ASSUME pc' \in {"saved", "done"} =>
               /\ pc \in {"saved", "done"}
               /\ UNCHANGED <<timeline, disk, save_failed, stream_failed, terminal_status,
                              tool_loop_iter, token_count>>
      PROVE  EndSaved'
  <2> SUFFICES ASSUME pc' \in {"saved", "done"} PROVE EndSaved'
    BY DEF EndSaved
  <2>1. /\ pc \in {"saved", "done"}
        /\ UNCHANGED <<timeline, disk, save_failed, stream_failed, terminal_status,
                       tool_loop_iter, token_count>>
    BY <1>1
  <2>2. Saved(Turn)' = Saved(Turn)
    BY <2>1 DEF Turn, Saved, Compacted
  <2>3. LastOf(timeline)' = LastOf(timeline) /\ build_resume_cursor' = build_resume_cursor
    BY <2>1 DEF LastOf, build_resume_cursor
  <2> QED BY <2>1, <2>2, <2>3 DEF EndSaved
<1>2. ASSUME NEW claim \in BOOLEAN, NEW ok \in BOOLEAN, FinalizeSave(claim, ok) PROVE EndSaved'
  <2> DEFINE truth == Resolve(stream_failed, terminal_status)
  <2>1. /\ pc = "finalize" /\ timeline' = FinalTimeline(truth) /\ save_failed' = ~ok
        /\ ok => disk' \in Saved(<<Message("user", None, NoCursor)>> \o timeline')
        /\ UNCHANGED <<stream_failed, terminal_status, tool_loop_iter, token_count>>
    BY <1>2 DEF FinalizeSave
  <2>2. ~save_failed' => disk' \in Saved(Turn)'
    BY <2>1 DEF Turn, Saved, Compacted
  <2>3. ASSUME stream_failed, terminal_status # "cancelled_by_user"
        PROVE  timeline' # <<>> /\ LastOf(timeline') = LastOf(timeline)'
               /\ LastOf(timeline').cursor = build_resume_cursor
    <3>1. truth \in [outcome : Outcomes, resume : BOOLEAN]
      BY FinalResolved
    <3>2. terminal_status \in Statuses \ {"none", "cancelled_by_user"} /\ stream_failed = TRUE
      BY <2>1, <2>3 DEF EndStatus, TypeOK
    <3>3. truth.resume = TRUE
      BY <3>2, FailureResumes
    <3> QED BY <2>1, <2>3, <3>1, <3>3, FinalCursor DEF CursorOf, LastOf
  <2> QED BY <2>1, <2>2, <2>3 DEF EndSaved, build_resume_cursor
<1>3. \/ \E claim, ok \in BOOLEAN : FinalizeSave(claim, ok)
      \/ pc' \in {"saved", "done"} =>
           /\ pc \in {"saved", "done"}
           /\ UNCHANGED <<timeline, disk, save_failed, stream_failed, terminal_status,
                          tool_loop_iter, token_count>>
  BY DEF vars, Reject, Accept, Cancel, CancelSeen, MaxIterationsReached, Admit, CostDenied,
         StartRetry, StartFailed, StartOk, TextDelta, ThinkingDelta, NoToolUses, StreamEventRetry,
         StreamEnds, StreamEventError, StartBatch, ToolRunning, ToolDecided, ToolSettled, BatchDone,
         FinalizeComplete, Crash, ToolBlockStart, InputJsonDelta, ContentBlockStop,
         Next, ProviderAnswers, ProviderEvent, ProviderEnds, TaskStep
<1> QED BY <1>1, <1>2, <1>3

THEOREM EndInvariant == Spec => [](EndStatus /\ EndSaved)
<1>1. Init => EndStatus /\ EndSaved
  BY DEF Init, EndStatus, EndSaved, CompletionAnnounced, Has
<1>2. TypeOK /\ VerdictInv /\ EndStatus /\ EndSaved /\ [Next]_vars => (EndStatus /\ EndSaved)'
  BY EndStatusStep, EndSavedStep
<1> QED BY <1>1, <1>2, TypeCorrect, VerdictInvariant, PTL DEF Spec

\* what is on disk of a turn that is saved
LEMMA SavedTurn ==
  ASSUME TypeOK, disk \in Saved(Turn)
  PROVE  /\ disk # <<>> /\ (disk = Turn \/ disk[1].kind = "summary")
         /\ LastOf(disk) = LastOf(Turn)
         /\ timeline # <<>> => LastOf(disk) = LastOf(timeline)
<1> DEFINE u == Message("user", None, NoCursor)
<1>1. timeline \in Seq(Messages) /\ u \in Messages
  BY UserTyped DEF TypeOK
<1>2. Turn = <<u>> \o timeline
  BY DEF Turn
<1> HIDE DEF u
<1>3. Turn \in Seq(Messages) /\ Turn # <<>> /\ (timeline # <<>> => LastOf(Turn) = LastOf(timeline))
  <2>1. /\ Len(timeline) \in Nat /\ Len(Turn) = Len(timeline) + 1 /\ Turn \in Seq(Messages)
        /\ \A i \in 1 .. Len(timeline) : Turn[i + 1] = timeline[i]
        /\ timeline # <<>> => Len(timeline) \in 1 .. Len(timeline)
    BY <1>1, <1>2
  <2> QED BY <2>1 DEF LastOf
<1> QED BY <1>3, SavedLast

\* A completion that is not that of a stopped turn comes after a save that holds
\* the turn, whole or behind a summary.
THEOREM CompletedIsSavedTheorem == Spec => []CompletedIsSaved
<1> DEFINE Completed == \E i \in DOMAIN events : /\ events[i].type = "stream_complete"
                                                /\ events[i].outcome # "failed"
           Ends == Completed => pc = "done"
<1>1. Init => Ends
  BY DEF Init
<1>2. TypeOK /\ Ends /\ [Next]_vars => Ends'
  <2> SUFFICES ASSUME TypeOK, Ends, [Next]_vars PROVE Ends'
    OBVIOUS
  <2> USE DEF control, cancel, retries, blocks, success, text, stored, Break
  <2>1. ASSUME NEW e, events' = Append(events, e), pc # "done",
               e.type # "stream_complete" \/ e.outcome = "failed" \/ pc' = "done"
        PROVE  Ends'
    <3>1. /\ DOMAIN events' = 1..(Len(events) + 1)
          /\ DOMAIN events = 1..Len(events) /\ Len(events) \in Nat
          /\ \A i \in 1..Len(events) : events'[i] = events[i]
          /\ events'[Len(events) + 1] = e
      BY <2>1 DEF TypeOK
    <3> QED BY <2>1, <3>1
  <2>2. CASE CostDenied
    <3> DEFINE e == Event("stream_error", Resolve(TRUE, "failed_to_start_stream"), NoCursor)
    <3>1. events' = Append(events, e) /\ pc = "request" /\ e.type = "stream_error"
      BY <2>2 DEF CostDenied, Event
    <3> HIDE DEF e, Ends
    <3> QED BY <2>1, <3>1
  <2>3. CASE StartFailed
    <3> DEFINE e == Failure("failed_to_start_stream")
    <3>1. events' = Append(events, e) /\ pc = "request" /\ e.type = "stream_error"
      BY <2>3 DEF StartFailed, Event, Failure
    <3> HIDE DEF e, Ends
    <3> QED BY <2>1, <3>1
  <2>4. CASE StreamEventError
    <3> DEFINE e == Failure(terminal_status')
    <3>1. events' = Append(events, e) /\ pc = "streaming" /\ e.type = "stream_error"
      BY <2>4 DEF StreamEventError, Event, Failure
    <3> HIDE DEF e, Ends
    <3> QED BY <2>1, <3>1
  <2>5. CASE CancelSeen
    <3> DEFINE e == Event("stream_complete", Resolve(TRUE, "cancelled_by_user"), NoCursor)
    <3>1. events' = Append(events, e) /\ pc = "top" /\ e.outcome = "failed"
      BY <2>5 DEF CancelSeen, Event, Resolve, Truth
    <3> HIDE DEF e, Ends
    <3> QED BY <2>1, <3>1
  <2>6. ASSUME events' = events, pc = "done" => pc' = "done" PROVE Ends'
    BY <2>6
  <2>7. ASSUME NEW claim \in BOOLEAN, NEW ok \in BOOLEAN, FinalizeSave(claim, ok) PROVE Ends'
    <3>1. pc = "finalize" /\ (events' = events \/ events' = Append(events, TextOverride))
      BY <2>7 DEF FinalizeSave
    <3>2. TextOverride.type # "stream_complete"
      BY DEF TextOverride, Event
    <3> HIDE DEF Ends
    <3> QED BY <2>1, <2>6, <3>1, <3>2
  <2>8. CASE FinalizeComplete
    <3>1. pc = "saved" /\ pc' = "done"
      BY <2>8 DEF FinalizeComplete
    <3> QED BY <3>1
  <2>9. \/ CostDenied \/ StartFailed \/ StreamEventError \/ CancelSeen \/ FinalizeComplete
        \/ \E claim, ok \in BOOLEAN : FinalizeSave(claim, ok)
        \/ events' = events /\ (pc = "done" => pc' = "done")
    BY DEF vars, Reject, Accept, Cancel, MaxIterationsReached, Admit, StartRetry, StartOk, TextDelta,
         ThinkingDelta, NoToolUses, StreamEventRetry, StreamEnds, StartBatch, ToolRunning,
         ToolDecided, ToolSettled, BatchDone, Crash, ToolBlockStart, InputJsonDelta,
         ContentBlockStop, Next, ProviderAnswers, ProviderEvent, ProviderEnds, TaskStep, Ended
  <2> HIDE DEF Ends
  <2> QED BY <2>2, <2>3, <2>4, <2>5, <2>6, <2>7, <2>8, <2>9
<1>3. TypeOK /\ Ends /\ EndSaved => CompletedIsSaved
  <2> SUFFICES ASSUME TypeOK, EndSaved, pc = "done", ~save_failed
               PROVE  disk = Turn \/ (/\ disk # <<>> /\ disk[1].kind = "summary"
                                     /\ LastOf(disk) = LastOf(Turn))
    BY DEF CompletedIsSaved, Turn
  <2>1. disk \in Saved(Turn)
    BY DEF EndSaved
  <2> QED BY <2>1, SavedTurn
<1> HIDE DEF Ends
<1> QED BY <1>1, <1>2, <1>3, EndInvariant, TypeCorrect, PTL DEF Spec

\* The cursor announced with the error that ended the turn is the one the last
\* saved message carries, whatever the turn held when it failed.
THEOREM AnnouncedCursorTheorem == Spec => []AnnouncedCursorSaved
<1>1. TypeOK /\ VerdictInv /\ EndStatus /\ EndSaved => AnnouncedCursorSaved
  <2> SUFFICES ASSUME TypeOK, VerdictInv, EndStatus, EndSaved,
                      pc = "done", ~save_failed, events # <<>>,
                      LastOf(events).type = "stream_error",
                      LastOf(events).cursor = build_resume_cursor
               PROVE  LastOf(disk).cursor = build_resume_cursor
    BY DEF AnnouncedCursorSaved
  <2>1. stream_failed
    <3>1. Len(events) \in DOMAIN events
      BY DEF TypeOK
    <3>2. ErrorAnnounced
      BY <3>1 DEF ErrorAnnounced, Has, LastOf
    <3> QED BY <3>2 DEF VerdictInv, ErrorsRemembered
  <2>2. terminal_status # "cancelled_by_user"
    BY DEF EndStatus
  <2>3. timeline # <<>> /\ LastOf(timeline).cursor = build_resume_cursor /\ disk \in Saved(Turn)
    BY <2>1, <2>2 DEF EndSaved
  <2> QED BY <2>3, SavedTurn
<1> QED BY <1>1, EndInvariant, VerdictInvariant, TypeCorrect, PTL
=============================================================================
