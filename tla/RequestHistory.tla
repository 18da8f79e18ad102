--------------------------- MODULE RequestHistory ---------------------------
(***************************************************************************)
(* The messages of a provider request: a streaming turn takes the saved    *)
(* session, and in every round of its tool loop trims the messages to the  *)
(* budgets (prompt_planner/governor.rs), removes calls and results that    *)
(* have lost their counterpart (sanitize.rs), adds a notice, and trims     *)
(* again.  The session holds what streaming turns, non-streaming turns and *)
(* compactions have left in it.                                            *)
(***************************************************************************)
EXTENDS Integers, Sequences, SequencesExt, FiniteSetsExt, Functions

CONSTANTS
  Ids,          \* ids of tool calls; providers use them again
  None,
  Questions,    \* characters of what the user sends
  Sizes,        \* characters of what the model answers, text or arguments
  Handle,       \* characters of a result, summarised for the model
  Notice,       \* characters of a notice, a summary or a compacted message
  MaxMessages,  \* MAX_REQUEST_MESSAGE_COUNT
  MaxChars,     \* MAX_REQUEST_CHAR_BUDGET
  MaxTokens,    \* preflight_input_budget
  Keep,         \* preserve_recent_messages
  MaxSession    \* bound of the model: messages of a session or of a turn

ASSUME SizeAssumption ==
  /\ (Questions \cup Sizes) \subseteq Nat \ {0} /\ Handle \in Nat \ {0} /\ Notice \in Nat \ {0}
  /\ {MaxMessages, MaxChars, MaxTokens, Keep, MaxSession} \subseteq Nat \ {0}
\* The output limit of a request keeps the arguments of a call far below the
\* budget of the next one.
ASSUME PairFits == \A n \in Sizes :
  /\ n + Handle <= MaxChars /\ MaxMessages >= 2
  /\ (n + Handle) \div 4 + 3 <= MaxTokens
ASSUME NoneAssumption == None \notin Ids

VARIABLES
  session,   \* messages of the saved session
  messages,  \* session_messages of the turn
  timeline,  \* what the turn will add to the session
  request,   \* messages of the last request
  phase      \* "idle", "round" before a request, "model" after it

vars == <<session, messages, timeline, request, phase>>

Text(n) == [kind |-> "text", id |-> None, size |-> n]
Use(i, n) == [kind |-> "use", id |-> i, size |-> n]
Result(i) == [kind |-> "result", id |-> i, size |-> Handle]
Said(r, n) == [role |-> r, blocks |-> <<Text(n)>>]
Called(blocks) == [role |-> "assistant", blocks |-> blocks]
Returned(i) == [role |-> "user", blocks |-> <<Result(i)>>]
Pair(i, n) == <<Called(<<Use(i, n)>>), Returned(i)>>

IdsOf(kind, m) == {b.id : b \in {b \in Range(m.blocks) : b.kind = kind}}

-----------------------------------------------------------------------------
(* The governor.  Results are handles already when they get here, so the   *)
(* artifact gate has nothing left to shorten.                              *)

Size(m) == FoldLeft(LAMBDA n, b : n + b.size, 0, m.blocks)
Chars(ms) == FoldLeft(LAMBDA n, m : n + Size(m), 0, ms)

Tokens(ms) == Chars(ms) \div 4 + 1 + Len(ms)

From(ms, i) == SubSeq(ms, i, Len(ms))

\* Messages go from the oldest end until the rest fits, at the first of starts;
\* a last one that does not is replaced by a summary in the name of the user
Trim(ms, starts) ==
  IF starts = {} THEN <<Said("user", Notice)>> ELSE From(ms, Min(starts))

TokenBudgetGate(ms) ==
  Trim(ms, {i \in DOMAIN ms : Tokens(From(ms, i)) <= MaxTokens})

ApplyRequestPreflightLimits(ms) ==
  Trim(ms, {i \in DOMAIN ms :
              Len(From(ms, i)) <= MaxMessages /\ Chars(From(ms, i)) <= MaxChars})

Admit(ms) == ApplyRequestPreflightLimits(TokenBudgetGate(ms))

-----------------------------------------------------------------------------
(* The sanitizer: one pass, which remembers the last message with calls and *)
(* the results it still expects                                             *)

OtherBlocks(blocks) ==
  FoldLeft(LAMBDA kept, b : IF b.kind = "use" THEN kept ELSE Append(kept, b), <<>>, blocks)

RemoveToolUseBlocks(m) == [m EXCEPT !.blocks = OtherBlocks(@)]

\* A message that answers none of the pending calls leaves them unmatched
Unmatched(st, m) ==
  st.pending # 0 /\ (m.role # "user" \/ IdsOf("result", m) \cap st.expected = {})

GiveUp(st) ==
  [out |-> [st.out EXCEPT ![st.pending] = RemoveToolUseBlocks(@)], expected |-> {}, pending |-> 0]

\* A result is kept when it is expected; calls have an object for arguments,
\* as every conversion into these messages sees to
TakeBlock(role, st, b) ==
  IF b.kind # "result" THEN [st EXCEPT !.kept = Append(@, b)]
  ELSE IF role = "user" /\ b.id \in st.expected
       THEN [kept |-> Append(st.kept, b), expected |-> st.expected \ {b.id}]
       ELSE st

TakeBlocks(role, expected, blocks) ==
  FoldLeft(LAMBDA st, b : TakeBlock(role, st, b),
           [kept |-> <<>>, expected |-> expected], blocks)

SanitizeMessage(st, m) ==
  LET now == IF Unmatched(st, m) THEN GiveUp(st) ELSE st
      took == TakeBlocks(m.role, now.expected, m.blocks)
      clean == [m EXCEPT !.blocks = took.kept]
      asks == m.role = "assistant" /\ IdsOf("use", clean) # {}
  IN [out |-> IF took.kept = <<>> THEN now.out ELSE Append(now.out, clean),
      expected |-> IF asks THEN IdsOf("use", clean) ELSE took.expected,
      pending |-> IF asks THEN Len(now.out) + 1
                  ELSE IF took.expected = {} THEN 0 ELSE now.pending]

SanitizePass(ms) ==
  FoldLeft(LAMBDA st, m : SanitizeMessage(st, m),
           [out |-> <<>>, expected |-> {}, pending |-> 0], ms)

NonEmpty(ms) ==
  FoldLeft(LAMBDA out, m : IF m.blocks = <<>> THEN out ELSE Append(out, m), <<>>, ms)

Sanitize(ms) ==
  LET st == SanitizePass(ms)
  IN NonEmpty(IF st.pending = 0 THEN st.out ELSE GiveUp(st).out)

\* mutant: the request is sanitized before it is trimmed, and not after
BuildRequestTrimsLast(ms) ==
  LET clean == Sanitize(ms)
      first == Admit(clean)
      changed == Len(first) < Len(ms) \/ Chars(first) < Chars(ms)
  IN Admit(IF changed THEN <<Said("user", Notice)>> \o first ELSE first)

\* The messages of the next request
BuildRequest(ms) ==
  LET first == Admit(ms)
      clean == Sanitize(first)
      changed == Len(first) < Len(ms) \/ Chars(first) < Chars(ms) \/ clean # first
  IN Admit(IF changed THEN <<Said("user", Notice)>> \o clean ELSE clean)

-----------------------------------------------------------------------------
Init ==
  /\ session = <<>> /\ messages = <<>> /\ timeline = <<>> /\ request = <<>>
  /\ phase = "idle"

\* stream_turn: system messages are sent in the name of the user
AsUser(m) == IF m.role = "system" THEN [m EXCEPT !.role = "user"] ELSE m

StreamTurn ==
  /\ phase = "idle" /\ Len(session) < MaxSession
  /\ \E n \in Questions :
       /\ messages' = Append([i \in DOMAIN session |-> AsUser(session[i])], Said("user", n))
       /\ timeline' = <<Said("user", n)>>
  /\ phase' = "round"
  /\ UNCHANGED <<session, request>>

\* The head of the tool loop; the trimmed messages replace those of the turn
Round ==
  /\ phase = "round"
  /\ request' = BuildRequest(messages) /\ messages' = BuildRequest(messages)
  /\ phase' = "model"
  /\ UNCHANGED <<session, timeline>>

\* The calls of one response are run one after the other, each with its result;
\* text before them goes to the timeline only
RunTools ==
  /\ phase = "model" /\ Len(timeline) < MaxSession
  /\ \E i \in Ids, n \in Sizes, text \in BOOLEAN :
       /\ messages' = messages \o Pair(i, n)
       /\ timeline' = timeline \o (IF text THEN <<Said("assistant", n)>> ELSE <<>>) \o Pair(i, n)
  /\ phase' \in {"model", "round"}
  /\ UNCHANGED <<session, request>>

\* compact_session keeps the last messages behind a summary of the others, when
\* the session has become large enough
Compacted(ms) ==
  <<Said("system", Notice)>> \o SubSeq(ms, Len(ms) - Keep + 1, Len(ms))

Saved(ms) ==
  LET compactable == IF ms # <<>> /\ ms[1].role = "system" THEN Len(ms) - 1 ELSE Len(ms)
  IN {ms} \cup (IF compactable > Keep THEN {Compacted(ms)} ELSE {})

\* finalize_stream_task, after the answer, a stop or a failure
StreamFinalize ==
  /\ phase \in {"round", "model"}
  /\ \E answer \in {<<>>} \cup {<<Said("assistant", n)>> : n \in Sizes} :
       session' \in Saved(session \o timeline \o answer)
  /\ messages' = <<>> /\ timeline' = <<>> /\ request' = <<>> /\ phase' = "idle"

\* run_turn of the non-streaming path: the calls of a response in one message,
\* their results one by one behind it; at most one such response (bound)
Asked(n, calls) == Called(<<Text(n)>> \o [k \in DOMAIN calls |-> Use(calls[k], n)])
Answers(calls) == [k \in DOMAIN calls |-> Returned(calls[k])]

RunTurn ==
  /\ phase = "idle" /\ Len(session) < MaxSession
  /\ \E q \in Questions, n \in Sizes, calls \in {<<>>} \cup {<<i>> : i \in Ids} \cup
           {<<i, j>> : i, j \in Ids} :
       /\ IsInjective(calls)
       /\ session' \in Saved(session \o <<Said("user", q)>>
              \o (IF calls = <<>> THEN <<>> ELSE <<Asked(n, calls)>> \o Answers(calls))
              \o <<Said("assistant", n)>>)
  /\ UNCHANGED <<messages, timeline, request, phase>>

Next == StreamTurn \/ Round \/ RunTools \/ StreamFinalize \/ RunTurn

Spec == Init /\ [][Next]_vars

-----------------------------------------------------------------------------
\* What providers demand of a conversation: the results of the calls of a
\* message, and nothing else, come right behind it, each one once.
Paired(ms) ==
  \A i \in DOMAIN ms :
    /\ IdsOf("use", ms[i]) # {} =>
         \E j \in DOMAIN ms :
           /\ j > i /\ UNION {IdsOf("result", ms[k]) : k \in i + 1 .. j} = IdsOf("use", ms[i])
           /\ \A k \in i + 1 .. j : ms[k].role = "user" /\ IdsOf("result", ms[k]) # {}
    /\ IdsOf("result", ms[i]) # {} =>
         \E h \in 1 .. i - 1 :
           /\ IdsOf("result", ms[i]) \subseteq IdsOf("use", ms[h])
           /\ \A k \in h + 1 .. i - 1 :
                IdsOf("result", ms[k]) # {} /\ IdsOf("result", ms[k]) \cap IdsOf("result", ms[i]) = {}

\* The end of the conversation, the question or the result of the last call, is
\* the end of the request, unless it does not fit a request by itself.
EndsWithNewest(ms, newest) ==
  \/ Last(ms) = newest
  \/ Chars(<<newest>>) > MaxChars \/ Tokens(<<newest>>) > MaxTokens

\* Whatever the budgets have cut away and compactions have left of the session, a
\* request pairs its calls and results - the second trimming, behind the
\* sanitizer, does not separate them again - and still ends with what the model
\* has to answer.
RequestsUsable ==
  /\ Paired(request)
  /\ request # <<>> /\ request = messages => EndsWithNewest(request, Last(timeline))
=============================================================================
