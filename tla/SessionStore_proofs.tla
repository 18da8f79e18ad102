------------------------ MODULE SessionStore_proofs -------------------------
(***************************************************************************)
(* Theorems about SessionStore, for every number of tasks, every depth of  *)
(* the stacks and every number of changes.                                 *)
(***************************************************************************)
EXTENDS SessionStore, SequenceTheorems, TLAPS

\* a value of the file is a session or one of three marks
LEMMA MarksAreNoDocs ==
  /\ Absent \notin Doc /\ Empty \notin Doc /\ Garbage \notin Doc /\ NoDoc \notin Doc
BY FileAssumption

\* the stacks hold transcripts and never more than MaxDepth of them
LEMMA PushedFits ==
  ASSUME NEW s \in Seq(Text), NEW text \in Text
  PROVE  Pushed(s, text) \in Seq(Text) /\ Len(Pushed(s, text)) <= MaxDepth
<1> DEFINE longer == Append(s, text)
           from == IF Len(longer) > MaxDepth THEN Len(longer) - MaxDepth + 1 ELSE 1
<1>1. longer \in Seq(Text) /\ Len(longer) \in Nat /\ Len(longer) = Len(s) + 1
  BY AppendProperties, LenProperties
<1>2. MaxDepth \in Nat \ {0}
  BY DepthAssumption
<1> HIDE DEF longer
<1>3. from \in 1 .. Len(longer) + 1
  BY <1>1, <1>2, LenProperties
<1>4. /\ SubSeq(longer, from, Len(longer)) \in Seq(Text)
      /\ Len(SubSeq(longer, from, Len(longer))) =
           IF from <= Len(longer) THEN Len(longer) - from + 1 ELSE 0
  BY <1>1, <1>3, SubSeqProperties
<1>5. (IF from <= Len(longer) THEN Len(longer) - from + 1 ELSE 0) <= MaxDepth
  BY <1>1, <1>2
<1> QED BY <1>4, <1>5 DEF Pushed, longer

LEMMA PoppedFits ==
  ASSUME NEW s \in Seq(Text), s # <<>>, Len(s) <= MaxDepth
  PROVE  Last(s) \in Text /\ Front(s) \in Seq(Text) /\ Len(Front(s)) <= MaxDepth
<1>1. Len(s) \in Nat \ {0}
  BY EmptySeq, LenProperties
<1>2. s[Len(s)] \in Text
  BY <1>1, ElementOfSeq
<1>3. Front(s) \in Seq(Text) /\ Len(Front(s)) = Len(s) - 1
  <2>1. \A i \in 1 .. Len(s) - 1 : s[i] \in Text
    BY <1>1, ElementOfSeq
  <2>2. ASSUME NEW n \in Nat \ {0}, n = Len(s) PROVE Len(Front(s)) = n - 1
    <3>1. Len(Front(s)) = IF 1 <= n - 1 THEN (n - 1) - 1 + 1 ELSE 0
      BY <2>1, <2>2, SubSeqProperties DEF Front
    <3> QED BY <3>1
  <2>3. Front(s) \in Seq(Text)
    BY <1>1, <2>1, SubSeqProperties DEF Front
  <2> QED BY <1>1, <2>2, <2>3
<1> QED BY <1>1, <1>2, <1>3, DepthAssumption DEF Last

\* what a turn leaves is a transcript
LEMMA AnsweredText ==
  ASSUME TypeOK, NEW t \in Tasks, doc[t] \in Doc
  PROVE  Answered(t) \subseteq Text
<1>1. Append(doc[t].text, top + 1) \in Text
  BY AppendProperties DEF TypeOK, Doc, Text
<1>2. <<Summary, top + 1>> \in Text
  BY DEF TypeOK, Text, Summary
<1> QED BY <1>1, <1>2 DEF Answered

LEMMA StaleIsUpset ==
  ASSUME NEW t \in Tasks PROVE Stale(t) \subseteq Upsets
BY DEF Stale, Upsets

-----------------------------------------------------------------------------
\* a write hands over a session and empties the file
LEMMA WriteTyped ==
  ASSUME TypeOK, NEW t \in Tasks, NEW d \in Doc, Write(t, d)
  PROVE  /\ file' \in Doc \cup {Absent, Empty, Garbage}
         /\ inflight' \subseteq [by: Tasks, doc: Doc]
         /\ upsets' \subseteq Upsets
<1>1. inflight' \subseteq [by: Tasks, doc: Doc]
  BY DEF TypeOK, Write
<1>2. upsets' \subseteq Upsets
  <2>1. (IF inflight = {} THEN {} ELSE {"overlap"}) \subseteq Upsets
    BY DEF Upsets
  <2> QED BY <2>1, StaleIsUpset DEF TypeOK, Write
<1> QED BY <1>1, <1>2 DEF Write

LEMMA EndsTyped ==
  ASSUME TypeOK, NEW t \in Tasks, Ends(t)
  PROVE  /\ pc' \in [Tasks -> {"idle", "loaded", "running", "saving"}]
         /\ kind' \in [Tasks -> Kinds \cup {"none"}]
         /\ doc' \in [Tasks -> Doc \cup {NoDoc}]
         /\ \A u \in Tasks : (doc'[u] = NoDoc) <=> (pc'[u] = "idle")
BY DEF TypeOK, Ends

LEMMA DecideTyped ==
  ASSUME TypeOK, NEW t \in Tasks, NEW text \in Text, NEW title \in Nat,
         pc[t] # "idle", Decide(t, text, title), stacks' \in Seq(Text) \X Seq(Text),
         Len(undo') <= MaxDepth, Len(redo') <= MaxDepth
  PROVE  TypeOK'
<1>1. [text |-> text, title |-> title, ver |-> top + 1] \in Doc
  BY DEF TypeOK, Doc
<1>2. undo' \in Seq(Text) /\ redo' \in Seq(Text)
  BY DEF stacks
<1>3. doc' \in [Tasks -> Doc \cup {NoDoc}]
  BY <1>1 DEF TypeOK, Decide
<1>4. \A u \in Tasks : (doc'[u] = NoDoc) <=> (pc'[u] = "idle")
  BY <1>1, MarksAreNoDocs DEF TypeOK, Decide
<1>5. upsets' \subseteq Upsets
  BY StaleIsUpset DEF TypeOK, Decide
<1> QED BY <1>2, <1>3, <1>4, <1>5 DEF TypeOK, Decide

\* a task that is not idle has a session in hand
LEMMA InHand ==
  ASSUME TypeOK, NEW t \in Tasks, pc[t] # "idle"
  PROVE  doc[t] \in Doc /\ doc[t].text \in Text /\ doc[t].title \in Nat /\ doc[t].ver \in Nat
BY DEF TypeOK, Doc

\* every action keeps the types
LEMMA TypeStep == TypeOK /\ [Next]_vars => TypeOK'
<1> SUFFICES ASSUME TypeOK, [Next]_vars PROVE TypeOK'
  OBVIOUS
<1> USE MarksAreNoDocs
<1>1. ASSUME NEW t \in Tasks, NEW k \in Kinds, Load(t, k) PROVE TypeOK'
  BY <1>1 DEF TypeOK, Load, Readable, stacks, ghosts
<1>2. ASSUME NEW t \in Tasks, InterimSave(t) PROVE TypeOK'
  <2>1. [doc[t] EXCEPT !.text = Append(@, Partial), !.ver = 0] \in Doc
    <3>1. doc[t] \in Doc /\ Append(doc[t].text, Partial) \in Text
      BY <1>2, InHand, AppendProperties DEF InterimSave, Text, Partial
    <3> QED BY <3>1 DEF Doc
  <2> QED BY <1>2, <2>1, WriteTyped DEF TypeOK, InterimSave, stacks, tasks
<1>3. ASSUME NEW t \in Tasks, Finalize(t) PROVE TypeOK'
  <2>1. doc[t] \in Doc /\ doc[t].text \in Text /\ doc[t].title \in Nat /\ pc[t] # "idle"
    BY <1>3, InHand DEF Finalize
  <2>2. stacks' \in Seq(Text) \X Seq(Text) /\ Len(undo') <= MaxDepth /\ Len(redo') <= MaxDepth
    <3>1. undo' \in Seq(Text) /\ Len(undo') <= MaxDepth
      BY <1>3, <2>1, PushedFits DEF TypeOK, Finalize, Checkpoint
    <3>2. redo' \in Seq(Text) /\ Len(redo') <= MaxDepth
      BY <1>3, DepthAssumption DEF Finalize, Checkpoint
    <3> QED BY <3>1, <3>2 DEF stacks
  <2> QED BY <1>3, <2>1, <2>2, AnsweredText, DecideTyped DEF Finalize
<1>4. ASSUME NEW t \in Tasks, RunStarts(t) PROVE TypeOK'
  <2>1. doc[t].text \in Text
    BY <1>4, InHand DEF RunStarts
  <2>2. undo' \in Seq(Text) /\ redo' \in Seq(Text) /\ Len(undo') <= MaxDepth /\ Len(redo') <= MaxDepth
    BY <1>4, <2>1, PushedFits, DepthAssumption DEF TypeOK, RunStarts, Checkpoint
  <2> QED BY <1>4, <2>2, StaleIsUpset DEF TypeOK, RunStarts
<1>5. ASSUME NEW t \in Tasks, RunAnswers(t) PROVE TypeOK'
  <2>1. doc[t] \in Doc /\ doc[t].title \in Nat /\ pc[t] # "idle"
    BY <1>5, InHand DEF RunAnswers
  <2>2. stacks' \in Seq(Text) \X Seq(Text) /\ Len(undo') <= MaxDepth /\ Len(redo') <= MaxDepth
    BY <1>5 DEF TypeOK, RunAnswers, stacks
  <2> QED BY <1>5, <2>1, <2>2, AnsweredText, DecideTyped DEF RunAnswers
<1>6. ASSUME NEW t \in Tasks, RunFails(t) PROVE TypeOK'
  BY <1>6, EndsTyped DEF TypeOK, RunFails, stacks, ghosts
<1>7. ASSUME NEW t \in Tasks, Rename(t) PROVE TypeOK'
  <2>1. doc[t].text \in Text /\ pc[t] # "idle" /\ top + 1 \in Nat
    BY <1>7, InHand DEF Rename, TypeOK
  <2>2. stacks' \in Seq(Text) \X Seq(Text) /\ Len(undo') <= MaxDepth /\ Len(redo') <= MaxDepth
    BY <1>7 DEF TypeOK, Rename, stacks
  <2> QED BY <1>7, <2>1, <2>2, DecideTyped DEF Rename
<1>8. ASSUME NEW t \in Tasks, Undo(t) PROVE TypeOK'
  <2>1. doc[t].text \in Text /\ doc[t].title \in Nat /\ pc[t] # "idle"
    BY <1>8, InHand DEF Undo
  <2>2. Last(undo) \in Text /\ Front(undo) \in Seq(Text) /\ Len(Front(undo)) <= MaxDepth
    BY <1>8, PoppedFits DEF Undo, TypeOK
  <2>3. stacks' \in Seq(Text) \X Seq(Text) /\ Len(undo') <= MaxDepth /\ Len(redo') <= MaxDepth
    BY <1>8, <2>1, <2>2, PushedFits DEF TypeOK, Undo, stacks
  <2> QED BY <1>8, <2>1, <2>2, <2>3, DecideTyped DEF Undo
<1>9. ASSUME NEW t \in Tasks, Redo(t) PROVE TypeOK'
  <2>1. doc[t].text \in Text /\ doc[t].title \in Nat /\ pc[t] # "idle"
    BY <1>9, InHand DEF Redo
  <2>2. Last(redo) \in Text /\ Front(redo) \in Seq(Text) /\ Len(Front(redo)) <= MaxDepth
    BY <1>9, PoppedFits DEF Redo, TypeOK
  <2>3. stacks' \in Seq(Text) \X Seq(Text) /\ Len(undo') <= MaxDepth /\ Len(redo') <= MaxDepth
    BY <1>9, <2>1, <2>2, PushedFits DEF TypeOK, Redo, stacks
  <2> QED BY <1>9, <2>1, <2>2, <2>3, DecideTyped DEF Redo
<1>10. ASSUME NEW t \in Tasks, NothingToRestore(t) PROVE TypeOK'
  BY <1>10, EndsTyped DEF TypeOK, NothingToRestore, stacks, ghosts
<1>11. ASSUME NEW t \in Tasks, Save(t) PROVE TypeOK'
  <2>1. doc[t] \in Doc /\ doc[t].title \in Nat
    BY <1>11, InHand DEF Save
  <2> QED BY <1>11, <2>1, WriteTyped, EndsTyped DEF TypeOK, Save, stacks
<1>12. ASSUME NEW t \in Tasks, SaveFails(t) PROVE TypeOK'
  BY <1>12, EndsTyped DEF TypeOK, SaveFails, stacks, Upsets
<1>13. ASSUME NEW w \in inflight, Land(w) PROVE TypeOK'
  BY <1>13 DEF TypeOK, Land, stacks, tasks, ghosts
<1>14. ASSUME NEW w \in inflight, LandFails(w) PROVE TypeOK'
  BY <1>14 DEF TypeOK, LandFails, stacks, tasks, Upsets
<1>15. CASE Delete
  BY <1>15, DepthAssumption DEF TypeOK, Delete, tasks
<1>16. CASE Crash
  BY <1>16, DepthAssumption DEF TypeOK, Crash, Upsets
<1>17. CASE UNCHANGED vars
  BY <1>17 DEF TypeOK, vars, stacks, tasks, ghosts
<1> QED BY <1>1, <1>2, <1>3, <1>4, <1>5, <1>6, <1>7, <1>8, <1>9, <1>10, <1>11,
           <1>12, <1>13, <1>14, <1>15, <1>16, <1>17 DEF Next

LEMMA InitTyped == Init => TypeOK
<1> SUFFICES ASSUME Init PROVE TypeOK
  OBVIOUS
<1>1. file \in Doc
  BY DEF Init, Doc, Text
<1>2. undo \in Seq(Text) /\ redo \in Seq(Text) /\ Len(undo) = 0 /\ Len(redo) = 0
  BY DEF Init
<1> QED BY <1>1, <1>2, DepthAssumption DEF Init, TypeOK, Upsets

\* Every file, stack and copy holds sessions, the stacks stay within their depth,
\* and a task has a copy exactly while it runs.
THEOREM TypeCorrect == Spec => []TypeOK
BY InitTyped, TypeStep, PTL DEF Spec

-----------------------------------------------------------------------------
(* The file and the writes in flight *)

Disturbed == upsets \cap {"overlap", "io", "crash"} # {}

\* A file that cannot be read is about to be written; bytes are on their way to
\* an empty file only, and one write at a time, unless saves were disturbed.
WritesInv ==
  /\ file \in {Empty, Garbage} => inflight # {} \/ Disturbed
  /\ inflight # {} /\ file # Empty => Disturbed
  /\ \A v, w \in inflight : v # w => Disturbed

\* what a step may do to the file
LEMMA FileSteps ==
  ASSUME [Next]_vars
  PROVE  \/ UNCHANGED <<file, inflight>> /\ upsets \subseteq upsets'
         \/ \E t \in Tasks, d \in {doc[u] : u \in Tasks} \cup
                {[doc[u] EXCEPT !.text = Append(@, Partial), !.ver = 0] : u \in Tasks} :
              Write(t, d)
         \/ \E w \in inflight : Land(w) \/ LandFails(w)
         \/ Delete
         \/ Crash
<1> DEFINE Quiet == UNCHANGED <<file, inflight>> /\ upsets \subseteq upsets'
           Writes == \E t \in Tasks, d \in {doc[u] : u \in Tasks} \cup
                {[doc[u] EXCEPT !.text = Append(@, Partial), !.ver = 0] : u \in Tasks} :
              Write(t, d)
<1>1. ASSUME NEW t \in Tasks, NEW k \in Kinds, Load(t, k) PROVE Quiet
  BY <1>1 DEF Load, ghosts
<1>2. ASSUME NEW t \in Tasks, Finalize(t) \/ RunAnswers(t) \/ Rename(t) \/ Undo(t) \/ Redo(t)
      PROVE  Quiet
  BY <1>2 DEF Finalize, RunAnswers, Rename, Undo, Redo, Decide
<1>3. ASSUME NEW t \in Tasks, RunStarts(t) \/ RunFails(t) \/ NothingToRestore(t) \/ SaveFails(t)
      PROVE  Quiet
  BY <1>3 DEF RunStarts, RunFails, NothingToRestore, SaveFails, ghosts
<1>4. ASSUME NEW t \in Tasks, InterimSave(t) \/ Save(t)
      PROVE  Writes
  BY <1>4 DEF InterimSave, Save
<1>5. CASE UNCHANGED vars
  BY <1>5 DEF vars, ghosts
<1> HIDE DEF Quiet, Writes
<1>6. ASSUME Next
      PROVE  Quiet \/ Writes \/ (\E w \in inflight : Land(w) \/ LandFails(w)) \/ Delete \/ Crash
  BY <1>1, <1>2, <1>3, <1>4, <1>6 DEF Next
<1> QED BY <1>5, <1>6 DEF Quiet, Writes

LEMMA WritesInductive == WritesInv /\ TypeOK /\ [Next]_vars => WritesInv'
<1> SUFFICES ASSUME WritesInv, TypeOK, [Next]_vars PROVE WritesInv'
  OBVIOUS
<1> USE FileAssumption
<1>1. CASE UNCHANGED <<file, inflight>> /\ upsets \subseteq upsets'
  BY <1>1 DEF WritesInv, Disturbed
<1>2. ASSUME NEW t \in Tasks, NEW d, Write(t, d) PROVE WritesInv'
  <2>1. file' = Empty /\ inflight' # {}
    BY <1>2 DEF Write
  <2>2. CASE inflight = {}
    BY <1>2, <2>1, <2>2 DEF WritesInv, Disturbed, Write
  <2>3. CASE inflight # {}
    BY <1>2, <2>1, <2>3 DEF WritesInv, Disturbed, Write
  <2> QED BY <2>2, <2>3
<1>3. ASSUME NEW w \in inflight, Land(w) PROVE WritesInv'
  <2>1. CASE Disturbed
    BY <1>3, <2>1 DEF WritesInv, Disturbed, Land, ghosts
  <2>2. CASE ~Disturbed
    <3>1. file = Empty /\ inflight' = {} /\ file' = w.doc
      BY <1>3, <2>2 DEF WritesInv, Land
    <3>2. file' \notin {Empty, Garbage}
      BY <3>1, MarksAreNoDocs DEF TypeOK
    <3> QED BY <3>1, <3>2 DEF WritesInv
  <2> QED BY <2>1, <2>2
<1>4. ASSUME NEW w \in inflight, LandFails(w) PROVE WritesInv'
  BY <1>4 DEF WritesInv, Disturbed, LandFails
<1>5. CASE Delete
  BY <1>5 DEF WritesInv, Delete
<1>6. CASE Crash
  BY <1>6 DEF WritesInv, Disturbed, Crash
<1> QED BY <1>1, <1>2, <1>3, <1>4, <1>5, <1>6, FileSteps

\* A file that cannot be read has a save in flight or a disturbed save behind it.
THEOREM UnreadableIsExplained == Spec => []UnreadableExplained
<1>1. Init => WritesInv
  <2> SUFFICES ASSUME Init PROVE WritesInv
    OBVIOUS
  <2>1. file \in Doc
    BY DEF Init, Doc, Text
  <2> QED BY <2>1, MarksAreNoDocs DEF Init, WritesInv
<1>2. WritesInv => UnreadableExplained
  BY DEF WritesInv, UnreadableExplained, Disturbed
<1> QED BY <1>1, <1>2, WritesInductive, TypeCorrect, PTL DEF Spec

-----------------------------------------------------------------------------
(* Versions: no copy is newer than the last change, and every copy of a     *)
(* deleted session is older                                                 *)

VersionsInv ==
  /\ top >= 1
  /\ file \in Doc => file.ver <= top
  /\ \A w \in inflight : w.doc.ver <= top
  /\ \A t \in Tasks : doc[t] # NoDoc => doc[t].ver <= top

\* a change makes its copy the newest one
LEMMA DecideVersions ==
  ASSUME TypeOK, VersionsInv, NEW t \in Tasks, NEW text, NEW title, Decide(t, text, title)
  PROVE  VersionsInv'
<1>1. file' = file /\ inflight' = inflight /\ top' = top + 1 /\ top \in Nat
  BY DEF Decide, TypeOK
<1>2. \A u \in Tasks : doc'[u] = IF u = t THEN [text |-> text, title |-> title, ver |-> top + 1]
                                 ELSE doc[u]
  BY DEF Decide, TypeOK
<1>3. file \in Doc => file.ver \in Nat
  BY DEF Doc
<1>4. \A w \in inflight : w.doc.ver \in Nat
  BY DEF TypeOK, Doc
<1>5. \A u \in Tasks : doc[u] # NoDoc => doc[u].ver \in Nat
  BY DEF TypeOK, Doc
<1> QED BY <1>1, <1>2, <1>3, <1>4, <1>5 DEF VersionsInv

\* what is written is a copy of a task, or its interim form, numbered 0
LEMMA WriteVersions ==
  ASSUME TypeOK, VersionsInv, NEW t \in Tasks, NEW d, Write(t, d), d.ver <= top,
         top' = top, \A u \in Tasks : doc'[u] \in {doc[u], NoDoc}
  PROVE  VersionsInv'
<1>1. file' \notin Doc
  BY MarksAreNoDocs DEF Write
<1>2. \A w \in inflight' : w \in inflight \/ w.doc = d
  BY DEF Write
<1> QED BY <1>1, <1>2 DEF VersionsInv

LEMMA VersionsInductive == VersionsInv /\ TypeOK /\ [Next]_vars => VersionsInv'
<1> SUFFICES ASSUME VersionsInv, TypeOK, [Next]_vars PROVE VersionsInv'
  OBVIOUS
<1> USE MarksAreNoDocs
<1>1. ASSUME NEW t \in Tasks, NEW k \in Kinds, Load(t, k) PROVE VersionsInv'
  <2>1. file \in Doc /\ UNCHANGED <<file, inflight, top>>
    BY <1>1 DEF Load, Readable, TypeOK, ghosts
  <2>2. \A u \in Tasks : doc'[u] \in {doc[u], file}
    BY <1>1 DEF Load, TypeOK
  <2> QED BY <2>1, <2>2 DEF VersionsInv
<1>2. ASSUME NEW t \in Tasks,
             Finalize(t) \/ RunAnswers(t) \/ Rename(t) \/ Undo(t) \/ Redo(t)
      PROVE  VersionsInv'
  BY <1>2, DecideVersions DEF Finalize, RunAnswers, Rename, Undo, Redo
<1>3. ASSUME NEW t \in Tasks, RunStarts(t) PROVE VersionsInv'
  BY <1>3 DEF VersionsInv, RunStarts
<1>4. ASSUME NEW t \in Tasks, RunFails(t) \/ NothingToRestore(t) \/ SaveFails(t)
      PROVE  VersionsInv'
  <2>1. UNCHANGED <<file, inflight, top>>
    BY <1>4 DEF RunFails, NothingToRestore, SaveFails, ghosts
  <2>2. \A u \in Tasks : doc'[u] \in {doc[u], NoDoc}
    BY <1>4 DEF RunFails, NothingToRestore, SaveFails, Ends, TypeOK
  <2> QED BY <2>1, <2>2 DEF VersionsInv
<1>5. ASSUME NEW t \in Tasks, InterimSave(t) PROVE VersionsInv'
  <2> DEFINE d == [doc[t] EXCEPT !.text = Append(@, Partial), !.ver = 0]
  <2>1. Write(t, d) /\ top' = top /\ doc' = doc
    BY <1>5 DEF InterimSave, tasks
  <2>2. d.ver <= top
    <3>1. doc[t] \in Doc
      BY <1>5, InHand DEF InterimSave
    <3>2. d.ver = 0
      BY <3>1 DEF Doc
    <3> QED BY <3>2 DEF TypeOK
  <2> HIDE DEF d
  <2> QED BY <2>1, <2>2, WriteVersions
<1>6. ASSUME NEW t \in Tasks, Save(t) PROVE VersionsInv'
  <2>1. Write(t, doc[t]) /\ top' = top
    BY <1>6 DEF Save
  <2>2. doc[t].ver <= top
    BY <1>6, InHand DEF Save, VersionsInv
  <2>3. \A u \in Tasks : doc'[u] \in {doc[u], NoDoc}
    BY <1>6 DEF Save, Ends, TypeOK
  <2> QED BY <2>1, <2>2, <2>3, WriteVersions
<1>7. ASSUME NEW w \in inflight, Land(w) \/ LandFails(w) PROVE VersionsInv'
  <2>1. file' \in {file, w.doc, Garbage} /\ inflight' \subseteq inflight /\ UNCHANGED <<doc, top>>
    BY <1>7 DEF Land, LandFails, tasks, ghosts
  <2> QED BY <2>1 DEF VersionsInv
<1>8. CASE Delete
  <2>1. file' = Absent /\ inflight' = {} /\ top' = top + 1 /\ doc' = doc /\ top \in Nat
    BY <1>8 DEF Delete, tasks, TypeOK
  <2>2. \A u \in Tasks : doc[u] # NoDoc => doc[u].ver \in Nat
    BY DEF TypeOK, Doc
  <2> QED BY <2>1, <2>2 DEF VersionsInv
<1>9. CASE Crash
  BY <1>9 DEF VersionsInv, Crash
<1>10. CASE UNCHANGED vars
  BY <1>10 DEF VersionsInv, vars, tasks, ghosts
<1> QED BY <1>1, <1>2, <1>3, <1>4, <1>5, <1>6, <1>7, <1>8, <1>9, <1>10 DEF Next

GoneInv ==
  file = Absent =>
    /\ inflight = {}
    /\ "stale" \in upsets \/ \A t \in Tasks : doc[t] # NoDoc => doc[t].ver # top

BroughtBack == file = Absent /\ file' # Absent => "stale" \in upsets'

\* while the session is deleted, whoever decides or writes is found out
LEMMA DecideGone ==
  ASSUME TypeOK, GoneInv, NEW t \in Tasks, NEW text, NEW title, pc[t] # "idle",
         Decide(t, text, title)
  PROVE  GoneInv' /\ BroughtBack
<1>1. doc[t] # NoDoc
  BY DEF TypeOK
<1>2. file = Absent => "stale" \in upsets'
  BY <1>1 DEF GoneInv, Decide, Stale
<1> QED BY <1>2 DEF GoneInv, BroughtBack, Decide

LEMMA WriteGone ==
  ASSUME TypeOK, GoneInv, NEW t \in Tasks, NEW d, pc[t] # "idle", Write(t, d)
  PROVE  GoneInv' /\ BroughtBack
<1>1. doc[t] # NoDoc
  BY DEF TypeOK
<1>2. file = Absent => "stale" \in upsets'
  BY <1>1 DEF GoneInv, Write, Stale
<1> QED BY <1>2, FileAssumption DEF GoneInv, BroughtBack, Write

LEMMA GoneInductive ==
  GoneInv /\ VersionsInv /\ TypeOK /\ [Next]_vars => GoneInv' /\ BroughtBack
<1> SUFFICES ASSUME GoneInv, VersionsInv, TypeOK, [Next]_vars PROVE GoneInv' /\ BroughtBack
  OBVIOUS
<1> USE MarksAreNoDocs
<1>1. ASSUME NEW t \in Tasks, NEW k \in Kinds, Load(t, k) PROVE GoneInv' /\ BroughtBack
  BY <1>1 DEF Load, Readable, GoneInv, BroughtBack
<1>2. ASSUME NEW t \in Tasks,
             Finalize(t) \/ RunAnswers(t) \/ Rename(t) \/ Undo(t) \/ Redo(t)
      PROVE  GoneInv' /\ BroughtBack
  BY <1>2, DecideGone DEF Finalize, RunAnswers, Rename, Undo, Redo
<1>3. ASSUME NEW t \in Tasks, RunStarts(t) PROVE GoneInv' /\ BroughtBack
  BY <1>3 DEF GoneInv, BroughtBack, RunStarts
<1>4. ASSUME NEW t \in Tasks, RunFails(t) \/ NothingToRestore(t) \/ SaveFails(t)
      PROVE  GoneInv' /\ BroughtBack
  <2>1. UNCHANGED <<file, inflight, top>> /\ upsets \subseteq upsets'
    BY <1>4 DEF RunFails, NothingToRestore, SaveFails, ghosts
  <2>2. \A u \in Tasks : doc'[u] \in {doc[u], NoDoc}
    BY <1>4 DEF RunFails, NothingToRestore, SaveFails, Ends, TypeOK
  <2> QED BY <2>1, <2>2 DEF GoneInv, BroughtBack
<1>5. ASSUME NEW t \in Tasks, InterimSave(t) \/ Save(t) PROVE GoneInv' /\ BroughtBack
  BY <1>5, WriteGone DEF InterimSave, Save
<1>6. ASSUME NEW w \in inflight, Land(w) \/ LandFails(w) PROVE GoneInv' /\ BroughtBack
  <2>1. file # Absent
    BY DEF GoneInv
  <2>2. file' \in {file, w.doc, Garbage} /\ w.doc \in Doc
    BY <1>6 DEF Land, LandFails, TypeOK
  <2> QED BY <2>1, <2>2, FileAssumption DEF GoneInv, BroughtBack
<1>7. CASE Delete
  <2>1. file' = Absent /\ inflight' = {} /\ top' = top + 1 /\ doc' = doc /\ top \in Nat
    BY <1>7 DEF Delete, tasks, TypeOK
  <2>2. \A u \in Tasks : doc[u] # NoDoc => doc[u].ver \in Nat
    BY DEF TypeOK, Doc
  <2> QED BY <2>1, <2>2 DEF GoneInv, BroughtBack, VersionsInv
<1>8. CASE Crash
  BY <1>8 DEF GoneInv, BroughtBack, Crash
<1>9. CASE UNCHANGED vars
  BY <1>9 DEF GoneInv, BroughtBack, vars, tasks, ghosts
<1> QED BY <1>1, <1>2, <1>3, <1>4, <1>5, <1>6, <1>7, <1>8, <1>9 DEF Next

LEMMA StartsAtOne == Init => VersionsInv /\ GoneInv
<1> SUFFICES ASSUME Init PROVE VersionsInv /\ GoneInv
  OBVIOUS
<1>1. file \in Doc /\ file.ver = 1 /\ top = 1
  BY DEF Init, Doc, Text
<1> QED BY <1>1, MarksAreNoDocs DEF Init, VersionsInv, GoneInv

\* A deleted session is written again only by a task that held an old copy of it.
THEOREM DeletionsLast == Spec => DeletedStaysGone
<1>1. Spec => []TypeOK /\ []VersionsInv
  BY StartsAtOne, VersionsInductive, TypeCorrect, PTL DEF Spec
<1>2. Spec => [](GoneInv)
  BY <1>1, StartsAtOne, GoneInductive, PTL DEF Spec
<1>3. GoneInv /\ VersionsInv /\ TypeOK /\ [Next]_vars
        => [file = Absent /\ file' # Absent => "stale" \in upsets']_vars
  BY GoneInductive DEF BroughtBack
<1> QED BY <1>1, <1>2, <1>3, PTL DEF Spec, DeletedStaysGone

-----------------------------------------------------------------------------
(* Titles: as long as nothing was disturbed, every copy of the newest       *)
(* version carries the title of the last acknowledged rename, save the one  *)
(* whose rename is about to be acknowledged                                 *)

Newest(t) == doc[t] # NoDoc /\ doc[t].ver = top
Renaming(t) == pc[t] = "saving" /\ kind[t] = "rename"

TitlesInv ==
  upsets = {} =>
    /\ file \in Doc => file.title = named
    /\ \A w \in inflight : w.doc.title = named
    /\ \A t \in Tasks : Newest(t) /\ ~Renaming(t) => doc[t].title = named

\* The newest version is in one pair of hands until it is saved.
OneSaver ==
  upsets = {} =>
    \A t \in Tasks : Newest(t) /\ pc[t] = "saving" =>
      /\ file \in Doc => file.ver # top
      /\ \A w \in inflight : w.doc.ver # top
      /\ \A u \in Tasks \ {t} : ~Newest(u)

LEMMA NumbersAreNat ==
  ASSUME TypeOK
  PROVE  /\ top \in Nat
         /\ file \in Doc => file.ver \in Nat
         /\ \A w \in inflight : w.doc.ver \in Nat
         /\ \A t \in Tasks : doc[t] # NoDoc => doc[t].ver \in Nat
BY DEF TypeOK, Doc

LEMMA DecideTitles ==
  ASSUME TypeOK, VersionsInv, TitlesInv, OneSaver, NEW t \in Tasks, NEW text, NEW title,
         pc[t] \in {"loaded", "running"}, Decide(t, text, title),
         title = doc[t].title \/ kind[t] = "rename"
  PROVE  TitlesInv' /\ OneSaver'
<1> SUFFICES ASSUME upsets' = {} PROVE TitlesInv' /\ OneSaver'
  BY DEF TitlesInv, OneSaver
<1>1. upsets = {} /\ Newest(t)
  BY DEF Decide, Stale, TypeOK, Newest
<1>2. UNCHANGED <<file, inflight, kind, named>> /\ top' = top + 1
  BY DEF Decide
<1>3. \A u \in Tasks \ {t} : doc'[u] = doc[u] /\ pc'[u] = pc[u]
  BY DEF Decide, TypeOK
<1>4. doc'[t].title = title /\ doc'[t].ver = top + 1 /\ pc'[t] = "saving"
  BY DEF Decide, TypeOK
<1>5. \A u \in Tasks \ {t} : ~Newest(u)'
  BY <1>2, <1>3, NumbersAreNat DEF VersionsInv, Newest
<1>6. ~Renaming(t)' => title = named'
  BY <1>1, <1>2, <1>4 DEF TitlesInv, Renaming
<1>7. TitlesInv'
  BY <1>1, <1>2, <1>4, <1>5, <1>6 DEF TitlesInv
<1>8. OneSaver'
  BY <1>2, <1>5, NumbersAreNat DEF OneSaver, VersionsInv
<1> QED BY <1>7, <1>8

LEMMA SaveTitles ==
  ASSUME TypeOK, VersionsInv, TitlesInv, OneSaver, NEW t \in Tasks, Save(t)
  PROVE  TitlesInv' /\ OneSaver'
<1> SUFFICES ASSUME upsets' = {} PROVE TitlesInv' /\ OneSaver'
  BY DEF TitlesInv, OneSaver
<1>1. upsets = {} /\ inflight = {} /\ Newest(t)
  BY DEF Save, Write, Stale, TypeOK, Newest
<1>2. file' \notin Doc /\ top' = top /\ inflight' = {[by |-> t, doc |-> doc[t]]}
  BY <1>1, MarksAreNoDocs DEF Save, Write
<1>3. named' = doc[t].title
  BY <1>1 DEF TitlesInv, Renaming, Save
<1>4. \A u \in Tasks : ~Newest(u)'
  BY <1>1, <1>2 DEF OneSaver, Newest, Save, Ends, TypeOK
<1> QED BY <1>2, <1>3, <1>4 DEF TitlesInv, OneSaver

LEMMA InterimTitles ==
  ASSUME TypeOK, VersionsInv, TitlesInv, OneSaver, NEW t \in Tasks, InterimSave(t)
  PROVE  TitlesInv' /\ OneSaver'
<1> SUFFICES ASSUME upsets' = {} PROVE TitlesInv' /\ OneSaver'
  BY DEF TitlesInv, OneSaver
<1> DEFINE d == [doc[t] EXCEPT !.text = Append(@, Partial), !.ver = 0]
<1>1. upsets = {} /\ inflight = {} /\ Newest(t) /\ doc[t] \in Doc
  BY InHand DEF InterimSave, Write, Stale, TypeOK, Newest
<1>2. d.title = doc[t].title /\ d.ver = 0
  BY <1>1 DEF Doc
<1>3. doc[t].title = named
  BY <1>1 DEF TitlesInv, Renaming, InterimSave
<1>4. /\ file' \notin Doc /\ inflight' = {[by |-> t, doc |-> d]}
      /\ UNCHANGED <<pc, kind, doc, top, named>>
  BY <1>1, MarksAreNoDocs DEF InterimSave, Write, tasks
<1> HIDE DEF d
<1>5. TitlesInv'
  BY <1>1, <1>2, <1>3, <1>4 DEF TitlesInv, Newest, Renaming
<1>6. OneSaver'
  BY <1>1, <1>2, <1>4, NumbersAreNat DEF OneSaver, Newest, VersionsInv
<1> QED BY <1>5, <1>6

LEMMA TitlesInductive ==
  TitlesInv /\ OneSaver /\ VersionsInv /\ TypeOK /\ [Next]_vars => TitlesInv' /\ OneSaver'
<1> SUFFICES ASSUME TitlesInv, OneSaver, VersionsInv, TypeOK, [Next]_vars
             PROVE  TitlesInv' /\ OneSaver'
  OBVIOUS
<1> USE MarksAreNoDocs
<1>1. ASSUME NEW t \in Tasks, NEW k \in Kinds, Load(t, k) PROVE TitlesInv' /\ OneSaver'
  <2>1. file \in Doc /\ UNCHANGED <<file, inflight, top, named, upsets>>
    BY <1>1 DEF Load, Readable, TypeOK, ghosts
  <2>2. doc'[t] = file /\ pc'[t] = "loaded"
    BY <1>1 DEF Load, TypeOK
  <2>3. \A u \in Tasks \ {t} : doc'[u] = doc[u] /\ pc'[u] = pc[u] /\ kind'[u] = kind[u]
    BY <1>1 DEF Load, TypeOK
  <2>4. TitlesInv'
    BY <2>1, <2>2, <2>3 DEF TitlesInv, Newest, Renaming
  <2>5. OneSaver'
    BY <2>1, <2>2, <2>3 DEF OneSaver, Newest
  <2> QED BY <2>4, <2>5
<1>2. ASSUME NEW t \in Tasks, Finalize(t) \/ RunAnswers(t) \/ Undo(t) \/ Redo(t)
      PROVE  TitlesInv' /\ OneSaver'
  BY <1>2, DecideTitles DEF Finalize, RunAnswers, Undo, Redo
<1>3. ASSUME NEW t \in Tasks, Rename(t) PROVE TitlesInv' /\ OneSaver'
  BY <1>3, DecideTitles DEF Rename
<1>4. ASSUME NEW t \in Tasks, RunStarts(t) PROVE TitlesInv' /\ OneSaver'
  <2>1. UNCHANGED <<file, inflight, kind, doc, top, named>> /\ (upsets' = {} => upsets = {})
    BY <1>4 DEF RunStarts
  <2>2. \A u \in Tasks : pc'[u] = "saving" <=> pc[u] = "saving"
    BY <1>4 DEF RunStarts, TypeOK
  <2>3. TitlesInv'
    BY <2>1, <2>2 DEF TitlesInv, Newest, Renaming
  <2>4. OneSaver'
    BY <2>1, <2>2 DEF OneSaver, Newest
  <2> QED BY <2>3, <2>4
<1>5. ASSUME NEW t \in Tasks, RunFails(t) \/ NothingToRestore(t) PROVE TitlesInv' /\ OneSaver'
  <2>1. UNCHANGED <<file, inflight, top, named, upsets>>
    BY <1>5 DEF RunFails, NothingToRestore, ghosts
  <2>2. doc'[t] = NoDoc
    BY <1>5 DEF RunFails, NothingToRestore, Ends, TypeOK
  <2>3. \A u \in Tasks \ {t} : doc'[u] = doc[u] /\ pc'[u] = pc[u] /\ kind'[u] = kind[u]
    BY <1>5 DEF RunFails, NothingToRestore, Ends, TypeOK
  <2>4. TitlesInv'
    BY <2>1, <2>2, <2>3 DEF TitlesInv, Newest, Renaming
  <2>5. OneSaver'
    BY <2>1, <2>2, <2>3 DEF OneSaver, Newest
  <2> QED BY <2>4, <2>5
<1>6. ASSUME NEW t \in Tasks, InterimSave(t) PROVE TitlesInv' /\ OneSaver'
  BY <1>6, InterimTitles
<1>7. ASSUME NEW t \in Tasks, Save(t) PROVE TitlesInv' /\ OneSaver'
  BY <1>7, SaveTitles
<1>8. ASSUME NEW t \in Tasks, SaveFails(t) PROVE TitlesInv' /\ OneSaver'
  BY <1>8 DEF SaveFails, TitlesInv, OneSaver
<1>9. ASSUME NEW w \in inflight, Land(w) PROVE TitlesInv' /\ OneSaver'
  <2>1. /\ file' \in {w.doc, Garbage} /\ inflight' \subseteq inflight
        /\ UNCHANGED <<pc, kind, doc, top, named, upsets>>
    BY <1>9 DEF Land, tasks, ghosts
  <2>2. TitlesInv'
    BY <2>1 DEF TitlesInv, Newest, Renaming
  <2>3. OneSaver'
    BY <2>1 DEF OneSaver, Newest
  <2> QED BY <2>2, <2>3
<1>10. ASSUME NEW w \in inflight, LandFails(w) PROVE TitlesInv' /\ OneSaver'
  BY <1>10 DEF LandFails, TitlesInv, OneSaver
<1>11. CASE Delete
  <2>1. /\ file' \notin Doc /\ inflight' = {} /\ top' = top + 1
        /\ UNCHANGED <<pc, kind, doc, named, upsets>>
    BY <1>11 DEF Delete, tasks
  <2>2. \A u \in Tasks : ~Newest(u)'
    BY <2>1, NumbersAreNat DEF VersionsInv, Newest
  <2> QED BY <2>1, <2>2 DEF TitlesInv, OneSaver
<1>12. CASE Crash
  <2>1. \A u \in Tasks : ~Newest(u)'
    BY <1>12 DEF Crash, Newest
  <2>2. UNCHANGED <<file, named>> /\ inflight' = {} /\ (upsets' = {} => upsets = {})
    BY <1>12 DEF Crash
  <2> QED BY <2>1, <2>2 DEF TitlesInv, OneSaver
<1>13. CASE UNCHANGED vars
  BY <1>13 DEF TitlesInv, OneSaver, Newest, Renaming, vars, tasks, ghosts
<1> QED BY <1>1, <1>2, <1>3, <1>4, <1>5, <1>6, <1>7, <1>8, <1>9, <1>10, <1>11, <1>12, <1>13
        DEF Next

\* An acknowledged rename is in the file as long as no save was disturbed and no
\* task worked on an old copy.
THEOREM RenamesLast == Spec => []AcknowledgedTitleKept
<1>1. Init => TitlesInv /\ OneSaver
  <2> SUFFICES ASSUME Init PROVE TitlesInv /\ OneSaver
    OBVIOUS
  <2>1. file.title = 0 /\ named = 0
    BY DEF Init
  <2> QED BY <2>1 DEF Init, TitlesInv, OneSaver, Newest
<1>2. TypeOK /\ TitlesInv => AcknowledgedTitleKept
  BY DEF TypeOK, TitlesInv, AcknowledgedTitleKept, Readable
<1>3. Spec => []TypeOK /\ []VersionsInv
  BY StartsAtOne, VersionsInductive, TypeCorrect, PTL DEF Spec
<1> QED BY <1>1, <1>2, <1>3, TitlesInductive, PTL DEF Spec

-----------------------------------------------------------------------------
(* The history of the conversation: the newest version is never only in the *)
(* hands of a task that may give it up, all copies of it agree, and a turn  *)
(* that runs finds its checkpoint on top of the stack                       *)

Calm == upsets = {}

Stored == (file \in Doc /\ file.ver = top) \/ \E w \in inflight : w.doc.ver = top
Committed(t) == Newest(t) /\ (pc[t] = "saving" \/ kind[t] = "stream")

HolderInv == Intact => Stored \/ \E t \in Tasks : Committed(t)
AgreeInv == Calm => \A d, e \in Held : d.ver = top /\ e.ver = top => d.text = e.text
CheckpointInv ==
  Calm => \A t \in Tasks : Newest(t) /\ pc[t] = "running" =>
            undo # <<>> /\ Last(undo) = doc[t].text

LEMMA ReadableIsDoc == ASSUME TypeOK PROVE Readable <=> file \in Doc
BY MarksAreNoDocs DEF TypeOK, Readable

LEMMA HeldIsDoc == ASSUME TypeOK PROVE Held \subseteq Doc
BY ReadableIsDoc DEF Held, TypeOK

LEMMA DocIsHeld == ASSUME NEW t \in Tasks, doc[t] # NoDoc PROVE doc[t] \in Held
BY DEF Held

\* of the versions held, only that of the task that decides is new, and only
\* interim ones, numbered 0, appear besides
LEMMA HeldSteps ==
  ASSUME TypeOK, [Next]_vars
  PROVE  \/ /\ top' = top /\ upsets \subseteq upsets'
            /\ \A d \in Held' : d \in Held \/ d.ver = 0
         \/ \E t \in Tasks, text \in Text, title \in Nat :
              pc[t] # "idle" /\ Decide(t, text, title)
         \/ Delete
<1> DEFINE Same == top' = top /\ upsets \subseteq upsets'
                   /\ \A d \in Held' : d \in Held \/ d.ver = 0
           Decides == \E t \in Tasks, text \in Text, title \in Nat :
                        pc[t] # "idle" /\ Decide(t, text, title)
<1>1. ASSUME NEW t \in Tasks, NEW k \in Kinds, Load(t, k) PROVE Same
  BY <1>1 DEF Load, ghosts, Held, Readable, TypeOK
<1>2. ASSUME NEW t \in Tasks, Finalize(t) \/ RunAnswers(t) PROVE Decides
  <2>1. doc[t] \in Doc /\ doc[t].title \in Nat /\ pc[t] # "idle"
    BY <1>2, InHand DEF Finalize, RunAnswers
  <2> QED BY <1>2, <2>1, AnsweredText DEF Finalize, RunAnswers
<1>3. ASSUME NEW t \in Tasks, Rename(t) PROVE Decides
  BY <1>3, InHand DEF Rename, TypeOK
<1>4. ASSUME NEW t \in Tasks, Undo(t) \/ Redo(t) PROVE Decides
  <2>1. doc[t].title \in Nat /\ pc[t] # "idle"
    BY <1>4, InHand DEF Undo, Redo
  <2>2. CASE Undo(t)
    BY <2>1, <2>2, PoppedFits DEF Undo, TypeOK
  <2>3. CASE Redo(t)
    BY <2>1, <2>3, PoppedFits DEF Redo, TypeOK
  <2> QED BY <1>4, <2>2, <2>3
<1>5. ASSUME NEW t \in Tasks, RunStarts(t) PROVE Same
  BY <1>5 DEF RunStarts, Held, Readable
<1>6. ASSUME NEW t \in Tasks, RunFails(t) \/ NothingToRestore(t) \/ SaveFails(t) PROVE Same
  <2>1. UNCHANGED <<file, inflight, top>> /\ upsets \subseteq upsets'
    BY <1>6 DEF RunFails, NothingToRestore, SaveFails, ghosts
  <2>2. \A u \in Tasks : doc'[u] \in {doc[u], NoDoc}
    BY <1>6 DEF RunFails, NothingToRestore, SaveFails, Ends, TypeOK
  <2> QED BY <2>1, <2>2 DEF Held, Readable
<1>7. ASSUME NEW t \in Tasks, InterimSave(t) PROVE Same
  <2> DEFINE d == [doc[t] EXCEPT !.text = Append(@, Partial), !.ver = 0]
  <2>1. d.ver = 0
    BY <1>7, InHand DEF InterimSave, Doc
  <2>2. /\ ~Readable' /\ inflight' = inflight \cup {[by |-> t, doc |-> d]}
        /\ UNCHANGED <<doc, top>> /\ upsets \subseteq upsets'
    BY <1>7 DEF InterimSave, Write, Readable, tasks
  <2> HIDE DEF d
  <2> QED BY <2>1, <2>2 DEF Held
<1>8. ASSUME NEW t \in Tasks, Save(t) PROVE Same
  <2>1. doc[t] # NoDoc
    BY <1>8 DEF Save, TypeOK
  <2>2. \A u \in Tasks : doc'[u] \in {doc[u], NoDoc}
    BY <1>8 DEF Save, Ends, TypeOK
  <2>3. /\ ~Readable' /\ inflight' = inflight \cup {[by |-> t, doc |-> doc[t]]}
        /\ top' = top /\ upsets \subseteq upsets'
    BY <1>8 DEF Save, Write, Readable
  <2> QED BY <2>1, <2>2, <2>3 DEF Held
<1>9. ASSUME NEW w \in inflight, Land(w) \/ LandFails(w) PROVE Same
  <2>1. /\ file' \in {file, w.doc, Garbage} /\ inflight' \subseteq inflight
        /\ UNCHANGED <<doc, top>> /\ upsets \subseteq upsets'
    BY <1>9 DEF Land, LandFails, tasks, ghosts
  <2> QED BY <2>1 DEF Held, Readable
<1>10. ASSUME Crash PROVE Same
  BY <1>10 DEF Crash, Held, Readable
<1>11. ASSUME UNCHANGED vars PROVE Same
  BY <1>11 DEF vars, tasks, ghosts, Held, Readable
<1> HIDE DEF Same, Decides
<1>12. ASSUME Next PROVE Same \/ Decides \/ Delete
  BY <1>1, <1>2, <1>3, <1>4, <1>5, <1>6, <1>7, <1>8, <1>9, <1>10, <1>12 DEF Next
<1> QED BY <1>11, <1>12 DEF Same, Decides

\* nothing that is held is newer than the last change
LEMMA HeldVersions ==
  ASSUME TypeOK, VersionsInv
  PROVE  \A d \in Held : d.ver \in Nat /\ d.ver <= top
BY ReadableIsDoc, NumbersAreNat DEF Held, VersionsInv

LEMMA AgreeInductive == AgreeInv /\ VersionsInv /\ TypeOK /\ [Next]_vars => AgreeInv'
<1> SUFFICES ASSUME AgreeInv, VersionsInv, TypeOK, [Next]_vars PROVE AgreeInv'
  OBVIOUS
<1>1. CASE /\ top' = top /\ upsets \subseteq upsets'
           /\ \A d \in Held' : d \in Held \/ d.ver = 0
  BY <1>1 DEF AgreeInv, Calm, VersionsInv, TypeOK
<1>2. ASSUME NEW t \in Tasks, NEW text \in Text, NEW title \in Nat, Decide(t, text, title)
      PROVE  AgreeInv'
  <2>1. top' = top + 1 /\ \A d \in Held' : d = doc'[t] \/ d \in Held
    BY <1>2 DEF Decide, Held, Readable, TypeOK
  <2>2. \A d \in Held' : d.ver = top' => d = doc'[t]
    BY <2>1, HeldVersions DEF TypeOK
  <2> QED BY <2>2 DEF AgreeInv
<1>3. CASE Delete
  <2>1. top' = top + 1 /\ Held' \subseteq Held
    BY <1>3 DEF Delete, Held, Readable, tasks
  <2>2. \A d \in Held' : d.ver # top'
    BY <2>1, HeldVersions DEF TypeOK
  <2> QED BY <2>2 DEF AgreeInv
<1> QED BY <1>1, <1>2, <1>3, HeldSteps

KindInv == \A t \in Tasks : pc[t] = "running" => kind[t] = "run"

LEMMA KindInductive == KindInv /\ TypeOK /\ [Next]_vars => KindInv'
<1> SUFFICES ASSUME KindInv, TypeOK, [Next]_vars PROVE KindInv'
  OBVIOUS
<1>1. ASSUME NEW t \in Tasks, NEW k \in Kinds, Load(t, k) PROVE KindInv'
  BY <1>1 DEF Load, KindInv, TypeOK
<1>2. ASSUME NEW t \in Tasks,
             Finalize(t) \/ RunAnswers(t) \/ Rename(t) \/ Undo(t) \/ Redo(t)
      PROVE  KindInv'
  BY <1>2 DEF Finalize, RunAnswers, Rename, Undo, Redo, Decide, KindInv, TypeOK
<1>3. ASSUME NEW t \in Tasks, RunStarts(t) PROVE KindInv'
  BY <1>3 DEF RunStarts, KindInv, TypeOK
<1>4. ASSUME NEW t \in Tasks,
             RunFails(t) \/ NothingToRestore(t) \/ Save(t) \/ SaveFails(t)
      PROVE  KindInv'
  BY <1>4 DEF RunFails, NothingToRestore, Save, SaveFails, Ends, KindInv, TypeOK
<1>5. ASSUME NEW t \in Tasks, InterimSave(t) PROVE KindInv'
  BY <1>5 DEF InterimSave, tasks, KindInv
<1>6. ASSUME NEW w \in inflight, Land(w) \/ LandFails(w) PROVE KindInv'
  BY <1>6 DEF Land, LandFails, tasks, KindInv
<1>7. CASE Delete \/ UNCHANGED vars
  BY <1>7 DEF Delete, vars, tasks, KindInv
<1>8. CASE Crash
  BY <1>8 DEF Crash, KindInv
<1> QED BY <1>1, <1>2, <1>3, <1>4, <1>5, <1>6, <1>7, <1>8 DEF Next

\* all that the history rests on
HistoryInv ==
  /\ TypeOK /\ WritesInv /\ VersionsInv /\ GoneInv /\ KindInv
  /\ HolderInv /\ AgreeInv /\ CheckpointInv

LEMMA UpsetsGrow == ASSUME TypeOK, [Next]_vars PROVE upsets \subseteq upsets'
<1>1. ASSUME NEW t \in Tasks, NEW text, NEW title, Decide(t, text, title)
      PROVE  upsets \subseteq upsets'
  BY <1>1 DEF Decide
<1>2. CASE Delete
  BY <1>2 DEF Delete
<1> QED BY <1>1, <1>2, HeldSteps

\* a history that is promised after a step was promised before it
LEMMA IntactBefore == ASSUME HistoryInv, [Next]_vars, Intact' PROVE Intact /\ Calm
<1>1. upsets \subseteq upsets'
  BY UpsetsGrow DEF HistoryInv
<1>2. BroughtBack
  BY GoneInductive DEF HistoryInv
<1> QED BY <1>1, <1>2 DEF BroughtBack, Intact, Calm

LEMMA HolderInductive == ASSUME HistoryInv, [Next]_vars PROVE HolderInv'
<1> SUFFICES ASSUME Intact' PROVE Stored' \/ \E t \in Tasks : Committed(t)'
  BY DEF HolderInv
<1>0. /\ Intact /\ upsets = {} /\ upsets' = {} /\ file' # Absent /\ file # Absent
      /\ Stored \/ \E t \in Tasks : Committed(t)
  BY IntactBefore DEF HistoryInv, HolderInv, Intact
<1> USE MarksAreNoDocs
<1>1. ASSUME NEW t \in Tasks, NEW k \in Kinds, Load(t, k)
      PROVE  Stored' \/ \E u \in Tasks : Committed(u)'
  <2>1. UNCHANGED <<file, inflight, top>> /\ doc[t] = NoDoc
    BY <1>1 DEF Load, ghosts, HistoryInv, TypeOK
  <2>2. \A u \in Tasks \ {t} : doc'[u] = doc[u] /\ pc'[u] = pc[u] /\ kind'[u] = kind[u]
    BY <1>1 DEF Load, HistoryInv, TypeOK
  <2> QED BY <1>0, <2>1, <2>2 DEF Stored, Committed, Newest
<1>2. ASSUME NEW t \in Tasks,
             Finalize(t) \/ RunAnswers(t) \/ Rename(t) \/ Undo(t) \/ Redo(t)
      PROVE  Committed(t)'
  <2>1. ASSUME NEW text, NEW title, Decide(t, text, title) PROVE Committed(t)'
    <3>1. doc'[t] = [text |-> text, title |-> title, ver |-> top + 1] /\ pc'[t] = "saving"
      BY <2>1 DEF Decide, HistoryInv, TypeOK
    <3>2. doc'[t] # NoDoc
      <4>1. TypeOK'
        BY TypeStep DEF HistoryInv
      <4> QED BY <3>1, <4>1 DEF TypeOK
    <3> QED BY <2>1, <3>1, <3>2 DEF Committed, Newest, Decide
  <2> QED BY <1>2, <2>1 DEF Finalize, RunAnswers, Rename, Undo, Redo
<1>3. ASSUME NEW t \in Tasks, RunStarts(t)
      PROVE  Stored' \/ \E u \in Tasks : Committed(u)'
  <2>1. UNCHANGED <<file, inflight, top, doc, kind>> /\ ~Committed(t)
    BY <1>3 DEF RunStarts, Committed
  <2>2. \A u \in Tasks \ {t} : pc'[u] = pc[u]
    BY <1>3 DEF RunStarts, HistoryInv, TypeOK
  <2> QED BY <1>0, <2>1, <2>2 DEF Stored, Committed, Newest
<1>4. ASSUME NEW t \in Tasks, RunFails(t) \/ NothingToRestore(t)
      PROVE  Stored' \/ \E u \in Tasks : Committed(u)'
  <2>1. UNCHANGED <<file, inflight, top>> /\ ~Committed(t)
    BY <1>4 DEF RunFails, NothingToRestore, ghosts, Committed, HistoryInv, KindInv
  <2>2. \A u \in Tasks \ {t} : doc'[u] = doc[u] /\ pc'[u] = pc[u] /\ kind'[u] = kind[u]
    BY <1>4 DEF RunFails, NothingToRestore, Ends, HistoryInv, TypeOK
  <2> QED BY <1>0, <2>1, <2>2 DEF Stored, Committed, Newest
<1>5. ASSUME NEW t \in Tasks, InterimSave(t) PROVE Committed(t)'
  <2>1. doc[t] # NoDoc /\ doc[t].ver = top
    BY <1>0, <1>5 DEF InterimSave, Write, Stale, HistoryInv, TypeOK
  <2> QED BY <1>5, <2>1 DEF InterimSave, tasks, Committed, Newest
<1>6. ASSUME NEW t \in Tasks, Save(t) PROVE Stored'
  <2>1. doc[t].ver = top /\ [by |-> t, doc |-> doc[t]] \in inflight' /\ top' = top
    BY <1>0, <1>6 DEF Save, Write, Stale
  <2>2. [by |-> t, doc |-> doc[t]].doc.ver = top'
    BY <2>1
  <2> QED BY <2>1, <2>2 DEF Stored
<1>7. ASSUME NEW t \in Tasks, SaveFails(t) PROVE FALSE
  BY <1>0, <1>7 DEF SaveFails
<1>8. ASSUME NEW w \in inflight, LandFails(w) PROVE FALSE
  BY <1>0, <1>8 DEF LandFails
<1>9. ASSUME NEW w \in inflight, Land(w)
      PROVE  Stored' \/ \E u \in Tasks : Committed(u)'
  <2>1. file = Empty /\ inflight = {w}
    BY <1>0 DEF HistoryInv, WritesInv, Disturbed
  <2>2. file' = w.doc /\ w.doc \in Doc /\ UNCHANGED <<doc, pc, kind, top>>
    BY <1>9, <2>1 DEF Land, tasks, ghosts, HistoryInv, TypeOK
  <2> QED BY <1>0, <2>1, <2>2 DEF Stored, Committed, Newest
<1>10. CASE Delete
  BY <1>0, <1>10 DEF Delete
<1>11. ASSUME Crash PROVE Stored'
  <2>1. inflight = {} /\ (Readable => file.ver = top) /\ UNCHANGED <<file, top>>
    BY <1>0, <1>11 DEF Crash
  <2>2. Readable
    BY <1>0, <2>1 DEF HistoryInv, WritesInv, Disturbed, Readable
  <2> QED BY <2>1, <2>2, ReadableIsDoc DEF Stored, HistoryInv
<1>12. CASE UNCHANGED vars
  BY <1>0, <1>12 DEF vars, tasks, ghosts, Stored, Committed, Newest
<1> QED BY <1>1, <1>2, <1>3, <1>4, <1>5, <1>6, <1>7, <1>8, <1>9, <1>10, <1>11, <1>12 DEF Next

\* what was pushed is on top
LEMMA PushedOnTop ==
  ASSUME NEW s \in Seq(Text), NEW text \in Text
  PROVE  Pushed(s, text) # <<>> /\ Last(Pushed(s, text)) = text
<1> DEFINE longer == Append(s, text)
           from == IF Len(longer) > MaxDepth THEN Len(longer) - MaxDepth + 1 ELSE 1
<1>1. longer \in Seq(Text) /\ Len(longer) \in Nat \ {0} /\ longer[Len(longer)] = text
  BY AppendProperties, LenProperties
<1>2. MaxDepth \in Nat \ {0}
  BY DepthAssumption
<1> HIDE DEF longer
<1>3. from \in 1 .. Len(longer)
  BY <1>1, <1>2
<1> HIDE DEF from
<1> DEFINE kept == SubSeq(longer, from, Len(longer))
<1>4. \A k \in from .. Len(longer) : longer[k] \in Text
  BY <1>1, <1>3, ElementOfSeq
<1>5. /\ Len(kept) = Len(longer) - from + 1
      /\ \A k \in 1 .. Len(longer) - from + 1 : kept[k] = longer[from + k - 1]
  BY <1>1, <1>3, <1>4, SubSeqProperties
<1> HIDE DEF kept
<1>6. Len(kept) # 0 /\ kept[Len(kept)] = text
  BY <1>1, <1>3, <1>5
<1>7. Pushed(s, text) = kept
  BY DEF Pushed, kept, from, longer
<1>8. kept # <<>>
  BY <1>6, EmptySeq
<1> QED BY <1>6, <1>7, <1>8 DEF Last

LEMMA CheckpointInductive == ASSUME HistoryInv, [Next]_vars PROVE CheckpointInv'
<1> SUFFICES ASSUME upsets' = {}, NEW u \in Tasks, Newest(u)', pc'[u] = "running"
             PROVE  undo' # <<>> /\ Last(undo') = doc'[u].text
  BY DEF CheckpointInv, Calm
<1>0. /\ TypeOK /\ upsets = {}
      /\ Newest(u) /\ pc[u] = "running" => undo # <<>> /\ Last(undo) = doc[u].text
  BY UpsetsGrow DEF HistoryInv, CheckpointInv, Calm
<1> DEFINE Kept == UNCHANGED undo /\ Newest(u) /\ pc[u] = "running" /\ doc'[u] = doc[u]
<1>1. ASSUME NEW t \in Tasks, NEW k \in Kinds, Load(t, k) PROVE Kept
  <2>1. u # t
    BY <1>1, <1>0 DEF Load, TypeOK
  <2> QED BY <1>1, <1>0, <2>1 DEF Load, ghosts, stacks, Newest, TypeOK
<1>2. ASSUME NEW t \in Tasks, NEW text, NEW title, Decide(t, text, title) PROVE FALSE
  <2>1. u # t /\ top' = top + 1 /\ doc'[u] = doc[u] /\ doc[u] # NoDoc
    BY <1>2, <1>0 DEF Decide, TypeOK, Newest
  <2> QED BY <1>0, <2>1, NumbersAreNat DEF HistoryInv, VersionsInv, Newest
<1>3. ASSUME NEW t \in Tasks,
             Finalize(t) \/ RunAnswers(t) \/ Rename(t) \/ Undo(t) \/ Redo(t)
      PROVE  FALSE
  BY <1>2, <1>3 DEF Finalize, RunAnswers, Rename, Undo, Redo
<1>4. ASSUME NEW t \in Tasks, RunStarts(t)
      PROVE  undo' # <<>> /\ Last(undo') = doc'[u].text
  <2>1. doc[t] \in Doc /\ doc[t].text \in Text /\ doc[t].ver = top
    BY <1>4, <1>0, InHand DEF RunStarts, Stale
  <2>2. undo' = Pushed(undo, doc[t].text) /\ doc' = doc /\ top' = top
    BY <1>4 DEF RunStarts, Checkpoint
  <2>3. doc[u].text = doc[t].text
    <3>1. doc[u] # NoDoc /\ doc[u].ver = top /\ doc[t] # NoDoc
      BY <2>1, <2>2, MarksAreNoDocs DEF Newest
    <3> QED BY <1>0, <2>1, <3>1, DocIsHeld DEF HistoryInv, AgreeInv, Calm
  <2>4. undo \in Seq(Text)
    BY <1>0 DEF TypeOK
  <2> QED BY <2>1, <2>2, <2>3, <2>4, PushedOnTop
<1>5. ASSUME NEW t \in Tasks,
             RunFails(t) \/ NothingToRestore(t) \/ Save(t) \/ SaveFails(t)
      PROVE  Kept
  <2>1. undo' = undo /\ top' = top
    BY <1>5 DEF RunFails, NothingToRestore, Save, SaveFails, stacks, ghosts
  <2>2. u # t /\ doc'[u] = doc[u] /\ pc'[u] = pc[u]
    BY <1>5, <1>0 DEF RunFails, NothingToRestore, Save, SaveFails, Ends, TypeOK
  <2> QED BY <2>1, <2>2 DEF Newest
<1>6. ASSUME NEW t \in Tasks, InterimSave(t) PROVE Kept
  BY <1>6 DEF InterimSave, stacks, tasks, Newest
<1>7. ASSUME NEW w \in inflight, Land(w) \/ LandFails(w) PROVE Kept
  BY <1>7 DEF Land, LandFails, stacks, tasks, ghosts, Newest
<1>8. ASSUME Delete PROVE FALSE
  <2>1. top' = top + 1 /\ doc' = doc
    BY <1>8 DEF Delete, tasks
  <2> QED BY <1>0, <2>1, NumbersAreNat DEF HistoryInv, VersionsInv, Newest
<1>9. ASSUME Crash PROVE FALSE
  BY <1>9 DEF Crash
<1>10. ASSUME UNCHANGED vars PROVE Kept
  BY <1>10 DEF vars, stacks, tasks, ghosts, Newest
<1>11. Kept => undo' # <<>> /\ Last(undo') = doc'[u].text
  BY <1>0
<1> HIDE DEF Kept
<1> QED BY <1>1, <1>3, <1>4, <1>5, <1>6, <1>7, <1>8, <1>9, <1>10, <1>11 DEF Next

LEMMA HistoryHolds == Spec => []HistoryInv
<1>1. Init => HistoryInv
  <2> SUFFICES ASSUME Init PROVE HistoryInv
    OBVIOUS
  <2>1. file \in Doc /\ file.ver = 1 /\ top = 1 /\ inflight = {}
    BY DEF Init, Doc, Text
  <2>2. TypeOK /\ WritesInv /\ VersionsInv /\ GoneInv
    BY InitTyped, StartsAtOne, <2>1, MarksAreNoDocs DEF WritesInv
  <2>3. Held = {file}
    BY <2>1, MarksAreNoDocs DEF Init, Held, Readable
  <2>4. HolderInv /\ AgreeInv /\ CheckpointInv /\ KindInv
    BY <2>1, <2>3 DEF Init, HolderInv, Stored, AgreeInv, CheckpointInv, KindInv
  <2> QED BY <2>2, <2>4 DEF HistoryInv
<1>2. HistoryInv /\ [Next]_vars => HistoryInv'
  BY TypeStep, WritesInductive, VersionsInductive, GoneInductive, KindInductive,
     HolderInductive, AgreeInductive, CheckpointInductive DEF HistoryInv
<1> QED BY <1>1, <1>2, PTL DEF Spec

-----------------------------------------------------------------------------
(* SessionStore implements UndoHistory                                      *)

\* a choice among sessions that agree
LEMMA ChosenText ==
  ASSUME NEW H, NEW n, NEW d \in H, d.ver = n, \A e \in H : e.ver = n => e.text = d.text
  PROVE  (CHOOSE e \in H : e.ver = n).text = d.text
OBVIOUS

\* the present is the text of any newest version, before a step and after it
LEMMA CurrentIs ==
  ASSUME HistoryInv, Intact, NEW d \in Held, d.ver = top
  PROVE  Current = d.text /\ Current \in Text
<1>1. Current = d.text
  BY ChosenText DEF HistoryInv, AgreeInv, Calm, Intact, Current
<1> QED BY <1>1, HeldIsDoc DEF HistoryInv, Doc

LEMMA CurrentBecomes ==
  ASSUME HistoryInv', Intact', NEW d \in Held', d.ver = top'
  PROVE  Current' = d.text
BY ChosenText DEF HistoryInv, AgreeInv, Calm, Intact, Current

LEMMA NewestHeld ==
  ASSUME HistoryInv', Intact'
  PROVE  \E d \in Held' : d.ver = top'
<1>1. Stored' \/ \E t \in Tasks : Committed(t)'
  BY DEF HistoryInv, HolderInv
<1>2. CASE Stored'
  BY <1>2, MarksAreNoDocs DEF Stored, Held, Readable
<1>3. CASE \E t \in Tasks : Committed(t)'
  BY <1>3 DEF Committed, Newest, Held
<1> QED BY <1>1, <1>2, <1>3

\* steps that decide nothing leave the present alone
LEMMA SamePresent ==
  ASSUME HistoryInv, HistoryInv', Intact, Intact', top' = top,
         \A d \in Held' : d \in Held \/ d.ver = 0
  PROVE  Current' = Current
<1>1. PICK d \in Held' : d.ver = top'
  BY NewestHeld
<1>2. d \in Held
  BY <1>1 DEF HistoryInv, VersionsInv, TypeOK
<1> QED BY <1>1, <1>2, CurrentIs, CurrentBecomes

\* a decision replaces the present
LEMMA NewPresent ==
  ASSUME HistoryInv, HistoryInv', Intact, Intact', NEW t \in Tasks, NEW text \in Text,
         NEW title \in Nat, pc[t] # "idle", Decide(t, text, title)
  PROVE  /\ Current = doc[t].text /\ Current \in Text /\ Current' = text
         /\ doc[t].ver = top
<1>1. doc[t] \in Held /\ doc[t].ver = top
  BY InHand, MarksAreNoDocs, DocIsHeld DEF HistoryInv, Decide, Stale, Intact
<1>2. doc'[t] = [text |-> text, title |-> title, ver |-> top + 1] /\ top' = top + 1
  BY DEF Decide, HistoryInv, TypeOK
<1>3. doc'[t] \in Held'
  <2>1. pc'[t] = "saving"
    BY DEF Decide, HistoryInv, TypeOK
  <2>2. doc'[t] # NoDoc
    BY <2>1 DEF HistoryInv, TypeOK
  <2> QED BY <2>2 DEF Held
<1>4. Current' = doc'[t].text
  BY <1>2, <1>3, CurrentBecomes
<1> QED BY <1>1, <1>2, <1>4, CurrentIs

LEMMA AbsentIsNoText == Absent \notin Text
BY FileAssumption

\* the steps of the abstract history
LEMMA IsTurn ==
  ASSUME Intact, Intact', Current \in Text, Current' \in Text,
         undo' = Pushed(undo, Current), redo' = <<>>
  PROVE  History!Turn
BY AbsentIsNoText DEF History!Turn, History!Open, History!Newest, Pushed

LEMMA IsReply ==
  ASSUME Intact, Intact', Current \in Text, Current' \in Text,
         undo # <<>>, Last(undo) = Current, UNCHANGED <<undo, redo>>
  PROVE  History!Reply
BY AbsentIsNoText DEF History!Reply, History!Open, History!Latest, Last

LEMMA IsUndo ==
  ASSUME Intact, Intact', Current \in Text, undo # <<>>, Current' = Last(undo),
         undo' = Front(undo), redo' = Pushed(redo, Current)
  PROVE  History!Undo
BY AbsentIsNoText DEF History!Undo, History!Open, History!Latest, History!Earlier,
   History!Newest, Pushed, Last, Front

LEMMA IsRedo ==
  ASSUME Intact, Intact', Current \in Text, redo # <<>>, Current' = Last(redo),
         redo' = Front(redo), undo' = Pushed(undo, Current)
  PROVE  History!Redo
BY AbsentIsNoText DEF History!Redo, History!Open, History!Latest, History!Earlier,
   History!Newest, Pushed, Last, Front

LEMMA IsStutter ==
  ASSUME Intact, Intact', Current' = Current, UNCHANGED <<undo, redo>>
  PROVE  UNCHANGED History!history
BY DEF History!history

\* what a step that decides nothing does to the versions held
Same == top' = top /\ \A d \in Held' : d \in Held \/ d.ver = 0

LEMMA SameSteps ==
  ASSUME TypeOK, [Next]_vars, top' = top
  PROVE  Same
<1>1. ASSUME NEW t \in Tasks, NEW text, NEW title, Decide(t, text, title) PROVE FALSE
  BY <1>1 DEF Decide, TypeOK
<1>2. ~ Delete
  BY DEF Delete, TypeOK
<1> QED BY <1>1, <1>2, HeldSteps DEF Same

LEMMA RefinementStep ==
  ASSUME HistoryInv, HistoryInv', [Next]_vars
  PROVE  [History!Next]_(History!history)
<1> DEFINE Goal == [History!Next]_(History!history)
<1>1. ASSUME ~ Intact', Intact PROVE Goal
  BY <1>1 DEF History!Next, History!Close
<1>2. ASSUME ~ Intact', ~ Intact PROVE Goal
  BY <1>2 DEF History!history
<1>3. ASSUME Intact' PROVE Goal
  <2>0. /\ TypeOK /\ Intact /\ upsets = {} /\ upsets' = {} /\ file' # Absent
        /\ undo \in Seq(Text) /\ redo \in Seq(Text)
    BY <1>3, IntactBefore DEF HistoryInv, Intact, TypeOK
  <2>1. Same => Current' = Current /\ Current \in Text
    <3> SUFFICES ASSUME Same PROVE Current' = Current /\ Current \in Text
      OBVIOUS
    <3>1. PICK d \in Held' : d.ver = top'
      BY <1>3, NewestHeld
    <3>2. d \in Held /\ d.ver = top
      BY <3>1 DEF Same, HistoryInv, VersionsInv, TypeOK
    <3>3. Current \in Text
      BY <2>0, <3>2, CurrentIs
    <3> QED BY <1>3, <2>0, <3>3, SamePresent DEF Same
  <2>2. ASSUME top' = top, UNCHANGED <<undo, redo>> PROVE Goal
    BY <1>3, <2>0, <2>1, <2>2, SameSteps, IsStutter
  <2>3. ASSUME NEW t \in Tasks, Finalize(t) PROVE Goal
    <3>1. /\ doc[t].title \in Nat /\ Answered(t) \subseteq Text /\ pc[t] # "idle"
      BY <2>0, <2>3, InHand, AnsweredText DEF Finalize
    <3>2. PICK text \in Text : Decide(t, text, doc[t].title)
      BY <2>3, <3>1 DEF Finalize
    <3>3. Current = doc[t].text /\ Current \in Text /\ Current' = text
      BY <1>3, <2>0, <3>1, <3>2, NewPresent
    <3>4. undo' = Pushed(undo, Current) /\ redo' = <<>>
      BY <2>3, <3>3 DEF Finalize, Checkpoint
    <3> QED BY <1>3, <2>0, <3>3, <3>4, IsTurn DEF History!Next
  <2>4. ASSUME NEW t \in Tasks, RunStarts(t) PROVE Goal
    <3>1. doc[t] \in Held /\ doc[t].ver = top
      BY <2>0, <2>4, InHand, MarksAreNoDocs, DocIsHeld DEF RunStarts, Stale
    <3>2. Current = doc[t].text /\ Current \in Text /\ top' = top
      BY <2>0, <2>4, <3>1, CurrentIs DEF RunStarts
    <3>3. Current' = Current
      BY <2>0, <2>1, <3>2, SameSteps
    <3>4. undo' = Pushed(undo, Current) /\ redo' = <<>>
      BY <2>4, <3>2 DEF RunStarts, Checkpoint
    <3> QED BY <1>3, <2>0, <3>2, <3>3, <3>4, IsTurn DEF History!Next
  <2>5. ASSUME NEW t \in Tasks, RunAnswers(t) PROVE Goal
    <3>1. /\ doc[t].title \in Nat /\ Answered(t) \subseteq Text /\ pc[t] # "idle"
          /\ pc[t] = "running" /\ doc[t] # NoDoc
      BY <2>0, <2>5, InHand, AnsweredText DEF RunAnswers, TypeOK
    <3>2. PICK text \in Text : Decide(t, text, doc[t].title)
      BY <2>5, <3>1 DEF RunAnswers
    <3>3. /\ Current = doc[t].text /\ Current \in Text /\ Current' = text
          /\ doc[t].ver = top
      BY <1>3, <2>0, <3>1, <3>2, NewPresent
    <3>4. undo # <<>> /\ Last(undo) = Current
      BY <2>0, <3>1, <3>3 DEF HistoryInv, CheckpointInv, Calm, Newest
    <3>5. UNCHANGED <<undo, redo>>
      BY <2>5 DEF RunAnswers, stacks
    <3> QED BY <1>3, <2>0, <3>3, <3>4, <3>5, IsReply DEF History!Next
  <2>6. ASSUME NEW t \in Tasks, Rename(t) PROVE Goal
    <3>1. doc[t].text \in Text /\ pc[t] # "idle" /\ top + 1 \in Nat
      BY <2>0, <2>6, InHand DEF Rename, TypeOK
    <3>2. Current = doc[t].text /\ Current' = doc[t].text
      BY <1>3, <2>0, <2>6, <3>1, NewPresent DEF Rename
    <3>3. UNCHANGED <<undo, redo>>
      BY <2>6 DEF Rename, stacks
    <3> QED BY <1>3, <2>0, <3>2, <3>3, IsStutter
  <2>7. ASSUME NEW t \in Tasks, Undo(t) PROVE Goal
    <3>1. doc[t].title \in Nat /\ pc[t] # "idle" /\ Last(undo) \in Text
      BY <2>0, <2>7, InHand, PoppedFits DEF Undo, TypeOK
    <3>2. Current = doc[t].text /\ Current \in Text /\ Current' = Last(undo)
      BY <1>3, <2>0, <2>7, <3>1, NewPresent DEF Undo
    <3>3. undo # <<>> /\ undo' = Front(undo) /\ redo' = Pushed(redo, Current)
      BY <2>7, <3>2 DEF Undo
    <3> QED BY <1>3, <2>0, <3>2, <3>3, IsUndo DEF History!Next
  <2>8. ASSUME NEW t \in Tasks, Redo(t) PROVE Goal
    <3>1. doc[t].title \in Nat /\ pc[t] # "idle" /\ Last(redo) \in Text
      BY <2>0, <2>8, InHand, PoppedFits DEF Redo, TypeOK
    <3>2. Current = doc[t].text /\ Current \in Text /\ Current' = Last(redo)
      BY <1>3, <2>0, <2>8, <3>1, NewPresent DEF Redo
    <3>3. redo # <<>> /\ redo' = Front(redo) /\ undo' = Pushed(undo, Current)
      BY <2>8, <3>2 DEF Redo
    <3> QED BY <1>3, <2>0, <3>2, <3>3, IsRedo DEF History!Next
  <2>9. ASSUME NEW t \in Tasks, NEW k \in Kinds,
               Load(t, k) \/ InterimSave(t) \/ RunFails(t) \/ NothingToRestore(t) \/ Save(t)
        PROVE  Goal
    BY <2>2, <2>9 DEF Load, InterimSave, RunFails, NothingToRestore, Save, stacks, ghosts
  <2>10. ASSUME NEW t \in Tasks, SaveFails(t) PROVE Goal
    BY <2>0, <2>10 DEF SaveFails
  <2>11. ASSUME NEW w \in inflight, Land(w) \/ LandFails(w) PROVE Goal
    BY <2>0, <2>2, <2>11 DEF Land, LandFails, stacks, ghosts
  <2>12. ASSUME Delete PROVE Goal
    BY <2>0, <2>12 DEF Delete
  <2>13. ASSUME Crash PROVE Goal
    <3>1. undo' = <<>> /\ redo' = <<>> /\ top' = top
      BY <2>13 DEF Crash
    <3>2. Current' = Current
      BY <2>0, <2>1, <3>1, SameSteps
    <3>3. History!Restart
      BY <1>3, <2>0, <3>1, <3>2 DEF History!Restart
    <3> QED BY <3>3 DEF History!Next
  <2>14. ASSUME UNCHANGED vars PROVE Goal
    BY <2>2, <2>14 DEF vars, stacks, ghosts
  <2>15. Kinds # {}
    BY DEF Kinds
  <2> HIDE DEF Goal
  <2> QED BY <2>3, <2>4, <2>5, <2>6, <2>7, <2>8, <2>9, <2>10, <2>11, <2>12, <2>13,
             <2>14, <2>15 DEF Next
<1> QED BY <1>1, <1>2, <1>3

LEMMA RefinementInit == Init => History!Init
<1> SUFFICES ASSUME Init PROVE History!Init
  OBVIOUS
<1>1. file = [text |-> <<>>, title |-> 0, ver |-> 1] /\ file \in Doc /\ top = 1
  BY DEF Init, Doc, Text
<1>2. Held = {file} /\ Intact
  BY <1>1, MarksAreNoDocs DEF Init, Held, Readable, Intact
<1>3. Current = file.text /\ file.text \in Text
  BY <1>1, <1>2 DEF Current, Doc
<1> QED BY <1>2, <1>3 DEF Init, History!Init

\* As long as nothing was disturbed the two stacks and the transcript are a
\* linear history with a cursor: SessionStore implements UndoHistory, for any
\* number of tasks and any depth (session_undo.rs, manager.rs:652-686).
THEOREM UndoIsAHistory == Spec => RefinesUndoHistory
<1>1. HistoryInv /\ HistoryInv' /\ [Next]_vars => [History!Next]_(History!history)
  BY RefinementStep
<1> QED BY <1>1, RefinementInit, HistoryHolds, PTL DEF Spec, RefinesUndoHistory, History!Spec

-----------------------------------------------------------------------------
(* Undo and redo take nothing from each other *)

LEMMA EqualSequences ==
  ASSUME NEW s \in Seq(Text), NEW t \in Seq(Text), Len(s) = Len(t),
         \A i \in 1 .. Len(t) : s[i] = t[i]
  PROVE  s = t
OBVIOUS

LEMMA PushedWhole ==
  ASSUME NEW s \in Seq(Text), NEW text \in Text, Len(s) < MaxDepth
  PROVE  /\ Pushed(s, text) = Append(s, text) /\ Len(Pushed(s, text)) = Len(s) + 1
         /\ Pushed(s, text) # <<>>
         /\ Last(Pushed(s, text)) = text /\ Front(Pushed(s, text)) = s
<1> DEFINE longer == Append(s, text)
           N == Len(s)
<1>1. /\ longer \in Seq(Text) /\ Len(longer) = N + 1 /\ N \in Nat
      /\ longer[N + 1] = text /\ \A i \in 1 .. N : longer[i] = s[i]
  BY AppendProperties, LenProperties
<1>2. N + 1 <= MaxDepth
  BY <1>1, DepthAssumption
<1> HIDE DEF longer, N
<1>3. SubSeq(longer, 1, N + 1) = longer /\ SubSeq(longer, 1, N) = s
  <2>2. s \in Seq(Text) /\ Len(s) = N
    BY DEF N
  <2>3. /\ SubSeq(longer, 1, N + 1) \in Seq(Text) /\ Len(SubSeq(longer, 1, N + 1)) = N + 1
        /\ \A i \in 1 .. N + 1 : SubSeq(longer, 1, N + 1)[i] = longer[i]
    BY <1>1
  <2>4. /\ SubSeq(longer, 1, N) \in Seq(Text) /\ Len(SubSeq(longer, 1, N)) = N
        /\ \A i \in 1 .. N : SubSeq(longer, 1, N)[i] = longer[i]
    BY <1>1
  <2>5. SubSeq(longer, 1, N + 1) = longer
    BY <1>1, <2>3, EqualSequences
  <2>6. SubSeq(longer, 1, N) = s
    BY <1>1, <2>2, <2>4, EqualSequences
  <2> QED BY <2>5, <2>6
<1>4. Pushed(s, text) = longer
  <2>1. ~(N + 1 > MaxDepth)
    BY <1>1, <1>2, DepthAssumption
  <2> QED BY <1>1, <1>3, <2>1 DEF Pushed, longer
<1>5. longer # <<>> /\ Last(longer) = text
  BY <1>1 DEF Last
<1>6. Front(longer) = s
  <2>1. (N + 1) - 1 = N
    BY <1>1
  <2> QED BY <1>1, <1>3, <2>1 DEF Front
<1> QED BY <1>1, <1>4, <1>5, <1>6 DEF longer, N

LEMMA PoppedAndPushed ==
  ASSUME NEW s \in Seq(Text), s # <<>>, Len(s) <= MaxDepth
  PROVE  /\ Front(s) \in Seq(Text) /\ Last(s) \in Text /\ Len(Front(s)) = Len(s) - 1
         /\ Pushed(Front(s), Last(s)) = s
<1> DEFINE N == Len(s)
<1>1. N \in Nat \ {0} /\ N \in 1 .. N /\ (N - 1) + 1 = N /\ N - 1 \in Nat
  BY EmptySeq, LenProperties
<1>2. Last(s) \in Text /\ Front(s) \in Seq(Text)
  BY PoppedFits
<1>3. Len(Front(s)) = N - 1 /\ \A i \in 1 .. N - 1 : Front(s)[i] = s[i]
  BY <1>1 DEF Front
<1> DEFINE t == Append(Front(s), Last(s))
<1>4. /\ t \in Seq(Text) /\ Len(t) = (N - 1) + 1 /\ t[(N - 1) + 1] = Last(s)
      /\ \A i \in 1 .. N - 1 : t[i] = Front(s)[i]
  BY <1>2, <1>3, AppendProperties
<1> HIDE DEF t
<1>5. \A i \in 1 .. N : t[i] = s[i]
  <2>1. \A i \in 1 .. N : i \in 1 .. N - 1 \/ i = N
    <3> HIDE DEF N
    <3>1. ASSUME NEW i \in 1 .. N, i # N PROVE i \in 1 .. N - 1
      BY <1>1, <3>1
    <3> QED BY <3>1
  <2>2. t[N] = s[N]
    <3>1. Last(s) = s[N]
      BY DEF Last
    <3> HIDE DEF N
    <3> QED BY <1>1, <1>4, <3>1
  <2> QED BY <1>3, <1>4, <2>1, <2>2
<1>6. t = s
  BY <1>1, <1>4, <1>5
<1>7. Len(Front(s)) < MaxDepth
  BY <1>1, <1>3, DepthAssumption
<1>8. Pushed(Front(s), Last(s)) = t
  BY <1>2, <1>7, PushedWhole DEF t
<1> QED BY <1>2, <1>3, <1>6, <1>8

\* the two stacks together are never deeper than one of them may be
StacksShareDepth == Len(undo) + Len(redo) <= MaxDepth

LEMMA SharedInductive ==
  StacksShareDepth /\ TypeOK /\ [Next]_vars => StacksShareDepth'
<1> SUFFICES ASSUME StacksShareDepth, TypeOK, [Next]_vars PROVE StacksShareDepth'
  OBVIOUS
<1>1. /\ undo \in Seq(Text) /\ redo \in Seq(Text) /\ Len(undo) \in Nat /\ Len(redo) \in Nat
      /\ MaxDepth \in Nat \ {0} /\ Len(undo) <= MaxDepth /\ Len(redo) <= MaxDepth
  BY DepthAssumption, LenProperties DEF TypeOK
<1>2. ASSUME NEW t \in Tasks, pc[t] # "idle", Checkpoint(t) PROVE StacksShareDepth'
  <2>1. undo' \in Seq(Text) /\ Len(undo') <= MaxDepth /\ redo' = <<>>
    BY <1>1, <1>2, InHand, PushedFits DEF Checkpoint
  <2>2. Len(undo') \in Nat /\ Len(redo') = 0
    BY <2>1, LenProperties
  <2> QED BY <1>1, <2>1, <2>2 DEF StacksShareDepth
<1>3. ASSUME NEW t \in Tasks, Undo(t) PROVE StacksShareDepth'
  <2>1. /\ undo # <<>> /\ undo' = Front(undo) /\ redo' = Pushed(redo, doc[t].text)
        /\ doc[t].text \in Text
    BY <1>3, InHand DEF Undo
  <2>2. Len(undo') = Len(undo) - 1 /\ Len(undo) # 0
    BY <1>1, <2>1, PoppedAndPushed, EmptySeq
  <2>3. Len(redo) < MaxDepth
    BY <1>1, <2>2 DEF StacksShareDepth
  <2>4. Len(redo') = Len(redo) + 1
    BY <1>1, <2>1, <2>3, PushedWhole
  <2> QED BY <1>1, <2>2, <2>4 DEF StacksShareDepth
<1>4. ASSUME NEW t \in Tasks, Redo(t) PROVE StacksShareDepth'
  <2>1. /\ redo # <<>> /\ redo' = Front(redo) /\ undo' = Pushed(undo, doc[t].text)
        /\ doc[t].text \in Text
    BY <1>4, InHand DEF Redo
  <2>2. Len(redo') = Len(redo) - 1 /\ Len(redo) # 0
    BY <1>1, <2>1, PoppedAndPushed, EmptySeq
  <2>3. Len(undo) < MaxDepth
    BY <1>1, <2>2 DEF StacksShareDepth
  <2>4. Len(undo') = Len(undo) + 1
    BY <1>1, <2>1, <2>3, PushedWhole
  <2> QED BY <1>1, <2>2, <2>4 DEF StacksShareDepth
<1>5. CASE UNCHANGED stacks
  BY <1>5 DEF stacks, StacksShareDepth
<1>6. CASE undo' = <<>> /\ redo' = <<>>
  BY <1>1, <1>6 DEF StacksShareDepth
<1>7. CASE Delete \/ Crash
  BY <1>6, <1>7 DEF Delete, Crash
<1>8. ASSUME NEW t \in Tasks, Finalize(t) \/ RunStarts(t) PROVE StacksShareDepth'
  BY <1>2, <1>8 DEF Finalize, RunStarts
<1>9. ASSUME NEW t \in Tasks, NEW k \in Kinds,
             \/ Load(t, k) \/ InterimSave(t) \/ RunAnswers(t) \/ RunFails(t) \/ Rename(t)
             \/ NothingToRestore(t) \/ Save(t) \/ SaveFails(t)
      PROVE  UNCHANGED stacks
  BY <1>9 DEF Load, InterimSave, RunAnswers, RunFails, Rename, NothingToRestore, Save,
     SaveFails, stacks
<1>10. ASSUME NEW w \in inflight, Land(w) \/ LandFails(w) PROVE UNCHANGED stacks
  BY <1>10 DEF Land, LandFails, stacks
<1>11. Kinds # {}
  BY DEF Kinds
<1>12. CASE UNCHANGED vars
  BY <1>5, <1>12 DEF vars
<1> QED BY <1>3, <1>4, <1>5, <1>7, <1>8, <1>9, <1>10, <1>11, <1>12 DEF Next

\* What an undo leaves on the stacks, a redo turns back into what was there, and
\* the other way round
UndoAndRedoInvert ==
  \A t \in Tasks :
    /\ Undo(t) =>
         /\ redo' # <<>> /\ Last(redo') = doc[t].text /\ Front(redo') = redo
         /\ Pushed(undo', doc'[t].text) = undo
    /\ Redo(t) =>
         /\ undo' # <<>> /\ Last(undo') = doc[t].text /\ Front(undo') = undo
         /\ Pushed(redo', doc'[t].text) = redo

\* An undo loses no checkpoint: although both stacks are trimmed to MAX_DEPTH, the
\* two share that depth, so no push of undo_into or redo_into ever drops an entry,
\* and a redo of what an undo has left, or an undo of what a redo has left, gives
\* back both stacks and the transcript - also when other tasks or failures have
\* disturbed the session before.
THEOREM UndoRedoInverse == Spec => []StacksShareDepth /\ [][UndoAndRedoInvert]_vars
<1>1. Init => StacksShareDepth
  <2>1. Len(<<>>) = 0 /\ 0 + 0 <= MaxDepth
    BY DepthAssumption
  <2> QED BY <2>1 DEF Init, StacksShareDepth
<1>2. StacksShareDepth /\ TypeOK => UndoAndRedoInvert
  <2> SUFFICES ASSUME StacksShareDepth, TypeOK, NEW t \in Tasks
               PROVE  /\ Undo(t) => /\ redo' # <<>> /\ Last(redo') = doc[t].text
                                    /\ Front(redo') = redo
                                    /\ Pushed(undo', doc'[t].text) = undo
                      /\ Redo(t) => /\ undo' # <<>> /\ Last(undo') = doc[t].text
                                    /\ Front(undo') = undo
                                    /\ Pushed(redo', doc'[t].text) = redo
    BY DEF UndoAndRedoInvert
  <2>1. /\ undo \in Seq(Text) /\ redo \in Seq(Text) /\ Len(undo) \in Nat /\ Len(redo) \in Nat
        /\ MaxDepth \in Nat \ {0} /\ Len(undo) <= MaxDepth /\ Len(redo) <= MaxDepth
        /\ doc \in [Tasks -> Doc \cup {NoDoc}]
    BY DepthAssumption, LenProperties DEF TypeOK
  <2>2. ASSUME NEW text, NEW title, Decide(t, text, title) PROVE doc'[t].text = text
    BY <2>1, <2>2 DEF Decide
  <2>3. ASSUME Undo(t)
        PROVE  /\ redo' # <<>> /\ Last(redo') = doc[t].text /\ Front(redo') = redo
               /\ Pushed(undo', doc'[t].text) = undo
    <3>1. /\ undo # <<>> /\ undo' = Front(undo) /\ redo' = Pushed(redo, doc[t].text)
          /\ doc[t].text \in Text /\ doc'[t].text = Last(undo)
      BY <2>2, <2>3, InHand DEF Undo
    <3>2. Len(redo) < MaxDepth
      <4>1. Len(undo) # 0
        BY <2>1, <3>1, EmptySeq
      <4> QED BY <2>1, <4>1 DEF StacksShareDepth
    <3> QED BY <2>1, <3>1, <3>2, PushedWhole, PoppedAndPushed
  <2>4. ASSUME Redo(t)
        PROVE  /\ undo' # <<>> /\ Last(undo') = doc[t].text /\ Front(undo') = undo
               /\ Pushed(redo', doc'[t].text) = redo
    <3>1. /\ redo # <<>> /\ redo' = Front(redo) /\ undo' = Pushed(undo, doc[t].text)
          /\ doc[t].text \in Text /\ doc'[t].text = Last(redo)
      BY <2>2, <2>4, InHand DEF Redo
    <3>2. Len(undo) < MaxDepth
      <4>1. Len(redo) # 0
        BY <2>1, <3>1, EmptySeq
      <4> QED BY <2>1, <4>1 DEF StacksShareDepth
    <3> QED BY <2>1, <3>1, <3>2, PushedWhole, PoppedAndPushed
  <2> QED BY <2>3, <2>4
<1> QED BY <1>1, <1>2, SharedInductive, TypeCorrect, PTL DEF Spec
=============================================================================
