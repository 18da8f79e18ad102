---------------------------- MODULE SessionStore ----------------------------
(***************************************************************************)
(* One session file and the tasks that write it (session/manager.rs,       *)
(* session_undo.rs and the turns that use them).  Every writer reads the   *)
(* whole session, changes its copy and writes the whole file, without a    *)
(* lock.  A save truncates the file, hands the bytes to a background       *)
(* writer and returns before they are on disk.  The undo and redo stacks   *)
(* live in memory only.                                                    *)
(***************************************************************************)
EXTENDS Integers, Sequences, FiniteSets

CONSTANTS
  Tasks,        \* commands and turns that may be active at the same time
  MaxDepth,     \* MAX_DEPTH of the undo and redo stacks
  MaxVersions,  \* bound of the model: no new task once so many changes were made
  Absent,       \* there is no session file
  Empty,        \* the file was truncated and nothing was written yet
  Garbage,      \* the bytes of two writes, or a part of one: not a session
  NoDoc

ASSUME DepthAssumption == MaxDepth \in Nat \ {0} /\ MaxVersions \in Nat
VARIABLES
  file,      \* the session file: Absent, Empty, Garbage or a session
  inflight,  \* writes handed over and not yet on disk
  undo,      \* Stacks.undo
  redo,      \* Stacks.redo
  pc, kind,  \* where each task stands, and what it does
  doc,       \* the session each task has in hand
  top,       \* history: number of changes made so far
  named,     \* history: the title of the last rename that was acknowledged
  upsets     \* history: what has happened that voids a promise

stacks == <<undo, redo>>
tasks == <<pc, kind, doc>>
ghosts == <<top, named, upsets>>
vars == <<file, inflight, stacks, tasks, ghosts>>

\* A turn contributes its number, compaction leaves Summary in place of what it
\* removed, the interim save of a running turn ends in Partial.
Summary == 0
Partial == -1
Text == Seq(Int)

\* ver is the number of the change a session is the result of, 0 for the
\* interim save of a turn that is still running.
Doc == [text: Text, title: Nat, ver: Nat]

ASSUME FileAssumption ==
  /\ Absent \notin {Empty, Garbage} /\ Empty # Garbage
  /\ {Absent, Empty, Garbage, NoDoc} \cap (Doc \cup Text) = {}

Kinds == {"stream", "run", "rename", "undo", "redo"}
Upsets == {"stale", "overlap", "io", "crash"}

Readable == file \notin {Absent, Empty, Garbage}
Last(s) == s[Len(s)]
Front(s) == SubSeq(s, 1, Len(s) - 1)

\* mutant: the oldest entry is not trimmed
PushedOntoFull(s, text) == Append(s, text)

\* push and trim to MAX_DEPTH from the oldest end
Pushed(s, text) ==
  LET longer == Append(s, text)
  IN SubSeq(longer, IF Len(longer) > MaxDepth THEN Len(longer) - MaxDepth + 1 ELSE 1,
            Len(longer))

\* t works on a session that another task has changed since t read it
Stale(t) == IF doc[t].ver # top THEN {"stale"} ELSE {}

Init ==
  /\ file = [text |-> <<>>, title |-> 0, ver |-> 1]
  /\ inflight = {} /\ undo = <<>> /\ redo = <<>>
  /\ pc = [t \in Tasks |-> "idle"] /\ kind = [t \in Tasks |-> "none"]
  /\ doc = [t \in Tasks |-> NoDoc]
  /\ top = 1 /\ named = 0 /\ upsets = {}

\* The task ends and drops its copy
Ends(t) ==
  /\ pc' = [pc EXCEPT ![t] = "idle"]
  /\ kind' = [kind EXCEPT ![t] = "none"]
  /\ doc' = [doc EXCEPT ![t] = NoDoc]

\* mutant: a session that is not found is started afresh
LoadOrNew(t, k) ==
  /\ pc[t] = "idle" /\ top < MaxVersions
  /\ file \notin {Empty, Garbage}
  /\ pc' = [pc EXCEPT ![t] = "loaded"]
  /\ kind' = [kind EXCEPT ![t] = k]
  /\ doc' = [doc EXCEPT ![t] =
       IF file = Absent THEN [text |-> <<>>, title |-> 0, ver |-> top] ELSE file]
  /\ UNCHANGED <<file, inflight, stacks, ghosts>>

\* restore_session at the start of a command or of a turn: an unreadable file
\* is an error and nothing else happens
Load(t, k) ==
  /\ pc[t] = "idle" /\ top < MaxVersions
  /\ Readable
  /\ pc' = [pc EXCEPT ![t] = "loaded"]
  /\ kind' = [kind EXCEPT ![t] = k]
  /\ doc' = [doc EXCEPT ![t] = file]
  /\ UNCHANGED <<file, inflight, stacks, ghosts>>

\* mutant: the file is opened for writing without being truncated
WriteInPlace(t, d) ==
  /\ inflight' = inflight \cup {[by |-> t, doc |-> d]}
  /\ upsets' = upsets \cup Stale(t) \cup (IF inflight = {} THEN {} ELSE {"overlap"})
  /\ UNCHANGED file

\* save_session: File::create truncates, write_all only queues the bytes
Write(t, d) ==
  /\ file' = Empty
  /\ inflight' = inflight \cup {[by |-> t, doc |-> d]}
  /\ upsets' = upsets \cup Stale(t) \cup (IF inflight = {} THEN {} ELSE {"overlap"})

\* Every SAVE_INTERVAL tokens a streaming turn saves the session it started
\* from with the reply so far, but without the user's message.
InterimSave(t) ==
  LET d == [doc[t] EXCEPT !.text = Append(@, Partial), !.ver = 0]
  IN /\ pc[t] = "loaded" /\ kind[t] = "stream"
     /\ [by |-> t, doc |-> d] \notin inflight
     /\ Write(t, d)
     /\ UNCHANGED <<stacks, tasks, top, named>>

\* The change of task t is decided: from here on its copy is what will be saved
Decide(t, text, title) ==
  /\ doc' = [doc EXCEPT ![t] = [text |-> text, title |-> title, ver |-> top + 1]]
  /\ pc' = [pc EXCEPT ![t] = "saving"]
  /\ top' = top + 1
  /\ upsets' = upsets \cup Stale(t)
  /\ UNCHANGED <<file, inflight, kind, named>>

\* mutant: a new turn keeps the redo stack
CheckpointKeepsRedo(t) == undo' = Pushed(undo, doc[t].text) /\ UNCHANGED redo

\* push_checkpoint
Checkpoint(t) == undo' = Pushed(undo, doc[t].text) /\ redo' = <<>>

\* the transcript with the turn appended, compacted when it has grown too long
Answered(t) ==
  {Append(doc[t].text, top + 1)}
    \cup (IF doc[t].text = <<>> THEN {} ELSE {<<Summary, top + 1>>})

\* The finalize of a streaming turn: the checkpoint is the session the turn
\* started from, and so is the title it will save.
Finalize(t) ==
  /\ pc[t] = "loaded" /\ kind[t] = "stream"
  /\ Checkpoint(t)
  /\ \E text \in Answered(t) : Decide(t, text, doc[t].title)

\* The non-streaming turn pushes its checkpoint before it runs
RunStarts(t) ==
  /\ pc[t] = "loaded" /\ kind[t] = "run"
  /\ Checkpoint(t)
  /\ pc' = [pc EXCEPT ![t] = "running"]
  /\ upsets' = upsets \cup Stale(t)
  /\ UNCHANGED <<file, inflight, kind, doc, top, named>>

RunAnswers(t) ==
  /\ pc[t] = "running"
  /\ \E text \in Answered(t) : Decide(t, text, doc[t].title)
  /\ UNCHANGED stacks

RunFails(t) ==
  /\ pc[t] = "running"
  /\ Ends(t)
  /\ UNCHANGED <<file, inflight, stacks, ghosts>>

\* rename_session; the setters of pinned, memory, identity and skills are alike
Rename(t) ==
  /\ pc[t] = "loaded" /\ kind[t] = "rename"
  /\ Decide(t, doc[t].text, top + 1)
  /\ UNCHANGED stacks

\* mutant: the session is rebuilt from the snapshot, with the default title
UndoRebuilds(t) ==
  /\ pc[t] = "loaded" /\ kind[t] = "undo" /\ undo # <<>>
  /\ undo' = Front(undo)
  /\ redo' = Pushed(redo, doc[t].text)
  /\ Decide(t, Last(undo), 0)

\* undo_into and redo_into: only the transcript comes from the stack
Undo(t) ==
  /\ pc[t] = "loaded" /\ kind[t] = "undo" /\ undo # <<>>
  /\ undo' = Front(undo)
  /\ redo' = Pushed(redo, doc[t].text)
  /\ Decide(t, Last(undo), doc[t].title)

Redo(t) ==
  /\ pc[t] = "loaded" /\ kind[t] = "redo" /\ redo # <<>>
  /\ redo' = Front(redo)
  /\ undo' = Pushed(undo, doc[t].text)
  /\ Decide(t, Last(redo), doc[t].title)

NothingToRestore(t) ==
  /\ pc[t] = "loaded"
  /\ (kind[t] = "undo" /\ undo = <<>>) \/ (kind[t] = "redo" /\ redo = <<>>)
  /\ Ends(t)
  /\ UNCHANGED <<file, inflight, stacks, ghosts>>

\* the save of the decided change; it reports success here
Save(t) ==
  /\ pc[t] = "saving"
  /\ Write(t, doc[t])
  /\ Ends(t)
  /\ named' = IF kind[t] = "rename" THEN doc[t].title ELSE named
  /\ UNCHANGED <<stacks, top>>

\* File::create fails: the stacks keep what was pushed or popped
SaveFails(t) ==
  /\ pc[t] = "saving"
  /\ Ends(t)
  /\ upsets' = upsets \cup {"io"}
  /\ UNCHANGED <<file, inflight, stacks, top, named>>

\* mutant: the bytes are dropped with the handle of the file
LandNothing(w) ==
  /\ inflight' = inflight \ {w}
  /\ UNCHANGED <<file, stacks, tasks, ghosts>>

\* The background writer: over bytes that are already there, a shorter session
\* leaves the tail of the longer one.
Land(w) ==
  /\ file' \in IF file = Empty THEN {w.doc} ELSE {w.doc, Garbage}
  /\ inflight' = inflight \ {w}
  /\ UNCHANGED <<stacks, tasks, ghosts>>

\* Nobody hears of an error of the background writer
LandFails(w) ==
  /\ file' \in {file, Garbage}
  /\ inflight' = inflight \ {w}
  /\ upsets' = upsets \cup {"io"}
  /\ UNCHANGED <<stacks, tasks, top, named>>

\* delete_session; bytes still in flight go to the removed file
Delete ==
  /\ file # Absent /\ top < MaxVersions
  /\ file' = Absent /\ inflight' = {}
  /\ undo' = <<>> /\ redo' = <<>>
  /\ top' = top + 1
  /\ UNCHANGED <<tasks, named, upsets>>

\* The process dies: tasks, stacks and queued bytes are gone
Crash ==
  /\ inflight' = {} /\ undo' = <<>> /\ redo' = <<>>
  /\ pc' = [t \in Tasks |-> "idle"] /\ kind' = [t \in Tasks |-> "none"]
  /\ doc' = [t \in Tasks |-> NoDoc]
  /\ upsets' = upsets \cup
       (IF inflight # {} \/ (Readable /\ file.ver # top)
           \/ (\E t \in Tasks : pc[t] = "saving")
        THEN {"crash"} ELSE {})
  /\ UNCHANGED <<file, top, named>>

Next ==
  \/ \E t \in Tasks :
       \/ \E k \in Kinds : Load(t, k)
       \/ InterimSave(t) \/ Finalize(t)
       \/ RunStarts(t) \/ RunAnswers(t) \/ RunFails(t)
       \/ Rename(t) \/ Undo(t) \/ Redo(t) \/ NothingToRestore(t)
       \/ Save(t) \/ SaveFails(t)
  \/ \E w \in inflight : Land(w) \/ LandFails(w)
  \/ Delete \/ Crash

\* A task that has decided goes on to save, and the background writer writes
Fairness ==
  /\ \A t \in Tasks : WF_vars(Save(t) \/ SaveFails(t))
  /\ WF_vars(\E w \in inflight : Land(w) \/ LandFails(w))

Spec == Init /\ [][Next]_vars /\ Fairness

-----------------------------------------------------------------------------
TypeOK ==
  /\ file \in Doc \cup {Absent, Empty, Garbage}
  /\ inflight \subseteq [by: Tasks, doc: Doc]
  /\ undo \in Seq(Text) /\ redo \in Seq(Text)
  /\ Len(undo) <= MaxDepth /\ Len(redo) <= MaxDepth
  /\ pc \in [Tasks -> {"idle", "loaded", "running", "saving"}]
  /\ kind \in [Tasks -> Kinds \cup {"none"}]
  /\ doc \in [Tasks -> Doc \cup {NoDoc}]
  /\ \A t \in Tasks : (doc[t] = NoDoc) <=> (pc[t] = "idle")
  /\ top \in Nat /\ named \in Nat /\ upsets \subseteq Upsets

\* The session file cannot be read only while a save is in flight, or after a
\* save met another one, an error of the disk or the death of the process.
\* Writers that merely work on old copies never make it unreadable.
UnreadableExplained ==
  file \in {Empty, Garbage} =>
    inflight # {} \/ upsets \cap {"overlap", "io", "crash"} # {}

\* A rename that was acknowledged is what the file shows once it is readable,
\* whatever turns, undos and redos come after it, unless one of them worked on
\* an older copy or a save was disturbed.
AcknowledgedTitleKept ==
  upsets = {} /\ Readable => file.title = named

\* A deleted session comes back only through a task that was already working
\* on it, which then counts as stale.
DeletedStaysGone ==
  [][file = Absent /\ file' # Absent => "stale" \in upsets']_vars

\* A session that nothing has disturbed is readable again and again: no legal
\* sequence of turns, commands and clean restarts leaves it unreadable.
EventuallyReadable ==
  [](upsets = {} /\ file # Absent => <>(Readable \/ upsets # {} \/ file = Absent))

\* The undo stack, the transcript and the redo stack are a linear history with
\* a cursor as long as nothing was disturbed: what a turn replaced is what undo
\* brings back, through compactions, failed turns and restarts.
Intact == upsets = {} /\ file # Absent
Held ==
  {doc[t] : t \in {u \in Tasks : doc[u] # NoDoc}} \cup {w.doc : w \in inflight}
    \cup (IF Readable THEN {file} ELSE {})
Current == (CHOOSE d \in Held : d.ver = top).text

History == INSTANCE UndoHistory WITH
  Texts <- Text, Depth <- MaxDepth, Nothing <- Absent,
  past <- IF Intact THEN undo ELSE <<>>,
  present <- IF Intact THEN Current ELSE Absent,
  future <- IF Intact THEN redo ELSE <<>>

RefinesUndoHistory == History!Spec
=============================================================================
