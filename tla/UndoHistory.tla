---------------------------- MODULE UndoHistory -----------------------------
(***************************************************************************)
(* What undo and redo promise to the user of one conversation: a linear    *)
(* history with a cursor, Depth steps deep on either side, that a turn     *)
(* extends and truncates.  Nothing stands for a conversation that was      *)
(* deleted, or whose history is no longer promised to anyone.              *)
(***************************************************************************)
EXTENDS Integers, Sequences

CONSTANTS Texts, Depth, Nothing

VARIABLES past, present, future

history == <<past, present, future>>

Latest(s) == s[Len(s)]
Earlier(s) == SubSeq(s, 1, Len(s) - 1)
Newest(s) == SubSeq(s, IF Len(s) > Depth THEN Len(s) - Depth + 1 ELSE 1, Len(s))

Init == past = <<>> /\ present \in Texts /\ future = <<>>

Open == present # Nothing

Turn ==
  /\ Open
  /\ past' = Newest(Append(past, present))
  /\ present' \in Texts
  /\ future' = <<>>

\* a turn whose checkpoint is the present may still be answered
Reply ==
  /\ Open
  /\ past # <<>> /\ Latest(past) = present
  /\ present' \in Texts
  /\ UNCHANGED <<past, future>>

Undo ==
  /\ Open /\ past # <<>>
  /\ past' = Earlier(past)
  /\ present' = Latest(past)
  /\ future' = Newest(Append(future, present))

Redo ==
  /\ Open /\ future # <<>>
  /\ future' = Earlier(future)
  /\ present' = Latest(future)
  /\ past' = Newest(Append(past, present))

Restart == past' = <<>> /\ future' = <<>> /\ UNCHANGED present

Close == past' = <<>> /\ present' = Nothing /\ future' = <<>>

Next == Turn \/ Reply \/ Undo \/ Redo \/ Restart \/ Close

Spec == Init /\ [][Next]_history
=============================================================================
