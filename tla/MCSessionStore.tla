--------------------------- MODULE MCSessionStore ---------------------------
(* SessionStore for TLC: two tasks at a time on one session, stacks of two. *)
EXTENDS SessionStore

CONSTANTS t1, t2

\* Once a save was disturbed nothing more is promised: TLC looks at such a
\* state and goes no further.
Undisturbed == upsets \subseteq {"stale"}
=============================================================================
