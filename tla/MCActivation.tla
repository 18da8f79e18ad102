---------------------------- MODULE MCActivation ----------------------------
(* The instance TLC checks: the loop and one command of the window.        *)
EXTENDS Activation

CONSTANTS t1, loop

\* What goes wrong in a run: handlers whose connection is gone, decisions and
\* grants that slipped, a lost token; and licenses cleared for good.
Events ==
  Cardinality({h \in handlers : h.by = None}) + Cardinality(slipped)
    + Cardinality(dropped) + (IF lost THEN 1 ELSE 0)

\* The loop asks for revocation, and sends every check once.
ByTheLoop ==
  /\ calls[t1] = None \/ calls[t1].op # "revoke_check"
  /\ calls[loop] = None \/ calls[loop].try = 1

\* A code is that of the request, or it is made by hand and there is no request.
OneSource ==
  requests = <<>> \/ codes = <<>> \/ \E r \in DOMAIN requests : requests[r].code # 0

\* One of the events at a time is followed further, and no more than two requests
\* are on their way together.
Few == Cardinality(handlers) <= 2 /\ Events <= 1 /\ ByTheLoop /\ OneSource
=============================================================================
