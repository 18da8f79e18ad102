----------------------------- MODULE Activation -----------------------------
(***************************************************************************)
(* The license of one installation: the client                             *)
(* (application/license_lifecycle_service.rs and application/activation)   *)
(* and the activation server (activation-server-rs), composed over a       *)
(* network that loses requests and answers.  A handler of the server reads *)
(* first and writes after further queries, and the client repeats a call   *)
(* whose connection failed while the first one may still be running.       *)
(***************************************************************************)
EXTENDS Integers, Sequences, FiniteSets

CONSTANTS
  Tasks,       \* calls of the client that may be open at the same time
  Loop,        \* the one of them that checks for revocation every minute
  MaxUses,     \* the largest max_uses of an invite code
  MaxAttempts, \* max_attempts of the retry policy
  MaxRequests, MaxCodes, MaxDeciders, MaxLicenses, MaxTokens,  \* bounds of the model
  None

Ops == {"redeem", "redeem_by_code", "refresh", "revoke_check"}
Statuses == {"pending", "approved", "rejected", "redeemed"}

\* A call names the request or the code it redeems, or the license and token it
\* refreshes; try tells its attempts apart.
Call == [op: Ops, of: Nat, lic: Nat, token: Nat, try: Nat]

ASSUME LoopAssumption == Loop \in Tasks
ASSUME BoundAssumption ==
  /\ MaxUses \in Nat /\ MaxAttempts \in Nat
  /\ MaxRequests \in Nat /\ MaxCodes \in Nat /\ MaxDeciders \in Nat
  /\ MaxLicenses \in Nat /\ MaxTokens \in Nat
ASSUME NoneAssumption == None \notin Tasks \cup Call \cup [lic: Nat, token: Nat]

VARIABLES
  requests,  \* activation_requests, each with its invite code (0 when it has
             \* none), the handlers that have read it pending and have not yet
             \* decided, and, as a history, how often it was approved
  codes,     \* invite_codes: uses and their limit
  licenses,  \* licenses with their refresh tokens that are not revoked
  minted,    \* number of the last refresh token
  handlers,  \* requests on their way to the server or being handled
  answers,   \* answers on their way to the client
  stored,    \* license.json
  calls,     \* the call each task waits for, None when it has none
  slipped,   \* history: decisions and grants for which two handlers ran at the
             \* same time, and grants whose use could not be written
  dropped,   \* history: licenses cleared while no call was open that saves one
  lost       \* history: an answer with a new token was lost

server == <<requests, codes, licenses, minted>>
network == <<handlers, answers>>
client == <<stored, calls>>
ghosts == <<slipped, dropped, lost>>
vars == <<server, network, client, ghosts>>

Init ==
  /\ requests = <<>> /\ codes = <<>> /\ licenses = <<>> /\ minted = 0
  /\ handlers = {} /\ answers = {}
  /\ stored = None /\ calls = [t \in Tasks |-> None]
  /\ slipped = {} /\ dropped = {} /\ lost = FALSE

-----------------------------------------------------------------------------
(* The administrator and the requests of the device *)

\* create_activation_request finds no pending request, or only one that has
\* expired or came meanwhile, and inserts one; the statement that inserts it
\* looks at the quota as well
CreateRequest ==
  /\ Len(requests) < MaxRequests
  /\ \E s \in {"pending", "approved"} :
       requests' = Append(requests, [status |-> s, code |-> 0, open |-> 0,
                                     approvals |-> IF s = "approved" THEN 1 ELSE 0])
  /\ UNCHANGED <<codes, licenses, minted, network, client, ghosts>>

\* admin_approve_request, or create_activation_request on behalf of the device,
\* reads that request r is pending; queries follow before it decides
ReadPending(r) ==
  /\ requests[r].status = "pending" /\ requests[r].open < MaxDeciders
  /\ requests' = [requests EXCEPT ![r].open = @ + 1]
  /\ slipped' = IF requests[r].open = 0 THEN slipped ELSE slipped \cup {<<"approve", r>>}
  /\ UNCHANGED <<codes, licenses, minted, network, client, dropped, lost>>

\* The quota is exhausted, or no transaction can be opened
LeavePending(r) ==
  /\ requests[r].open > 0
  /\ requests' = [requests EXCEPT ![r].open = @ - 1]
  /\ UNCHANGED <<codes, licenses, minted, network, client, ghosts>>

\* The row of request r once it is approved, whatever its status is by then
Approved(r, code) ==
  [requests[r] EXCEPT !.status = "approved", !.code = code, !.open = @ - 1, !.approvals = @ + 1]

\* The quota allows it: the request is approved and keeps its code, if any
QuotaApprove(r) ==
  /\ requests[r].open > 0
  /\ requests' = [requests EXCEPT ![r] = Approved(r, requests[r].code)]
  /\ UNCHANGED <<codes, licenses, minted, network, client, ghosts>>

\* The administrator's approval comes with a new invite code for one use
AdminApprove(r) ==
  /\ requests[r].open > 0 /\ Len(codes) < MaxCodes
  /\ codes' = Append(codes, [used |-> 0, max |-> 1])
  /\ requests' = [requests EXCEPT ![r] = Approved(r, Len(codes) + 1)]
  /\ UNCHANGED <<licenses, minted, network, client, ghosts>>

\* admin_create_invite: a code without a request
AdminInvite ==
  /\ Len(codes) < MaxCodes
  /\ \E m \in 1 .. MaxUses : codes' = Append(codes, [used |-> 0, max |-> m])
  /\ UNCHANGED <<requests, licenses, minted, network, client, ghosts>>

\* mutant: the rejection writes the status of a license
AdminRejectRevokes(r) ==
  /\ requests' = [requests EXCEPT ![r].status = "revoked"]
  /\ UNCHANGED <<codes, licenses, minted, network, client, ghosts>>

\* admin_reject_request looks at no status
AdminReject(r) ==
  /\ requests' = [requests EXCEPT ![r].status = "rejected"]
  /\ UNCHANGED <<codes, licenses, minted, network, client, ghosts>>

AdminRevoke ==
  /\ \E l \in DOMAIN licenses : licenses' = [licenses EXCEPT ![l].status = "revoked"]
  /\ UNCHANGED <<requests, codes, minted, network, client, ghosts>>

Decide(r) ==
  \/ ReadPending(r) \/ LeavePending(r) \/ QuotaApprove(r) \/ AdminApprove(r)
  \/ AdminReject(r)

-----------------------------------------------------------------------------
(* The handlers of the server *)

\* The answer of handler h, if the client still waits for it
Answer(h, ok, lic, token) ==
  IF h.by = None THEN {} ELSE {[to |-> h.by, ok |-> ok, lic |-> lic, token |-> token]}

Refuse(h) ==
  /\ handlers' = handlers \ {h}
  /\ answers' = answers \cup Answer(h, FALSE, 0, 0)

\* What a grant is made for: a request or an invite code
Grant(c) == <<c.op, c.of>>

\* mutant: a redeemed request is taken for an approved one
AdmitsAgain(c) ==
  CASE c.op = "redeem" -> requests[c.of].status \in {"approved", "redeemed"}
    [] c.op = "redeem_by_code" -> codes[c.of].used < codes[c.of].max
    [] c.op = "refresh" ->
         licenses[c.lic].status # "revoked" /\ c.token \in licenses[c.lic].live

\* What the handlers look at before they open the transaction
Admits(c) ==
  CASE c.op = "redeem" -> requests[c.of].status = "approved"
    [] c.op = "redeem_by_code" -> codes[c.of].used < codes[c.of].max
    [] c.op = "refresh" ->
         licenses[c.lic].status # "revoked" /\ c.token \in licenses[c.lic].live

\* The code a redemption counts a use of: that of the request it has read
CodeOf(c) ==
  CASE c.op = "redeem" -> requests[c.of].code
    [] c.op = "redeem_by_code" -> c.of
    [] OTHER -> 0

\* redeem, redeem_by_code and refresh_license up to the transaction; they also
\* refuse when a query fails or no transaction can be opened
Read(h) ==
  /\ h.phase = "sent" /\ h.call.op # "revoke_check"
  /\ \/ /\ Admits(h.call)
        /\ handlers' = (handlers \ {h}) \cup {[h EXCEPT !.phase = "read", !.code = CodeOf(h.call)]}
        /\ slipped' = slipped \cup {Grant(h.call) : g \in
             {g \in handlers : g.phase = "read" /\ Grant(g.call) = Grant(h.call)}}
        /\ UNCHANGED answers
     \/ Refuse(h) /\ UNCHANGED slipped
  /\ UNCHANGED <<server, client, dropped, lost>>

\* The transaction of redeem and redeem_by_code: a new license with its first
\* token.  A use of the code is counted while some are left, and the request is
\* marked; each may fail, and the license is granted all the same.
CommitRedeem(h) ==
  LET r == h.call.of
      k == h.code
      lic == Len(licenses) + 1
  IN /\ h.phase = "read" /\ h.call.op \in {"redeem", "redeem_by_code"}
     /\ Len(licenses) < MaxLicenses /\ minted < MaxTokens
     /\ \E counted, marked \in BOOLEAN :
          /\ codes' = IF counted /\ k # 0 /\ codes[k].used < codes[k].max
                      THEN [codes EXCEPT ![k].used = @ + 1] ELSE codes
          /\ requests' = IF marked /\ h.call.op = "redeem"
                         THEN [requests EXCEPT ![r].status = "redeemed"] ELSE requests
          /\ slipped' = IF (IF h.call.op = "redeem" THEN marked ELSE counted)
                        THEN slipped ELSE slipped \cup {Grant(h.call)}
     /\ licenses' = Append(licenses,
          [status |-> "active", live |-> {minted + 1}, for |-> Grant(h.call)])
     /\ minted' = minted + 1
     /\ handlers' = handlers \ {h}
     /\ answers' = answers \cup Answer(h, TRUE, lic, minted + 1)
     /\ UNCHANGED <<client, dropped, lost>>

\* The transaction of refresh_license: the token is replaced
CommitRefresh(h) ==
  LET l == h.call.lic
  IN /\ h.phase = "read" /\ h.call.op = "refresh" /\ minted < MaxTokens
     /\ licenses' = [licenses EXCEPT ![l].live = (@ \ {h.call.token}) \cup {minted + 1}]
     /\ minted' = minted + 1
     /\ handlers' = handlers \ {h}
     /\ answers' = answers \cup Answer(h, TRUE, l, minted + 1)
     /\ UNCHANGED <<requests, codes, client, ghosts>>

\* A transaction fails: redeem says so, a refresh answers with the token it
\* could not store
CommitFails(h) ==
  /\ h.phase = "read" /\ minted < MaxTokens
  /\ IF h.call.op = "refresh"
     THEN /\ handlers' = handlers \ {h}
          /\ answers' = answers \cup Answer(h, TRUE, h.call.lic, minted + 1)
          /\ minted' = minted + 1
          /\ lost' = TRUE
     ELSE Refuse(h) /\ UNCHANGED <<minted, lost>>
  /\ UNCHANGED <<requests, codes, licenses, client, slipped, dropped>>

\* ok says that the license is revoked
RevokeCheck(h) ==
  /\ h.phase = "sent" /\ h.call.op = "revoke_check"
  /\ handlers' = handlers \ {h}
  /\ answers' = answers \cup
       Answer(h, licenses[h.call.lic].status = "revoked", 0, 0)
  /\ UNCHANGED <<server, client, ghosts>>

\* A query that fails is answered like a license that is not revoked
RevokeCheckFails(h) ==
  /\ h.phase = "sent" /\ h.call.op = "revoke_check"
  /\ Refuse(h)
  /\ UNCHANGED <<server, client, ghosts>>

\* The request is lost, or refused by the write permits or the rate limit
Vanish(h) ==
  /\ h.phase = "sent"
  /\ handlers' = handlers \ {h}
  /\ UNCHANGED <<server, answers, client, ghosts>>

-----------------------------------------------------------------------------
(* The client *)

Send(t, c) ==
  /\ calls' = [calls EXCEPT ![t] = c]
  /\ handlers' = handlers \cup {[by |-> t, call |-> c, phase |-> "sent", code |-> 0]}

Redeem(t, op) ==
  /\ calls[t] = None /\ t # Loop
  /\ \E n \in IF op = "redeem" THEN DOMAIN requests ELSE DOMAIN codes :
       Send(t, [op |-> op, of |-> n, lic |-> 0, token |-> 0, try |-> 1])
  /\ UNCHANGED <<server, answers, stored, ghosts>>

\* mutant: the call starts from the license kept in memory, cleared or not
AskFromMemory(t, op) ==
  /\ calls[t] = None /\ (t = Loop => op = "revoke_check")
  /\ \E l \in DOMAIN licenses : \E k \in licenses[l].live :
       /\ IF stored = None THEN l \in dropped ELSE l = stored.lic
       /\ Send(t, [op |-> op, of |-> 0, lic |-> l, token |-> k, try |-> 1])
  /\ UNCHANGED <<server, answers, stored, ghosts>>

\* refresh and revoke_check start from the license that is stored
Ask(t, op) ==
  /\ calls[t] = None /\ (t = Loop => op = "revoke_check")
  /\ stored # None
  /\ Send(t, [op |-> op, of |-> 0, lic |-> stored.lic, try |-> 1,
              token |-> IF op = "refresh" THEN stored.token ELSE 0])
  /\ UNCHANGED <<server, answers, stored, ghosts>>

Mine(t) == {h \in handlers : h.by = t}
AnswersTo(t) == {a \in answers : a.to = t}

\* The handlers go on when nobody waits for their answer any more; a check for
\* revocation then does nothing that anybody sees
Abandoned(T) ==
  {IF h.by \in T THEN [h EXCEPT !.by = None] ELSE h :
     h \in {h \in handlers : h.by \notin T \/ h.call.op # "revoke_check"}}

\* The attempt of a refresh took effect, or still may
LosesToken(t) ==
  /\ calls[t] # None /\ calls[t].op = "refresh"
  /\ Mine(t) # {} \/ \E a \in AnswersTo(t) : a.ok

\* The connection fails or the server is busy: send_json sends the same call
\* again
SendAgain(t) ==
  LET again == [calls[t] EXCEPT !.try = @ + 1]
  IN /\ calls[t].try < MaxAttempts
     /\ calls' = [calls EXCEPT ![t] = again]
     /\ handlers' = Abandoned({t})
          \cup {[by |-> t, call |-> again, phase |-> "sent", code |-> 0]}

\* or gives up, with an answer that breaks off at once
GiveUp(t) ==
  /\ calls' = [calls EXCEPT ![t] = None]
  /\ handlers' = Abandoned({t})

Retry(t) ==
  /\ calls[t] # None
  /\ SendAgain(t) \/ GiveUp(t)
  /\ answers' = answers \ AnswersTo(t)
  /\ lost' = IF LosesToken(t) THEN TRUE ELSE lost
  /\ UNCHANGED <<server, stored, slipped, dropped>>

Done(t, a) ==
  /\ calls' = [calls EXCEPT ![t] = None]
  /\ answers' = answers \ {a}
  /\ UNCHANGED <<server, handlers, slipped>>

Saving(t) == calls[t] # None /\ calls[t].op # "revoke_check"

\* store.clear, whatever license is stored by now
Clear ==
  /\ stored' = None
  /\ dropped' = IF stored = None \/ \E t \in Tasks : Saving(t)
                THEN dropped ELSE dropped \cup {stored.lic}

ReceiveFailure(t) ==
  /\ calls[t] # None
  /\ \E a \in AnswersTo(t) : ~a.ok /\ Done(t, a)
  /\ UNCHANGED <<stored, dropped, lost>>

\* mutant: the answer of a refresh updates the document, not its token
ReceiveLicenseOldToken(t) ==
  /\ Saving(t)
  /\ \E a \in AnswersTo(t) :
       /\ a.ok /\ Done(t, a)
       /\ stored' = [lic |-> a.lic,
            token |-> IF calls[t].op = "refresh" THEN calls[t].token ELSE a.token]
  /\ UNCHANGED <<dropped, lost>>

\* persist_redeem_response and the save of refresh
ReceiveLicense(t) ==
  /\ Saving(t)
  /\ \E a \in AnswersTo(t) :
       a.ok /\ Done(t, a) /\ stored' = [lic |-> a.lic, token |-> a.token]
  /\ UNCHANGED <<dropped, lost>>

\* The license arrives and cannot be saved
SaveFails(t) ==
  /\ Saving(t)
  /\ \E a \in AnswersTo(t) : a.ok /\ Done(t, a)
  /\ lost' = IF calls[t].op = "refresh" THEN TRUE ELSE lost
  /\ UNCHANGED <<stored, dropped>>

\* mutant: the snapshot says revoked, and the file is left for the next boot
ReceiveRevokedKeeps(t) ==
  /\ calls[t] # None /\ calls[t].op = "revoke_check"
  /\ \E a \in AnswersTo(t) : a.ok /\ Done(t, a)
  /\ UNCHANGED <<stored, dropped, lost>>

ReceiveRevoked(t) ==
  /\ calls[t] # None /\ calls[t].op = "revoke_check"
  /\ \E a \in AnswersTo(t) : a.ok /\ Done(t, a)
  /\ Clear
  /\ UNCHANGED lost

\* The file of a revoked license cannot be removed: the check ends in an error
ClearFails(t) ==
  /\ calls[t] # None /\ calls[t].op = "revoke_check"
  /\ \E a \in AnswersTo(t) : a.ok /\ Done(t, a)
  /\ UNCHANGED <<stored, dropped, lost>>

\* A file that cannot be removed is left where it is, with a warning
Deactivate ==
  /\ stored # None
  /\ Clear \/ UNCHANGED <<stored, dropped>>
  /\ UNCHANGED <<server, network, calls, slipped, lost>>

\* The application ends with its calls; the server goes on
Quit ==
  /\ calls' = [t \in Tasks |-> None]
  /\ answers' = {} /\ handlers' = Abandoned(Tasks)
  /\ lost' = IF \E t \in Tasks : LosesToken(t) THEN TRUE ELSE lost
  /\ UNCHANGED <<server, stored, slipped, dropped>>

Handle(h) ==
  Read(h) \/ CommitRedeem(h) \/ CommitRefresh(h) \/ CommitFails(h)
    \/ RevokeCheck(h) \/ RevokeCheckFails(h)

Receive(t) ==
  ReceiveFailure(t) \/ ReceiveLicense(t) \/ SaveFails(t) \/ ReceiveRevoked(t)
    \/ ClearFails(t)

Next ==
  \/ CreateRequest \/ AdminInvite \/ AdminRevoke
  \/ \E r \in DOMAIN requests : Decide(r)
  \/ \E h \in handlers : Handle(h) \/ Vanish(h)
  \/ \E t \in Tasks :
       \/ \E op \in {"redeem", "redeem_by_code"} : Redeem(t, op)
       \/ \E op \in {"refresh", "revoke_check"} : Ask(t, op)
       \/ Retry(t) \/ Receive(t)
  \/ Deactivate \/ Quit

\* The loop goes on asking, and of the checks it sends again and again some
\* reach the server, find its database well, come back and find the file removable.
Fairness ==
  /\ WF_vars(Ask(Loop, "revoke_check"))
  /\ WF_vars(Retry(Loop) \/ Receive(Loop))
  /\ SF_vars(\E h \in Mine(Loop) : RevokeCheck(h))
  /\ SF_vars(ReceiveRevoked(Loop))

Spec == Init /\ [][Next]_vars /\ Fairness

-----------------------------------------------------------------------------
TypeOK ==
  /\ requests \in Seq([status: Statuses, code: Nat, open: Nat, approvals: Nat])
  /\ codes \in Seq([used: Nat, max: Nat])
  /\ licenses \in Seq([status: {"active", "revoked"}, live: SUBSET Nat, for: Ops \X Nat])
  /\ minted \in Nat
  /\ handlers \subseteq [by: Tasks \cup {None}, call: Call, phase: {"sent", "read"}, code: Nat]
  /\ answers \subseteq [to: Tasks, ok: BOOLEAN, lic: Nat, token: Nat]
  /\ stored \in [lic: Nat, token: Nat] \cup {None}
  /\ calls \in [Tasks -> Call \cup {None}]
  /\ slipped \subseteq (Ops \cup {"approve"}) \X Nat /\ dropped \subseteq Nat /\ lost \in BOOLEAN

Granted(g) == Cardinality({l \in DOMAIN licenses : licenses[l].for = g})

\* A request is redeemed once for each time it was approved, and an invite code
\* as often as its limit says, through repeated calls and lost answers, unless
\* two handlers redeemed the same one together or its use could not be written.
\* A request is approved once, whatever it became before the approval was
\* written, unless two handlers held it pending together; and a code is never
\* counted above its limit, whatever runs together.
GrantsAccounted ==
  /\ \A k \in DOMAIN codes :
       /\ codes[k].used <= codes[k].max
       /\ <<"redeem_by_code", k>> \notin slipped => Granted(<<"redeem_by_code", k>>) <= codes[k].max
  /\ \A r \in DOMAIN requests :
       /\ <<"redeem", r>> \notin slipped => Granted(<<"redeem", r>>) <= requests[r].approvals
       /\ <<"approve", r>> \notin slipped => requests[r].approvals <= 1

\* The token the client keeps is one the server knows as the current one of its
\* license, and takes unless that is revoked, if no answer with a new token was
\* lost.
TokenUsable ==
  ~lost /\ stored # None /\ (\A t \in Tasks : ~Saving(t))
    => stored.token \in licenses[stored.lic].live

\* A license the client has cleared, after a revocation or a deactivation, is
\* not stored again, unless a call that saves a license was open at that moment.
DroppedStaysOut == stored # None => stored.lic \notin dropped

\* A client that goes on asking does not keep revoked licenses: the file ends up
\* without one, also when a refresh saves one back after it was cleared, when
\* answers are lost, and when the file could not be removed at first.
RevocationArrives ==
  LET Revoked == stored # None /\ licenses[stored.lic].status = "revoked"
  IN Revoked ~> ~Revoked
=============================================================================
